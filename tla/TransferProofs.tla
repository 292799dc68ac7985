--------------------------- MODULE TransferProofs ---------------------------
(***************************************************************************)
(* What is proved about module Transfer, for every set of transfers, every *)
(* size and every number of losses and duplicates: that nothing is given   *)
(* to a caller truncated, that every transfer that is over has answered,   *)
(* that both ends agree on what is granted, and that no round of grants    *)
(* commits more than the budget.                                           *)
(***************************************************************************)
EXTENDS Transfer, SrptGrantsProofs

-----------------------------------------------------------------------------
(* The invariant. *)

\* One transfer: what has arrived, what its stream has queued, what its caller got.
ArrivedOK(t) ==
    /\ t \in TransferState
    /\ t.got \subseteq 0..(t.size - 1) /\ (t.sized \/ t.size = 0)

StreamOK(t) ==
    /\ t.taken <= t.emitted /\ 0..(t.emitted - 1) \subseteq t.got
    /\ t.reading => t.taken = t.emitted
    /\ t.body = "closed" => t.got = 0..(t.size - 1) /\ t.emitted = t.size

AnswerOK(t) ==
    /\ t.settled = "resolved" => /\ t.sized /\ t.headers
                                 /\ Streaming \/ t.got = 0..(t.size - 1)
    /\ t.stage = "over" => /\ t.settled # "no"
                           /\ Streaming /\ t.settled = "resolved" => t.body # "open"

LiveOK(t) ==
    /\ t.body = "open" /\ t.settled # "rejected" /\ (t.settled = "resolved" => Streaming)
    /\ t.recoveries <= MaxRecoveries
    /\ t.paused <=> t.emitted - t.taken >= HighWaterMark

TransferOK(t) ==
    /\ ArrivedOK(t) /\ StreamOK(t) /\ AnswerOK(t)
    /\ t.stage = "idle" => t = NotStarted
    /\ t.stage = "live" => LiveOK(t)

\* The scheduler has an entry for each live transfer of known size and for no other.
Scheduling(ts) == {r \in Rpc : ts[r].stage = "live" /\ ts[r].sized}

Follows(e, t) ==
    /\ e.size = t.size /\ e.granted >= Smaller(InitialGrant, t.size)
    /\ t.got \subseteq 0..(e.granted - 1)

BooksOK ==
    /\ TableOK(table) /\ Ordered(table) /\ arrivals \in Nat
    /\ DOMAIN table = Scheduling(transfers)
    /\ \A r \in DOMAIN table : table[r].seq < arrivals /\ Follows(table[r], transfers[r])

\* What the client has allowed the server to send of a transfer that is not over.
Ceiling(r) == IF r \in DOMAIN table THEN Larger(InitialGrant, table[r].granted)
              ELSE InitialGrant

NotOver(r) == transfers[r].stage # "over"

AllowsOK(m) == m.kind \in {"REQ", "GRANT"} /\ NotOver(m.rpc) => m.end <= Ceiling(m.rpc)

CarriesOK(m) == m.kind = "DATA" /\ m.start < m.end =>
                   /\ m.end <= m.size
                   /\ NotOver(m.rpc) => m.end <= Ceiling(m.rpc)

ServesOK(r) == /\ server[r].granted <= server[r].size
               /\ NotOver(r) => server[r].granted <= Ceiling(r)

WireOK ==
    /\ toServer \subseteq Request /\ toClient \subseteq Reply
    /\ server \in [Rpc -> [known : BOOLEAN, size : Nat, granted : Nat]]
    /\ \A m \in toServer : AllowsOK(m)
    /\ \A m \in toClient : CarriesOK(m)
    /\ \A r \in Rpc : ServesOK(r)

TransfersOK == transfers \in [Rpc -> TransferState] /\ \A r \in Rpc : TransferOK(transfers[r])

TransferInv ==
    /\ open \in BOOLEAN /\ losses \in 0..MaxLosses /\ duplicates \in 0..MaxDuplicates
    /\ TransfersOK /\ BooksOK /\ WireOK

-----------------------------------------------------------------------------
(* Finite sets of offsets. *)

\* A set of natural numbers that is not empty has a least element.
LEMMA Least == ASSUME NEW S, S \subseteq Nat, S # {} PROVE \E k \in S : \A j \in S : k <= j
<1>1. IsWellFoundedOn(OpToRel(<, Nat), Nat)
  BY NatLessThanWellFounded
<1>2. PICK k \in S : \A j \in S : ~(<<j, k>> \in OpToRel(<, Nat))
  BY <1>1, WFMin
<1>3. \A j \in S : ~(j < k)
  BY <1>2 DEF OpToRel
<1> QED
  BY <1>3

\* The frontier of a transfer is an offset past all that has arrived.
LEMMA FrontierIs ==
    ASSUME NEW t, NEW n \in Nat, t.got \subseteq 0..(n - 1)
    PROVE  /\ Frontier(t) \in 0..n
           /\ \A u \in t.got : u < Frontier(t)
<1> DEFINE Above == {k \in 0..n : \A u \in t.got : u < k}
<1>1. CASE t.got = {}
  BY <1>1 DEF Frontier
<1>2. CASE t.got # {}
  <2>1. PICK k \in Above : \A j \in Above : k <= j
    <3>1. Above \subseteq Nat /\ n \in Above
      OBVIOUS
    <3> HIDE DEF Above
    <3> QED
      BY <3>1, Least
  <2>2. PICK w \in t.got : TRUE
    BY <1>2
  <2>3. w \in 0..(n - 1) /\ w < k
    BY <2>1, <2>2
  <2>4. k - 1 \notin Above
    BY <2>1
  <2>5. k - 1 \in 0..n
    BY <2>1, <2>3
  <2>6. PICK v \in t.got : ~(v < k - 1)
    BY <2>4, <2>5
  <2>7. \A u \in t.got : u <= v
    BY <2>1, <2>6
  <2> DEFINE c == CHOOSE u \in t.got : \A x \in t.got : x <= u
  <2>8. c \in t.got /\ \A u \in t.got : u <= c
    BY <2>6, <2>7
  <2>9. Frontier(t) = 1 + c
    BY <1>2 DEF Frontier
  <2> HIDE DEF c
  <2> QED
    BY <2>8, <2>9
<1> QED
  BY <1>1, <1>2

\* The gap-free prefix of a transfer reaches its first missing byte, or its end.
LEMMA ContiguousIs ==
    ASSUME NEW t, t.size \in Nat, t.got \subseteq 0..(t.size - 1)
    PROVE  /\ Contiguous(t) \in 0..t.size
           /\ 0..(Contiguous(t) - 1) \subseteq t.got
           /\ t.got = 0..(t.size - 1) => Contiguous(t) = t.size
<1> DEFINE Absent == {k \in 0..t.size : k \notin t.got}
           c == CHOOSE k \in 0..t.size : 0..(k - 1) \subseteq t.got /\ k \notin t.got
<1>1. PICK k \in Absent : \A j \in Absent : k <= j
  <2>1. Absent \subseteq Nat /\ t.size \in Absent
    OBVIOUS
  <2> HIDE DEF Absent
  <2> QED
    BY <2>1, Least
<1>2. 0..(k - 1) \subseteq t.got /\ k \notin t.got /\ k \in 0..t.size
  <2>1. ASSUME NEW j \in 0..(k - 1) PROVE j \in t.got
    <3>1. j \in 0..t.size /\ j < k
      BY <1>1
    <3> QED
      BY <1>1, <3>1
  <2> QED
    BY <1>1, <2>1
<1>3. c \in 0..t.size /\ 0..(c - 1) \subseteq t.got /\ c \notin t.got
  BY <1>2
<1>4. Contiguous(t) = c
  BY DEF Contiguous
<1> HIDE DEF c
<1>5. t.got = 0..(t.size - 1) => c = t.size
  BY <1>3
<1> QED
  BY <1>3, <1>4, <1>5

-----------------------------------------------------------------------------
(* What the operators on one transfer do. *)

IsLive(t) == TransferOK(t) /\ t.stage = "live"

\* The transfer keeps all but what its stream and its caller see.
SameArrival(t, f) ==
    /\ f.sized = t.sized /\ f.size = t.size /\ f.got = t.got /\ f.headers = t.headers

LEMMA LiveIs ==
    ASSUME NEW t, IsLive(t)
    PROVE  /\ t \in TransferState /\ t.stage = "live"
           /\ ArrivedOK(t) /\ StreamOK(t) /\ AnswerOK(t) /\ LiveOK(t)
  BY DEF IsLive, TransferOK, ArrivedOK

LEMMA IsLiveIf ==
    ASSUME NEW t, t.stage = "live", ArrivedOK(t), StreamOK(t), AnswerOK(t), LiveOK(t)
    PROVE  IsLive(t)
  BY DEF IsLive, TransferOK

\* handle: the first DATA of a transfer tells its size.
LEMMA SizedOK ==
    ASSUME NEW t, IsLive(t), NEW n \in Nat, t.sized => t.size = n
    PROVE  LET f == [t EXCEPT !.sized = TRUE, !.size = n]
           IN  IsLive(f) /\ f.size = n /\ f.sized /\ f.got = t.got
<1> DEFINE f == [t EXCEPT !.sized = TRUE, !.size = n]
<1>1. t \in TransferState /\ ArrivedOK(t) /\ StreamOK(t) /\ AnswerOK(t) /\ LiveOK(t)
  BY LiveIs
<1>2. /\ f.sized = TRUE /\ f.size = n /\ f.got = t.got /\ f.stage = "live"
      /\ f.headers = t.headers /\ f.settled = t.settled /\ f.emitted = t.emitted
      /\ f.taken = t.taken /\ f.reading = t.reading /\ f.body = t.body
      /\ f.paused = t.paused /\ f.recoveries = t.recoveries
      /\ f \in TransferState
  BY <1>1, LiveIs DEF TransferState
<1>3. t.got \subseteq 0..(n - 1)
  BY <1>1 DEF ArrivedOK
<1> HIDE DEF f
<1>4. ArrivedOK(f) /\ StreamOK(f) /\ LiveOK(f)
  BY <1>1, <1>2, <1>3 DEF ArrivedOK, StreamOK, LiveOK
<1>5. AnswerOK(f)
  BY <1>1, <1>2 DEF AnswerOK, LiveOK
<1> QED
  BY <1>2, <1>4, <1>5, IsLiveIf DEF f

\* Reassembly.add: a DATA of the transfer's size adds to what has arrived.
LEMMA ReassembledOK ==
    ASSUME NEW t, IsLive(t), t.sized, NEW m, Units(m) \subseteq 0..(t.size - 1)
    PROVE  LET f == Reassembled(t, m)
           IN  /\ IsLive(f) /\ f.size = t.size /\ f.sized
               /\ f.got \subseteq t.got \cup Units(m)
<1> DEFINE f == Reassembled(t, m)
           e == [t EXCEPT !.got = t.got \cup Units(m), !.recoveries = 0, !.tailProbed = FALSE]
<1>1. t \in TransferState /\ ArrivedOK(t) /\ StreamOK(t) /\ AnswerOK(t) /\ LiveOK(t)
  BY LiveIs
<1>2. CASE f = t
  BY <1>2
<1>3. CASE f = e
  <2>1. Units(m) \subseteq Nat /\ MaxRecoveries \in Nat
    BY <1>1, TransferAssumption DEF TransferAssumption, TransferState
  <2>2. e.got = t.got \cup Units(m)
    BY <1>1 DEF TransferState
  <2>3. /\ e.sized = t.sized /\ e.size = t.size /\ e.stage = "live"
        /\ e.headers = t.headers /\ e.settled = t.settled /\ e.emitted = t.emitted
        /\ e.taken = t.taken /\ e.reading = t.reading /\ e.body = t.body
        /\ e.paused = t.paused /\ e.recoveries = 0
    BY <1>1, LiveIs DEF TransferState
  <2>4. e \in TransferState
    <3>1. t.got \cup Units(m) \in SUBSET Nat /\ 0 \in 0..MaxRecoveries + 1
      BY <1>1, <2>1 DEF TransferState
    <3> QED
      BY <1>1, <3>1 DEF TransferState
  <2> HIDE DEF e
  <2>5. ArrivedOK(e) /\ StreamOK(e) /\ LiveOK(e)
    BY <1>1, <2>1, <2>2, <2>3, <2>4 DEF ArrivedOK, StreamOK, LiveOK
  <2>6. AnswerOK(e)
    BY <1>1, <2>3 DEF AnswerOK, LiveOK
  <2> HIDE DEF f
  <2> QED
    BY <1>3, <2>2, <2>3, <2>5, <2>6, IsLiveIf DEF f
<1> QED
  BY <1>2, <1>3 DEF Reassembled

\* maybeStart: the caller of a stream gets it once size and headers are known.
LEMMA MaybeStartOK ==
    ASSUME NEW t, IsLive(t)
    PROVE  IsLive(MaybeStart(t)) /\ SameArrival(t, MaybeStart(t))
<1> DEFINE e == [t EXCEPT !.settled = "resolved"]
<1>1. t \in TransferState /\ ArrivedOK(t) /\ StreamOK(t) /\ AnswerOK(t) /\ LiveOK(t)
  BY LiveIs
<1>2. CASE Streaming /\ t.sized /\ t.headers
  <2>1. /\ e.sized = t.sized /\ e.size = t.size /\ e.stage = "live" /\ e.got = t.got
        /\ e.headers = t.headers /\ e.settled = "resolved" /\ e.emitted = t.emitted
        /\ e.taken = t.taken /\ e.reading = t.reading /\ e.body = t.body
        /\ e.paused = t.paused /\ e.recoveries = t.recoveries
        /\ e \in TransferState
    BY <1>1, LiveIs DEF TransferState
  <2> HIDE DEF e
  <2>2. ArrivedOK(e) /\ StreamOK(e) /\ LiveOK(e)
    BY <1>1, <1>2, <2>1 DEF ArrivedOK, StreamOK, LiveOK
  <2>3. AnswerOK(e)
    BY <1>2, <2>1 DEF AnswerOK
  <2>4. IsLive(e) /\ SameArrival(t, e)
    BY <2>1, <2>2, <2>3, IsLiveIf DEF SameArrival
  <2> QED
    BY <2>4 DEF e, MaybeStart, SameArrival
<1> QED
  BY <1>2 DEF MaybeStart, SameArrival

\* flushStream: what the stream queues is the gap-free prefix, all of it when the body
\* is whole, and the transfer is paused exactly if that leaves the reader behind.
LEMMA FlushOK ==
    ASSUME NEW t, IsLive(t)
    PROVE  /\ IsLive(Flush(t)) /\ SameArrival(t, Flush(t))
           /\ Streaming /\ Complete(t) => Flush(t).emitted = t.size
<1> DEFINE to == IF Flushable(t) THEN Contiguous(t) ELSE t.emitted
           f  == [t EXCEPT !.emitted = to,
                           !.taken   = IF t.reading THEN to ELSE @,
                           !.reading = @ /\ ~Flushable(t)]
           g  == [f EXCEPT !.paused = @ \/ Behind(t, f)]
<1>1. t \in TransferState /\ ArrivedOK(t) /\ StreamOK(t) /\ AnswerOK(t) /\ LiveOK(t)
  BY LiveIs
<1>2. CASE ~Streaming \/ ~t.sized
  <2>1. Flush(t) = t
    BY <1>2 DEF Flush
  <2> QED
    BY <1>2, <2>1 DEF SameArrival, Complete
<1>3. CASE Streaming /\ t.sized
  <2>1. Flush(t) = g
    BY <1>1, <1>3 DEF Flush, LiveOK
  <2>2. /\ t.size \in Nat /\ t.emitted \in Nat /\ t.taken \in Nat /\ t.reading \in BOOLEAN
        /\ t.paused \in BOOLEAN /\ HighWaterMark \in Nat \ {0}
    BY <1>1, TransferAssumption DEF TransferState, TransferAssumption
  <2>3. /\ Contiguous(t) \in 0..t.size /\ 0..(Contiguous(t) - 1) \subseteq t.got
        /\ t.got = 0..(t.size - 1) => Contiguous(t) = t.size
    BY <1>1, <2>2, ContiguousIs DEF ArrivedOK
  <2>4. Flushable(t) \in BOOLEAN /\ (Flushable(t) => Contiguous(t) > t.emitted)
    BY <2>2, <2>3 DEF Flushable
  <2>5. /\ to \in Nat /\ t.emitted <= to /\ 0..(to - 1) \subseteq t.got
        /\ ~Flushable(t) => to = t.emitted
    BY <1>1, <2>2, <2>3, <2>4 DEF StreamOK
  <2>6. Complete(t) => to = t.size
    <3> SUFFICES ASSUME Complete(t), ~Flushable(t) PROVE t.emitted = t.size
      BY <2>3 DEF Complete
    <3>1. Contiguous(t) = t.size /\ ~(t.size - t.emitted > 0)
      BY <2>3 DEF Complete, Flushable
    <3>2. t.emitted <= t.size
      <4>1. 0..(t.emitted - 1) \subseteq 0..(t.size - 1)
        BY <1>1 DEF StreamOK, Complete
      <4>2. t.emitted > t.size => t.emitted - 1 \in 0..(t.emitted - 1)
        BY <2>2
      <4> QED
        BY <2>2, <4>1, <4>2
    <3> QED
      BY <2>2, <3>1, <3>2
  <2> HIDE DEF to
  <2>7. /\ g.emitted = to /\ g.taken = (IF t.reading THEN to ELSE t.taken)
        /\ g.reading = (t.reading /\ ~Flushable(t))
        /\ g.paused = (t.paused \/ g.emitted - g.taken >= HighWaterMark)
        /\ g.sized = t.sized /\ g.size = t.size /\ g.stage = "live" /\ g.got = t.got
        /\ g.headers = t.headers /\ g.settled = t.settled
        /\ g.body = t.body /\ g.recoveries = t.recoveries
    BY <1>1, LiveIs DEF TransferState, Behind
  <2>8. g \in TransferState
    <3>1. f \in TransferState
      BY <1>1, <2>2, <2>4, <2>5 DEF TransferState
    <3>2. Behind(t, f) \in BOOLEAN
      BY DEF Behind
    <3> HIDE DEF f
    <3> QED
      BY <3>1, <3>2 DEF TransferState
  <2> HIDE DEF f, g
  <2>9. ArrivedOK(g)
    BY <1>1, <2>7, <2>8 DEF ArrivedOK
  <2>10. StreamOK(g)
    BY <1>1, <2>2, <2>5, <2>7 DEF StreamOK, LiveOK
  <2>11. AnswerOK(g)
    BY <1>1, <2>7 DEF AnswerOK
  <2>12. LiveOK(g)
    <3>1. t.reading => ~t.paused /\ t.taken = t.emitted
      BY <1>1, <2>2 DEF StreamOK, LiveOK
    <3>2. g.paused <=> g.emitted - g.taken >= HighWaterMark
      <4>1. CASE t.reading
        BY <2>2, <2>5, <2>7, <3>1, <4>1
      <4>2. CASE ~t.reading
        <5>1. t.paused => t.emitted - t.taken >= HighWaterMark
          BY <1>1 DEF LiveOK
        <5>2. g.emitted = to /\ g.taken = t.taken
          BY <2>7, <4>2
        <5>3. t.paused => to - t.taken >= HighWaterMark
          BY <2>2, <2>5, <5>1
        <5>4. g.paused <=> t.paused \/ to - t.taken >= HighWaterMark
          BY <2>7, <5>2
        <5> QED
          BY <5>2, <5>3, <5>4
      <4> QED
        BY <4>1, <4>2
    <3> QED
      BY <1>1, <2>7, <3>2 DEF LiveOK
  <2> QED
    BY <2>1, <2>6, <2>7, <2>9, <2>10, <2>11, <2>12, IsLiveIf DEF SameArrival
<1> QED
  BY <1>2, <1>3

\* finish: a transfer ends cleanly only if it has come whole, and its caller is answered.
LEMMA FinishedOK ==
    ASSUME NEW t, IsLive(t), NEW ok \in BOOLEAN, ok => Complete(t) /\ t.headers
    PROVE  TransferOK(Finished(t, ok)) /\ Finished(t, ok).stage = "over"
<1> DEFINE f == IF ok THEN Flush(t) ELSE t
           g == Finished(t, ok)
<1>1. /\ IsLive(f) /\ f.sized = t.sized /\ f.size = t.size /\ f.got = t.got
      /\ f.headers = t.headers /\ (ok /\ Streaming => f.emitted = f.size)
  BY FlushOK DEF SameArrival
<1>2. g = [f EXCEPT !.stage   = "over",
                    !.body    = IF Streaming /\ @ = "open"
                                THEN IF ok THEN "closed" ELSE "errored" ELSE @,
                    !.settled = IF @ # "no" THEN @
                                ELSE IF ok THEN "resolved" ELSE "rejected"]
  BY DEF Finished
<1> HIDE DEF f
<1>3. f \in TransferState /\ ArrivedOK(f) /\ StreamOK(f) /\ AnswerOK(f) /\ LiveOK(f)
  BY <1>1, LiveIs
<1>4. f.body = "open" /\ (f.settled = "no" \/ (f.settled = "resolved" /\ Streaming))
  <2>1. f.settled \in {"no", "resolved", "rejected"}
    BY <1>3 DEF TransferState
  <2>2. f.body = "open" /\ f.settled # "rejected"
    BY <1>3 DEF LiveOK
  <2>3. f.settled = "resolved" => Streaming
    BY <1>3 DEF LiveOK
  <2>4. f.settled = "no" \/ f.settled = "resolved"
    BY <2>1, <2>2
  <2> QED
    BY <2>2, <2>3, <2>4, Zenon
<1>5. /\ g.stage = "over"
      /\ g.body = (IF Streaming THEN IF ok THEN "closed" ELSE "errored" ELSE "open")
      /\ g.settled = (IF f.settled # "no" THEN f.settled
                      ELSE IF ok THEN "resolved" ELSE "rejected")
      /\ g.sized = f.sized /\ g.size = f.size /\ g.got = f.got /\ g.headers = f.headers
      /\ g.emitted = f.emitted /\ g.taken = f.taken /\ g.reading = f.reading
      /\ g \in TransferState
  BY <1>2, <1>3, <1>4 DEF TransferState
<1> HIDE DEF g
<1>6. ok => f.got = 0..(f.size - 1) /\ f.sized /\ f.headers
  BY <1>1 DEF Complete
<1>7. ArrivedOK(g)
  BY <1>3, <1>5 DEF ArrivedOK
<1>8. StreamOK(g)
  BY <1>1, <1>3, <1>5, <1>6 DEF StreamOK
<1>9. AnswerOK(g)
  BY <1>3, <1>4, <1>5, <1>6 DEF AnswerOK
<1> QED
  BY <1>5, <1>7, <1>8, <1>9 DEF TransferOK, g

-----------------------------------------------------------------------------
(* The scheduler's table. *)

\* Transfer r may become t: it keeps its size, and has got nothing ungranted.
MayBecome(r, t) ==
    /\ TransferOK(t) /\ t.stage \in {"live", "over"}
    /\ t.stage = "live" =>
         /\ r \in DOMAIN table => t.sized /\ t.size = table[r].size
         /\ t.sized => t.got \subseteq 0..((IF r \in DOMAIN table THEN table[r].granted
                                            ELSE Smaller(InitialGrant, t.size)) - 1)

\* The entry of transfer t, before and after it is brought up to date.
OldEntry(r, t) == IF r \in DOMAIN table THEN table[r]
                  ELSE NewEntry(t.size, InitialGrant, 0, arrivals, 0)
UpToDate(e, t) == [e EXCEPT !.received = Cardinality(t.got), !.paused = t.paused]

LEMMA GotFinite ==
    ASSUME NEW t, ArrivedOK(t)
    PROVE  IsFiniteSet(t.got) /\ Cardinality(t.got) \in Nat /\ t.size \in Nat
<1>1. t.size \in Nat
  BY DEF ArrivedOK, TransferState
<1>2. IsFiniteSet(0..(t.size - 1))
  BY <1>1, FS_Interval
<1>3. IsFiniteSet(t.got)
  BY <1>2, FS_Subset DEF ArrivedOK
<1> QED
  BY <1>1, <1>3, FS_CardinalityType

\* add and onData: the entry of a live transfer of known size follows it.
LEMMA EntryOK ==
    ASSUME BooksOK, NEW r \in Rpc, NEW t, MayBecome(r, t), t.stage = "live", t.sized
    PROVE  LET e == UpToDate(OldEntry(r, t), t)
           IN  /\ e \in Entry /\ e.granted <= e.size /\ Follows(e, t)
               /\ e.seq = (IF r \in DOMAIN table THEN table[r].seq ELSE arrivals)
               /\ e.granted = (IF r \in DOMAIN table THEN table[r].granted
                               ELSE Smaller(InitialGrant, t.size))
<1> DEFINE o == OldEntry(r, t)
           e == UpToDate(o, t)
<1>1. ArrivedOK(t) /\ t.paused \in BOOLEAN
  BY DEF MayBecome, TransferOK, ArrivedOK, TransferState
<1>2. Cardinality(t.got) \in Nat /\ t.size \in Nat /\ InitialGrant \in Nat /\ arrivals \in Nat
  BY <1>1, GotFinite, TransferAssumption DEF TransferAssumption, BooksOK
<1>3. /\ o \in Entry /\ o.granted <= o.size /\ o.size = t.size
      /\ o.granted >= Smaller(InitialGrant, t.size)
      /\ o.seq = (IF r \in DOMAIN table THEN table[r].seq ELSE arrivals)
      /\ o.granted = (IF r \in DOMAIN table THEN table[r].granted
                      ELSE Smaller(InitialGrant, t.size))
  <2>1. CASE r \in DOMAIN table
    <3>1. o = table[r]
      BY <2>1 DEF OldEntry
    <3>2. table[r] \in Entry /\ table[r].granted <= table[r].size
      BY <2>1 DEF BooksOK, TableOK
    <3>3. /\ table[r].size = transfers[r].size
          /\ table[r].granted >= Smaller(InitialGrant, transfers[r].size)
          /\ t.size = table[r].size
      BY <2>1 DEF BooksOK, Follows, MayBecome
    <3> QED
      BY <2>1, <3>1, <3>2, <3>3
  <2>2. CASE r \notin DOMAIN table
    <3>1. o = NewEntry(t.size, InitialGrant, 0, arrivals, 0)
      BY <2>2 DEF OldEntry
    <3>2. /\ o.size = t.size /\ o.granted = Smaller(InitialGrant, t.size)
          /\ o.seq = arrivals /\ o \in Entry
      BY <1>2, <3>1 DEF NewEntry, Entry, Smaller
    <3> QED
      BY <1>2, <2>2, <3>2 DEF Smaller
  <2> QED
    BY <2>1, <2>2
<1> HIDE DEF o
<1>4. /\ e \in Entry /\ e.size = o.size /\ e.granted = o.granted /\ e.seq = o.seq
  BY <1>1, <1>2, <1>3 DEF UpToDate, Entry
<1>5. t.got \subseteq 0..(o.granted - 1)
  BY <1>3 DEF MayBecome
<1> HIDE DEF e
<1>6. e.granted <= e.size /\ Follows(e, t)
  BY <1>3, <1>4, <1>5 DEF Follows
<1> QED
  BY <1>3, <1>4, <1>6 DEF e, o

\* scheduler.add, onData, setPaused and remove, as transfer r becomes t.
LEMMA ScheduledOK ==
    ASSUME TransfersOK, BooksOK, NEW r \in Live, NEW t, MayBecome(r, t),
           NEW ts, ts[r] = t, \A q \in Rpc \ {r} : ts[q] = transfers[q],
           NEW b, b = Scheduled(r, t),
           NEW n, n = arrivals + Cardinality(DOMAIN b \ DOMAIN table)
    PROVE  /\ TableOK(b) /\ Ordered(b) /\ n \in Nat
           /\ DOMAIN b = Scheduling(ts)
           /\ \A q \in DOMAIN b : /\ b[q].seq < n /\ Follows(b[q], ts[q])
                                  /\ b[q].granted = (IF q \in DOMAIN table THEN table[q].granted
                                                     ELSE Smaller(InitialGrant, b[q].size))
           /\ DOMAIN table \subseteq DOMAIN b \cup {r}
<1> DEFINE D == DOMAIN table
<1>1. /\ r \in Rpc /\ D = Scheduling(transfers) /\ TableOK(table) /\ Ordered(table)
      /\ arrivals \in Nat /\ IsFiniteSet(D) /\ table \in [D -> Entry] /\ D \subseteq Rpc
      /\ \A q \in D : /\ table[q].granted <= table[q].size /\ table[q].seq < arrivals
                      /\ Follows(table[q], transfers[q])
  BY DEF BooksOK, TableOK, Live, Scheduling
<1>2. Scheduling(ts) \ {r} = D \ {r}
  BY <1>1 DEF Scheduling
<1>3. CASE t.stage # "live" \/ ~t.sized
  <2>1. b = [q \in D \ {r} |-> table[q]]
    BY <1>3 DEF Scheduled, Restrict
  <2>2. DOMAIN b = D \ {r} /\ \A q \in D \ {r} : b[q] = table[q]
    BY <2>1
  <2>3. r \notin Scheduling(ts)
    BY <1>1, <1>3 DEF Scheduling
  <2>4. n = arrivals
    <3>1. DOMAIN b \ D = {}
      BY <2>2
    <3>2. Cardinality(DOMAIN b \ D) = 0
      BY <3>1, FS_EmptySet, Zenon
    <3> QED
      BY <1>1, <3>2
  <2>5. IsFiniteSet(D \ {r})
    BY <1>1, FS_Subset
  <2>6. TableOK(b)
    BY <1>1, <2>1, <2>2, <2>5 DEF TableOK
  <2>7. Ordered(b)
    BY <1>1, <2>2 DEF Ordered
  <2>8. DOMAIN b = Scheduling(ts)
    BY <1>2, <2>2, <2>3
  <2>9. \A q \in D \ {r} : ts[q] = transfers[q]
    BY <1>1
  <2> QED
    BY <1>1, <2>2, <2>4, <2>6, <2>7, <2>8, <2>9
<1>4. CASE t.stage = "live" /\ t.sized
  <2> DEFINE e == UpToDate(OldEntry(r, t), t)
  <2>1. b = [q \in D \cup {r} |-> IF q = r THEN e ELSE table[q]]
    BY <1>4 DEF Scheduled, OldEntry, UpToDate
  <2>2. /\ e \in Entry /\ e.granted <= e.size /\ Follows(e, t)
        /\ e.seq = (IF r \in D THEN table[r].seq ELSE arrivals)
        /\ e.granted = (IF r \in D THEN table[r].granted ELSE Smaller(InitialGrant, t.size))
    BY <1>1, <1>4, EntryOK
  <2> HIDE DEF e
  <2>3. DOMAIN b = D \cup {r} /\ b[r] = e /\ \A q \in D \ {r} : b[q] = table[q]
    BY <2>1
  <2>4. n = (IF r \in D THEN arrivals ELSE arrivals + 1)
    <3>1. CASE r \in D
      <4>1. DOMAIN b \ D = {}
        BY <2>3, <3>1
      <4>2. Cardinality({}) = 0
        BY FS_EmptySet
      <4> QED
        BY <1>1, <3>1, <4>1, <4>2
    <3>2. CASE r \notin D
      <4>1. DOMAIN b \ D = {r}
        BY <2>3, <3>2
      <4>2. Cardinality({r}) = 1
        BY FS_Singleton
      <4> QED
        BY <3>2, <4>1, <4>2
    <3> QED
      BY <3>1, <3>2
  <2>5. r \in Scheduling(ts)
    BY <1>1, <1>4 DEF Scheduling
  <2>6. DOMAIN b = Scheduling(ts)
    BY <1>2, <2>3, <2>5
  <2>7. IsFiniteSet(D \cup {r})
    BY <1>1, FS_AddElement
  <2>8. \A q \in D \cup {r} : b[q] \in Entry /\ b[q].granted <= b[q].size
    BY <1>1, <2>2, <2>3
  <2>9. TableOK(b)
    <3>1. b = [q \in D \cup {r} |-> b[q]]
      BY <2>1
    <3> QED
      BY <2>3, <2>7, <2>8, <3>1 DEF TableOK
  <2>10. \A q \in D : table[q].seq \in Nat /\ table[q].seq < arrivals
    BY <1>1 DEF Entry
  <2>11. Ordered(b)
    <3> SUFFICES ASSUME NEW p \in D \cup {r}, NEW q \in D \cup {r}, p # q
                 PROVE  b[p].seq # b[q].seq
      BY <2>3 DEF Ordered
    <3>1. \A x, y \in D : x # y => table[x].seq # table[y].seq
      BY <1>1 DEF Ordered
    <3>2. CASE r \in D
      <4>1. \A x \in D : b[x].seq = table[x].seq
        BY <2>2, <2>3, <3>2
      <4> QED
        BY <3>1, <3>2, <4>1
    <3>3. CASE r \notin D
      <4>1. b[r].seq = arrivals /\ \A x \in D : b[x].seq = table[x].seq
        BY <2>2, <2>3, <3>3
      <4>2. \A x \in D : table[x].seq # arrivals
        BY <1>1, <2>10
      <4> QED
        BY <3>1, <3>3, <4>1, <4>2
    <3> QED
      BY <3>2, <3>3
  <2>12. ASSUME NEW q \in D \cup {r}
         PROVE  /\ b[q].seq < n /\ Follows(b[q], ts[q])
                /\ b[q].granted = (IF q \in D THEN table[q].granted
                                   ELSE Smaller(InitialGrant, b[q].size))
    <3>1. CASE q = r
      <4>1. e.size = t.size
        BY <2>2 DEF Follows
      <4>2. e.seq < n
        BY <1>1, <2>2, <2>4, <2>10
      <4> QED
        BY <2>2, <2>3, <3>1, <4>1, <4>2
    <3>2. CASE q # r
      <4>1. q \in D /\ b[q] = table[q] /\ ts[q] = transfers[q]
        BY <1>1, <2>3, <3>2
      <4>2. table[q].seq < n
        BY <1>1, <2>4, <2>10, <4>1
      <4> QED
        BY <1>1, <4>1, <4>2
    <3> QED
      BY <3>1, <3>2
  <2>13. n \in Nat
    BY <1>1, <2>4
  <2> QED
    BY <2>3, <2>6, <2>9, <2>11, <2>12, <2>13
<1> QED
  BY <1>3, <1>4

-----------------------------------------------------------------------------
(* pumpGrants. *)

LEMMA ReservedNat == ASSUME NEW ts PROVE Reserved(ts) \in Nat
<1> DEFINE U == {q \in Rpc : ts[q].stage = "live" /\ ~ts[q].sized}
<1>1. IsFiniteSet(U)
  BY TransferAssumption, FS_Subset DEF TransferAssumption
<1>2. Cardinality(U) \in Nat /\ InitialGrant \in Nat
  BY <1>1, FS_CardinalityType, TransferAssumption DEF TransferAssumption
<1>3. Reserved(ts) = InitialGrant * Cardinality(U)
  BY DEF Reserved
<1> HIDE DEF U
<1> QED
  BY <1>2, <1>3

\* What a callback that ends in pumpGrants finds: b is the table that the round of
\* grants starts from, a the one it leaves.
Rounds(r, t, sends, b, a) ==
    /\ TableOK(b) /\ Ordered(b) /\ a = Granted(b, Budget, Reserved(transfers'))
    /\ transfers' = [transfers EXCEPT ![r] = t]
    /\ table' = a /\ arrivals' \in Nat
    /\ toServer' = toServer \cup sends \cup
          {Grant(q, a[q].granted) : q \in {p \in DOMAIN a : a[p].granted > b[p].granted}}
    /\ DOMAIN b = Scheduling(transfers')
    /\ DOMAIN table \subseteq DOMAIN b \cup {r}
    /\ \A q \in DOMAIN b : /\ b[q].seq < arrivals' /\ Follows(b[q], transfers'[q])
                           /\ b[q].granted = (IF q \in DOMAIN table THEN table[q].granted
                                              ELSE Smaller(InitialGrant, b[q].size))

LEMMA PumpedIs ==
    ASSUME TransfersOK, BooksOK, NEW r \in Live, NEW t, MayBecome(r, t),
           NEW sends, Pumped(r, t, sends)
    PROVE  \E b, a : Rounds(r, t, sends, b, a)
<1> DEFINE b == Scheduled(r, t)
           a == Granted(b, Budget, Reserved(transfers'))
<1>1. /\ transfers' = [transfers EXCEPT ![r] = t]
      /\ table' = a
      /\ arrivals' = arrivals + Cardinality(DOMAIN b \ DOMAIN table)
      /\ toServer' = toServer \cup sends \cup
            {Grant(q, a[q].granted) : q \in {p \in DOMAIN a : a[p].granted > b[p].granted}}
  BY DEF Pumped
<1>2. transfers'[r] = t /\ \A q \in Rpc \ {r} : transfers'[q] = transfers[q]
  BY <1>1 DEF TransfersOK, Live
<1> HIDE DEF b
<1>3. ASSUME NEW ts, ts[r] = t, \A q \in Rpc \ {r} : ts[q] = transfers[q],
             NEW n, n = arrivals + Cardinality(DOMAIN b \ DOMAIN table)
      PROVE  /\ TableOK(b) /\ Ordered(b) /\ n \in Nat
             /\ DOMAIN b = Scheduling(ts)
             /\ \A q \in DOMAIN b :
                  /\ b[q].seq < n /\ Follows(b[q], ts[q])
                  /\ b[q].granted = (IF q \in DOMAIN table THEN table[q].granted
                                     ELSE Smaller(InitialGrant, b[q].size))
             /\ DOMAIN table \subseteq DOMAIN b \cup {r}
  BY <1>3, ScheduledOK DEF b
<1>4. /\ TableOK(b) /\ Ordered(b) /\ arrivals' \in Nat
      /\ DOMAIN b = Scheduling(transfers')
      /\ \A q \in DOMAIN b :
           /\ b[q].seq < arrivals' /\ Follows(b[q], transfers'[q])
           /\ b[q].granted = (IF q \in DOMAIN table THEN table[q].granted
                              ELSE Smaller(InitialGrant, b[q].size))
      /\ DOMAIN table \subseteq DOMAIN b \cup {r}
  BY <1>1, <1>2, <1>3, Zenon
<1>5. Rounds(r, t, sends, b, a)
  BY <1>1, <1>4 DEF Rounds
<1> QED
  BY <1>5

\* The table that the round leaves, against the one it starts from.
LEMMA RoundLeaves ==
    ASSUME NEW r, NEW t, NEW sends, NEW b, NEW a, Rounds(r, t, sends, b, a)
    PROVE  /\ TableOK(table') /\ Ordered(table') /\ DOMAIN table' = DOMAIN b
           /\ \A q \in DOMAIN b :
                /\ b[q].granted \in Nat /\ table'[q].granted \in b[q].granted..table'[q].size
                /\ table'[q].size = b[q].size /\ table'[q].seq = b[q].seq
<1>1. /\ TableOK(b) /\ Ordered(b) /\ a = Granted(b, Budget, Reserved(transfers'))
      /\ table' = a
  BY DEF Rounds
<1>2. Budget \in Int /\ Reserved(transfers') \in Int
  BY ReservedNat, TransferAssumption DEF TransferAssumption
<1>3. /\ TableOK(a) /\ DOMAIN a = DOMAIN b
      /\ \A q \in DOMAIN b : /\ a[q].granted \in b[q].granted..b[q].size
                             /\ b[q].granted \in Nat /\ SameButGrant(a[q], b[q])
  <2>1. TableOK(b) /\ Budget \in Int
    BY <1>1, <1>2
  <2>2. ASSUME NEW v \in Int, a = Granted(b, Budget, v)
        PROVE  /\ TableOK(a) /\ DOMAIN a = DOMAIN b
               /\ \A q \in DOMAIN b : /\ a[q].granted \in b[q].granted..b[q].size
                                      /\ b[q].granted \in Nat /\ SameButGrant(a[q], b[q])
    BY <2>1, <2>2, RoundGives
  <2> QED
    BY <1>1, <1>2, <2>2
<1>4. Ordered(a)
  BY <1>1, <1>3 DEF Ordered, SameButGrant
<1> QED
  BY <1>1, <1>3, <1>4 DEF SameButGrant

\* The ceilings never fall, but for a transfer that is over.
LEMMA CeilingsRise ==
    ASSUME TransferInv, NEW r \in Live, NEW t, MayBecome(r, t),
           NEW sends, NEW b, NEW a, Rounds(r, t, sends, b, a), NEW q \in Rpc, NotOver(q)'
    PROVE  NotOver(q) /\ Ceiling(q) \in Nat /\ Ceiling(q)' \in Nat /\ Ceiling(q) <= Ceiling(q)'
<1>1. /\ transfers' = [transfers EXCEPT ![r] = t]
      /\ DOMAIN b = Scheduling(transfers') /\ DOMAIN table \subseteq DOMAIN b \cup {r}
      /\ \A p \in DOMAIN b \cap DOMAIN table : b[p].granted = table[p].granted
  BY DEF Rounds
<1>2. /\ DOMAIN table' = DOMAIN b
      /\ \A p \in DOMAIN b : /\ b[p].granted \in Nat /\ table'[p].granted \in Nat
                             /\ b[p].granted <= table'[p].granted
  <2>1. /\ DOMAIN table' = DOMAIN b /\ TableOK(table')
        /\ \A p \in DOMAIN b :
             b[p].granted \in Nat /\ table'[p].granted \in b[p].granted..table'[p].size
    BY RoundLeaves
  <2>2. \A p \in DOMAIN b : table'[p].granted \in Nat /\ table'[p].size \in Nat
    BY <2>1 DEF TableOK, Entry
  <2> QED
    BY <2>1, <2>2
<1>3. InitialGrant \in Nat /\ transfers \in [Rpc -> TransferState] /\ transfers[r].stage = "live"
  BY TransferAssumption DEF TransferAssumption, TransferInv, TransfersOK, Live
<1>4. NotOver(q)
  BY <1>1, <1>3 DEF NotOver
<1>5. q \in DOMAIN table => q \in DOMAIN b
  <2>1. CASE q = r
    <3>1. t.stage = "live"
      BY <1>1, <1>3, <2>1 DEF NotOver, MayBecome
    <3>2. q \in DOMAIN table => t.sized
      BY <2>1, <3>1 DEF MayBecome
    <3> QED
      BY <1>1, <1>3, <2>1, <3>1, <3>2 DEF Scheduling
  <2> QED
    BY <1>1, <2>1
<1>6. q \in DOMAIN table => table[q].granted \in Nat
  BY DEF TransferInv, BooksOK, TableOK, Entry
<1>7. CASE q \in DOMAIN table
  <2>1. table[q].granted <= table'[q].granted /\ q \in DOMAIN table'
    BY <1>1, <1>2, <1>5, <1>7
  <2> QED
    BY <1>2, <1>3, <1>4, <1>5, <1>6, <1>7, <2>1 DEF Ceiling, Larger
<1>8. CASE q \notin DOMAIN table
  BY <1>2, <1>3, <1>4, <1>8 DEF Ceiling, Larger
<1> QED
  BY <1>7, <1>8

\* What a round leaves within the budget, if it grants anything: the action of
\* GrantsWithinBudget.
InBudget ==
    (\E r \in DOMAIN table' :
        table'[r].granted > (IF r \in DOMAIN table THEN table[r].granted
                             ELSE Smaller(InitialGrant, table'[r].size)))
    => Outstanding(table') + Cardinality(Unsized') * InitialGrant <= Budget

LEMMA RoundInBudget ==
    ASSUME NEW r, NEW t, NEW sends, NEW b, NEW a, Rounds(r, t, sends, b, a)
    PROVE  InBudget
<1> SUFFICES ASSUME NEW q \in DOMAIN table',
                    table'[q].granted > (IF q \in DOMAIN table THEN table[q].granted
                                         ELSE Smaller(InitialGrant, table'[q].size))
             PROVE  Outstanding(table') + Cardinality(Unsized') * InitialGrant <= Budget
  BY DEF InBudget
<1>1. /\ TableOK(b) /\ Ordered(b) /\ a = Granted(b, Budget, Reserved(transfers'))
      /\ table' = a
      /\ \A p \in DOMAIN b : b[p].granted = (IF p \in DOMAIN table THEN table[p].granted
                                             ELSE Smaller(InitialGrant, b[p].size))
  BY DEF Rounds
<1>2. Budget \in Int /\ Reserved(transfers') \in Int /\ InitialGrant \in Nat
  BY ReservedNat, TransferAssumption DEF TransferAssumption
<1>3. q \in DOMAIN b /\ a[q].granted > b[q].granted
  BY <1>1, RoundLeaves
<1>4. ASSUME NEW v \in Int, a = Granted(b, Budget, v)
      PROVE  Outstanding(a) + v <= Budget
  <2>1. /\ Increment(b, q, Budget, v) \in Nat /\ b[q].granted \in Nat
        /\ a[q].granted = b[q].granted + Increment(b, q, Budget, v)
    BY <1>1, <1>2, <1>3, <1>4, RoundGives
  <2>2. Increment(b, q, Budget, v) > 0
    BY <1>3, <2>1
  <2> QED
    BY <1>1, <1>2, <1>3, <1>4, <2>2, RoundFits
<1>5. Outstanding(a) + Reserved(transfers') <= Budget
  BY <1>1, <1>2, <1>4
<1>6. Reserved(transfers') = Cardinality(Unsized') * InitialGrant
  <2>1. Unsized' = {p \in Rpc : transfers'[p].stage = "live" /\ ~transfers'[p].sized}
    BY DEF Unsized, Live
  <2>2. IsFiniteSet(Unsized')
    BY <2>1, TransferAssumption, FS_Subset DEF TransferAssumption
  <2>3. Cardinality(Unsized') \in Nat
    BY <2>2, FS_CardinalityType
  <2>4. Reserved(transfers') = InitialGrant * Cardinality(Unsized')
    BY <2>1 DEF Reserved
  <2> QED
    BY <1>2, <2>3, <2>4
<1> QED
  BY <1>1, <1>5, <1>6

\* What every step keeps.
Kept == TransfersOK' /\ BooksOK' /\ WireOK' /\ InBudget

\* A callback that ends in pumpGrants keeps the invariant, if what it makes of the
\* transfer is right and what else it sends are RESENDs.
LEMMA PumpedOK ==
    ASSUME TransferInv, NEW r \in Live, NEW t, MayBecome(r, t),
           NEW sends, sends \subseteq Request, \A m \in sends : m.kind = "RESEND",
           Pumped(r, t, sends), server' = server, toClient' \subseteq toClient
    PROVE  Kept
<1>1. TransfersOK /\ BooksOK /\ WireOK
  BY DEF TransferInv
<1>2. PICK b, a : Rounds(r, t, sends, b, a)
  BY <1>1, PumpedIs
<1>3. /\ TableOK(table') /\ Ordered(table') /\ DOMAIN table' = DOMAIN b
      /\ \A q \in DOMAIN b :
           /\ b[q].granted \in Nat /\ table'[q].granted \in b[q].granted..table'[q].size
           /\ table'[q].size = b[q].size /\ table'[q].seq = b[q].seq
  BY <1>2, RoundLeaves
<1>4. /\ transfers' = [transfers EXCEPT ![r] = t] /\ table' = a /\ arrivals' \in Nat
      /\ toServer' = toServer \cup sends \cup
            {Grant(q, a[q].granted) : q \in {p \in DOMAIN a : a[p].granted > b[p].granted}}
      /\ DOMAIN b = Scheduling(transfers')
      /\ \A q \in DOMAIN b : b[q].seq < arrivals' /\ Follows(b[q], transfers'[q])
  BY <1>2 DEF Rounds
<1>5. \A q \in Rpc : NotOver(q)' => /\ NotOver(q) /\ Ceiling(q) \in Nat
                                    /\ Ceiling(q)' \in Nat /\ Ceiling(q) <= Ceiling(q)'
  BY <1>2, CeilingsRise
<1>6. TransfersOK'
  <2>1. TransferOK(t) /\ t \in TransferState
    BY DEF MayBecome, TransferOK, ArrivedOK
  <2> QED
    BY <1>1, <1>4, <2>1 DEF TransfersOK
<1>7. BooksOK'
  <2>1. \A q \in DOMAIN table' : table'[q] \in Entry
    BY <1>3 DEF TableOK
  <2>2. ASSUME NEW q \in DOMAIN table'
        PROVE  table'[q].seq < arrivals' /\ Follows(table'[q], transfers'[q])
    <3>1. /\ table'[q].size = b[q].size /\ table'[q].seq = b[q].seq
          /\ b[q].granted \in Nat /\ table'[q].granted \in Nat
          /\ b[q].granted <= table'[q].granted
      BY <1>3, <2>1 DEF Entry
    <3>2. b[q].seq < arrivals' /\ Follows(b[q], transfers'[q])
      BY <1>3, <1>4
    <3>3. InitialGrant \in Nat /\ table'[q].size \in Nat
      BY <2>1, TransferAssumption DEF TransferAssumption, Entry
    <3>4. table'[q].granted >= Smaller(InitialGrant, transfers'[q].size)
      BY <3>1, <3>2, <3>3 DEF Follows, Smaller
    <3>5. 0..(b[q].granted - 1) \subseteq 0..(table'[q].granted - 1)
      BY <3>1
    <3> QED
      BY <3>1, <3>2, <3>4, <3>5 DEF Follows
  <2> QED
    BY <1>3, <1>4, <2>2 DEF BooksOK
<1>8. \A q \in DOMAIN table' : q \in Rpc /\ table'[q].granted \in Nat
                               /\ table'[q].granted <= Ceiling(q)'
  <2>1. DOMAIN table' \subseteq Rpc
    BY <1>3, <1>4 DEF Scheduling
  <2>2. \A q \in DOMAIN table' : table'[q].granted \in Nat /\ InitialGrant \in Nat
    BY <1>3, TransferAssumption DEF TransferAssumption, TableOK, Entry
  <2> QED
    BY <2>1, <2>2 DEF Ceiling, Larger
<1>9. ASSUME NEW m \in toServer'
      PROVE  m \in Request /\ AllowsOK(m)'
  <2>1. CASE m \in toServer
    <3>1. m \in Request /\ AllowsOK(m) /\ m.rpc \in Rpc /\ m.end \in Nat
      BY <1>1, <2>1 DEF WireOK, Request
    <3>2. NotOver(m.rpc)' => /\ NotOver(m.rpc) /\ Ceiling(m.rpc) \in Nat
                             /\ Ceiling(m.rpc)' \in Nat /\ Ceiling(m.rpc) <= Ceiling(m.rpc)'
      BY <1>5, <3>1
    <3> QED
      BY <3>1, <3>2 DEF AllowsOK
  <2>2. CASE m \in sends
    BY <2>2 DEF AllowsOK
  <2>3. CASE m \notin toServer /\ m \notin sends
    <3>1. PICK q \in DOMAIN table' : m = Grant(q, table'[q].granted)
      BY <1>4, <2>3
    <3>2. m.rpc = q /\ m.end = table'[q].granted /\ m \in Request
      BY <1>8, <3>1 DEF Grant, Request
    <3> QED
      BY <1>8, <3>2 DEF AllowsOK
  <2> QED
    BY <2>1, <2>2, <2>3
<1>10. ASSUME NEW m \in toClient'
       PROVE  m \in Reply /\ CarriesOK(m)'
  <2>1. m \in Reply /\ CarriesOK(m) /\ m.rpc \in Rpc /\ m.end \in Nat
    BY <1>1 DEF WireOK, Reply
  <2>2. NotOver(m.rpc)' => /\ NotOver(m.rpc) /\ Ceiling(m.rpc) \in Nat
                           /\ Ceiling(m.rpc)' \in Nat /\ Ceiling(m.rpc) <= Ceiling(m.rpc)'
    BY <1>5, <2>1
  <2> QED
    BY <2>1, <2>2 DEF CarriesOK
<1>11. ASSUME NEW q \in Rpc
       PROVE  ServesOK(q)'
  <2>1. ServesOK(q) /\ server[q].granted \in Nat
    BY <1>1 DEF WireOK
  <2>2. NotOver(q)' => /\ NotOver(q) /\ Ceiling(q) \in Nat
                       /\ Ceiling(q)' \in Nat /\ Ceiling(q) <= Ceiling(q)'
    BY <1>5
  <2> QED
    BY <2>1, <2>2 DEF ServesOK
<1>12. WireOK'
  BY <1>1, <1>9, <1>10, <1>11 DEF WireOK
<1>13. InBudget
  BY <1>2, RoundInBudget
<1> QED
  BY <1>6, <1>7, <1>12, <1>13 DEF Kept

-----------------------------------------------------------------------------
(* Steps that leave the scheduler alone. *)

\* What the client sends without a round of grants, and what the server or the
\* network does, keeps the invariant if each new packet and the server's new state
\* are within what the client has allowed.
LEMMA QuietOK ==
    ASSUME TransferInv, TransfersOK', table' = table, arrivals' = arrivals,
           Scheduling(transfers') = Scheduling(transfers),
           \A q \in Rpc : NotOver(q)' => NotOver(q),
           \A q \in DOMAIN table : /\ transfers'[q].size = transfers[q].size
                                   /\ transfers'[q].got = transfers[q].got,
           \A m \in toServer' : m \in toServer \/ (m \in Request /\ AllowsOK(m)),
           \A m \in toClient' : m \in toClient \/ (m \in Reply /\ CarriesOK(m)),
           server' \in [Rpc -> [known : BOOLEAN, size : Nat, granted : Nat]],
           \A q \in Rpc : /\ server'[q].granted <= server'[q].size
                          /\ NotOver(q) => server'[q].granted <= Ceiling(q)
    PROVE  Kept
<1>1. BooksOK /\ WireOK
  BY DEF TransferInv
<1>2. BooksOK'
  <2>1. \A q \in DOMAIN table : Follows(table[q], transfers'[q])
    BY <1>1 DEF BooksOK, Follows
  <2> QED
    BY <1>1, <2>1 DEF BooksOK, TableOK, Ordered
<1>3. \A q \in Rpc : Ceiling(q)' = Ceiling(q)
  BY DEF Ceiling
<1>4. ASSUME NEW m \in toServer'
      PROVE  m \in Request /\ AllowsOK(m)'
  <2>1. m \in Request /\ AllowsOK(m) /\ m.rpc \in Rpc
    BY <1>1 DEF WireOK, Request
  <2> QED
    BY <1>3, <2>1 DEF AllowsOK
<1>5. ASSUME NEW m \in toClient'
      PROVE  m \in Reply /\ CarriesOK(m)'
  <2>1. m \in Reply /\ CarriesOK(m) /\ m.rpc \in Rpc
    BY <1>1 DEF WireOK, Reply
  <2> QED
    BY <1>3, <2>1 DEF CarriesOK
<1>6. \A q \in Rpc : ServesOK(q)'
  BY <1>3 DEF ServesOK
<1>7. WireOK'
  BY <1>4, <1>5, <1>6 DEF WireOK
<1>8. InBudget
  <2>1. \A q \in DOMAIN table : table[q].granted \in Nat
    BY <1>1 DEF BooksOK, TableOK, Entry
  <2> QED
    BY <2>1 DEF InBudget
<1> QED
  BY <1>2, <1>7, <1>8 DEF Kept

\* The same for a callback of the client that changes one transfer.
LEMMA RewriteOK ==
    ASSUME TransferInv, NEW r \in Rpc, NEW t, TransferOK(t),
           transfers' = [transfers EXCEPT ![r] = t],
           (t.stage = "live" /\ t.sized) <=> r \in Scheduling(transfers),
           t.stage # "over" => NotOver(r),
           t.size = transfers[r].size, t.got = transfers[r].got,
           table' = table, arrivals' = arrivals, server' = server,
           toClient' \subseteq toClient,
           \A m \in toServer' : m \in toServer \/ (m \in Request /\ AllowsOK(m))
    PROVE  Kept
<1>1. transfers \in [Rpc -> TransferState] /\ \A q \in Rpc : TransferOK(transfers[q])
  BY DEF TransferInv, TransfersOK
<1>2. transfers'[r] = t /\ \A q \in Rpc \ {r} : transfers'[q] = transfers[q]
  BY <1>1
<1>3. t \in TransferState
  BY DEF TransferOK, ArrivedOK
<1>4. TransfersOK'
  BY <1>1, <1>2, <1>3 DEF TransfersOK
<1>5. Scheduling(transfers') = Scheduling(transfers)
  BY <1>2 DEF Scheduling
<1>6. \A q \in Rpc : NotOver(q)' => NotOver(q)
  BY <1>2 DEF NotOver
<1>7. \A q \in Rpc : /\ transfers'[q].size = transfers[q].size
                     /\ transfers'[q].got = transfers[q].got
  BY <1>2
<1>8. DOMAIN table \subseteq Rpc
  BY DEF TransferInv, BooksOK, Scheduling
<1>9. /\ server \in [Rpc -> [known : BOOLEAN, size : Nat, granted : Nat]]
      /\ \A q \in Rpc : ServesOK(q)
  BY DEF TransferInv, WireOK
<1> QED
  BY <1>4, <1>5, <1>6, <1>7, <1>8, <1>9, QuietOK DEF ServesOK

\* A RESEND asks for what is allowed already.
LEMMA ResendsOK ==
    ASSUME NEW r \in Rpc, NEW gs, \A g \in gs : g.start \in Nat /\ g.end \in Nat
    PROVE  /\ Resends(r, gs) \subseteq Request
           /\ \A m \in Resends(r, gs) : m.kind = "RESEND" /\ AllowsOK(m)
<1> SUFFICES ASSUME NEW m \in Resends(r, gs)
             PROVE  m \in Request /\ m.kind = "RESEND" /\ AllowsOK(m)
  OBVIOUS
<1>1. PICK g \in gs : m = [kind |-> "RESEND", rpc |-> r, start |-> g.start, end |-> g.end]
  BY DEF Resends
<1> QED
  BY <1>1 DEF Request, AllowsOK

\* The gaps detectLoss and recover ask for are offsets of the body.
LEMMA MissingOK ==
    ASSUME NEW t, NEW limit \in Nat
    PROVE  \A g \in Missing(t, limit) : g.start \in Nat /\ g.end \in Nat
  BY DEF Missing

LEMMA SuspectsOK ==
    ASSUME NEW t, ArrivedOK(t), NEW granted
    PROVE  /\ Frontier(t) \in Nat
           /\ \A g \in Suspects(t, granted) : g.start \in Nat /\ g.end \in Nat
<1>1. t.size \in Nat /\ t.got \subseteq 0..(t.size - 1)
  BY DEF ArrivedOK, TransferState
<1>2. Frontier(t) \in Nat
  BY <1>1, FrontierIs
<1> DEFINE low  == Larger(0, Frontier(t) - ReorderPackets)
           most == IF Frontier(t) < granted THEN low ELSE Frontier(t)
<1>3. low \in Nat
  BY <1>2, TransferAssumption DEF TransferAssumption, Larger
<1> HIDE DEF low
<1>4. most \in Nat
  BY <1>2, <1>3
<1>5. Suspects(t, granted) = Missing(t, most)
  BY DEF Suspects, low
<1> HIDE DEF most
<1> QED
  BY <1>2, <1>4, <1>5, MissingOK

-----------------------------------------------------------------------------
(* The initial state, and each action. *)

LEMMA InitInv == Init => TransferInv
<1> SUFFICES ASSUME Init PROVE TransferInv
  OBVIOUS
<1>1. /\ open = TRUE /\ transfers = [r \in Rpc |-> NotStarted]
      /\ table = [r \in {} |-> NewEntry(0, 0, 0, 0, 0)] /\ arrivals = 0
      /\ server = [r \in Rpc |-> [known |-> FALSE, size |-> 0, granted |-> 0]]
      /\ toServer = {} /\ toClient = {} /\ losses = 0 /\ duplicates = 0
  BY DEF Init
<1>2. /\ InitialGrant \in Nat /\ MaxRecoveries \in Nat /\ MaxLosses \in Nat
      /\ MaxDuplicates \in Nat
  BY TransferAssumption DEF TransferAssumption
<1>3. NotStarted \in TransferState
  BY <1>2 DEF NotStarted, TransferState
<1>4. TransferOK(NotStarted)
  BY <1>3 DEF NotStarted, TransferOK, ArrivedOK, StreamOK, AnswerOK
<1>5. TransfersOK
  BY <1>1, <1>3, <1>4 DEF TransfersOK
<1>6. DOMAIN table = {} /\ IsFiniteSet({})
  BY <1>1, FS_EmptySet
<1>7. Scheduling(transfers) = {}
  BY <1>1 DEF Scheduling, NotStarted
<1>8. BooksOK
  BY <1>1, <1>6, <1>7 DEF BooksOK, TableOK, Ordered
<1>9. WireOK
  BY <1>1, <1>2, <1>6 DEF WireOK, ServesOK, Ceiling
<1> QED
  BY <1>1, <1>2, <1>5, <1>8, <1>9 DEF TransferInv

LEMMA StartStep ==
    ASSUME TransferInv, NEW r \in Rpc, Start(r)
    PROVE  Kept
<1>1. /\ transfers \in [Rpc -> TransferState] /\ transfers[r] = NotStarted
      /\ transfers[r].stage = "idle"
  BY DEF Start, TransferInv, TransfersOK, TransferOK
<1>2. /\ table' = table /\ arrivals' = arrivals /\ server' = server /\ toClient' = toClient
  BY DEF Start
<1>3. HighWaterMark \in Nat \ {0} /\ MaxRecoveries \in Nat /\ InitialGrant \in Nat
  BY TransferAssumption DEF TransferAssumption
<1>4. r \notin Scheduling(transfers) /\ NotOver(r) /\ r \notin DOMAIN table
  BY <1>1 DEF Scheduling, NotOver, TransferInv, BooksOK
<1>5. CASE /\ transfers' = [transfers EXCEPT ![r].stage = "live"]
           /\ toServer' = toServer \cup {Req(r)}
  <2> DEFINE t == [NotStarted EXCEPT !.stage = "live"]
  <2>1. transfers' = [transfers EXCEPT ![r] = t]
    BY <1>1, <1>5
  <2>2. NotStarted \in TransferState
    BY <1>1, <1>3 DEF NotStarted, TransferState
  <2>3. /\ ~t.sized /\ t.size = 0 /\ t.stage = "live" /\ t.got = {}
        /\ t.settled = "no" /\ t.emitted = 0 /\ t.taken = 0 /\ ~t.reading
        /\ t.body = "open" /\ ~t.paused /\ t.recoveries = 0
    BY DEF NotStarted
  <2>4. t \in TransferState
    BY <2>2 DEF TransferState
  <2> HIDE DEF t
  <2>6. TransferOK(t)
    BY <1>3, <2>3, <2>4 DEF TransferOK, ArrivedOK, StreamOK, AnswerOK, LiveOK
  <2>7. t.size = transfers[r].size /\ t.got = transfers[r].got
    BY <1>1, <2>3 DEF NotStarted
  <2>5. Req(r) \in Request /\ AllowsOK(Req(r))
    BY <1>3, <1>4 DEF Req, Request, AllowsOK, Ceiling
  <2> QED
    BY <1>2, <1>4, <1>5, <2>1, <2>3, <2>5, <2>6, <2>7, RewriteOK
<1>6. CASE /\ transfers' = [transfers EXCEPT ![r].stage = "over", ![r].settled = "rejected"]
           /\ UNCHANGED toServer
  <2> DEFINE t == [NotStarted EXCEPT !.stage = "over", !.settled = "rejected"]
  <2>1. transfers' = [transfers EXCEPT ![r] = t]
    BY <1>1, <1>6
  <2>2. NotStarted \in TransferState
    BY <1>1, <1>3 DEF NotStarted, TransferState
  <2>3. /\ ~t.sized /\ t.size = 0 /\ t.stage = "over" /\ t.got = {}
        /\ t.settled = "rejected" /\ t.emitted = 0 /\ t.taken = 0 /\ ~t.reading
        /\ t.body = "open"
    BY DEF NotStarted
  <2>4. t \in TransferState
    BY <2>2 DEF TransferState
  <2> HIDE DEF t
  <2>5. TransferOK(t)
    BY <2>3, <2>4 DEF TransferOK, ArrivedOK, StreamOK, AnswerOK
  <2>6. t.size = transfers[r].size /\ t.got = transfers[r].got
    BY <1>1, <2>3 DEF NotStarted
  <2> QED
    BY <1>2, <1>4, <1>6, <2>1, <2>3, <2>5, <2>6, RewriteOK
<1> QED
  BY <1>5, <1>6 DEF Start

LEMMA DetectLossStep ==
    ASSUME TransferInv, NEW r \in Rpc, DetectLoss(r)
    PROVE  Kept
<1>1. /\ transfers' = transfers /\ table' = table /\ arrivals' = arrivals
      /\ server' = server /\ toClient' = toClient
  BY DEF DetectLoss
<1>2. PICK lost \in SUBSET Suspects(transfers[r], GrantedTo(r)) :
        toServer' = toServer \cup Resends(r, lost)
  BY DEF DetectLoss
<1>3. TransferOK(transfers[r]) /\ transfers = [transfers EXCEPT ![r] = transfers[r]]
  BY DEF TransferInv, TransfersOK
<1>4. \A m \in toServer' : m \in toServer \/ (m \in Request /\ AllowsOK(m))
  BY <1>2, <1>3, SuspectsOK, ResendsOK DEF TransferOK
<1>5. (transfers[r].stage = "live" /\ transfers[r].sized) <=> r \in Scheduling(transfers)
  BY DEF Scheduling
<1>6. transfers[r].stage # "over" => NotOver(r)
  BY DEF NotOver
<1> QED
  BY <1>1, <1>3, <1>4, <1>5, <1>6, RewriteOK

\* Grants of live transfers are numbers within what is allowed.
LEMMA GrantedToOK ==
    ASSUME TransferInv, NEW r \in Rpc
    PROVE  GrantedTo(r) \in Nat /\ Grant(r, GrantedTo(r)) \in Request
           /\ AllowsOK(Grant(r, GrantedTo(r))) /\ Req(r) \in Request /\ AllowsOK(Req(r))
<1>1. r \in DOMAIN table => table[r].granted \in Nat
  BY DEF TransferInv, BooksOK, TableOK, Entry
<1>2. InitialGrant \in Nat
  BY TransferAssumption DEF TransferAssumption
<1> QED
  BY <1>1, <1>2 DEF GrantedTo, Grant, Req, Request, AllowsOK, Ceiling, Larger

LEMMA TailProbeStep ==
    ASSUME TransferInv, NEW r \in Rpc, TailProbe(r)
    PROVE  Kept
<1> DEFINE t == transfers[r]
           f == [t EXCEPT !.tailProbed = TRUE]
           last == [start |-> Larger(Frontier(t), GrantedTo(r) - 1), end |-> GrantedTo(r)]
<1>1. /\ transfers' = [transfers EXCEPT ![r].tailProbed = TRUE] /\ r \in Live
      /\ \E claimed \in SUBSET {last} : toServer' = toServer \cup Resends(r, claimed)
      /\ table' = table /\ arrivals' = arrivals /\ server' = server /\ toClient' = toClient
  BY DEF TailProbe
<1>2. IsLive(t) /\ t \in TransferState /\ transfers \in [Rpc -> TransferState]
  BY <1>1 DEF TransferInv, TransfersOK, IsLive, Live
<1>3. transfers' = [transfers EXCEPT ![r] = f]
  BY <1>1
<1>4. /\ f.sized = t.sized /\ f.size = t.size /\ f.stage = "live" /\ f.got = t.got
      /\ f.headers = t.headers /\ f.settled = t.settled /\ f.emitted = t.emitted
      /\ f.taken = t.taken /\ f.reading = t.reading /\ f.body = t.body
      /\ f.paused = t.paused /\ f.recoveries = t.recoveries /\ f \in TransferState
  BY <1>2, LiveIs DEF TransferState
<1>5. last.start \in Nat /\ last.end \in Nat
  BY <1>2, LiveIs, SuspectsOK, GrantedToOK DEF Larger
<1> HIDE DEF f, last
<1>6. \A m \in toServer' : m \in toServer \/ (m \in Request /\ AllowsOK(m))
  BY <1>1, <1>5, ResendsOK
<1>7. ArrivedOK(f) /\ StreamOK(f) /\ AnswerOK(f) /\ LiveOK(f)
  BY <1>2, <1>4, LiveIs DEF ArrivedOK, StreamOK, AnswerOK, LiveOK
<1>8. TransferOK(f)
  BY <1>4, <1>7, IsLiveIf DEF IsLive
<1>9. /\ (f.stage = "live" /\ f.sized) <=> r \in Scheduling(transfers)
      /\ f.stage # "over" => NotOver(r)
  BY <1>1, <1>4 DEF Scheduling, NotOver, Live
<1> QED
  BY <1>1, <1>3, <1>4, <1>6, <1>8, <1>9, RewriteOK

-----------------------------------------------------------------------------
(* Receiving. *)

\* A live transfer may become anything that keeps what it has got.
LEMMA MayStay ==
    ASSUME TransfersOK, BooksOK, NEW r \in Live, NEW t, IsLive(t),
           t.sized = transfers[r].sized, t.size = transfers[r].size, t.got = transfers[r].got
    PROVE  MayBecome(r, t)
<1>1. TransferOK(t) /\ t.stage = "live"
  BY DEF IsLive
<1>2. CASE r \in DOMAIN table
  <2>1. transfers[r].sized /\ Follows(table[r], transfers[r])
    BY <1>2 DEF BooksOK, Scheduling
  <2> QED
    BY <1>1, <1>2, <2>1 DEF MayBecome, Follows
<1>3. CASE r \notin DOMAIN table
  <2>1. ~t.sized
    BY <1>3 DEF BooksOK, Scheduling, Live
  <2> QED
    BY <1>1, <1>3, <2>1 DEF MayBecome
<1> QED
  BY <1>2, <1>3

LEMMA MayEnd ==
    ASSUME NEW r, NEW t, TransferOK(t), t.stage = "over"
    PROVE  MayBecome(r, t)
  BY DEF MayBecome

\* The first META of a transfer.
LEMMA HeadedOK ==
    ASSUME NEW t, IsLive(t)
    PROVE  LET f == [t EXCEPT !.headers = TRUE, !.recoveries = 0]
           IN  /\ IsLive(f) /\ f.headers
               /\ f.sized = t.sized /\ f.size = t.size /\ f.got = t.got
<1> DEFINE f == [t EXCEPT !.headers = TRUE, !.recoveries = 0]
<1>1. t \in TransferState /\ ArrivedOK(t) /\ StreamOK(t) /\ AnswerOK(t) /\ LiveOK(t)
  BY LiveIs
<1>2. MaxRecoveries \in Nat
  BY TransferAssumption DEF TransferAssumption
<1>3. /\ f.sized = t.sized /\ f.size = t.size /\ f.stage = "live" /\ f.got = t.got
      /\ f.headers = TRUE /\ f.settled = t.settled /\ f.emitted = t.emitted
      /\ f.taken = t.taken /\ f.reading = t.reading /\ f.body = t.body
      /\ f.paused = t.paused /\ f.recoveries = 0
  BY <1>1, LiveIs DEF TransferState
<1>4. f \in TransferState
  <2>1. 0 \in 0..MaxRecoveries + 1
    BY <1>2
  <2> QED
    BY <1>1, <2>1 DEF TransferState
<1> HIDE DEF f
<1>5. ArrivedOK(f) /\ StreamOK(f) /\ AnswerOK(f) /\ LiveOK(f)
  BY <1>1, <1>2, <1>3, <1>4 DEF ArrivedOK, StreamOK, AnswerOK, LiveOK
<1> QED
  BY <1>3, <1>5, IsLiveIf DEF f

\* A callback that sends nothing but the grants.
LEMMA PumpedAloneOK ==
    ASSUME TransferInv, NEW r \in Live, NEW t, MayBecome(r, t), Pumped(r, t, {}),
           server' = server, toClient' \subseteq toClient
    PROVE  Kept
<1> DEFINE sends == {}
<1>1. Pumped(r, t, sends)
  OBVIOUS
<1>2. sends \subseteq Request /\ \A m \in sends : m.kind = "RESEND"
  OBVIOUS
<1> HIDE DEF sends
<1> QED
  BY <1>1, <1>2, PumpedOK

LEMMA ReceiveMetaStep ==
    ASSUME TransferInv, NEW m, m.rpc \in Live, ReceiveMeta(m),
           server' = server, toClient' \subseteq toClient
    PROVE  Kept
<1> DEFINE r == m.rpc
           t == [transfers[r] EXCEPT !.headers = TRUE, !.recoveries = 0]
           s == MaybeStart(t)
<1>1. r \in Rpc /\ r \in Live /\ IsLive(transfers[r]) /\ TransferOK(transfers[r])
      /\ TransfersOK /\ BooksOK
  BY DEF TransferInv, TransfersOK, IsLive, Live
<1>2. CASE transfers[r].headers
  <2>1. /\ transfers' = transfers /\ table' = table /\ arrivals' = arrivals
        /\ toServer' = toServer
    BY <1>2 DEF ReceiveMeta
  <2>2. transfers = [transfers EXCEPT ![r] = transfers[r]]
    BY <1>1 DEF TransfersOK
  <2>3. /\ (transfers[r].stage = "live" /\ transfers[r].sized) <=> r \in Scheduling(transfers)
        /\ transfers[r].stage # "over" => NotOver(r)
    BY <1>1 DEF Scheduling, NotOver
  <2> HIDE DEF r
  <2> QED
    BY <1>1, <2>1, <2>2, <2>3, RewriteOK
<1>3. CASE ~transfers[r].headers
  <2>1. Pumped(r, IF Complete(t) THEN Finished(s, TRUE) ELSE s, {})
    BY <1>3 DEF ReceiveMeta
  <2>2. /\ IsLive(t) /\ t.headers /\ t.sized = transfers[r].sized
        /\ t.size = transfers[r].size /\ t.got = transfers[r].got
    BY <1>1, HeadedOK
  <2> HIDE DEF t
  <2>3. IsLive(s) /\ SameArrival(t, s)
    BY <2>2, MaybeStartOK
  <2> HIDE DEF s, r
  <2>4. MayBecome(r, s)
    BY <1>1, <2>2, <2>3, MayStay DEF SameArrival
  <2>5. Complete(t) => MayBecome(r, Finished(s, TRUE))
    BY <2>2, <2>3, FinishedOK, MayEnd DEF SameArrival, Complete
  <2>6. MayBecome(r, IF Complete(t) THEN Finished(s, TRUE) ELSE s)
    BY <2>4, <2>5
  <2> DEFINE u == IF Complete(t) THEN Finished(s, TRUE) ELSE s
  <2> HIDE DEF u
  <2> QED
    BY <1>1, <2>1, <2>6, PumpedAloneOK DEF u
<1> QED
  BY <1>2, <1>3

\* What a DATA makes of a live transfer, before it ends or asks for what is lost.
LEMMA DataOK ==
    ASSUME TransferInv, NEW m \in toClient, m.rpc \in Live, m.kind = "DATA",
           ~(transfers[m.rpc].sized /\ transfers[m.rpc].size # m.size)
    PROVE  LET t == transfers[m.rpc]
               s == Flush(MaybeStart(Reassembled([t EXCEPT !.sized = TRUE, !.size = m.size], m)))
           IN  IsLive(s) /\ MayBecome(m.rpc, s)
<1> DEFINE r == m.rpc
           t == transfers[r]
           z == [t EXCEPT !.sized = TRUE, !.size = m.size]
           a == Reassembled(z, m)
           b == MaybeStart(a)
           s == Flush(b)
<1>1. /\ r \in Rpc /\ r \in Live /\ IsLive(t) /\ NotOver(r) /\ BooksOK
      /\ r \in DOMAIN table <=> t.sized
  BY DEF TransferInv, TransfersOK, IsLive, Live, NotOver, BooksOK, Scheduling
<1>2. m \in Reply /\ CarriesOK(m) /\ m.size \in Nat /\ m.start \in Nat /\ m.end \in Nat
  BY DEF TransferInv, WireOK, Reply
<1>3. InitialGrant \in Nat
  BY TransferAssumption DEF TransferAssumption
<1>4. IsLive(z) /\ z.size = m.size /\ z.sized /\ z.got = t.got
  BY <1>1, <1>2, SizedOK
<1> DEFINE most == IF r \in DOMAIN table THEN table[r].granted
                   ELSE Smaller(InitialGrant, m.size)
<1>5. /\ most \in Nat /\ t.got \subseteq 0..(most - 1)
      /\ r \in DOMAIN table => t.sized /\ m.size = table[r].size
      /\ m.start < m.end => m.end <= m.size /\ m.end <= most
  <2>1. m.start < m.end => m.end <= m.size /\ m.end <= Ceiling(r)
    BY <1>1, <1>2 DEF CarriesOK
  <2>2. CASE r \in DOMAIN table
    <3>1. /\ table[r].size = t.size /\ table[r].granted >= Smaller(InitialGrant, t.size)
          /\ t.got \subseteq 0..(table[r].granted - 1)
          /\ table[r].granted \in Nat /\ t.size = m.size
      BY <1>1, <2>2 DEF BooksOK, Follows, TableOK, Entry
    <3>2. Ceiling(r) = Larger(InitialGrant, table[r].granted)
      BY <2>2 DEF Ceiling
    <3> QED
      BY <1>1, <1>2, <1>3, <2>1, <2>2, <3>1, <3>2 DEF Smaller, Larger
  <2>3. CASE r \notin DOMAIN table
    <3>1. Ceiling(r) = InitialGrant /\ ~t.sized
      BY <1>1, <2>3 DEF Ceiling
    <3>2. t.got = {}
      <4>1. t.size = 0 /\ t.got \subseteq 0..(t.size - 1)
        BY <1>1, <3>1, LiveIs DEF ArrivedOK
      <4> QED
        BY <4>1
    <3> QED
      BY <1>2, <1>3, <2>1, <2>3, <3>1, <3>2 DEF Smaller
  <2> QED
    BY <2>2, <2>3
<1> HIDE DEF most, z
<1>6. Units(m) \subseteq 0..(m.size - 1) /\ Units(m) \subseteq 0..(most - 1)
  BY <1>2, <1>5 DEF Units
<1>7. IsLive(a) /\ a.size = m.size /\ a.sized /\ a.got \subseteq t.got \cup Units(m)
  BY <1>4, <1>6, ReassembledOK
<1> HIDE DEF a
<1>8. IsLive(b) /\ SameArrival(a, b)
  BY <1>7, MaybeStartOK
<1> HIDE DEF b
<1>9. IsLive(s) /\ SameArrival(b, s)
  BY <1>8, FlushOK
<1> HIDE DEF s
<1>10. s.size = m.size /\ s.sized /\ s.got \subseteq 0..(most - 1)
  BY <1>5, <1>6, <1>7, <1>8, <1>9 DEF SameArrival
<1>11. MayBecome(r, s)
  <2>1. s.got \subseteq 0..((IF r \in DOMAIN table THEN table[r].granted
                             ELSE Smaller(InitialGrant, s.size)) - 1)
    BY <1>10 DEF most
  <2>2. r \in DOMAIN table => s.sized /\ s.size = table[r].size
    BY <1>5, <1>10
  <2> QED
    BY <1>9, <2>1, <2>2 DEF MayBecome, IsLive
<1> QED
  BY <1>9, <1>11 DEF s, b, a, z

LEMMA ReceiveDataStep ==
    ASSUME TransferInv, NEW m \in toClient, m.rpc \in Live, m.kind = "DATA", ReceiveData(m),
           server' = server, toClient' \subseteq toClient
    PROVE  Kept
<1> DEFINE r == m.rpc
           t == transfers[r]
           s == Flush(MaybeStart(Reassembled([t EXCEPT !.sized = TRUE, !.size = m.size], m)))
<1>1. r \in Rpc /\ r \in Live /\ IsLive(t)
  BY DEF TransferInv, TransfersOK, IsLive, Live
<1>2. CASE t.sized /\ t.size # m.size
  <2>1. Pumped(r, Finished(t, FALSE), {})
    BY <1>2 DEF ReceiveData
  <2>2. MayBecome(r, Finished(t, FALSE))
    BY <1>1, FinishedOK, MayEnd
  <2> HIDE DEF t, r
  <2> QED
    BY <1>1, <2>1, <2>2, PumpedAloneOK
<1>3. CASE ~(t.sized /\ t.size # m.size)
  <2>1. IsLive(s) /\ MayBecome(r, s)
    BY <1>3, DataOK
  <2>2. IF Complete(s) /\ s.headers THEN Pumped(r, Finished(s, TRUE), {})
        ELSE \E lost \in SUBSET Suspects(s, Scheduled(r, s)[r].granted) :
                Pumped(r, s, Resends(r, lost))
    BY <1>3 DEF ReceiveData
  <2> HIDE DEF s, r, t
  <2>3. CASE Complete(s) /\ s.headers
    <3>1. MayBecome(r, Finished(s, TRUE))
      BY <2>1, <2>3, FinishedOK, MayEnd
    <3> QED
      BY <1>1, <2>2, <2>3, <3>1, PumpedAloneOK
  <2>4. CASE ~(Complete(s) /\ s.headers)
    <3>1. PICK lost \in SUBSET Suspects(s, Scheduled(r, s)[r].granted) :
            Pumped(r, s, Resends(r, lost))
      BY <2>2, <2>4
    <3>2. \A g \in lost : g.start \in Nat /\ g.end \in Nat
      BY <2>1, LiveIs, SuspectsOK
    <3>3. Resends(r, lost) \subseteq Request /\ \A k \in Resends(r, lost) : k.kind = "RESEND"
      BY <1>1, <3>2, ResendsOK
    <3> QED
      BY <1>1, <2>1, <3>1, <3>3, PumpedOK
  <2> QED
    BY <2>3, <2>4
<1> QED
  BY <1>2, <1>3

LEMMA ReceiveErrorStep ==
    ASSUME TransferInv, NEW m, m.rpc \in Live, ReceiveError(m),
           server' = server, toClient' \subseteq toClient
    PROVE  Kept
<1> DEFINE r == m.rpc
<1>1. r \in Live /\ IsLive(transfers[r])
  BY DEF TransferInv, TransfersOK, IsLive, Live
<1>2. Pumped(r, Finished(transfers[r], FALSE), {})
  BY DEF ReceiveError
<1> HIDE DEF r
<1>3. MayBecome(r, Finished(transfers[r], FALSE))
  BY <1>1, FinishedOK, MayEnd
<1> QED
  BY <1>1, <1>2, <1>3, PumpedAloneOK

\* What leaves no trace but on the network.
LEMMA DroppedStep ==
    ASSUME TransferInv, UNCHANGED <<transfers, table, arrivals, toServer, server>>,
           toClient' \subseteq toClient
    PROVE  Kept
<1>1. TransfersOK' /\ Scheduling(transfers') = Scheduling(transfers)
  BY DEF TransferInv, TransfersOK
<1>2. \A q \in Rpc : NotOver(q)' => NotOver(q)
  BY DEF NotOver
<1>3. /\ server \in [Rpc -> [known : BOOLEAN, size : Nat, granted : Nat]]
      /\ \A q \in Rpc : ServesOK(q)
  BY DEF TransferInv, WireOK
<1> QED
  BY <1>1, <1>2, <1>3, QuietOK DEF ServesOK

LEMMA ReceiveStep ==
    ASSUME TransferInv, NEW m \in toClient, Receive(m)
    PROVE  Kept
<1>1. server' = server /\ toClient' \subseteq toClient
  BY DEF Receive, Arrives
<1>2. m.kind \in {"META", "DATA", "ERROR"}
  BY DEF TransferInv, WireOK, Reply
<1>3. CASE m.rpc \notin Live
  BY <1>1, <1>3, DroppedStep DEF Receive
<1>4. CASE m.rpc \in Live
  <2>1. \/ m.kind = "META" /\ ReceiveMeta(m)
        \/ m.kind = "DATA" /\ ReceiveData(m)
        \/ m.kind = "ERROR" /\ ReceiveError(m)
    BY <1>2, <1>4 DEF Receive
  <2> QED
    BY <1>1, <1>4, <2>1, ReceiveMetaStep, ReceiveDataStep, ReceiveErrorStep
<1> QED
  BY <1>3, <1>4

-----------------------------------------------------------------------------
(* Recovering, reading and closing. *)

\* A transfer that gives up has counted one attempt past the limit.
LEMMA GaveUpOK ==
    ASSUME NEW t, IsLive(t)
    PROVE  LET g == Finished([t EXCEPT !.recoveries = @ + 1], FALSE)
           IN  TransferOK(g) /\ g.stage = "over"
<1> DEFINE f == [t EXCEPT !.recoveries = @ + 1]
           g == Finished(f, FALSE)
<1>1. t \in TransferState /\ ArrivedOK(t) /\ StreamOK(t) /\ AnswerOK(t) /\ LiveOK(t)
  BY LiveIs
<1>2. t.recoveries + 1 \in 0..MaxRecoveries + 1
  BY <1>1, TransferAssumption DEF TransferAssumption, TransferState, LiveOK
<1>3. /\ f \in TransferState
      /\ f.sized = t.sized /\ f.size = t.size /\ f.got = t.got /\ f.headers = t.headers
      /\ f.settled = t.settled /\ f.emitted = t.emitted /\ f.taken = t.taken
      /\ f.reading = t.reading /\ f.body = t.body /\ f.paused = t.paused
  BY <1>1, <1>2 DEF TransferState
<1>4. g = [f EXCEPT !.stage   = "over",
                    !.body    = IF Streaming /\ @ = "open" THEN "errored" ELSE @,
                    !.settled = IF @ # "no" THEN @ ELSE "rejected"]
  BY DEF Finished
<1> HIDE DEF f
<1>5. f.body = "open" /\ (f.settled = "no" \/ (f.settled = "resolved" /\ Streaming))
  <2>1. t.settled \in {"no", "resolved", "rejected"}
    BY <1>1 DEF TransferState
  <2>2. t.body = "open" /\ t.settled # "rejected"
    BY <1>1 DEF LiveOK
  <2>3. t.settled = "resolved" => Streaming
    BY <1>1 DEF LiveOK
  <2>4. t.settled = "no" \/ t.settled = "resolved"
    BY <2>1, <2>2
  <2> QED
    BY <1>3, <2>2, <2>3, <2>4, Zenon
<1>6. /\ g.stage = "over" /\ g.body = (IF Streaming THEN "errored" ELSE "open")
      /\ g.settled = (IF f.settled # "no" THEN f.settled ELSE "rejected")
      /\ g.sized = f.sized /\ g.size = f.size /\ g.got = f.got /\ g.headers = f.headers
      /\ g.emitted = f.emitted /\ g.taken = f.taken /\ g.reading = f.reading
      /\ g \in TransferState
  BY <1>3, <1>4, <1>5 DEF TransferState
<1> HIDE DEF g
<1>7. ArrivedOK(g)
  BY <1>1, <1>3, <1>6 DEF ArrivedOK
<1>8. StreamOK(g)
  BY <1>1, <1>3, <1>6 DEF StreamOK
<1>9. AnswerOK(g)
  BY <1>1, <1>3, <1>5, <1>6 DEF AnswerOK
<1> QED
  BY <1>6, <1>7, <1>8, <1>9 DEF TransferOK, f, g

\* recover asks for offsets of the body.
LEMMA LostRangesOK ==
    ASSUME TransferInv, NEW r \in Rpc
    PROVE  \A g \in LostRanges(r) : g.start \in Nat /\ g.end \in Nat
<1> DEFINE front   == Frontier(transfers[r])
           granted == GrantedTo(r)
           gaps    == Missing(transfers[r], Smaller(front, granted))
           tail    == IF front < granted
                      THEN {[start |-> front, end |-> front + 1],
                            [start |-> granted - 1, end |-> granted]}
                      ELSE {}
<1>1. front \in Nat /\ granted \in Nat
  BY SuspectsOK, GrantedToOK DEF TransferInv, TransfersOK, TransferOK
<1> HIDE DEF front, granted
<1>2. \A g \in gaps : g.start \in Nat /\ g.end \in Nat
  BY <1>1, MissingOK DEF Smaller
<1>3. \A g \in tail : g.start \in Nat /\ g.end \in Nat
  BY <1>1
<1>4. \A g \in LostRanges(r) : g \in gaps \/ g \in tail
  BY DEF LostRanges, front, granted
<1> HIDE DEF gaps, tail
<1> QED
  BY <1>2, <1>3, <1>4

LEMMA RecoverStep ==
    ASSUME TransferInv, NEW r \in Rpc, Recover(r)
    PROVE  Kept
<1> DEFINE t == transfers[r]
           f == [t EXCEPT !.recoveries = @ + 1]
           req == IF t.sized /\ t.headers THEN {} ELSE {Req(r)}
           regrant == IF GrantedTo(r) > InitialGrant THEN {Grant(r, GrantedTo(r))} ELSE {}
           ranges == IF t.sized THEN LostRanges(r) ELSE {}
<1>1. r \in Live /\ server' = server /\ toClient' = toClient
  BY DEF Recover
<1>2. IsLive(t) /\ t \in TransferState /\ transfers \in [Rpc -> TransferState]
  BY <1>1 DEF TransferInv, TransfersOK, IsLive, Live
<1>3. CASE Exhausted(t)
  <2>1. Pumped(r, Finished(f, FALSE), {})
    BY <1>3 DEF Recover
  <2>2. MayBecome(r, Finished(f, FALSE))
    BY <1>2, GaveUpOK, MayEnd
  <2> HIDE DEF f
  <2> QED
    BY <1>1, <2>1, <2>2, PumpedAloneOK
<1>4. CASE ~Exhausted(t)
  <2>1. /\ transfers' = [transfers EXCEPT ![r] = f]
        /\ table' = table /\ arrivals' = arrivals
    BY <1>4 DEF Recover
  <2>2. PICK claimed \in SUBSET ranges :
          toServer' = toServer \cup req \cup regrant \cup Resends(r, claimed)
    BY <1>4 DEF Recover
  <2>3. \A m \in req \cup regrant : m \in Request /\ AllowsOK(m)
    BY GrantedToOK
  <2>4. \A g \in ranges : g.start \in Nat /\ g.end \in Nat
    BY LostRangesOK
  <2>5. t.recoveries \in Nat /\ t.recoveries + 1 <= MaxRecoveries /\ MaxRecoveries \in Nat
    BY <1>2, <1>4, TransferAssumption DEF TransferAssumption, TransferState, Exhausted
  <2>6. t.recoveries + 1 \in 0..MaxRecoveries + 1
    BY <2>5
  <2>7. /\ f.sized = t.sized /\ f.size = t.size /\ f.stage = "live" /\ f.got = t.got
        /\ f.headers = t.headers /\ f.settled = t.settled /\ f.emitted = t.emitted
        /\ f.taken = t.taken /\ f.reading = t.reading /\ f.body = t.body
        /\ f.paused = t.paused /\ f.recoveries = t.recoveries + 1 /\ f \in TransferState
    BY <1>2, <2>6, LiveIs DEF TransferState
  <2> HIDE DEF f, req, regrant, ranges
  <2>8. ArrivedOK(f) /\ StreamOK(f) /\ AnswerOK(f) /\ LiveOK(f)
    BY <1>2, <2>5, <2>7, LiveIs DEF ArrivedOK, StreamOK, AnswerOK, LiveOK
  <2>9. TransferOK(f)
    BY <2>7, <2>8, IsLiveIf DEF IsLive
  <2>10. \A m \in toServer' : m \in toServer \/ (m \in Request /\ AllowsOK(m))
    <3>1. \A m \in Resends(r, claimed) : m \in Request /\ AllowsOK(m)
      BY <2>4, ResendsOK
    <3> QED
      BY <2>2, <2>3, <3>1
  <2>11. /\ (f.stage = "live" /\ f.sized) <=> r \in Scheduling(transfers)
         /\ f.stage # "over" => NotOver(r)
    BY <1>1, <2>7 DEF Scheduling, NotOver, Live
  <2> QED
    BY <1>1, <2>1, <2>7, <2>9, <2>10, <2>11, RewriteOK
<1> QED
  BY <1>3, <1>4

\* What a read makes of a transfer: only the reader's side changes, and a reader that
\* is behind leaves the transfer paused.
ReadOK(t, f) ==
    /\ f \in TransferState /\ SameArrival(t, f) /\ StreamOK(f)
    /\ f.stage = t.stage /\ f.settled = t.settled /\ f.body = t.body
    /\ f.recoveries = t.recoveries /\ f.paused = t.paused /\ f.emitted = t.emitted
    /\ f.emitted - f.taken >= HighWaterMark => f.emitted - t.taken >= HighWaterMark

LEMMA PulledOK ==
    ASSUME TransferInv, NEW r \in Rpc, NEW f, ReadOK(transfers[r], f),
           HasStream(r), Pulled(r, f), server' = server, toClient' = toClient
    PROVE  Kept
<1> DEFINE t == transfers[r]
           g == [f EXCEPT !.paused = FALSE]
<1>1. /\ TransferOK(t) /\ t \in TransferState /\ transfers \in [Rpc -> TransferState]
      /\ TransfersOK /\ BooksOK
  BY DEF TransferInv, TransfersOK
<1>2. t.settled = "resolved" /\ Streaming
  BY DEF HasStream
<1>3. t.stage \in {"live", "over"}
  <2>1. t.stage # "idle"
    BY <1>1, <1>2 DEF TransferOK, NotStarted
  <2> QED
    BY <1>1, <2>1 DEF TransferState
<1>4. t.body = "open" => t.stage = "live"
  BY <1>1, <1>2, <1>3 DEF TransferOK, AnswerOK
<1>5. t.stage = "live" => t.body = "open"
  BY <1>1 DEF TransferOK, LiveOK
<1>6. ArrivedOK(f) /\ AnswerOK(f)
  BY <1>1, <1>2 DEF ReadOK, SameArrival, TransferOK, ArrivedOK, AnswerOK
<1>7. HighWaterMark \in Nat /\ f.emitted \in Nat /\ f.taken \in Nat /\ t.taken \in Nat
  BY <1>1, TransferAssumption DEF TransferAssumption, ReadOK, TransferState
<1>8. CASE f.paused /\ f.body = "open" /\ HasRoom(f)
  <2>1. Pumped(r, g, {}) /\ r \in Live
    BY <1>4, <1>8 DEF Pulled, Live, ReadOK
  <2>2. /\ g.sized = f.sized /\ g.size = f.size /\ g.stage = "live" /\ g.got = f.got
        /\ g.headers = f.headers /\ g.settled = f.settled /\ g.emitted = f.emitted
        /\ g.taken = f.taken /\ g.reading = f.reading /\ g.body = "open"
        /\ g.paused = FALSE /\ g.recoveries = f.recoveries /\ g \in TransferState
    BY <1>4, <1>8 DEF ReadOK, TransferState
  <2> HIDE DEF g
  <2>3. ArrivedOK(g)
    BY <1>6, <2>2 DEF ArrivedOK
  <2>4. StreamOK(g)
    BY <2>2 DEF StreamOK, ReadOK
  <2>5. AnswerOK(g)
    BY <1>6, <2>2 DEF AnswerOK
  <2>6. LiveOK(g)
    <3>1. ~(g.emitted - g.taken >= HighWaterMark)
      BY <1>7, <1>8, <2>2 DEF HasRoom
    <3>2. g.recoveries <= MaxRecoveries
      BY <1>1, <2>1, <2>2 DEF TransferOK, LiveOK, ReadOK, Live
    <3> QED
      BY <1>2, <2>2, <3>1, <3>2 DEF LiveOK, ReadOK
  <2>7. IsLive(g)
    BY <2>2, <2>3, <2>4, <2>5, <2>6, IsLiveIf
  <2>8. g.sized = t.sized /\ g.size = t.size /\ g.got = t.got
    BY <2>2 DEF ReadOK, SameArrival
  <2>9. MayBecome(r, g)
    BY <1>1, <2>1, <2>7, <2>8, MayStay
  <2> QED
    BY <2>1, <2>9, PumpedAloneOK
<1>9. CASE ~(f.paused /\ f.body = "open" /\ HasRoom(f))
  <2>1. /\ transfers' = [transfers EXCEPT ![r] = f]
        /\ table' = table /\ arrivals' = arrivals /\ toServer' = toServer
    BY <1>9 DEF Pulled
  <2>2. f.stage = "live" => LiveOK(f)
    <3> SUFFICES ASSUME f.stage = "live" PROVE LiveOK(f)
      OBVIOUS
    <3>1. LiveOK(t) /\ f.body = "open"
      BY <1>1, <1>5 DEF TransferOK, ReadOK
    <3>2. f.paused <=> f.emitted - f.taken >= HighWaterMark
      <4>1. f.paused => f.emitted - f.taken >= HighWaterMark
        BY <1>7, <1>9, <3>1 DEF HasRoom
      <4>2. f.emitted - f.taken >= HighWaterMark => f.paused
        BY <3>1 DEF LiveOK, ReadOK
      <4> QED
        BY <4>1, <4>2
    <3>3. f.settled = "resolved" /\ f.recoveries <= MaxRecoveries
      BY <1>2, <3>1 DEF LiveOK, ReadOK
    <3> QED
      BY <1>2, <3>1, <3>2, <3>3 DEF LiveOK
  <2>3. TransferOK(f)
    BY <1>3, <1>6, <2>2 DEF TransferOK, ReadOK
  <2>4. /\ (f.stage = "live" /\ f.sized) <=> r \in Scheduling(transfers)
        /\ f.stage # "over" => NotOver(r)
        /\ f.size = t.size /\ f.got = t.got
    BY DEF Scheduling, NotOver, ReadOK, SameArrival
  <2> QED
    BY <2>1, <2>3, <2>4, RewriteOK
<1> QED
  BY <1>8, <1>9

LEMMA ReadStep ==
    ASSUME TransferInv, NEW r \in Rpc, Read(r)
    PROVE  Kept
<1> DEFINE t == transfers[r]
<1>1. HasStream(r) /\ server' = server /\ toClient' = toClient
  BY DEF Read
<1>2. t \in TransferState /\ StreamOK(t)
  BY DEF TransferInv, TransfersOK, TransferOK
<1>3. t.emitted \in Nat /\ t.taken \in Nat /\ HighWaterMark \in Nat
  BY <1>2, TransferAssumption DEF TransferAssumption, TransferState
<1>4. ASSUME NEW k \in t.taken + 1..t.emitted, Pulled(r, [t EXCEPT !.taken = k])
      PROVE  Kept
  <2> DEFINE f == [t EXCEPT !.taken = k]
  <2>1. k \in Nat
    BY <1>3
  <2>2. /\ f.sized = t.sized /\ f.size = t.size /\ f.stage = t.stage /\ f.got = t.got
        /\ f.headers = t.headers /\ f.settled = t.settled /\ f.emitted = t.emitted
        /\ f.taken = k /\ f.reading = t.reading /\ f.body = t.body
        /\ f.paused = t.paused /\ f.recoveries = t.recoveries /\ f \in TransferState
    BY <1>2, <2>1 DEF TransferState
  <2> HIDE DEF f
  <2>3. StreamOK(f)
    BY <1>2, <1>3, <2>1, <2>2 DEF StreamOK
  <2>4. f.emitted - f.taken >= HighWaterMark => f.emitted - t.taken >= HighWaterMark
    BY <1>3, <2>1, <2>2
  <2>5. ReadOK(t, f)
    BY <2>2, <2>3, <2>4 DEF ReadOK, SameArrival
  <2> QED
    BY <1>1, <1>4, <2>5, PulledOK DEF f
<1>5. ASSUME t.taken = t.emitted, Pulled(r, [t EXCEPT !.reading = TRUE])
      PROVE  Kept
  <2> DEFINE f == [t EXCEPT !.reading = TRUE]
  <2>1. /\ f.sized = t.sized /\ f.size = t.size /\ f.stage = t.stage /\ f.got = t.got
        /\ f.headers = t.headers /\ f.settled = t.settled /\ f.emitted = t.emitted
        /\ f.taken = t.taken /\ f.reading = TRUE /\ f.body = t.body
        /\ f.paused = t.paused /\ f.recoveries = t.recoveries /\ f \in TransferState
    BY <1>2 DEF TransferState
  <2> HIDE DEF f
  <2>2. StreamOK(f)
    BY <1>2, <1>5, <2>1 DEF StreamOK
  <2>3. ReadOK(t, f)
    BY <2>1, <2>2 DEF ReadOK, SameArrival
  <2> QED
    BY <1>1, <1>5, <2>3, PulledOK DEF f
<1> QED
  BY <1>4, <1>5 DEF Read

LEMMA CancelStep ==
    ASSUME TransferInv, NEW r \in Rpc, Cancel(r)
    PROVE  Kept
<1> DEFINE t == transfers[r]
           g == [t EXCEPT !.body = "cancelled", !.stage = "over"]
<1>1. /\ Streaming /\ t.settled = "resolved" /\ t.body = "open"
      /\ Pumped(r, g, {}) /\ server' = server /\ toClient' = toClient
  BY DEF Cancel, HasStream
<1>2. TransferOK(t) /\ t \in TransferState
  BY DEF TransferInv, TransfersOK
<1>3. t.stage = "live"
  <2>1. t.stage # "idle" /\ t.stage # "over"
    BY <1>1, <1>2 DEF TransferOK, NotStarted, AnswerOK
  <2> QED
    BY <1>2, <2>1 DEF TransferState
<1>4. /\ g.sized = t.sized /\ g.size = t.size /\ g.stage = "over" /\ g.got = t.got
      /\ g.headers = t.headers /\ g.settled = t.settled /\ g.emitted = t.emitted
      /\ g.taken = t.taken /\ g.reading = t.reading /\ g.body = "cancelled"
      /\ g \in TransferState
  BY <1>2 DEF TransferState
<1> HIDE DEF g
<1>5. ArrivedOK(g) /\ StreamOK(g)
  BY <1>2, <1>4 DEF TransferOK, ArrivedOK, StreamOK
<1>6. AnswerOK(g)
  BY <1>1, <1>2, <1>4 DEF TransferOK, AnswerOK
<1>7. MayBecome(r, g)
  BY <1>4, <1>5, <1>6, MayEnd DEF TransferOK
<1>8. r \in Live
  BY <1>3 DEF Live
<1> QED
  BY <1>1, <1>7, <1>8, PumpedAloneOK

\* failAll: every live transfer has failed, and nothing is left on the network.
LEMMA SessionClosesStep ==
    ASSUME TransferInv, SessionCloses
    PROVE  Kept
<1>1. /\ transfers' = [r \in Rpc |-> IF r \in Live THEN Finished(transfers[r], FALSE)
                                     ELSE transfers[r]]
      /\ table' = Restrict(table, {}) /\ toServer' = {} /\ toClient' = {}
      /\ arrivals' = arrivals /\ server' = server
  BY DEF SessionCloses
<1>2. /\ \A r \in Rpc : TransferOK(transfers[r]) /\ transfers[r] \in TransferState
      /\ arrivals \in Nat /\ DOMAIN table = Scheduling(transfers)
      /\ server \in [Rpc -> [known : BOOLEAN, size : Nat, granted : Nat]]
      /\ \A r \in Rpc : ServesOK(r)
  BY DEF TransferInv, TransfersOK, BooksOK, WireOK
<1>3. ASSUME NEW r \in Rpc
      PROVE  /\ TransferOK(transfers'[r]) /\ transfers'[r].stage # "live"
             /\ transfers'[r].stage # "over" => transfers[r].stage = "idle"
  <2>1. CASE r \in Live
    <3>1. IsLive(transfers[r])
      BY <1>2, <2>1 DEF IsLive, Live
    <3>2. TransferOK(Finished(transfers[r], FALSE)) /\ Finished(transfers[r], FALSE).stage = "over"
      BY <3>1, FinishedOK
    <3> QED
      BY <1>1, <2>1, <3>2
  <2>2. CASE r \notin Live
    <3>1. transfers'[r] = transfers[r] /\ transfers[r].stage # "live"
      BY <1>1, <2>2 DEF Live
    <3>2. transfers[r].stage \in {"idle", "live", "over"}
      BY <1>2 DEF TransferState
    <3> QED
      BY <1>2, <3>1, <3>2
  <2> QED
    BY <2>1, <2>2
<1>4. TransfersOK'
  <2>1. \A r \in Rpc : transfers'[r] \in TransferState
    BY <1>3 DEF TransferOK, ArrivedOK
  <2>2. transfers' = [r \in Rpc |-> transfers'[r]]
    BY <1>1
  <2>3. transfers' \in [Rpc -> TransferState]
    BY <2>1, <2>2
  <2> QED
    BY <1>3, <2>3 DEF TransfersOK
<1>5. DOMAIN table' = {} /\ table' = [q \in {} |-> table[q]]
  BY <1>1 DEF Restrict
<1>6. Scheduling(transfers') = {}
  BY <1>3 DEF Scheduling
<1>7. TableOK(table')
  BY <1>5, FS_EmptySet DEF TableOK
<1>8. BooksOK'
  BY <1>1, <1>2, <1>5, <1>6, <1>7 DEF BooksOK, Ordered
<1>9. ASSUME NEW r \in Rpc PROVE ServesOK(r)'
  <2>1. server'[r] = server[r] /\ ServesOK(r) /\ Ceiling(r)' = InitialGrant
    BY <1>1, <1>2, <1>5 DEF Ceiling
  <2>2. NotOver(r)' => NotOver(r) /\ r \notin DOMAIN table
    BY <1>2, <1>3 DEF NotOver, Scheduling
  <2>3. r \notin DOMAIN table => Ceiling(r) = InitialGrant
    BY DEF Ceiling
  <2> QED
    BY <2>1, <2>2, <2>3 DEF ServesOK
<1>10. WireOK'
  BY <1>1, <1>2, <1>9 DEF WireOK
<1>11. InBudget
  BY <1>5 DEF InBudget
<1> QED
  BY <1>4, <1>8, <1>10, <1>11 DEF Kept

-----------------------------------------------------------------------------
(* The server and the network. *)

\* A step of the server: what it keeps of transfer r and what it sends.
LEMMA ServerAnswersOK ==
    ASSUME TransferInv, NEW r \in Rpc, NEW s, NEW sent, ServerAnswers(r, server[r], s, sent),
           s \in [known : BOOLEAN, size : Nat, granted : Nat],
           s.granted <= s.size, NotOver(r) => s.granted <= Ceiling(r),
           \A m \in sent : m \in Reply /\ CarriesOK(m),
           UNCHANGED <<transfers, table, arrivals>>, toServer' \subseteq toServer
    PROVE  Kept
<1>1. server' = [server EXCEPT ![r] = s] /\ toClient' = toClient \cup sent
  BY DEF ServerAnswers
<1>2. /\ server \in [Rpc -> [known : BOOLEAN, size : Nat, granted : Nat]]
      /\ \A q \in Rpc : ServesOK(q)
  BY DEF TransferInv, WireOK
<1>3. TransfersOK' /\ Scheduling(transfers') = Scheduling(transfers)
  BY DEF TransferInv, TransfersOK
<1>4. \A q \in Rpc : NotOver(q)' => NotOver(q)
  BY DEF NotOver
<1>5. server'[r] = s /\ \A q \in Rpc \ {r} : server'[q] = server[q]
  BY <1>1, <1>2
<1>6. \A q \in Rpc : /\ server'[q].granted <= server'[q].size
                     /\ NotOver(q) => server'[q].granted <= Ceiling(q)
  BY <1>2, <1>5 DEF ServesOK
<1>7. server' \in [Rpc -> [known : BOOLEAN, size : Nat, granted : Nat]]
  BY <1>1, <1>2
<1>8. \A m \in toClient' : m \in toClient \/ (m \in Reply /\ CarriesOK(m))
  BY <1>1
<1> QED
  BY <1>3, <1>4, <1>6, <1>7, <1>8, QuietOK

\* The datagrams of a range carry the bytes of that range and no others.
LEMMA DatagramsOK ==
    ASSUME NEW r \in Rpc, NEW size \in Nat, NEW start \in Nat, NEW end \in Nat,
           end <= size, NotOver(r) => end <= Ceiling(r), Ceiling(r) \in Nat
    PROVE  \A m \in Datagrams(r, size, start, end) : m \in Reply /\ CarriesOK(m)
<1> SUFFICES ASSUME NEW m \in Datagrams(r, size, start, end)
             PROVE  m \in Reply /\ CarriesOK(m)
  OBVIOUS
<1>1. PICK u \in start..(end - 1) :
        m = [kind |-> "DATA", rpc |-> r, size |-> size, start |-> u, end |-> u + 1]
  BY DEF Datagrams
<1>2. u \in Nat /\ u + 1 \in Nat /\ u + 1 <= end
  BY <1>1
<1>3. m \in Reply /\ m.end = u + 1 /\ m.rpc = r /\ m.size = size
  BY <1>1, <1>2 DEF Reply
<1> QED
  BY <1>2, <1>3 DEF CarriesOK

LEMMA CeilingNat == ASSUME TransferInv, NEW r \in Rpc PROVE Ceiling(r) \in Nat
<1>1. r \in DOMAIN table => table[r].granted \in Nat
  BY DEF TransferInv, BooksOK, TableOK, Entry
<1>2. InitialGrant \in Nat
  BY TransferAssumption DEF TransferAssumption
<1> QED
  BY <1>1, <1>2 DEF Ceiling, Larger

\* A REQ or a GRANT raises what the server may send to no more than was allowed.
LEMMA RaiseOK ==
    ASSUME TransferInv, NEW r \in Rpc, NEW s, NEW max \in Nat,
           s \in [known : BOOLEAN, size : Nat, granted : Nat],
           s.granted <= s.size, NotOver(r) => s.granted <= Ceiling(r),
           NotOver(r) => max <= Ceiling(r)
    PROVE  LET up == ServerRaise(r, s, max)
           IN  /\ up.state \in [known : BOOLEAN, size : Nat, granted : Nat]
               /\ up.state.size = s.size /\ up.state.granted <= s.size
               /\ NotOver(r) => up.state.granted <= Ceiling(r)
               /\ \A m \in up.sent : m \in Reply /\ CarriesOK(m)
<1> DEFINE up == ServerRaise(r, s, max)
           granted == Larger(s.granted, Smaller(max, s.size))
<1>1. up.state = [s EXCEPT !.granted = granted]
      /\ up.sent = Datagrams(r, s.size, s.granted, granted)
  BY DEF ServerRaise
<1>2. Ceiling(r) \in Nat /\ s.granted \in Nat /\ s.size \in Nat
  BY CeilingNat
<1>3. granted \in Nat /\ granted <= s.size /\ (NotOver(r) => granted <= Ceiling(r))
  BY <1>2 DEF Larger, Smaller
<1> HIDE DEF granted
<1>4. /\ up.state \in [known : BOOLEAN, size : Nat, granted : Nat]
      /\ up.state.size = s.size /\ up.state.granted = granted
  BY <1>1, <1>3
<1>5. \A m \in up.sent : m \in Reply /\ CarriesOK(m)
  BY <1>1, <1>2, <1>3, DatagramsOK
<1> QED
  BY <1>3, <1>4, <1>5

LEMMA MetaOK ==
    ASSUME NEW r \in Rpc
    PROVE  /\ Meta(r) \in Reply /\ CarriesOK(Meta(r))
           /\ Error(r) \in Reply /\ CarriesOK(Error(r))
  BY DEF Meta, Error, Reply, CarriesOK

LEMMA Packet0OK ==
    ASSUME TransferInv, NEW r \in Rpc, NEW size \in Nat, NEW granted \in Nat,
           NotOver(r) => granted <= Ceiling(r)
    PROVE  \A m \in Packet0(r, size, granted) : m \in Reply /\ CarriesOK(m)
<1>1. Ceiling(r) \in Nat
  BY CeilingNat
<1>2. CASE Smaller(granted, size) > 0
  <2>1. 1 <= size /\ (NotOver(r) => 1 <= Ceiling(r))
    BY <1>1, <1>2 DEF Smaller
  <2>2. Packet0(r, size, granted) = Datagrams(r, size, 0, 1)
    BY <1>2 DEF Packet0
  <2> QED
    BY <1>1, <2>1, <2>2, DatagramsOK
<1>3. CASE ~(Smaller(granted, size) > 0)
  BY <1>3 DEF Packet0, Reply, CarriesOK
<1> QED
  BY <1>2, <1>3

LEMMA ServerReqStep ==
    ASSUME TransferInv, NEW m \in toServer, m.kind = "REQ", ServerReq(m),
           UNCHANGED <<transfers, table, arrivals>>, toServer' \subseteq toServer
    PROVE  Kept
<1> DEFINE r == m.rpc
<1>1. /\ r \in Rpc /\ m.end \in Nat /\ AllowsOK(m)
      /\ server[r] \in [known : BOOLEAN, size : Nat, granted : Nat] /\ ServesOK(r)
  BY DEF TransferInv, WireOK, Request
<1>2. NotOver(r) => m.end <= Ceiling(r)
  BY <1>1 DEF AllowsOK
<1>3. Ceiling(r) \in Nat
  BY <1>1, CeilingNat
<1>4. ASSUME NEW s, s \in [known : BOOLEAN, size : Nat, granted : Nat],
             s.granted <= s.size, NotOver(r) => s.granted <= Ceiling(r),
             LET up == ServerRaise(r, s, m.end)
             IN  ServerAnswers(r, s, up.state, up.sent \cup {Meta(r)}
                                 \cup Packet0(r, s.size, up.state.granted))
      PROVE  Kept
  <2> DEFINE up == ServerRaise(r, s, m.end)
             sent == up.sent \cup {Meta(r)} \cup Packet0(r, s.size, up.state.granted)
  <2>1. /\ up.state \in [known : BOOLEAN, size : Nat, granted : Nat]
        /\ up.state.size = s.size /\ up.state.granted <= s.size
        /\ NotOver(r) => up.state.granted <= Ceiling(r)
        /\ \A k \in up.sent : k \in Reply /\ CarriesOK(k)
    BY <1>1, <1>2, <1>4, RaiseOK
  <2>2. ServerAnswers(r, server[r], up.state, sent)
    BY <1>4 DEF ServerAnswers
  <2> HIDE DEF up
  <2>3. \A k \in Packet0(r, s.size, up.state.granted) : k \in Reply /\ CarriesOK(k)
    BY <1>1, <1>4, <2>1, Packet0OK
  <2>4. \A k \in sent : k \in Reply /\ CarriesOK(k)
    BY <1>1, <2>1, <2>3, MetaOK
  <2> HIDE DEF sent, r
  <2> QED
    BY <1>1, <2>1, <2>2, <2>4, ServerAnswersOK
<1>5. CASE server[r].known
  BY <1>1, <1>4, <1>5 DEF ServerReq, ServesOK
<1>6. ASSUME NEW size \in Sizes,
             LET s == [known |-> TRUE, size |-> size, granted |-> 0]
                 up == ServerRaise(r, s, m.end)
             IN  ServerAnswers(r, s, up.state, up.sent \cup {Meta(r)}
                                 \cup Packet0(r, s.size, up.state.granted))
      PROVE  Kept
  <2> DEFINE s == [known |-> TRUE, size |-> size, granted |-> 0]
  <2>1. size \in Nat
    BY TransferAssumption DEF TransferAssumption
  <2>2. /\ s \in [known : BOOLEAN, size : Nat, granted : Nat]
        /\ s.granted <= s.size /\ s.granted <= Ceiling(r)
    BY <1>3, <2>1
  <2> HIDE DEF s
  <2> QED
    BY <1>4, <1>6, <2>2 DEF s
<1>7. CASE ServerAnswers(r, server[r], server[r], {Error(r)})
  <2> HIDE DEF r
  <2>1. \A k \in {Error(r)} : k \in Reply /\ CarriesOK(k)
    BY <1>1, MetaOK
  <2> QED
    BY <1>1, <1>7, <2>1, ServerAnswersOK DEF ServesOK
<1> QED
  BY <1>5, <1>6, <1>7 DEF ServerReq

LEMMA ServerReceiveStep ==
    ASSUME TransferInv, NEW m \in toServer, ServerReceive(m)
    PROVE  Kept
<1> DEFINE r == m.rpc
           s == server[r]
<1>1. /\ r \in Rpc /\ m.start \in Nat /\ m.end \in Nat /\ AllowsOK(m)
      /\ s \in [known : BOOLEAN, size : Nat, granted : Nat]
      /\ s.granted <= s.size /\ (NotOver(r) => s.granted <= Ceiling(r))
      /\ m.kind \in {"REQ", "GRANT", "RESEND"}
  BY DEF TransferInv, WireOK, Request, ServesOK
<1>2. UNCHANGED <<transfers, table, arrivals>> /\ toServer' \subseteq toServer
  BY DEF ServerReceive, Arrives
<1>3. \/ m.kind = "REQ" /\ ServerReq(m)
      \/ /\ m.kind = "GRANT"
         /\ LET up == ServerRaise(r, s, m.end) IN ServerAnswers(r, s, up.state, up.sent)
      \/ /\ m.kind = "RESEND"
         /\ ServerAnswers(r, s, s, Datagrams(r, s.size, m.start, Smaller(m.end, s.granted)))
      \/ ServerAnswers(r, s, s, {Error(r)})
  BY <1>1 DEF ServerReceive
<1>4. CASE m.kind = "REQ" /\ ServerReq(m)
  BY <1>2, <1>4, ServerReqStep
<1> HIDE DEF r
<1>5. CASE /\ m.kind = "GRANT"
           /\ LET up == ServerRaise(r, s, m.end) IN ServerAnswers(r, s, up.state, up.sent)
  <2> DEFINE up == ServerRaise(r, s, m.end)
  <2>1. NotOver(r) => m.end <= Ceiling(r)
    BY <1>1, <1>5 DEF AllowsOK, r
  <2>2. /\ up.state \in [known : BOOLEAN, size : Nat, granted : Nat]
        /\ up.state.size = s.size /\ up.state.granted <= s.size
        /\ NotOver(r) => up.state.granted <= Ceiling(r)
        /\ \A k \in up.sent : k \in Reply /\ CarriesOK(k)
    BY <1>1, <2>1, RaiseOK
  <2>3. ServerAnswers(r, s, up.state, up.sent)
    BY <1>5
  <2> HIDE DEF up
  <2> QED
    BY <1>1, <1>2, <2>2, <2>3, ServerAnswersOK
<1>6. CASE /\ m.kind = "RESEND"
           /\ ServerAnswers(r, s, s, Datagrams(r, s.size, m.start, Smaller(m.end, s.granted)))
  <2> DEFINE end  == Smaller(m.end, s.granted)
             sent == Datagrams(r, s.size, m.start, end)
  <2>1. Ceiling(r) \in Nat
    BY <1>1, CeilingNat
  <2>2. end \in Nat /\ end <= s.size /\ (NotOver(r) => end <= Ceiling(r))
    BY <1>1, <2>1 DEF Smaller
  <2> HIDE DEF end
  <2>3. \A k \in sent : k \in Reply /\ CarriesOK(k)
    BY <1>1, <2>1, <2>2, DatagramsOK
  <2>4. ServerAnswers(r, s, s, sent)
    BY <1>6 DEF end
  <2> HIDE DEF sent
  <2> QED
    BY <1>1, <1>2, <2>3, <2>4, ServerAnswersOK
<1>7. CASE ServerAnswers(r, s, s, {Error(r)})
  <2>1. \A k \in {Error(r)} : k \in Reply /\ CarriesOK(k)
    BY <1>1, MetaOK
  <2> QED
    BY <1>1, <1>2, <1>7, <2>1, ServerAnswersOK
<1> QED
  BY <1>3, <1>4, <1>5, <1>6, <1>7

LEMMA EvictStep ==
    ASSUME TransferInv, NEW r \in Rpc, Evict(r)
    PROVE  Kept
<1> DEFINE s == [server[r] EXCEPT !.known = FALSE]
           sent == {}
<1>1. /\ server[r] \in [known : BOOLEAN, size : Nat, granted : Nat]
      /\ server[r].granted <= server[r].size
      /\ NotOver(r) => server[r].granted <= Ceiling(r)
  BY DEF TransferInv, WireOK, ServesOK
<1>2. /\ s \in [known : BOOLEAN, size : Nat, granted : Nat]
      /\ s.granted = server[r].granted /\ s.size = server[r].size
  BY <1>1
<1>3. ServerAnswers(r, server[r], s, sent)
  BY DEF Evict, ServerAnswers
<1>4. UNCHANGED <<transfers, table, arrivals>> /\ toServer' \subseteq toServer
  BY DEF Evict
<1>5. \A m \in sent : m \in Reply /\ CarriesOK(m)
  OBVIOUS
<1> HIDE DEF s, sent
<1> QED
  BY <1>1, <1>2, <1>3, <1>4, <1>5, ServerAnswersOK

LEMMA LoseStep ==
    ASSUME TransferInv, Lose
    PROVE  Kept
<1>1. /\ transfers' = transfers /\ table' = table /\ arrivals' = arrivals /\ server' = server
      /\ toServer' \subseteq toServer /\ toClient' \subseteq toClient
  BY DEF Lose
<1>2. TransfersOK' /\ Scheduling(transfers') = Scheduling(transfers)
  BY <1>1 DEF TransferInv, TransfersOK
<1>3. \A q \in Rpc : NotOver(q)' => NotOver(q)
  BY <1>1 DEF NotOver
<1>4. /\ server \in [Rpc -> [known : BOOLEAN, size : Nat, granted : Nat]]
      /\ \A q \in Rpc : ServesOK(q)
  BY DEF TransferInv, WireOK
<1> QED
  BY <1>1, <1>2, <1>3, <1>4, QuietOK DEF ServesOK

-----------------------------------------------------------------------------
(* The theorems. *)

LEMMA StepKeeps == ASSUME TransferInv, Next PROVE Kept
<1>1. ASSUME NEW r \in Rpc, Client(r) \/ Evict(r) PROVE Kept
  BY <1>1, StartStep, DetectLossStep, TailProbeStep, RecoverStep, ReadStep, CancelStep,
     EvictStep DEF Client
<1>2. ASSUME NEW m \in toClient, Receive(m) PROVE Kept
  BY <1>2, ReceiveStep
<1>3. ASSUME NEW m \in toServer, ServerReceive(m) PROVE Kept
  BY <1>3, ServerReceiveStep
<1> QED
  BY <1>1, <1>2, <1>3, SessionClosesStep, LoseStep DEF Next

\* The counters of what the network has done stay within their bounds.
LEMMA CountersStep ==
    ASSUME TransferInv, Next
    PROVE  open' \in BOOLEAN /\ losses' \in 0..MaxLosses /\ duplicates' \in 0..MaxDuplicates
<1>1. /\ open \in BOOLEAN /\ losses \in 0..MaxLosses /\ duplicates \in 0..MaxDuplicates
      /\ MaxLosses \in Nat /\ MaxDuplicates \in Nat
  BY TransferAssumption DEF TransferInv, TransferAssumption
<1>2. ASSUME NEW r \in Rpc, Client(r) \/ Evict(r)
      PROVE  UNCHANGED <<open, losses, duplicates>>
  BY <1>2 DEF Client, Start, DetectLoss, TailProbe, Recover, Read, Cancel, Evict
<1>3. ASSUME NEW m, NEW c, NEW d, Arrives(m, c, d)
      PROVE  duplicates' \in 0..MaxDuplicates
  BY <1>1, <1>3 DEF Arrives
<1>4. ASSUME NEW m \in toClient, Receive(m)
      PROVE  UNCHANGED <<open, losses>> /\ duplicates' \in 0..MaxDuplicates
  BY <1>3, <1>4 DEF Receive
<1>5. ASSUME NEW m \in toServer, ServerReceive(m)
      PROVE  UNCHANGED <<open, losses>> /\ duplicates' \in 0..MaxDuplicates
  BY <1>3, <1>5 DEF ServerReceive
<1>6. ASSUME SessionCloses PROVE open' \in BOOLEAN /\ UNCHANGED <<losses, duplicates>>
  BY <1>6 DEF SessionCloses
<1>7. ASSUME Lose PROVE losses' \in 0..MaxLosses /\ UNCHANGED <<open, duplicates>>
  BY <1>1, <1>7 DEF Lose
<1> QED
  BY <1>1, <1>2, <1>4, <1>5, <1>6, <1>7 DEF Next

\* Transfers, scheduler and server keep to the invariant through every callback,
\* every answer of the server and all that the network may lose, repeat or reorder.
THEOREM TransferInvariant == Spec => []TransferInv
<1>1. ASSUME TransferInv, [Next]_vars PROVE TransferInv'
  <2>1. CASE Next
    BY <1>1, <2>1, StepKeeps, CountersStep DEF Kept, TransferInv
  <2>2. CASE UNCHANGED vars
    <3>1. /\ open' = open /\ losses' = losses /\ duplicates' = duplicates
          /\ transfers' = transfers /\ table' = table /\ arrivals' = arrivals
          /\ server' = server /\ toServer' = toServer /\ toClient' = toClient
      BY <2>2 DEF vars
    <3>2. \A q \in Rpc : NotOver(q)' => NotOver(q)
      BY <3>1 DEF NotOver
    <3>3. TransfersOK' /\ Scheduling(transfers') = Scheduling(transfers)
      BY <1>1, <3>1 DEF TransferInv, TransfersOK
    <3>4. /\ server \in [Rpc -> [known : BOOLEAN, size : Nat, granted : Nat]]
          /\ \A q \in Rpc : ServesOK(q)
      BY <1>1 DEF TransferInv, WireOK
    <3>5. Kept
      BY <1>1, <3>1, <3>2, <3>3, <3>4, QuietOK DEF ServesOK
    <3> QED
      BY <1>1, <3>1, <3>5 DEF Kept, TransferInv
  <2> QED
    BY <1>1, <2>1, <2>2
<1> QED
  BY <1>1, InitInv, PTL DEF Spec

\* Every variable holds what the code's types allow.
THEOREM Typed == Spec => []TypeOK
<1>1. TransferInv => TypeOK
  BY DEF TransferInv, TransfersOK, BooksOK, TableOK, Scheduling, WireOK, TypeOK
<1> QED
  BY <1>1, TransferInvariant, PTL

\* No caller is given a truncated body, whatever the network does (finish: a
\* request resolves and a stream closes only when all of the body is there).
THEOREM NothingTruncatedHolds == Spec => []NothingTruncated
<1>1. TransferInv => NothingTruncated
  <2> SUFFICES ASSUME TransferInv, NEW r \in Rpc
               PROVE  LET t == transfers[r] IN
                      /\ t.settled = "resolved" => t.sized /\ t.headers
                      /\ t.settled = "resolved" /\ ~Streaming => t.got = 0..(t.size - 1)
                      /\ t.body = "closed" => t.got = 0..(t.size - 1) /\ t.emitted = t.size
    BY DEF NothingTruncated
  <2>1. AnswerOK(transfers[r]) /\ StreamOK(transfers[r])
    BY DEF TransferInv, TransfersOK, TransferOK
  <2> QED
    BY <2>1 DEF AnswerOK, StreamOK
<1> QED
  BY <1>1, TransferInvariant, PTL

\* What a stream queues is the gap-free prefix, and its reader reads no more
\* (flushStream).
THEOREM StreamIsPrefixHolds == Spec => []StreamIsPrefix
<1>1. TransferInv => StreamIsPrefix
  BY DEF TransferInv, TransfersOK, TransferOK, StreamOK, StreamIsPrefix
<1> QED
  BY <1>1, TransferInvariant, PTL

\* A transfer that is over has answered its caller: finish settles it, and a
\* cancelled one had given its caller the stream.
THEOREM AnsweredHolds == Spec => []Answered
<1>1. TransferInv => Answered
  BY DEF TransferInv, TransfersOK, TransferOK, AnswerOK, Answered
<1> QED
  BY <1>1, TransferInvariant, PTL

\* The server believes in no grant the client has not made, and the client holds no
\* byte it has not granted.
THEOREM GrantsAgreeHolds == Spec => []GrantsAgree
<1>1. TransferInv => GrantsAgree
  <2> SUFFICES ASSUME TransferInv, NEW r \in DOMAIN table
               PROVE  /\ server[r].size = table[r].size
                            => server[r].granted <= table[r].granted
                      /\ transfers[r].got \subseteq 0..(table[r].granted - 1)
    BY DEF GrantsAgree
  <2>1. r \in Rpc /\ Follows(table[r], transfers[r]) /\ NotOver(r)
    BY DEF TransferInv, BooksOK, Scheduling, NotOver
  <2>2. /\ server[r].granted <= server[r].size
        /\ server[r].granted <= Larger(InitialGrant, table[r].granted)
    BY <2>1 DEF TransferInv, WireOK, ServesOK, Ceiling
  <2>3. table[r].granted >= Smaller(InitialGrant, table[r].size)
    BY <2>1 DEF Follows
  <2>4. /\ InitialGrant \in Nat /\ table[r].granted \in Nat /\ table[r].size \in Nat
        /\ server[r].granted \in Nat
    BY <2>1, TransferAssumption
    DEF TransferAssumption, TransferInv, BooksOK, TableOK, Entry, WireOK
  <2>5. server[r].size = table[r].size => server[r].granted <= table[r].granted
    BY <2>2, <2>3, <2>4 DEF Smaller, Larger
  <2> QED
    BY <2>1, <2>5 DEF Follows
<1> QED
  BY <1>1, TransferInvariant, PTL

\* A transfer is paused exactly while its reader is behind by the high-water mark:
\* no pull is missed (flushStream and pull).
THEOREM PausedWhenBehindHolds == Spec => []PausedWhenBehind
<1>1. TransferInv => PausedWhenBehind
  BY DEF TransferInv, TransfersOK, TransferOK, LiveOK, Live, PausedWhenBehind
<1> QED
  BY <1>1, TransferInvariant, PTL

\* No round of grants commits more than the budget, the initial grants of transfers
\* of unknown size included (pumpGrants).
THEOREM GrantsWithinBudgetHolds == Spec => GrantsWithinBudget
<1>1. TransferInv /\ [Next]_vars => [InBudget]_vars
  BY StepKeeps DEF Kept
<1>2. GrantsWithinBudget <=> [][InBudget]_vars
  BY PTL DEF GrantsWithinBudget, InBudget
<1> HIDE DEF InBudget
<1> QED
  BY <1>1, <1>2, TransferInvariant, PTL DEF Spec
=============================================================================
