-------------------------- MODULE SeqRepairProofs --------------------------
(***************************************************************************)
(* What is proved about module SeqRepair for every value of its constants: *)
(* its type invariant, that the tracker's books balance, and that a unit   *)
(* goes out again only for a number that the client found missing.         *)
(*                                                                         *)
(* The invariant has a part for each party.  The tracker is well formed;   *)
(* its books, what has arrived, was jumped over or forgotten account for   *)
(* every number below the highest; whatever it asks for, in flight or      *)
(* waiting to be asked for again, was found missing; the server's ring,    *)
(* its queue of numbers to resend and what each number carried agree.      *)
(* ResentOnlyIfAsked is not inductive: it says nothing of the resends that *)
(* are queued.  OnceEach counts them too, and pays for each with a number  *)
(* that was asked for and that the ring no longer offers to resend.        *)
(***************************************************************************)
EXTENDS SeqRepair, FiniteSetTheorems, TLAPS

-----------------------------------------------------------------------------
(* The invariant. *)

Books(t) == DOMAIN t.missing \cup DOMAIN t.claimed \cup t.settled

TrackerOK(t) ==
    /\ DOMAIN t = {"highest", "last", "missing", "claimed", "tries", "settled"}
    /\ t.highest \in -1..MaxSeq - 1 /\ t.last \in Hint \cup {NoHint}
    /\ Books(t) \subseteq 0..t.highest - 1
    /\ DOMAIN t.missing \cap DOMAIN t.claimed = {}
    /\ (DOMAIN t.missing \cup DOMAIN t.claimed) \cap t.settled = {}
    /\ DOMAIN t.tries = DOMAIN t.claimed
    /\ \A q \in DOMAIN t.tries : t.tries[q] \in 1..Tries

\* What is in the books no more, or never was.
Gone == seen \cup jumped \cup forgotten

BooksBalance ==
    /\ 0..tracker.highest \subseteq Gone \cup Books(tracker)
    /\ Books(tracker) \cap Gone = {}
    /\ Gone \subseteq 0..tracker.highest

AskedFor ==
    /\ DOMAIN tracker.claimed \subseteq asked /\ tracker.settled \subseteq asked
    /\ forgotten \subseteq asked
    /\ \A s \in toServer : s.start..s.end - 1 \subseteq asked

ClientOK == got \in [Rpc -> SUBSET (0..Size - 1)] /\ over \subseteq Rpc

NetworkOK == toClient \subseteq Packet /\ toServer \subseteq Span

ServerOK ==
    /\ next \in [Rpc -> 0..Size] /\ nextSeq \in 0..MaxSeq
    /\ owed \subseteq 0..nextSeq - 1
    /\ ring \in [0..RingSize - 1 -> Slot]
    /\ \A i \in DOMAIN ring :
         ring[i].valid => ring[i].seq < nextSeq /\ ring[i].seq % RingSize = i
    /\ DOMAIN carried = 0..nextSeq - 1
    /\ \A q \in DOMAIN carried : /\ carried[q] \in Unit
                                 /\ carried[q].off < next[carried[q].rpc]

\* The ring would still resend what q carried.
Offered(q) == LET e == ring[q % RingSize] IN e.valid /\ e.seq = q /\ ~e.resent
Paid(u)    == {q \in Carriers(u) \cap asked : ~Offered(q)}

OnceEach ==
    \A u \in Unit : Carriers(u) # {} =>
        Cardinality(Carriers(u)) + Cardinality(owed \cap Carriers(u))
            <= 1 + Cardinality(Paid(u))

SeqInv ==
    /\ TrackerOK(tracker) /\ BooksBalance /\ AskedFor
    /\ ClientOK /\ NetworkOK /\ ServerOK /\ OnceEach

-----------------------------------------------------------------------------
(* The tracker's operators. *)

\* Arrived settles the books: a late number leaves them, the numbers jumped
\* to are entered, unless they are too many.
LEMMA ArrivedIs ==
    ASSUME SeqRepairAssumption, NEW t, TrackerOK(t), NEW seq \in Number, NEW where \in Hint
    PROVE  /\ TrackerOK(Arrived(t, seq, where))
           /\ Arrived(t, seq, where).highest = IF seq <= t.highest THEN t.highest ELSE seq
           /\ DOMAIN Arrived(t, seq, where).claimed \subseteq DOMAIN t.claimed
           /\ Arrived(t, seq, where).settled \subseteq t.settled
           /\ Books(Arrived(t, seq, where)) =
                IF seq <= t.highest THEN Books(t) \ {seq}
                ELSE IF Jumps(t, seq) THEN Books(t) ELSE Books(t) \cup Between(t, seq)
<1> DEFINE a == Arrived(t, seq, where)
<1>1. CASE seq <= t.highest
  <2>1. a = Struck(t, seq)
    BY <1>1 DEF Arrived
  <2>2. /\ DOMAIN a = DOMAIN t /\ a.highest = t.highest /\ a.last = t.last
        /\ DOMAIN a.missing = DOMAIN t.missing \ {seq}
        /\ DOMAIN a.claimed = DOMAIN t.claimed \ {seq}
        /\ a.tries = [q \in DOMAIN t.tries \ {seq} |-> t.tries[q]]
        /\ a.settled = t.settled \ {seq}
    BY <2>1 DEF Struck, Restrict, TrackerOK
  <2> QED
    BY <1>1, <2>2 DEF TrackerOK, Books
<1>2. CASE seq > t.highest
  <2>1. /\ DOMAIN a = DOMAIN t /\ a.highest = seq /\ a.last = where
        /\ a.claimed = t.claimed /\ a.tries = t.tries /\ a.settled = t.settled
        /\ DOMAIN a.missing = IF Jumps(t, seq) THEN DOMAIN t.missing
                              ELSE DOMAIN t.missing \cup Between(t, seq)
    BY <1>2 DEF Arrived, Entered, TrackerOK, Number, Jumps
  <2>2. Between(t, seq) \cap Books(t) = {} /\ Between(t, seq) \subseteq 0..seq - 1
    BY <1>2, SMT DEF Between, TrackerOK, SeqRepairAssumption, Number
  <2>3. Books(t) \subseteq 0..seq - 1
    BY <1>2, SMT DEF TrackerOK, SeqRepairAssumption, Number
  <2>4. a.highest \in -1..MaxSeq - 1
    BY <2>1 DEF Number, SeqRepairAssumption
  <2>5. Books(a) = IF Jumps(t, seq) THEN Books(t) ELSE Books(t) \cup Between(t, seq)
    BY <2>1 DEF Books
  <2>6. DOMAIN t.missing \subseteq Books(t) /\ DOMAIN t.claimed \subseteq Books(t)
        /\ t.settled \subseteq Books(t)
    BY DEF Books
  <2>7. TrackerOK(a)
    BY <2>1, <2>2, <2>3, <2>4, <2>5, <2>6 DEF TrackerOK
  <2> QED
    BY <1>2, <2>1, <2>5, <2>7 DEF TrackerOK, Number
<1> QED
  BY <1>1, <1>2 DEF TrackerOK, Number

\* detectSeqLoss asks only for numbers it found missing, now or before.
LEMMA DetectedKeeps ==
    ASSUME SeqRepairAssumption, NEW t, TrackerOK(t), DOMAIN t.claimed \subseteq asked,
           t.settled \subseteq asked, forgotten \subseteq asked,
           \A s \in toServer : s.start..s.end - 1 \subseteq asked, toServer \subseteq Span,
           NEW lost \in SUBSET DOMAIN t.missing, NEW due \in SUBSET DOMAIN t.claimed,
           Detected(t, lost, due)
    PROVE  /\ TrackerOK(tracker') /\ tracker'.highest = t.highest
           /\ Books(tracker') \subseteq Books(t)
           /\ forgotten' = forgotten \cup (Books(t) \ Books(tracker'))
           /\ AskedFor' /\ toServer' \subseteq Span /\ asked \subseteq asked'
<1>0. PICK old \in Forgettable(t, due) :
             /\ tracker' = Claimed(Repeated(t, due, old), lost)
             /\ toServer' = toServer \cup ResendSeqs(lost, tracker'.tries)
                                     \cup ResendSeqs(Again(t, due), tracker'.tries)
             /\ asked' = asked \cup lost /\ forgotten' = forgotten \cup old
  BY DEF Detected
\* Detection moves numbers between the books, and takes out what repeats forgets.
<1>1. /\ TrackerOK(tracker') /\ tracker'.highest = t.highest /\ Books(tracker') = Books(t) \ old
      /\ old \subseteq Books(t) /\ old \subseteq asked
      /\ DOMAIN tracker'.claimed \subseteq DOMAIN t.claimed \cup lost
      /\ tracker'.settled \subseteq asked
  <2> DEFINE done == GivenUp(t, due)
             r    == Repeated(t, due, old)
             t2   == Claimed(r, lost)
  <2>0. old \subseteq t.settled \cup done
    BY DEF Forgettable
  <2>1. done \subseteq due /\ \A q \in due \ done : t.tries[q] < Tries
    BY DEF GivenUp, TrackerOK, SeqRepairAssumption
  <2>2. /\ DOMAIN r = DOMAIN t /\ r.highest = t.highest /\ r.last = t.last
        /\ r.missing = t.missing /\ DOMAIN r.claimed = DOMAIN t.claimed \ done
        /\ r.tries = [q \in DOMAIN t.tries \ done |->
                         IF q \in due THEN t.tries[q] + 1 ELSE t.tries[q]]
        /\ r.settled = (t.settled \cup done) \ old
    BY DEF Repeated, Restrict, TrackerOK
  <2>3. \A q \in DOMAIN r.tries : r.tries[q] \in 1..Tries
    BY <2>1, <2>2 DEF TrackerOK, SeqRepairAssumption
  <2>4. TrackerOK(r) /\ Books(r) = Books(t) \ old
    <3> HIDE DEF r, done
    <3>1. Books(r) = Books(t) \ old
      BY <2>0, <2>1, <2>2 DEF TrackerOK, Books, done
    <3>2. /\ DOMAIN r.missing \cap DOMAIN r.claimed = {} /\ DOMAIN r.tries = DOMAIN r.claimed
          /\ (DOMAIN r.missing \cup DOMAIN r.claimed) \cap r.settled = {}
      BY <2>1, <2>2 DEF TrackerOK
    <3> QED
      BY <2>2, <2>3, <3>1, <3>2 DEF TrackerOK
  <2> HIDE DEF r
  <2>5. /\ DOMAIN t2 = DOMAIN r /\ t2.highest = r.highest /\ t2.last = r.last
        /\ DOMAIN t2.missing = DOMAIN r.missing \ lost
        /\ DOMAIN t2.claimed = DOMAIN r.claimed \cup lost
        /\ t2.tries = Entered(r.tries, [q \in lost |-> 1])
        /\ t2.settled = r.settled
    BY <2>4 DEF Claimed, Restrict, Entered, TrackerOK, r
  <2>6. DOMAIN t2.tries = DOMAIN r.tries \cup lost
        /\ \A q \in DOMAIN t2.tries : t2.tries[q] \in 1..Tries
    BY <2>3, <2>5 DEF Entered, SeqRepairAssumption
  <2>7. TrackerOK(t2) /\ Books(t2) = Books(r)
    BY <2>2, <2>4, <2>5, <2>6 DEF TrackerOK, Books
  <2>8. old \subseteq Books(t) /\ old \subseteq t.settled \cup DOMAIN t.claimed
    BY <2>0, <2>1 DEF Books
  <2>9. r.settled \subseteq t.settled \cup DOMAIN t.claimed
    BY <2>1, <2>2
  <2>10. tracker' = t2
    BY <1>0 DEF r
  <2> HIDE DEF t2
  <2> QED
    BY <2>2, <2>4, <2>5, <2>7, <2>8, <2>9, <2>10
<1>2. /\ asked' = asked \cup lost
      /\ forgotten' = forgotten \cup (Books(t) \ Books(tracker'))
  BY <1>0, <1>1
<1>3. lost \subseteq Number /\ Again(t, due) \subseteq Number /\ Again(t, due) \subseteq asked
  BY DEF TrackerOK, Books, Again, Number, SeqRepairAssumption
<1>4. ASSUME NEW s \in toServer', s \notin toServer
      PROVE  s \in Span /\ s.start..s.end - 1 \subseteq asked'
  <2>1. PICK qs \in {lost, Again(t, due)} : s \in ResendSeqs(qs, tracker'.tries)
    BY <1>0, <1>4
  <2>2. /\ s \in [start : qs, end : 1..MaxSeq, try : 1..Tries]
        /\ s.start..s.end - 1 \subseteq qs
    BY <2>1 DEF ResendSeqs
  <2> QED
    BY <1>2, <1>3, <2>1, <2>2 DEF Span
<1>5. AskedFor'
  BY <1>0, <1>1, <1>2, <1>4 DEF AskedFor
<1> QED
  BY <1>1, <1>2, <1>4, <1>5

LEMMA DetectKeeps ==
    ASSUME SeqRepairAssumption, NEW t, TrackerOK(t), DOMAIN t.claimed \subseteq asked,
           t.settled \subseteq asked, forgotten \subseteq asked,
           \A s \in toServer : s.start..s.end - 1 \subseteq asked, toServer \subseteq Span,
           DetectSeqLoss(t)
    PROVE  /\ TrackerOK(tracker') /\ tracker'.highest = t.highest
           /\ Books(tracker') \subseteq Books(t)
           /\ forgotten' = forgotten \cup (Books(t) \ Books(tracker'))
           /\ AskedFor' /\ toServer' \subseteq Span /\ asked \subseteq asked'
<1>1. PICK lost \in Lost(t), due \in SUBSET DOMAIN t.claimed : Detected(t, lost, due)
  BY DEF DetectSeqLoss
<1>2. lost \in SUBSET DOMAIN t.missing
  BY DEF Lost
<1> QED
  BY <1>1, <1>2, DetectedKeeps

-----------------------------------------------------------------------------
(* What each unit's numbers cost. *)

LEMMA CarriersFinite ==
    ASSUME SeqRepairAssumption, ServerOK, NEW u
    PROVE  /\ IsFiniteSet(Carriers(u)) /\ Carriers(u) \subseteq 0..nextSeq - 1
           /\ IsFiniteSet(Paid(u)) /\ Paid(u) \subseteq Carriers(u)
           /\ Paid(u) \subseteq Carriers(u) \cap asked
           /\ IsFiniteSet(owed \cap Carriers(u)) /\ IsFiniteSet(Carriers(u) \cap asked)
<1>1. IsFiniteSet(0..nextSeq - 1)
  BY FS_Interval DEF ServerOK, SeqRepairAssumption
<1>2. Carriers(u) \subseteq 0..nextSeq - 1 /\ Paid(u) \subseteq Carriers(u) \cap asked
  BY DEF Carriers, Paid, ServerOK
<1> QED
  BY <1>1, <1>2, FS_Subset

\* The books of the server stay as they are when only the client moves.
LEMMA MoreAsked ==
    ASSUME SeqRepairAssumption, ServerOK, ServerOK', OnceEach,
           carried' = carried, owed' = owed, ring' = ring, asked \subseteq asked'
    PROVE  OnceEach'
<1> SUFFICES ASSUME NEW u \in Unit, Carriers(u)' # {}
             PROVE  Cardinality(Carriers(u)') + Cardinality((owed \cap Carriers(u))')
                        <= 1 + Cardinality(Paid(u)')
  BY DEF OnceEach, Unit
<1>1. Carriers(u)' = Carriers(u) /\ (owed \cap Carriers(u))' = owed \cap Carriers(u)
  BY DEF Carriers
<1>2. Paid(u) \subseteq Paid(u)'
  BY DEF Paid, Carriers, Offered
<1>3. IsFiniteSet(Paid(u)') /\ IsFiniteSet(Paid(u))
  <2>1. IsFiniteSet(Carriers(u)) /\ IsFiniteSet(Paid(u))
    BY CarriersFinite
  <2>2. Paid(u)' \subseteq Carriers(u)'
    BY DEF Paid, Carriers
  <2> QED
    BY <2>1, <2>2, <1>1, FS_Subset
<1>4. Cardinality(Paid(u)) <= Cardinality(Paid(u)')
  BY <1>2, <1>3, FS_Subset
<1>5. /\ Cardinality(Carriers(u)) \in Nat /\ Cardinality(owed \cap Carriers(u)) \in Nat
      /\ Cardinality(Paid(u)) \in Nat /\ Cardinality(Paid(u)') \in Nat
  BY <1>3, CarriersFinite, FS_CardinalityType
<1>6. Cardinality(Carriers(u)) + Cardinality(owed \cap Carriers(u)) <= 1 + Cardinality(Paid(u))
  BY <1>1 DEF OnceEach
<1> QED
  BY <1>1, <1>4, <1>5, <1>6

-----------------------------------------------------------------------------
(* The steps. *)

LEMMA InitSeqInv ==
    ASSUME SeqRepairAssumption, Init
    PROVE  SeqInv
<1>1. TrackerOK(tracker) /\ BooksBalance /\ AskedFor
  BY DEF Init, TrackerOK, Books, BooksBalance, Gone, AskedFor, Empty, SeqRepairAssumption
<1>2. ClientOK /\ NetworkOK
  BY DEF Init, ClientOK, NetworkOK
<1>3. ServerOK
  BY DEF Init, ServerOK, Slot, Number, SeqRepairAssumption
<1>4. OnceEach
  BY DEF Init, OnceEach, Carriers
<1> QED
  BY <1>1, <1>2, <1>3, <1>4 DEF SeqInv

\* B are the books up to h and S is what is gone; q arrives beyond a gap, of which
\* K is entered and L jumped over.
LEMMA NewBalance ==
    ASSUME NEW h \in Int, NEW q \in Nat, q > h, h >= -1, NEW B, NEW S, NEW K, NEW L,
           0..h \subseteq S \cup B, B \cap S = {}, S \subseteq 0..h, B \subseteq 0..h - 1,
           K \cup L = h + 1..q - 1, K \cap L = {}
    PROVE  /\ 0..q \subseteq (S \cup L \cup {q}) \cup (B \cup K)
           /\ (B \cup K) \cap (S \cup L \cup {q}) = {}
           /\ S \cup L \cup {q} \subseteq 0..q
<1>1. \A n \in 0..q : n \in 0..h \/ n \in h + 1..q - 1 \/ n = q
  OBVIOUS
<1>2. K \subseteq h + 1..q - 1 /\ L \subseteq h + 1..q - 1
  OBVIOUS
<1>3. 0..h \cap h + 1..q - 1 = {} /\ q \notin 0..h /\ q \notin h + 1..q - 1
  OBVIOUS
<1>4. B \subseteq 0..h
  OBVIOUS
<1>5. (B \cup K) \cap (S \cup L \cup {q}) = {}
  BY <1>2, <1>3, <1>4
<1>6. 0..h \subseteq 0..q /\ h + 1..q - 1 \subseteq 0..q /\ q \in 0..q
  OBVIOUS
<1>7. S \cup L \cup {q} \subseteq 0..q
  BY <1>2, <1>6
<1>8. 0..q \subseteq (S \cup L \cup {q}) \cup (B \cup K)
  <2> SUFFICES ASSUME NEW n \in 0..q
               PROVE  n \in (S \cup L \cup {q}) \cup (B \cup K)
    OBVIOUS
  <2>1. CASE n \in 0..h
    BY <2>1
  <2>2. CASE n \in h + 1..q - 1
    BY <2>2
  <2> QED
    BY <1>1, <2>1, <2>2
<1> QED
  BY <1>5, <1>7, <1>8

\* What repeats forgets moves from the books to what is gone.
LEMMA ForgetBalance ==
    ASSUME NEW R, NEW B, NEW S, NEW F, NEW C, C \subseteq B, F = B \ C,
           R \subseteq S \cup B, B \cap S = {}, S \subseteq R, B \subseteq R
    PROVE  R \subseteq (S \cup F) \cup C /\ C \cap (S \cup F) = {} /\ S \cup F \subseteq R
  OBVIOUS

\* handle.
LEMMA ReceiveStep ==
    ASSUME SeqRepairAssumption, SeqInv, NEW m \in toClient, Receive(m)
    PROVE  SeqInv'
<1> DEFINE where == [rpc |-> m.unit.rpc, start |-> m.unit.off, end |-> m.unit.off + 1]
           t     == Arrived(tracker, m.seq, where)
           r     == m.unit.rpc
<1>1. m \in Packet /\ m.seq \in Number /\ m.unit \in Unit /\ r \in Rpc /\ m.unit.off \in 0..Size - 1
  BY DEF SeqInv, NetworkOK, Packet, Unit
<1>2. where \in Hint
  BY <1>1 DEF Hint, SeqRepairAssumption
<1>3. /\ TrackerOK(t)
      /\ t.highest = IF m.seq <= tracker.highest THEN tracker.highest ELSE m.seq
      /\ DOMAIN t.claimed \subseteq DOMAIN tracker.claimed
      /\ t.settled \subseteq tracker.settled
      /\ Books(t) = IF m.seq <= tracker.highest THEN Books(tracker) \ {m.seq}
                    ELSE IF Jumps(tracker, m.seq) THEN Books(tracker)
                    ELSE Books(tracker) \cup Between(tracker, m.seq)
  <2> HIDE DEF where
  <2> QED
    BY <1>1, <1>2, ArrivedIs DEF SeqInv
<1>4. /\ DetectSeqLoss(t) \/ (tracker' = t /\ UNCHANGED <<toServer, asked, misled, forgotten>>)
      /\ seen' = seen \cup {m.seq}
      /\ jumped' = IF m.seq > tracker.highest /\ Jumps(tracker, m.seq)
                   THEN jumped \cup Between(tracker, m.seq) ELSE jumped
      /\ toClient' \subseteq toClient
      /\ UNCHANGED <<next, owed, ring, nextSeq, carried>>
  BY DEF Receive, Delivered, server
<1>5. ClientOK'
  <2>1. \/ got' = got /\ over' = over
        \/ /\ got' = [got EXCEPT ![r] = got[r] \cup {m.unit.off}]
           /\ over' = over \/ over' = over \cup {r}
    BY DEF Receive
  <2> QED
    BY <1>1, <2>1 DEF ClientOK, SeqInv
<1> HIDE DEF t
<1>6. /\ TrackerOK(tracker') /\ tracker'.highest = t.highest
      /\ Books(tracker') \subseteq Books(t)
      /\ forgotten' = forgotten \cup (Books(t) \ Books(tracker'))
      /\ AskedFor' /\ toServer' \subseteq Span /\ asked \subseteq asked'
  <2>1. /\ DOMAIN t.claimed \subseteq asked /\ toServer \subseteq Span
        /\ t.settled \subseteq asked /\ forgotten \subseteq asked
        /\ \A s \in toServer : s.start..s.end - 1 \subseteq asked
    BY <1>3 DEF SeqInv, AskedFor, NetworkOK
  <2>2. CASE DetectSeqLoss(t)
    BY <1>3, <2>1, <2>2, DetectKeeps
  <2>3. CASE tracker' = t /\ UNCHANGED <<toServer, asked, misled, forgotten>>
    BY <1>3, <2>1, <2>3 DEF AskedFor
  <2> QED
    BY <1>4, <2>2, <2>3
<1>7. BooksBalance'
  <2> DEFINE h == tracker.highest
             q == m.seq
             B == Books(tracker)
             K == Between(tracker, m.seq)
  <2>1. q \in Nat /\ h \in Int /\ h >= -1
    BY <1>1, SMT DEF SeqInv, TrackerOK, Number, SeqRepairAssumption
  <2>2. B \subseteq 0..h - 1
    BY DEF SeqInv, TrackerOK
  <2>3. 0..h \subseteq Gone \cup B /\ B \cap Gone = {} /\ Gone \subseteq 0..h
    BY DEF SeqInv, BooksBalance
  <2>4. K = h + 1..q - 1
    BY DEF Between
  <2>5. /\ tracker'.highest = t.highest /\ t.highest = IF q <= h THEN h ELSE q
        /\ Books(t) = IF q <= h THEN B \ {q} ELSE IF Jumps(tracker, q) THEN B ELSE B \cup K
        /\ Gone' = IF q > h /\ Jumps(tracker, q)
                   THEN Gone \cup K \cup {q} \cup (Books(t) \ Books(tracker'))
                   ELSE Gone \cup {q} \cup (Books(t) \ Books(tracker'))
    BY <1>3, <1>4, <1>6 DEF Gone
  <2> HIDE DEF h, q, B, K
  <2>6. ASSUME NEW S, 0..t.highest \subseteq S \cup Books(t), Books(t) \cap S = {},
               S \subseteq 0..t.highest, Gone' = S \cup (Books(t) \ Books(tracker'))
        PROVE  BooksBalance'
    <3>1. Books(t) \subseteq 0..t.highest
      <4>1. t.highest \in Int
        BY <2>1, <2>5
      <4>2. 0..t.highest - 1 \subseteq 0..t.highest
        BY <4>1
      <4> QED
        BY <1>3, <4>2 DEF TrackerOK
    <3> DEFINE R == 0..t.highest
               F == Books(t) \ Books(tracker')
    <3>2. /\ R \subseteq (S \cup F) \cup Books(tracker') /\ Books(tracker') \cap (S \cup F) = {}
          /\ S \cup F \subseteq R
      <4>1. /\ Books(tracker') \subseteq Books(t) /\ F = Books(t) \ Books(tracker')
            /\ R \subseteq S \cup Books(t) /\ Books(t) \cap S = {} /\ S \subseteq R
            /\ Books(t) \subseteq R
        BY <1>6, <2>6, <3>1
      <4> HIDE DEF R, F
      <4> QED
        BY <4>1, ForgetBalance
    <3> QED
      BY <2>5, <2>6, <3>2 DEF BooksBalance
  <2>7. CASE q <= h
    <3>1. /\ 0..h \subseteq (Gone \cup {q}) \cup (B \ {q})
          /\ (B \ {q}) \cap (Gone \cup {q}) = {}
          /\ Gone \cup {q} \subseteq 0..h
      <4>1. 0..h \subseteq (Gone \cup {q}) \cup (B \ {q}) /\ q \in 0..h
        BY <2>1, <2>3, <2>7
      <4>2. (B \ {q}) \cap (Gone \cup {q}) = {} /\ Gone \cup {q} \subseteq 0..h
        BY <2>3, <4>1
      <4> QED
        BY <4>1, <4>2
    <3>2. /\ Books(t) = B \ {q} /\ t.highest = h
          /\ Gone' = (Gone \cup {q}) \cup (Books(t) \ Books(tracker'))
      BY <2>1, <2>5, <2>7
    <3> QED
      BY <2>6, <3>1, <3>2
  <2>8. CASE q > h /\ Jumps(tracker, q)
    <3>1. /\ 0..q \subseteq (Gone \cup K \cup {q}) \cup (B \cup {})
          /\ (B \cup {}) \cap (Gone \cup K \cup {q}) = {}
          /\ Gone \cup K \cup {q} \subseteq 0..q
      BY <2>1, <2>2, <2>3, <2>4, <2>8, NewBalance
    <3>2. /\ Books(t) = B \cup {} /\ t.highest = q
          /\ Gone' = (Gone \cup K \cup {q}) \cup (Books(t) \ Books(tracker'))
      BY <2>1, <2>5, <2>8
    <3> QED
      BY <2>6, <3>1, <3>2
  <2>9. CASE q > h /\ ~Jumps(tracker, q)
    <3>1. /\ 0..q \subseteq (Gone \cup {} \cup {q}) \cup (B \cup K)
          /\ (B \cup K) \cap (Gone \cup {} \cup {q}) = {}
          /\ Gone \cup {} \cup {q} \subseteq 0..q
      BY <2>1, <2>2, <2>3, <2>4, <2>9, NewBalance
    <3>2. /\ Books(t) = B \cup K /\ t.highest = q
          /\ Gone' = (Gone \cup {} \cup {q}) \cup (Books(t) \ Books(tracker'))
      BY <2>1, <2>5, <2>9
    <3> QED
      BY <2>6, <3>1, <3>2
  <2> QED
    BY <2>1, <2>7, <2>8, <2>9
<1>8. NetworkOK' /\ ServerOK'
  BY <1>4, <1>6 DEF SeqInv, NetworkOK, ServerOK
<1>9. OnceEach'
  BY <1>4, <1>6, <1>8, MoreAsked DEF SeqInv
<1> QED
  BY <1>5, <1>6, <1>7, <1>8, <1>9 DEF SeqInv

LEMMA TickStep ==
    ASSUME SeqRepairAssumption, SeqInv, Tick
    PROVE  SeqInv'
<1>1. /\ DetectSeqLoss(tracker)
      /\ UNCHANGED <<got, over, next, owed, ring, nextSeq, carried, toClient, seen, jumped>>
  BY DEF Tick, Ticks, server
<1>2. /\ TrackerOK(tracker') /\ tracker'.highest = tracker.highest
      /\ Books(tracker') \subseteq Books(tracker)
      /\ forgotten' = forgotten \cup (Books(tracker) \ Books(tracker'))
      /\ AskedFor' /\ toServer' \subseteq Span /\ asked \subseteq asked'
  BY <1>1, DetectKeeps DEF SeqInv, AskedFor, NetworkOK
<1>3. ClientOK' /\ NetworkOK' /\ ServerOK'
  BY <1>1, <1>2 DEF SeqInv, ClientOK, NetworkOK, ServerOK
<1>4. OnceEach'
  BY <1>1, <1>2, <1>3, MoreAsked DEF SeqInv
<1>5. BooksBalance'
  <2> DEFINE R == 0..tracker.highest
             F == Books(tracker) \ Books(tracker')
  <2>1. Books(tracker) \subseteq R
    BY SMT DEF SeqInv, TrackerOK, SeqRepairAssumption
  <2>2. R \subseteq Gone \cup Books(tracker) /\ Books(tracker) \cap Gone = {} /\ Gone \subseteq R
    BY DEF SeqInv, BooksBalance
  <2>3. Gone' = Gone \cup F
    BY <1>1, <1>2 DEF Gone
  <2>4. /\ R \subseteq (Gone \cup F) \cup Books(tracker') /\ Books(tracker') \cap (Gone \cup F) = {}
        /\ Gone \cup F \subseteq R
    <3> HIDE DEF R
    <3> QED
      BY <1>2, <2>1, <2>2, ForgetBalance
  <2> QED
    BY <1>2, <2>3, <2>4 DEF BooksBalance
<1> QED
  BY <1>2, <1>3, <1>4, <1>5 DEF SeqInv

LEMMA DropStep ==
    ASSUME SeqRepairAssumption, SeqInv, NEW r \in Rpc, Drop(r)
    PROVE  SeqInv'
<1>1. /\ over' = over \cup {r}
      /\ UNCHANGED <<tracker, got, next, owed, ring, nextSeq, carried, toServer, toClient,
                     seen, asked, jumped, forgotten>>
  BY DEF Drop, server, history
<1>2. BooksBalance' /\ AskedFor' /\ ClientOK' /\ NetworkOK' /\ ServerOK'
  BY <1>1 DEF SeqInv, BooksBalance, Gone, AskedFor, ClientOK, NetworkOK, ServerOK
<1>3. OnceEach'
  BY <1>1, <1>2, MoreAsked DEF SeqInv
<1> QED
  BY <1>1, <1>2, <1>3 DEF SeqInv

LEMMA SendKeeps ==
    ASSUME SeqRepairAssumption, ServerOK, NEW unit \in Unit, Send(unit),
           next' \in [Rpc -> 0..Size], \A r \in Rpc : next[r] <= next'[r],
           unit.off < next'[unit.rpc], owed' \subseteq owed
    PROVE  /\ ServerOK'
           /\ \A u : Carriers(u)' = IF u = unit THEN Carriers(u) \cup {nextSeq} ELSE Carriers(u)
           /\ \A u : Paid(u) \subseteq Paid(u)'
<1> DEFINE i == nextSeq % RingSize
<1>1. i \in 0..RingSize - 1 /\ RingSize \in Nat \ {0} /\ MaxSeq \in Nat
  BY DEF ServerOK, SeqRepairAssumption
<1>2. /\ nextSeq \in Number /\ nextSeq' = nextSeq + 1 /\ asked' = asked
      /\ ring' = [ring EXCEPT ![i] = [valid |-> TRUE, seq |-> nextSeq, resent |-> FALSE]]
  BY <1>1 DEF Send, ServerOK, Number, history
<1>3. /\ DOMAIN carried' = 0..nextSeq
      /\ \A q \in 0..nextSeq - 1 : carried'[q] = carried[q]
      /\ carried'[nextSeq] = unit
  <2>1. carried' = Entered(carried, [q \in {nextSeq} |-> unit])
    BY DEF Send
  <2>2. DOMAIN carried' = 0..nextSeq - 1 \cup {nextSeq}
    BY <2>1 DEF Entered, ServerOK
  <2>3. 0..nextSeq - 1 \cup {nextSeq} = 0..nextSeq
    BY DEF ServerOK
  <2> QED
    BY <2>1, <2>2, <2>3 DEF Entered, ServerOK
<1> HIDE DEF i
<1>4. /\ ring' \in [0..RingSize - 1 -> Slot]
      /\ \A j \in DOMAIN ring' :
           ring'[j].valid => ring'[j].seq < nextSeq' /\ ring'[j].seq % RingSize = j
  <2>1. [valid |-> TRUE, seq |-> nextSeq, resent |-> FALSE] \in Slot
    BY <1>2 DEF Slot
  <2>2. ring' \in [0..RingSize - 1 -> Slot]
    BY <1>1, <1>2, <2>1 DEF ServerOK
  <2>3. ASSUME NEW j \in DOMAIN ring', ring'[j].valid
        PROVE  ring'[j].seq < nextSeq' /\ ring'[j].seq % RingSize = j
    <3>1. CASE j = i
      BY <1>1, <1>2, <3>1 DEF ServerOK, i
    <3>2. CASE j # i
      <4>1. ring'[j] = ring[j] /\ j \in DOMAIN ring /\ ring[j].seq \in Int
        BY <1>2, <2>2, <3>2 DEF ServerOK, Slot, Number
      <4> QED
        BY <1>2, <2>3, <4>1 DEF ServerOK
    <3> QED
      BY <3>1, <3>2
  <2> QED
    BY <2>2, <2>3
<1>5. \A q \in DOMAIN carried' : carried'[q] \in Unit /\ carried'[q].off < next'[carried'[q].rpc]
  <2> SUFFICES ASSUME NEW q \in DOMAIN carried'
               PROVE  carried'[q] \in Unit /\ carried'[q].off < next'[carried'[q].rpc]
    OBVIOUS
  <2>1. CASE q = nextSeq
    BY <1>3, <2>1
  <2>2. CASE q \in 0..nextSeq - 1
    <3>1. carried'[q] = carried[q] /\ carried[q] \in Unit /\ carried[q].off < next[carried[q].rpc]
      BY <1>3, <2>2 DEF ServerOK
    <3>2. /\ carried[q].rpc \in Rpc /\ carried[q].off \in Int
          /\ next[carried[q].rpc] \in Int /\ next'[carried[q].rpc] \in Int
      BY <3>1 DEF Unit, ServerOK
    <3> QED
      BY <3>1, <3>2
  <2> QED
    BY <1>2, <1>3, <2>1, <2>2 DEF Number
<1>6. nextSeq' \in 0..MaxSeq /\ owed' \subseteq 0..nextSeq' - 1 /\ 0..nextSeq = 0..nextSeq' - 1
  BY <1>1, <1>2 DEF ServerOK, Number
<1>7. ServerOK'
  BY <1>3, <1>4, <1>5, <1>6 DEF ServerOK
<1>8. ASSUME NEW u
      PROVE  Carriers(u)' = IF u = unit THEN Carriers(u) \cup {nextSeq} ELSE Carriers(u)
  <2>1. Carriers(u) = {q \in 0..nextSeq - 1 : carried[q] = u}
    BY DEF Carriers, ServerOK
  <2>2. Carriers(u)' = {q \in 0..nextSeq : carried'[q] = u}
    BY <1>3 DEF Carriers
  <2>3. 0..nextSeq = 0..nextSeq - 1 \cup {nextSeq}
    BY <1>2 DEF Number
  <2> QED
    BY <1>3, <2>1, <2>2, <2>3
<1>9. ASSUME NEW u, NEW q \in Paid(u)
      PROVE  q \in Paid(u)'
  <2>1. q \in Carriers(u) /\ q \in asked /\ ~Offered(q) /\ q \in 0..nextSeq - 1
    BY DEF Paid, Carriers, ServerOK
  <2>2. q % RingSize \in DOMAIN ring
    BY <1>1, <2>1, SMT DEF ServerOK
  <2>3. ~Offered(q)'
    <3>1. CASE q % RingSize = i
      BY <1>1, <1>2, <2>1, <2>2, <3>1 DEF Offered
    <3>2. CASE q % RingSize # i
      BY <1>1, <1>2, <2>1, <2>2, <3>2 DEF Offered
    <3> QED
      BY <3>1, <3>2
  <2> QED
    BY <1>2, <1>8, <2>1, <2>3 DEF Paid
<1> QED
  BY <1>7, <1>8, <1>9

\* A resend moves a number of the unit from the queue to the network; new data
\* is the first number its unit gets.
LEMMA ServerSendStep ==
    ASSUME SeqRepairAssumption, SeqInv, ServerSend
    PROVE  SeqInv'
<1>1. ASSUME NEW unit \in Unit, Send(unit),
             next' \in [Rpc -> 0..Size], \A r \in Rpc : next[r] <= next'[r],
             unit.off < next'[unit.rpc], owed' \subseteq owed,
             OnceEach'
      PROVE  SeqInv'
  <2>1. ServerOK'
    BY <1>1, SendKeeps DEF SeqInv
  <2>2. /\ UNCHANGED <<tracker, got, over, toServer, seen, asked, jumped, forgotten>>
        /\ toClient' = toClient \cup {[seq |-> nextSeq, unit |-> unit]} /\ nextSeq \in Number
    BY <1>1 DEF Send, client, history, SeqInv, ServerOK, Number, SeqRepairAssumption
  <2>3. BooksBalance' /\ AskedFor' /\ ClientOK' /\ NetworkOK'
    BY <2>2 DEF SeqInv, BooksBalance, Gone, AskedFor, ClientOK, NetworkOK, Packet
  <2> QED
    BY <1>1, <2>1, <2>2, <2>3 DEF SeqInv
<1>2. ASSUME NEW q \in owed, Send(carried[q]), owed' = owed \ {q}, UNCHANGED next
      PROVE  SeqInv'
  <2> DEFINE unit == carried[q]
  <2>1. /\ q \in DOMAIN carried /\ unit \in Unit /\ unit.off < next[unit.rpc] /\ q < nextSeq
        /\ owed \subseteq 0..nextSeq - 1 /\ nextSeq \in Nat
    BY <1>2 DEF SeqInv, ServerOK
  <2>2. /\ next' \in [Rpc -> 0..Size] /\ \A r \in Rpc : next[r] <= next'[r]
        /\ unit.off < next'[unit.rpc] /\ owed' \subseteq owed
    BY <1>2, <2>1 DEF SeqInv, ServerOK
  <2>3. /\ \A u : Carriers(u)' = IF u = unit THEN Carriers(u) \cup {nextSeq} ELSE Carriers(u)
        /\ \A u : Paid(u) \subseteq Paid(u)'
        /\ ServerOK'
    <3> HIDE DEF unit
    <3>1. Send(unit)
      BY <1>2 DEF unit
    <3> QED
      BY <2>1, <2>2, <3>1, SendKeeps DEF SeqInv
  <2>4. ASSUME NEW u \in Unit, Carriers(u)' # {}
        PROVE  Cardinality(Carriers(u)') + Cardinality((owed \cap Carriers(u))')
                   <= 1 + Cardinality(Paid(u)')
    <3>1. /\ IsFiniteSet(Carriers(u)) /\ IsFiniteSet(owed \cap Carriers(u))
          /\ Cardinality(Paid(u)) <= Cardinality(Paid(u)')
          /\ Cardinality(Carriers(u)) \in Nat /\ Cardinality(owed \cap Carriers(u)) \in Nat
          /\ Cardinality(Paid(u)) \in Nat /\ Cardinality(Paid(u)') \in Nat
      <4>1. IsFiniteSet(Carriers(u)) /\ IsFiniteSet(owed \cap Carriers(u)) /\ IsFiniteSet(Paid(u))
        BY CarriersFinite DEF SeqInv
      <4>2. IsFiniteSet(Paid(u)')
        <5>1. IsFiniteSet(Carriers(u)')
          BY <2>3, <4>1, FS_AddElement
        <5>2. Paid(u)' \subseteq Carriers(u)'
          BY DEF Paid
        <5> QED
          BY <5>1, <5>2, FS_Subset
      <4>3. Cardinality(Paid(u)) <= Cardinality(Paid(u)')
        BY <2>3, <4>2, FS_Subset
      <4> QED
        BY <4>1, <4>2, <4>3, FS_CardinalityType
    <3>2. CASE u = unit
      <4>1. /\ q \in owed \cap Carriers(u) /\ nextSeq \notin Carriers(u)
            /\ Carriers(u)' = Carriers(u) \cup {nextSeq} /\ Carriers(u) # {}
        <5>1. q \in Carriers(u) /\ Carriers(u) \subseteq 0..nextSeq - 1
          BY <2>1, <3>2, CarriersFinite DEF Carriers, SeqInv
        <5>2. Carriers(u)' = Carriers(u) \cup {nextSeq}
          BY <2>3, <3>2
        <5> QED
          BY <2>1, <5>1, <5>2
      <4>2. (owed \cap Carriers(u))' = (owed \cap Carriers(u)) \ {q}
        <5>1. nextSeq \notin owed
          BY <2>1
        <5>2. (owed \cap Carriers(u))' = (owed \ {q}) \cap (Carriers(u) \cup {nextSeq})
          BY <1>2, <4>1
        <5> QED
          BY <4>1, <5>1, <5>2
      <4>3. Cardinality(Carriers(u)') = Cardinality(Carriers(u)) + 1
        <5>1. Cardinality(Carriers(u) \cup {nextSeq}) = Cardinality(Carriers(u)) + 1
          BY <3>1, <4>1, FS_AddElement
        <5> QED
          BY <4>1, <5>1
      <4>4. Cardinality((owed \cap Carriers(u))') = Cardinality(owed \cap Carriers(u)) - 1
        <5>1. Cardinality((owed \cap Carriers(u)) \ {q}) = Cardinality(owed \cap Carriers(u)) - 1
          BY <3>1, <4>1, FS_RemoveElement
        <5> QED
          BY <4>2, <5>1
      <4>5. Cardinality(Carriers(u)) + Cardinality(owed \cap Carriers(u)) <= 1 + Cardinality(Paid(u))
        BY <4>1 DEF SeqInv, OnceEach
      <4> QED
        BY <3>1, <4>3, <4>4, <4>5
    <3>3. CASE u # unit
      <4>1. Carriers(u)' = Carriers(u) /\ q \notin Carriers(u)
        BY <2>3, <3>3 DEF Carriers
      <4>2. (owed \cap Carriers(u))' = owed \cap Carriers(u)
        <5>1. (owed \cap Carriers(u))' = (owed \ {q}) \cap Carriers(u)
          BY <1>2, <4>1
        <5> QED
          BY <4>1, <5>1
      <4>3. Cardinality(Carriers(u)) + Cardinality(owed \cap Carriers(u)) <= 1 + Cardinality(Paid(u))
        BY <2>4, <4>1 DEF SeqInv, OnceEach
      <4>4. /\ Cardinality(Carriers(u)') = Cardinality(Carriers(u))
            /\ Cardinality((owed \cap Carriers(u))') = Cardinality(owed \cap Carriers(u))
        BY <4>1, <4>2
      <4> QED
        BY <3>1, <4>3, <4>4
    <3> QED
      BY <3>2, <3>3
  <2>5. OnceEach'
    BY <2>4 DEF OnceEach, Unit
  <2> QED
    BY <1>1, <1>2, <2>1, <2>2, <2>5
<1>3. ASSUME NEW r \in Rpc, owed = {}, next[r] < Size, Send([rpc |-> r, off |-> next[r]]),
             next' = [next EXCEPT ![r] = @ + 1], UNCHANGED owed
      PROVE  SeqInv'
  <2> DEFINE unit == [rpc |-> r, off |-> next[r]]
  <2>1. /\ unit \in Unit /\ next' \in [Rpc -> 0..Size] /\ \A p \in Rpc : next[p] <= next'[p]
        /\ unit.off < next'[unit.rpc] /\ owed' \subseteq owed
        /\ unit.rpc = r /\ unit.off = next[r]
    BY <1>3 DEF SeqInv, ServerOK, Unit, SeqRepairAssumption
  <2>2. /\ \A u : Carriers(u)' = IF u = unit THEN Carriers(u) \cup {nextSeq} ELSE Carriers(u)
        /\ \A u : Paid(u) \subseteq Paid(u)'
        /\ ServerOK'
    <3> HIDE DEF unit
    <3>1. Send(unit)
      BY <1>3 DEF unit
    <3> QED
      BY <2>1, <3>1, SendKeeps DEF SeqInv
  <2>3. Carriers(unit) = {}
    <3> SUFFICES ASSUME NEW q \in DOMAIN carried, carried[q] = unit PROVE FALSE
      BY DEF Carriers
    <3>1. unit.off < next[unit.rpc] /\ next[r] \in Int
      BY DEF SeqInv, ServerOK
    <3> QED
      BY <2>1, <3>1
  <2>4. ASSUME NEW u \in Unit, Carriers(u)' # {}
        PROVE  Cardinality(Carriers(u)') + Cardinality((owed \cap Carriers(u))')
                   <= 1 + Cardinality(Paid(u)')
    <3>1. (owed \cap Carriers(u))' = {} /\ Cardinality({}) = 0
      <4>1. owed' = {}
        BY <1>3
      <4> QED
        BY <4>1, FS_EmptySet
    <3>2. IsFiniteSet(Carriers(u)) /\ IsFiniteSet(Paid(u)) /\ IsFiniteSet(Carriers(u)')
      <4>1. IsFiniteSet(Carriers(u)) /\ IsFiniteSet(Paid(u))
        BY CarriersFinite DEF SeqInv
      <4>2. IsFiniteSet(Carriers(u) \cup {nextSeq})
        BY <4>1, FS_AddElement
      <4>3. Carriers(u)' \in {Carriers(u), Carriers(u) \cup {nextSeq}}
        BY <2>2
      <4> QED
        BY <4>1, <4>2, <4>3
    <3>3. IsFiniteSet(Paid(u)')
      <4>1. Paid(u)' \subseteq Carriers(u)'
        BY DEF Paid
      <4> QED
        BY <3>2, <4>1, FS_Subset
    <3>4. Cardinality(Paid(u)') \in Nat /\ Cardinality(Paid(u)) \in Nat
          /\ Cardinality(Paid(u)) <= Cardinality(Paid(u)')
      BY <2>2, <3>2, <3>3, FS_CardinalityType, FS_Subset
    <3>5. CASE u = unit
      <4>1. Carriers(u)' = {nextSeq}
        BY <2>2, <2>3, <3>5
      <4>2. Cardinality(Carriers(u)') = 1
        BY <4>1, FS_Singleton
      <4> QED
        BY <3>1, <3>4, <4>2
    <3>6. CASE u # unit
      <4>1. Carriers(u)' = Carriers(u) /\ owed \cap Carriers(u) = {}
        BY <1>3, <2>2, <3>6
      <4>2. Cardinality(Carriers(u)) + Cardinality(owed \cap Carriers(u)) <= 1 + Cardinality(Paid(u))
        BY <2>4, <4>1 DEF SeqInv, OnceEach
      <4>3. Cardinality(Carriers(u)) \in Nat
        BY <3>2, FS_CardinalityType
      <4> QED
        BY <3>1, <3>4, <4>1, <4>2, <4>3
    <3> QED
      BY <3>5, <3>6
  <2>5. OnceEach'
    BY <2>4 DEF OnceEach, Unit
  <2> QED
    BY <1>1, <1>3, <2>1, <2>5
<1> QED
  BY <1>2, <1>3 DEF ServerSend

\* resendSeq: what joins the queue was asked for, and the ring offers it no more.
LEMMA ServerReceiveStep ==
    ASSUME SeqRepairAssumption, SeqInv, NEW m \in toServer, ServerReceive(m)
    PROVE  SeqInv'
<1> DEFINE named == {i \in DOMAIN ring : Due(ring[i], m)}
           N     == {ring[i].seq : i \in named}
<1>1. /\ ring' = [i \in DOMAIN ring |-> [ring[i] EXCEPT !.resent = @ \/ i \in named]]
      /\ owed' = owed \cup N /\ toServer' \subseteq toServer
      /\ UNCHANGED <<tracker, got, over, next, nextSeq, carried, toClient, seen, asked, jumped, forgotten>>
  BY DEF ServerReceive, Delivered, client, history
<1>2. ASSUME NEW i \in DOMAIN ring
      PROVE  /\ ring'[i] \in Slot /\ ring'[i].valid = ring[i].valid /\ ring'[i].seq = ring[i].seq
             /\ (i \in named \/ ring[i].resent) => ring'[i].resent
             /\ ring[i].valid => ring[i].seq \in 0..nextSeq - 1 /\ ring[i].seq % RingSize = i
  <2>1. ring[i] \in Slot
    BY DEF SeqInv, ServerOK
  <2>2. ring'[i] = [ring[i] EXCEPT !.resent = @ \/ i \in named]
    BY <1>1
  <2> HIDE DEF named
  <2>3. (ring[i].resent \/ i \in named) \in BOOLEAN
    OBVIOUS
  <2>4. /\ ring'[i].valid = ring[i].valid /\ ring'[i].seq = ring[i].seq
        /\ (i \in named \/ ring[i].resent) => ring'[i].resent
        /\ ring'[i] \in Slot
    BY <2>1, <2>2 DEF Slot
  <2>5. ring[i].valid => ring[i].seq \in 0..nextSeq - 1 /\ ring[i].seq % RingSize = i
    BY <2>1 DEF SeqInv, ServerOK, Slot, Number, SeqRepairAssumption
  <2> QED
    BY <2>4, <2>5
<1>3. DOMAIN ring' = DOMAIN ring /\ DOMAIN ring = 0..RingSize - 1
  BY <1>1 DEF SeqInv, ServerOK
<1>4. ASSUME NEW n \in N
      PROVE  n \in asked /\ n \in 0..nextSeq - 1 /\ Offered(n) /\ ~Offered(n)'
  <2>1. PICK i \in named : n = ring[i].seq
    OBVIOUS
  <2>2. /\ i \in DOMAIN ring /\ ring[i].valid /\ ~ring[i].resent
        /\ n \in m.start..m.end - 1
    BY <2>1 DEF Due
  <2>3. n \in 0..nextSeq - 1 /\ n % RingSize = i /\ ring'[i].resent
    BY <1>2, <2>1, <2>2
  <2>4. Offered(n) /\ ~Offered(n)'
    <3> HIDE DEF named
    <3> QED
      BY <2>1, <2>2, <2>3 DEF Offered
  <2>5. n \in asked
    BY <2>2 DEF SeqInv, AskedFor
  <2> QED
    BY <2>3, <2>4, <2>5
<1> HIDE DEF N, named
<1>5. ServerOK'
  <2>1. ring' \in [0..RingSize - 1 -> Slot]
    BY <1>1, <1>2, <1>3
  <2>2. \A i \in DOMAIN ring' :
          ring'[i].valid => ring'[i].seq < nextSeq' /\ ring'[i].seq % RingSize = i
    BY <1>1, <1>2, <1>3 DEF SeqInv, ServerOK
  <2>3. owed' \subseteq 0..nextSeq' - 1
    BY <1>1, <1>4 DEF SeqInv, ServerOK
  <2> QED
    BY <1>1, <2>1, <2>2, <2>3 DEF SeqInv, ServerOK
<1>6. BooksBalance' /\ AskedFor' /\ ClientOK' /\ NetworkOK'
  BY <1>1 DEF SeqInv, BooksBalance, Gone, AskedFor, ClientOK, NetworkOK
<1>7. ASSUME NEW u \in Unit, Carriers(u) # {}
      PROVE  Cardinality(Carriers(u)) + Cardinality(owed' \cap Carriers(u))
                 <= 1 + Cardinality(Paid(u)')
  <2> DEFINE C == Carriers(u)
             M == N \cap C
  <2>1. /\ IsFiniteSet(C) /\ IsFiniteSet(Paid(u)) /\ IsFiniteSet(owed \cap C) /\ Paid(u) \subseteq C
        /\ IsFiniteSet(M)
    <3>1. IsFiniteSet(C) /\ IsFiniteSet(Paid(u)) /\ IsFiniteSet(owed \cap C) /\ Paid(u) \subseteq C
      BY CarriersFinite DEF SeqInv
    <3>2. M \in SUBSET C
      OBVIOUS
    <3> QED
      BY <3>1, <3>2, FS_Subset
  <2>2. Paid(u) \cap M = {}
    BY <1>4 DEF Paid
  <2>3. Paid(u) \cup M \subseteq Paid(u)'
    <3>1. M \subseteq Paid(u)'
      BY <1>1, <1>4 DEF Paid, Carriers
    <3>2. ASSUME NEW q \in Paid(u)
          PROVE  q \in Paid(u)'
      <4>1. q \in Carriers(u) /\ q \in asked /\ ~Offered(q) /\ q \in 0..nextSeq - 1
        BY CarriersFinite DEF Paid, SeqInv
      <4>2. q % RingSize \in DOMAIN ring
        BY <1>3, <4>1, SMT DEF SeqInv, ServerOK, SeqRepairAssumption
      <4>3. ~Offered(q)'
        BY <1>2, <4>1, <4>2 DEF Offered
      <4> QED
        BY <1>1, <4>1, <4>3 DEF Paid, Carriers
    <3> QED
      BY <3>1, <3>2
  <2>4. IsFiniteSet(Paid(u)')
    <3>1. Paid(u)' \subseteq C
      BY <1>1 DEF Paid, Carriers
    <3> QED
      BY <2>1, <3>1, FS_Subset
  <2>5. owed' \cap C = (owed \cap C) \cup M
    BY <1>1
  <2> HIDE DEF C, M
  <2>6. Cardinality(owed' \cap C) <= Cardinality(owed \cap C) + Cardinality(M)
    <3>1. /\ IsFiniteSet((owed \cap C) \cap M)
          /\ Cardinality((owed \cap C) \cup M)
               = Cardinality(owed \cap C) + Cardinality(M) - Cardinality((owed \cap C) \cap M)
      BY <2>1, FS_Union, FS_Intersection
    <3>2. /\ Cardinality((owed \cap C) \cap M) \in Nat /\ Cardinality(owed \cap C) \in Nat
          /\ Cardinality(M) \in Nat
      BY <2>1, <3>1, FS_CardinalityType
    <3>3. Cardinality(owed' \cap C) = Cardinality((owed \cap C) \cup M)
      BY <2>5
    <3>4. Cardinality((owed \cap C) \cup M) <= Cardinality(owed \cap C) + Cardinality(M)
      BY <3>1, <3>2
    <3> QED
      BY <3>3, <3>4
  <2>7. Cardinality(Paid(u)) + Cardinality(M) <= Cardinality(Paid(u)')
    <3>1. Cardinality(Paid(u) \cup M) = Cardinality(Paid(u)) + Cardinality(M) - Cardinality({})
      BY <2>1, <2>2, FS_Union
    <3>2. Cardinality(Paid(u) \cup M) <= Cardinality(Paid(u)')
      BY <2>3, <2>4, FS_Subset
    <3>3. Cardinality({}) = 0
      BY FS_EmptySet
    <3>4. Cardinality(Paid(u)) \in Nat /\ Cardinality(M) \in Nat
      BY <2>1, FS_CardinalityType
    <3> QED
      BY <3>1, <3>2, <3>3, <3>4
  <2>8. Cardinality(C) + Cardinality(owed \cap C) <= 1 + Cardinality(Paid(u))
    BY <1>7 DEF SeqInv, OnceEach, C
  <2>9. /\ Cardinality(C) \in Nat /\ Cardinality(owed \cap C) \in Nat /\ Cardinality(M) \in Nat
        /\ Cardinality(Paid(u)) \in Nat /\ Cardinality(Paid(u)') \in Nat
    BY <2>1, <2>4, FS_CardinalityType
  <2>10. Cardinality(owed' \cap C) \in Nat
    <3>1. IsFiniteSet(owed' \cap C)
      BY <2>1, FS_Intersection
    <3> QED
      BY <3>1, FS_CardinalityType
  <2>11. Cardinality(C) + Cardinality(owed' \cap C) <= 1 + Cardinality(Paid(u)')
    BY <2>6, <2>7, <2>8, <2>9, <2>10
  <2> QED
    BY <2>11 DEF C
<1>8. OnceEach'
  <2>1. \A u : Carriers(u)' = Carriers(u)
    BY <1>1 DEF Carriers
  <2> QED
    BY <1>7, <2>1 DEF OnceEach, Unit
<1> QED
  BY <1>1, <1>5, <1>6, <1>8 DEF SeqInv

LEMMA LoseStep ==
    ASSUME SeqRepairAssumption, SeqInv, Lose
    PROVE  SeqInv'
<1>1. /\ toServer' \subseteq toServer /\ toClient' \subseteq toClient
      /\ UNCHANGED <<tracker, got, over, next, owed, ring, nextSeq, carried, seen, asked, jumped, forgotten>>
  BY DEF Lose, client, server, history
<1>2. BooksBalance' /\ AskedFor' /\ ClientOK' /\ NetworkOK' /\ ServerOK'
  BY <1>1 DEF SeqInv, BooksBalance, Gone, AskedFor, ClientOK, NetworkOK, ServerOK
<1>3. OnceEach'
  BY <1>1, <1>2, MoreAsked DEF SeqInv
<1> QED
  BY <1>1, <1>2, <1>3 DEF SeqInv

-----------------------------------------------------------------------------
(* The theorems. *)

\* The invariant, for every number of transfers, units and numbers, every ring,
\* gap and number of tries.
THEOREM SeqInvariant == Spec => []SeqInv
<1>1. Init => SeqInv
  BY SeqRepairAssumption, InitSeqInv
<1>2. SeqInv /\ [Next]_vars => SeqInv'
  <2> SUFFICES ASSUME SeqInv, [Next]_vars PROVE SeqInv'
    OBVIOUS
  <2>1. CASE \E m \in toClient : Receive(m)
    BY <2>1, SeqRepairAssumption, ReceiveStep
  <2>2. CASE \E m \in toServer : ServerReceive(m)
    BY <2>2, SeqRepairAssumption, ServerReceiveStep
  <2>3. CASE \E r \in Rpc : Drop(r)
    BY <2>3, SeqRepairAssumption, DropStep
  <2>4. CASE Tick
    BY <2>4, SeqRepairAssumption, TickStep
  <2>5. CASE ServerSend
    BY <2>5, SeqRepairAssumption, ServerSendStep
  <2>6. CASE Lose
    BY <2>6, SeqRepairAssumption, LoseStep
  <2>7. CASE UNCHANGED vars
    <3>1. UNCHANGED <<tracker, got, over, next, owed, ring, nextSeq, carried,
                      toServer, toClient, seen, asked, jumped, forgotten>>
      BY <2>7 DEF vars, client, server, history
    <3>2. BooksBalance' /\ AskedFor' /\ ClientOK' /\ NetworkOK' /\ ServerOK'
      BY <3>1 DEF SeqInv, BooksBalance, Gone, AskedFor, ClientOK, NetworkOK, ServerOK
    <3>3. OnceEach'
      BY <3>1, <3>2, SeqRepairAssumption, MoreAsked DEF SeqInv
    <3> QED
      BY <3>1, <3>2, <3>3 DEF SeqInv
  <2> QED
    BY <2>1, <2>2, <2>3, <2>4, <2>5, <2>6, <2>7 DEF Next
<1> QED
  BY <1>1, <1>2, PTL DEF Spec

\* Every variable keeps its type, and no number is asked for more often than
\* SEQ_RESEND_TRIES (SeqTracker.repeats).
THEOREM Typed == Spec => []TypeOK
<1>1. SeqInv => TypeOK
  <2> SUFFICES ASSUME SeqInv PROVE TypeOK
    OBVIOUS
  <2>1. Books(tracker) \subseteq Number
    BY SeqRepairAssumption, SMT DEF SeqInv, TrackerOK, Number, SeqRepairAssumption
  <2>2. owed \subseteq Number
    BY SeqRepairAssumption, SMT DEF SeqInv, ServerOK, Number, SeqRepairAssumption
  <2> QED
    BY <2>1, <2>2 DEF SeqInv, TrackerOK, Books, ClientOK, NetworkOK, ServerOK, TypeOK
<1> QED
  BY <1>1, SeqInvariant, PTL

\* Each number below the highest is in exactly one of the tracker's books, or in none
\* because it has arrived, was jumped over, or was asked for and then forgotten
\* (SeqTracker.arrive, detect and repeats with its trimming of what is settled).
THEOREM AccountedHolds == Spec => []Accounted
<1>1. SeqInv => Accounted
  <2> SUFFICES ASSUME SeqInv PROVE Accounted
    OBVIOUS
  <2>1. Known = Books(tracker)
    BY DEF Known, Books
  <2>2. tracker.highest \in Int /\ Books(tracker) \subseteq 0..tracker.highest - 1
    BY SeqRepairAssumption DEF SeqInv, TrackerOK, SeqRepairAssumption
  <2>3. \A q \in Known : q < tracker.highest
    BY <2>1, <2>2
  <2> QED
    BY <2>1, <2>3 DEF SeqInv, TrackerOK, BooksBalance, Gone, AskedFor, Accounted
<1> QED
  BY <1>1, SeqInvariant, PTL

\* However the network loses, repeats and reorders, a unit is sent once, and once
\* more only for each of its numbers that the client found missing (resendSeq).
THEOREM ResentOnlyIfAskedHolds == Spec => []ResentOnlyIfAsked
<1>1. SeqInv => ResentOnlyIfAsked
  <2> SUFFICES ASSUME SeqInv, NEW u \in Unit, Carriers(u) # {}
               PROVE  Cardinality(Carriers(u)) <= 1 + Cardinality(Carriers(u) \cap asked)
    BY DEF ResentOnlyIfAsked
  <2>1. /\ IsFiniteSet(Carriers(u)) /\ IsFiniteSet(owed \cap Carriers(u))
        /\ IsFiniteSet(Carriers(u) \cap asked) /\ IsFiniteSet(Paid(u))
        /\ Paid(u) \subseteq Carriers(u) \cap asked
    BY SeqRepairAssumption, CarriersFinite DEF SeqInv
  <2>2. Cardinality(Paid(u)) <= Cardinality(Carriers(u) \cap asked)
    BY <2>1, FS_Subset
  <2>3. /\ Cardinality(Carriers(u)) \in Nat /\ Cardinality(owed \cap Carriers(u)) \in Nat
        /\ Cardinality(Carriers(u) \cap asked) \in Nat /\ Cardinality(Paid(u)) \in Nat
    BY <2>1, FS_CardinalityType
  <2>4. Cardinality(Carriers(u)) + Cardinality(owed \cap Carriers(u)) <= 1 + Cardinality(Paid(u))
    BY DEF SeqInv, OnceEach
  <2> QED
    BY <2>2, <2>3, <2>4
<1> QED
  BY <1>1, SeqInvariant, PTL
=============================================================================
