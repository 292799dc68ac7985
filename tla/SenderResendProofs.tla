------------------------- MODULE SenderResendProofs -------------------------
(***************************************************************************)
(* What the passive sender resends, and in what: a number's bytes are      *)
(* queued at most once, a queued byte leaves its queue only by being sent, *)
(* and a payload fits the datagram it was chosen for.                      *)
(***************************************************************************)
EXTENDS SenderProofs

\* Of the ring: an entry holds a number that has been used, and what has been
\* repaired has been used and is marked, or has left the ring.
RepairInv ==
    /\ \A i \in 0..RingSize - 1 : ring[i].valid => ring[i].seq < nextSeq
    /\ \A q \in 0..MaxSeq :
         /\ repairs[q] <= 1
         /\ 0 < repairs[q] => q < nextSeq /\ ~Remembered(ring[q % RingSize], q)

-----------------------------------------------------------------------------
(* Each number is repaired once. *)

LEMMA Slot == ASSUME NEW q \in Nat PROVE q % RingSize \in 0..RingSize - 1
BY SenderAssumption

LEMMA RepairTypes ==
    ASSUME IInv
    PROVE  /\ ring \in [0..RingSize - 1 -> Entry] /\ nextSeq \in Nat /\ MaxSeq \in Nat
           /\ repairs \in [0..MaxSeq -> Nat]
           /\ \A i \in 0..RingSize - 1 : ring[i] \in Entry /\ ring[i].seq \in Nat
BY SenderAssumption DEF IInv, TypeOK, Entry

LEMMA InitRepairInv == Init => RepairInv
<1> SUFFICES ASSUME Init PROVE RepairInv
  OBVIOUS
<1>1. \A i \in 0..RingSize - 1 : ~ring[i].valid
  BY DEF Init, NoEntry
<1>2. \A q \in 0..MaxSeq : repairs[q] = 0
  BY DEF Init
<1> QED BY <1>1, <1>2 DEF RepairInv

\* A look-up marks what it finds, and finds nothing that is marked.
LEMMA RepairLookUp == ASSUME IInv, RepairInv, ResendSeqStep PROVE RepairInv'
<1> DEFINE q    == resending.start
           slot == q % RingSize
           e    == ring[slot]
           m    == [e EXCEPT !.resent = TRUE]
<1>1. q \in 0..MaxSeq /\ q \in Nat
  BY SenderAssumption DEF IInv, TypeOK, Span, ResendSeqStep
<1>2. slot \in 0..RingSize - 1 /\ e \in Entry
  BY <1>1, Slot, RepairTypes
<1>3. m \in Entry /\ m.resent /\ m.seq = e.seq /\ m.valid = e.valid
  BY <1>2 DEF Entry
<1>4. nextSeq' = nextSeq
  BY DEF ResendSeqStep, sendVars
<1>5. CASE Remembered(e, q)
  <2>1. ring' = [ring EXCEPT ![slot] = m]
    BY <1>5 DEF ResendSeqStep
  <2>2. repairs' = repairs \/ repairs' = [repairs EXCEPT ![q] = repairs[q] + 1]
    BY <1>5 DEF ResendSeqStep
  <2>3. repairs[q] = 0 /\ q < nextSeq /\ e.seq = q
    BY <1>1, <1>2, <1>5, RepairTypes DEF RepairInv, Remembered
  <2> HIDE DEF m, q
  <2>4. \A i \in 0..RingSize - 1 : ring'[i].valid => ring'[i].seq < nextSeq'
    BY <1>2, <1>3, <1>4, <2>1, RepairTypes DEF RepairInv
  <2>5. ASSUME NEW p \in 0..MaxSeq
        PROVE  /\ repairs'[p] <= 1
               /\ 0 < repairs'[p] => p < nextSeq' /\ ~Remembered(ring'[p % RingSize], p)
    <3> DEFINE at == p % RingSize
    <3>1. at \in 0..RingSize - 1 /\ at = p % RingSize
      BY Slot, RepairTypes
    <3>2. ring'[at] = IF at = slot THEN m ELSE ring[at]
      BY <2>1, <3>1, RepairTypes
    <3>3. /\ repairs[p] <= 1
          /\ 0 < repairs[p] => p < nextSeq /\ ~Remembered(ring[at], p)
      BY <3>1 DEF RepairInv
    <3> HIDE DEF at
    <3>4. ~Remembered(ring'[at], p)
            \/ (p # q /\ Remembered(ring[at], p))
      BY <1>3, <2>3, <3>1, <3>2 DEF Remembered
    <3>5. p # q => repairs'[p] = repairs[p]
      BY <2>2, RepairTypes
    <3>6. repairs'[q] \in {0, 1}
      BY <1>1, <2>2, <2>3, RepairTypes
    <3>7. CASE p = q
      BY <1>4, <2>3, <3>1, <3>4, <3>6, <3>7
    <3>8. CASE p # q
      BY <1>4, <3>1, <3>3, <3>4, <3>5, <3>8
    <3> QED BY <3>7, <3>8
  <2> QED BY <2>4, <2>5 DEF RepairInv, Remembered
<1>6. CASE ~Remembered(e, q)
  <2>1. ring' = ring /\ repairs' = repairs
    BY <1>6 DEF ResendSeqStep
  <2> QED BY <1>4, <2>1 DEF RepairInv, Remembered
<1> QED BY <1>5, <1>6

\* A recorded datagram takes a slot with a number that was never used.
LEMMA RepairRecord == ASSUME IInv, RepairInv, Record PROVE RepairInv'
<1> DEFINE slot == nextSeq % RingSize
           e    == [valid |-> TRUE, seq |-> nextSeq, resent |-> FALSE,
                    rpc |-> work.rpc, off |-> work.off, n |-> work.n]
<1>1. repairs' = repairs
  BY DEF Record
<1>2. CASE IsData /\ work.seq
  <2>1. ring' = [ring EXCEPT ![slot] = e] /\ nextSeq' = nextSeq + 1
    BY <1>2 DEF Record
  <2>2. e.seq = nextSeq
    OBVIOUS
  <2> HIDE DEF e
  <2>3. \A i \in 0..RingSize - 1 : ring'[i].valid => ring'[i].seq < nextSeq'
    BY <2>1, <2>2, RepairTypes DEF RepairInv
  <2>4. ASSUME NEW p \in 0..MaxSeq, 0 < repairs[p]
        PROVE  p < nextSeq' /\ ~Remembered(ring'[p % RingSize], p)
    <3> DEFINE at == p % RingSize
    <3>1. at \in 0..RingSize - 1
      BY Slot, RepairTypes
    <3>2. p < nextSeq /\ ~Remembered(ring[at], p)
      BY <2>4 DEF RepairInv
    <3> HIDE DEF at, slot
    <3>3. ring'[at] = IF at = slot THEN e ELSE ring[at]
      BY <2>1, <3>1, RepairTypes
    <3>4. p < nextSeq' /\ ~Remembered(ring'[at], p)
      BY <2>1, <2>2, <3>2, <3>3, RepairTypes DEF Remembered
    <3> QED BY <3>4 DEF at
  <2> QED BY <1>1, <2>3, <2>4 DEF RepairInv, Remembered
<1>3. CASE ~(IsData /\ work.seq)
  <2>1. ring' = ring /\ nextSeq' = nextSeq
    BY <1>3 DEF Record
  <2> QED BY <1>1, <2>1 DEF RepairInv, Remembered
<1> QED BY <1>2, <1>3

LEMMA NextRepairInv == IInv /\ RepairInv /\ [Next]_vars => RepairInv'
<1> SUFFICES ASSUME IInv, RepairInv, [Next]_vars PROVE RepairInv'
  OBVIOUS
<1>1. CASE UNCHANGED <<ring, nextSeq, repairs>>
  BY <1>1 DEF RepairInv, Remembered
<1>2. ReceivePacket \/ ReceiveHello \/ ReceiveResendSeq \/ ResendSeqDone \/ Signal
      \/ Pick \/ Wake \/ Sweep \/ CheckGrant \/ Transmit \/ TooLarge
      \/ (\E r \in Rpc : GoesIdle(r)) \/ PathShrinks \/ SessionEnds \/ UNCHANGED vars
        => UNCHANGED <<ring, nextSeq, repairs>>
  BY DEF ReceivePacket, ReceiveHello, ReceiveResendSeq, ResendSeqDone, Signal, Pick, Wake,
         Sweep, CheckGrant, Transmit, TooLarge, GoesIdle, PathShrinks, SessionEnds,
         vars, session, sendVars
<1> QED BY <1>1, <1>2, RepairLookUp, RepairRecord DEF Next, ReceiveLoop, SendLoop

\* resendSeq: the bytes of a number are queued at most once, however often the client
\* repeats its RESEND_SEQ and however the ring goes round meanwhile.
THEOREM RepairedOnceHolds == Spec => []RepairedOnce
<1>1. RepairInv => RepairedOnce
  BY DEF RepairInv, RepairedOnce
<1>2. Spec => []RepairInv
  BY InitRepairInv, NextRepairInv, Inductive, PTL DEF Spec
<1> QED BY <1>1, <1>2, PTL

-----------------------------------------------------------------------------
(* A payload fits the datagram it was chosen for. *)

LEMMA PickCuts ==
    ASSUME IInv, NEW r \in DueRpcs
    PROVE  LET w == Chosen(r)
           IN  w.kind \in DataKinds \ {"tailDup"} =>
                 Header(w.seq) + w.n <= maxDatagram \/ w.n <= 1
<1> DEFINE s == rpcs[r]
           c == Chunk(Numbered)
           p == Payload(r, Numbered)
           w == Chosen(r)
           h == Header(Numbered)
<1>1. r \in live /\ RpcInv(s) /\ s \in RpcState
  BY DEF DueRpcs, IInv, RpcInv
<1>2. /\ s.granted \in Nat /\ s.next \in Nat /\ s.resends \in Seq(Span)
      /\ maxDatagram \in Nat /\ h \in Nat
  BY <1>1, SenderAssumption DEF RpcState, IInv, TypeOK, Header
<1>3. c = Greatest(1, maxDatagram - h)
  BY DEF Chunk
<1>4. w.kind = Due(r) /\ w.n = p.n /\ (Due(r) # "meta" => w.seq = Numbered)
  <2>1. Numbered \in BOOLEAN
    BY DEF Numbered, IInv, TypeOK
  <2> QED BY <2>1 DEF Chosen
<1> HIDE DEF c, h
<1>5. c \in Nat
  BY <1>2, <1>3 DEF Greatest
<1>6. CASE Due(r) = "packet0"
  <2>1. p.n = Least(c, s.granted)
    BY <1>6 DEF Payload, Packet0Len, c
  <2> HIDE DEF p, w
  <2>2. p.n <= c /\ p.n \in Nat
    BY <1>2, <1>5, <2>1 DEF Least
  <2> QED BY <1>2, <1>3, <1>4, <1>6, <2>2 DEF Greatest, h, w
<1>7. CASE Due(r) = "resend"
  <2> DEFINE len == s.resends[1].end - s.resends[1].start
  <2>1. p.n = Least(c, len) /\ s.resends # <<>>
    BY <1>7 DEF Payload, c, Due
  <2>2. len \in Int
    BY <1>2, <2>1, FrontSpan
  <2> HIDE DEF p, w, len
  <2>3. p.n <= c /\ p.n \in Int
    BY <1>2, <1>5, <2>1, <2>2 DEF Least
  <2> QED BY <1>2, <1>3, <1>4, <1>7, <2>3 DEF Greatest, h, w
<1>8. CASE Due(r) = "new"
  <2>1. p.n = Least(c, s.granted - s.next)
    BY <1>8 DEF Payload, c
  <2> HIDE DEF p, w
  <2>2. p.n <= c /\ p.n \in Int
    BY <1>2, <1>5, <2>1 DEF Least
  <2> QED BY <1>2, <1>3, <1>4, <1>8, <2>2 DEF Greatest, h, w
<1> QED BY <1>4, <1>6, <1>7, <1>8 DEF DataKinds

LEMMA NextChosenFits == IInv /\ ChosenFits /\ [Next]_vars => ChosenFits'
<1> SUFFICES ASSUME IInv, ChosenFits, [Next]_vars PROVE ChosenFits'
  OBVIOUS
<1>1. CASE UNCHANGED <<work, maxDatagram>>
  BY <1>1 DEF ChosenFits, PayloadFits, IsData, DatagramSize, Header
<1>2. CASE work' = NoWork
  BY <1>2 DEF ChosenFits, PayloadFits, IsData, NoWork, DataKinds
<1>3. CASE Pick
  <2>1. CASE work' = [NoWork EXCEPT !.kind = "control"]
    BY <2>1 DEF ChosenFits, PayloadFits, IsData, NoWork, DataKinds
  <2>2. ASSUME NEW r \in DueRpcs, work' = Chosen(r) PROVE ChosenFits'
    <3>1. maxDatagram' = maxDatagram
      BY <1>3 DEF Pick
    <3> DEFINE w == Chosen(r)
    <3>2. w.kind \in DataKinds \ {"tailDup"} => Header(w.seq) + w.n <= maxDatagram \/ w.n <= 1
      BY PickCuts
    <3> HIDE DEF w
    <3>3. work' = w
      BY <2>2 DEF w
    <3> QED BY <3>1, <3>2, <3>3 DEF ChosenFits, PayloadFits, IsData, DatagramSize, Header
  <2>3. CASE UNCHANGED work
    BY <1>1, <1>3, <2>3 DEF Pick
  <2> QED BY <1>3, <2>1, <2>2, <2>3 DEF Pick
<1>4. TooLarge \/ Record => work' = NoWork
  BY DEF TooLarge, Record
<1>5. ReceivePacket \/ ReceiveHello \/ ReceiveResendSeq \/ ResendSeqStep \/ ResendSeqDone
      \/ Signal \/ Wake \/ Sweep \/ CheckGrant \/ Transmit
      \/ (\E r \in Rpc : GoesIdle(r)) \/ PathShrinks \/ SessionEnds \/ UNCHANGED vars
        => UNCHANGED <<work, maxDatagram>>
  BY DEF ReceivePacket, ReceiveHello, ReceiveResendSeq, ResendSeqStep, ResendSeqDone, Signal,
         Wake, Sweep, CheckGrant, Transmit, GoesIdle, PathShrinks, SessionEnds,
         vars, session, sendVars
<1> QED BY <1>1, <1>2, <1>3, <1>4, <1>5 DEF Next, ReceiveLoop, SendLoop

\* pick: whatever the headers, the path and the datagram limits, every payload but the
\* repeat of a tail fits the datagram size that the session knows when it is sent.
THEOREM ChosenPayloadFits == Spec => []ChosenFits
<1>1. Init => ChosenFits
  BY DEF Init, ChosenFits, PayloadFits, IsData, NoWork, DataKinds
<1> QED BY <1>1, NextChosenFits, Inductive, PTL DEF Spec

\* No tail is repeated by a server that has it turned off.
NoTailDup == \A r \in live : rpcs[r].tailDup = NoSpan

LEMMA RecordedTail ==
    ASSUME NEW s, RpcInv(s), work \in Work, work.kind \in DataKinds \cup {"meta"},
           s.tailDup = NoSpan, TailDuplicate = 0
    PROVE  WithTailDup(Recorded(s)).tailDup = NoSpan
<1> DEFINE u == Recorded(s)
<1>1. s \in RpcState
  BY DEF RpcInv
<1>2. u.tailDup = NoSpan /\ u.size = s.size
  BY <1>1 DEF Recorded, RpcState, DataKinds
<1> HIDE DEF u
<1>3. s.size \in Nat
  BY <1>1 DEF RpcState
<1>4. WithTailDup(u) = u
  BY <1>2, <1>3 DEF WithTailDup
<1> QED BY <1>2, <1>4 DEF u

LEMMA NextNoTailDup == ASSUME IInv, TailDuplicate = 0, NoTailDup, [Next]_vars PROVE NoTailDup'
<1>1. /\ live \subseteq Rpc /\ rpcs \in [Rpc -> RpcState]
      /\ \A r \in live : RpcInv(rpcs[r]) /\ rpcs[r].tailDup = NoSpan
  BY DEF IInv, TypeOK, NoTailDup
<1>2. CASE UNCHANGED <<live, rpcs>>
  BY <1>2 DEF NoTailDup
<1>3. CASE ReceivePacket
  <2>1. \A r \in live : rpcs'[r].tailDup = rpcs[r].tailDup
    BY <1>3, PacketEffect DEF Grows
\* A record that is new has sent nothing, so the span of its tail is empty.
  <2>2. ASSUME NEW r \in live' \ live PROVE rpcs'[r].tailDup = NoSpan
    <3> DEFINE d == rpcs'[r].tailDup
    <3>1. RpcInv(rpcs'[r]) /\ rpcs'[r].next = 0
      BY <1>3, PacketEffect
    <3>2. d \in Span /\ d.start <= d.end /\ d.end <= 0
      BY <3>1 DEF RpcInv, RpcState
    <3> HIDE DEF d
    <3>3. d.start = 0 /\ d.end = 0 /\ d = [start |-> d.start, end |-> d.end]
      BY <3>2 DEF Span
    <3> QED BY <3>3 DEF NoSpan, d
  <2> QED BY <1>1, <2>1, <2>2 DEF NoTailDup
<1>4. ASSUME NEW r \in Rpc, NEW t, rpcs' = [rpcs EXCEPT ![r] = t], live' = live,
             r \in live => t.tailDup = NoSpan
      PROVE  NoTailDup'
  BY <1>1, <1>4 DEF NoTailDup
<1>5. CASE ResendSeqStep
  <2> DEFINE e == ring[resending.start % RingSize]
             t == Merged(rpcs[e.rpc], e)
  <2>1. live' = live
    BY <1>5 DEF ResendSeqStep
  <2>2. rpcs' = rpcs \/ (e.rpc \in live /\ rpcs' = [rpcs EXCEPT ![e.rpc] = t])
    BY <1>5 DEF ResendSeqStep
  <2>3. e \in Entry
    BY <1>5, Slot, RepairTypes DEF ResendSeqStep, IInv, TypeOK, Span
  <2>4. e.rpc \in live => t.tailDup = NoSpan
    BY <1>1, <2>3, MergedInv DEF Grows
  <2> HIDE DEF e, t
  <2> QED BY <1>1, <1>2, <1>4, <2>1, <2>2, <2>4
<1>6. ASSUME NEW r \in Rpc, GoesIdle(r) PROVE NoTailDup'
  <2> DEFINE t == [rpcs[r] EXCEPT !.stale = TRUE]
  <2>1. r \in live /\ live' = live /\ rpcs' = [rpcs EXCEPT ![r] = t]
    BY <1>6 DEF GoesIdle
  <2>2. t.tailDup = NoSpan
    BY <1>1, <2>1 DEF RpcState
  <2> HIDE DEF t
  <2> QED BY <1>4, <2>1, <2>2
<1>7. CASE Sweep
  <2>1. live' \subseteq live /\ \A r \in live' : rpcs'[r] = rpcs[r]
    BY <1>1, <1>7 DEF Sweep
  <2> QED BY <1>1, <2>1 DEF NoTailDup
<1>8. CASE Record
  <2> DEFINE r == work.rpc
             t == WithTailDup(Recorded(rpcs[r]))
  <2>1. live' = live /\ work \in Work /\ r \in Rpc /\ work.kind # "none"
    BY <1>8 DEF Record, IInv, TypeOK, Work
  <2>2. CASE work.kind = "control"
    BY <1>2, <1>8, <2>2 DEF Record
  <2>3. CASE work.kind # "control"
    <3>1. rpcs' = [rpcs EXCEPT ![r] = t]
      BY <1>8, <2>3 DEF Record
    <3>2. work.kind \in DataKinds \cup {"meta"}
      BY <2>1, <2>3 DEF Work
    <3>3. r \in live => t.tailDup = NoSpan
      BY <1>1, <2>1, <3>2, RecordedTail
    <3> HIDE DEF r, t
    <3> QED BY <1>4, <2>1, <3>1, <3>3
  <2> QED BY <2>2, <2>3
<1>9. ReceiveHello \/ ReceiveResendSeq \/ ResendSeqDone \/ Signal \/ Pick \/ Wake
      \/ CheckGrant \/ Transmit \/ TooLarge \/ PathShrinks \/ SessionEnds \/ UNCHANGED vars
        => UNCHANGED <<live, rpcs>>
  BY DEF ReceiveHello, ReceiveResendSeq, ResendSeqDone, Signal, Pick, Wake,
         CheckGrant, Transmit, TooLarge, PathShrinks, SessionEnds, vars, session, sendVars
<1> QED BY <1>2, <1>3, <1>5, <1>6, <1>7, <1>8, <1>9 DEF Next, ReceiveLoop, SendLoop

\* Without a tail to repeat, no work repeats one.
NoTailWork == NoTailDup /\ work.kind # "tailDup"

LEMMA NextNoTailWork ==
    ASSUME IInv, TailDuplicate = 0, NoTailWork, [Next]_vars PROVE NoTailWork'
<1>1. NoTailDup'
  BY NextNoTailDup DEF NoTailWork
<1>2. work'.kind # "tailDup"
  <2>1. CASE Pick
    <3>1. ASSUME NEW r \in DueRpcs, work' = Chosen(r) PROVE work'.kind # "tailDup"
      <4>1. r \in live /\ rpcs[r].tailDup = NoSpan
        BY DEF DueRpcs, NoTailWork, NoTailDup
      <4>2. Due(r) # "tailDup"
        BY <4>1 DEF Due
      <4> QED BY <3>1, <4>2 DEF Chosen
    <3>2. work' = [NoWork EXCEPT !.kind = "control"] \/ work' = work => work'.kind # "tailDup"
      BY DEF NoWork, NoTailWork
    <3> QED BY <2>1, <3>1, <3>2 DEF Pick
  <2>2. ~Pick => work' = work \/ work' = NoWork
    BY DEF Next, ReceiveLoop, SendLoop, ReceivePacket, ReceiveHello, ReceiveResendSeq,
           ResendSeqStep, ResendSeqDone, Signal, Wake, Sweep, CheckGrant, Transmit, TooLarge,
           Record, GoesIdle, PathShrinks, SessionEnds, vars, session, sendVars
  <2> QED BY <2>1, <2>2 DEF NoWork, NoTailWork
<1> QED BY <1>1, <1>2 DEF NoTailWork

\* pick: where the server repeats no tails, every payload fits.  (Where it does, the
\* repeat may be sent after the datagram size has become smaller.)
THEOREM PayloadFitsHolds == TailDuplicate = 0 => (Spec => []PayloadFits)
<1> SUFFICES ASSUME TailDuplicate = 0 PROVE Spec => []PayloadFits
  OBVIOUS
<1>1. Init => NoTailWork
  BY DEF Init, NoTailWork, NoTailDup, NoWork
<1>2. IInv /\ NoTailWork /\ [Next]_vars => NoTailWork'
  BY NextNoTailWork
<1>3. NoTailWork /\ ChosenFits => PayloadFits
  BY DEF NoTailWork, ChosenFits
<1> QED BY <1>1, <1>2, <1>3, ChosenPayloadFits, Inductive, PTL DEF Spec

-----------------------------------------------------------------------------
(* A byte that is owed leaves its queue only by being sent. *)

\* The bytes of a queue of spans, and: every span of p lies in one of q.
Bytes(q)     == UNION {Units(q[i].start, q[i].end - q[i].start) : i \in 1..Len(q)}
Covers(p, q) == \A i \in 1..Len(p) : \E j \in 1..Len(q) :
                    q[j].start <= p[i].start /\ p[i].end <= q[j].end

LEMMA SpansAre ==
    ASSUME NEW q \in Seq(Span)
    PROVE  \A i \in 1..Len(q) : q[i] \in Span /\ q[i].start \in Nat /\ q[i].end \in Nat
<1> TAKE i \in 1..Len(q)
<1>1. q[i] \in Span
  BY ElementOfSeq
<1> QED BY <1>1 DEF Span

LEMMA BytesAre ==
    ASSUME NEW q \in Seq(Span), NEW u
    PROVE  u \in Bytes(q) <=> u \in Int /\ \E i \in 1..Len(q) : q[i].start <= u /\ u < q[i].end
<1>1. \A i \in 1..Len(q) : q[i].start \in Nat /\ q[i].end \in Nat
  BY SpansAre
<1>2. \A i \in 1..Len(q) : u \in Units(q[i].start, q[i].end - q[i].start) <=>
                             u \in Int /\ q[i].start <= u /\ u < q[i].end
  BY <1>1 DEF Units
<1> QED BY <1>2 DEF Bytes

LEMMA CoversBytes ==
    ASSUME NEW p \in Seq(Span), NEW q \in Seq(Span), Covers(p, q)
    PROVE  Bytes(p) \subseteq Bytes(q)
<1> SUFFICES ASSUME NEW u \in Bytes(p) PROVE u \in Bytes(q)
  OBVIOUS
<1>1. PICK i \in 1..Len(p) : u \in Int /\ p[i].start <= u /\ u < p[i].end
  BY BytesAre
<1>2. PICK j \in 1..Len(q) : q[j].start <= p[i].start /\ p[i].end <= q[j].end
  BY DEF Covers
<1>3. p[i].start \in Nat /\ p[i].end \in Nat /\ q[j].start \in Nat /\ q[j].end \in Nat
  BY SpansAre
<1>4. q[j].start <= u /\ u < q[j].end
  BY <1>1, <1>2, <1>3
<1> QED BY <1>1, <1>4, BytesAre

LEMMA CoversItself == ASSUME NEW q \in Seq(Span) PROVE Covers(q, q)
<1>1. \A i \in 1..Len(q) : q[i].start \in Nat /\ q[i].end \in Nat
  BY SpansAre
<1> QED BY <1>1 DEF Covers

\* A raised grant leaves the queue, a lost range joins it or lengthens its last span.
LEMMA QueueGrows ==
    ASSUME NEW s, RpcInv(s)
    PROVE  /\ \A g : Raise(s, g).resends = s.resends
           /\ \A b, e : Covers(s.resends, Queued(s, b, e).resends)
           /\ \A e \in Entry : Covers(s.resends, Merged(s, e).resends)
<1> DEFINE old == s.resends
<1>1. s \in RpcState /\ old \in Seq(Span) /\ Covers(old, old)
  BY CoversItself DEF RpcInv, RpcState
<1>2. \A g : Raise(s, g).resends = old
  BY <1>1 DEF Raise, RpcState
<1>3. ASSUME NEW b, NEW e PROVE Covers(old, Queued(s, b, e).resends)
  <2> DEFINE span == [start |-> b, end |-> Least(e, Sendable(s))]
  <2>1. Queued(s, b, e).resends \in {old, Append(old, span)}
    BY <1>1 DEF Queued, RpcState
  <2>2. Covers(old, Append(old, span))
    <3> HIDE DEF span
    <3>1. /\ Len(Append(old, span)) = Len(old) + 1 /\ Len(old) \in Nat
          /\ \A i \in 1..Len(old) : Append(old, span)[i] = old[i]
      BY <1>1
    <3>2. \A i \in 1..Len(old) : i \in 1..Len(Append(old, span))
      BY <3>1
    <3>3. \A i \in 1..Len(old) : old[i].start \in Nat /\ old[i].end \in Nat
      BY <1>1, SpansAre
    <3> QED BY <3>1, <3>2, <3>3 DEF Covers
  <2> QED BY <1>1, <2>1, <2>2
<1>4. ASSUME NEW e \in Entry PROVE Covers(old, Merged(s, e).resends)
  <2> DEFINE end == Least(e.off + e.n, Sendable(s))
             k   == Len(old)
             top == [old[k] EXCEPT !.end = end]
             q   == [old EXCEPT ![k] = top]
  <2>1. CASE e.off < end /\ k > 0 /\ old[k].end = e.off
    <3>1. Merged(s, e).resends = q
      BY <1>1, <2>1 DEF Merged, RpcState
    <3>2. k \in 1..Len(old) /\ old[k] \in Span /\ end \in Int
      BY <1>1, <2>1, ElementOfSeq DEF Least, Sendable, RpcState, Entry
    <3>3. top.start = old[k].start /\ top.end = end /\ old[k].end <= end
      BY <2>1, <3>2 DEF Span
    <3> HIDE DEF top, end
    <3>4. Len(q) = Len(old) /\ \A i \in 1..Len(old) : q[i] = IF i = k THEN top ELSE old[i]
      BY <1>1, <3>2
    <3>5. \A i \in 1..Len(old) : old[i].start \in Nat /\ old[i].end \in Nat
      BY <1>1, SpansAre
    <3> HIDE DEF q
    <3>6. \A i \in 1..Len(old) : q[i].start <= old[i].start /\ old[i].end <= q[i].end
      BY <3>3, <3>4, <3>5
    <3> QED BY <3>1, <3>4, <3>6 DEF Covers
  <2>2. CASE ~(e.off < end /\ k > 0 /\ old[k].end = e.off)
    <3>1. Merged(s, e) = Queued(s, e.off, e.off + e.n)
      BY <2>2 DEF Merged
    <3> QED BY <1>3, <3>1
  <2> QED BY <2>1, <2>2
<1> QED BY <1>2, <1>3, <1>4

\* What the front of the queue loses to a datagram is what the datagram carries.
LEMMA FrontLoses ==
    ASSUME NEW q \in Seq(Span), q # <<>>, work \in Work, q[1].start = work.off
    PROVE  Bytes(q) \ Bytes(FrontSent(q)) \subseteq Units(work.off, work.n)
<1> SUFFICES ASSUME NEW u \in Bytes(q), u \notin Units(work.off, work.n)
             PROVE  u \in Bytes(FrontSent(q))
  OBVIOUS
<1>1. /\ work.off \in Nat /\ work.n \in Nat /\ u \in Int
      /\ 1 \in 1..Len(q) /\ q[1] \in Span /\ q[1].end \in Nat
  BY FrontSpan, BytesAre DEF Work
<1>2. u < work.off \/ work.off + work.n <= u
  BY <1>1 DEF Units
<1>3. PICK i \in 1..Len(q) : q[i].start <= u /\ u < q[i].end
  BY BytesAre
<1>4. CASE q[1].start + work.n >= q[1].end
  <2>1. /\ FrontSent(q) = Tail(q) /\ Tail(q) \in Seq(Span)
        /\ Len(Tail(q)) = Len(q) - 1 /\ \A j \in 1..Len(Tail(q)) : Tail(q)[j] = q[j + 1]
    BY <1>4, HeadTailProperties DEF FrontSent
  <2>2. i # 1
    BY <1>1, <1>2, <1>3, <1>4
  <2>3. i - 1 \in 1..Len(Tail(q)) /\ Tail(q)[i - 1] = q[i]
    BY <1>3, <2>1, <2>2, LenProperties
  <2>4. \E j \in 1..Len(Tail(q)) : Tail(q)[j].start <= u /\ u < Tail(q)[j].end
    BY <1>3, <2>3
  <2> QED BY <1>1, <2>1, <2>4, BytesAre
<1>5. CASE ~(q[1].start + work.n >= q[1].end)
  <2> DEFINE top == [q[1] EXCEPT !.start = @ + work.n]
             p   == [q EXCEPT ![1] = top]
  <2>1. top \in Span /\ top.end = q[1].end /\ top.start = work.off + work.n
    BY <1>1 DEF Span
  <2>2. FrontSent(q) = p
    BY <1>5 DEF FrontSent
  <2> HIDE DEF top
  <2>3. /\ p \in Seq(Span) /\ Len(p) = Len(q)
        /\ \A j \in 1..Len(q) : p[j] = IF j = 1 THEN top ELSE q[j]
    BY <1>1, <2>1, ExceptSeq
  <2> HIDE DEF p
  <2>4. p[i].start <= u /\ u < p[i].end
    BY <1>1, <1>2, <1>3, <2>1, <2>3
  <2> QED BY <1>1, <2>2, <2>3, <2>4, BytesAre
<1> QED BY <1>4, <1>5

\* A step that leaves the queues of the live rpcs as they are, or lets one grow.
LEMMA OwedGrows ==
    ASSUME IInv, IInv', NEW r \in live \cap live', Covers(rpcs[r].resends, rpcs'[r].resends)
    PROVE  Owed(r) \subseteq Owed(r)'
<1> DEFINE p == rpcs[r].resends
           q == rpcs'[r].resends
<1>1. p \in Seq(Span) /\ q \in Seq(Span)
  BY DEF IInv, RpcInv, RpcState
<1>2. Owed(r) = Bytes(p) /\ Owed(r)' = Bytes(q)
  BY DEF Owed, Bytes, Units
<1> HIDE DEF p, q
<1> QED BY <1>1, <1>2, CoversBytes DEF p, q

LEMMA OwedStep ==
    ASSUME IInv, [Next]_vars, NEW r \in live \cap live'
    PROVE  Owed(r) \ Owed(r)' \subseteq
             IF pc = "record" /\ work.kind = "resend" THEN InFlight(r) ELSE {}
<1>1. IInv' /\ r \in Rpc /\ rpcs \in [Rpc -> RpcState] /\ live \subseteq Rpc
  BY NextIInv DEF IInv, TypeOK
<1> DEFINE p == rpcs[r].resends
           q == rpcs'[r].resends
<1>2. RpcInv(rpcs[r]) /\ p \in Seq(Span) /\ q \in Seq(Span)
  BY <1>1 DEF IInv, RpcInv, RpcState
<1>3. Covers(p, p) /\ (Covers(p, q) => Owed(r) \subseteq Owed(r)')
  BY <1>1, <1>2, CoversItself, OwedGrows
<1>4. CASE q = p
  BY <1>3, <1>4
<1>5. CASE ReceivePacket
  <2>1. ASSUME NEW x \in Rpc, NEW size \in Sizes, NEW g \in 0..MaxOffset, ReceiveReq(x, size, g)
        PROVE  q = p
    <3>1. x # r => rpcs'[r] = rpcs[r]
      BY <1>1, <2>1 DEF ReceiveReq
    <3> DEFINE t == Raise(rpcs[r], g)
    <3>2. x = r => rpcs'[r] = [t EXCEPT !.packet0Req = t.packet0Req + 1]
      BY <1>1, <2>1 DEF ReceiveReq
    <3>3. t.resends = p /\ t \in RpcState
      BY <1>2, QueueGrows, RaiseInv DEF RpcInv
    <3> HIDE DEF t
    <3> QED BY <3>1, <3>2, <3>3 DEF RpcState
  <2>2. ASSUME NEW x \in Rpc, NEW code, ReceiveBadReq(x, code) PROVE q = p
    BY <2>2 DEF ReceiveBadReq, ReplyWith
  <2>3. ASSUME NEW x \in Rpc, NEW g \in 0..MaxOffset, ReceiveGrant(x, g) PROVE q = p
    BY <1>1, <1>2, <2>3, QueueGrows DEF ReceiveGrant, ReplyWith
  <2>4. ASSUME NEW x \in Rpc, NEW b, NEW e, ReceiveResend(x, b, e) PROVE Covers(p, q)
    <3>1. rpcs' = rpcs \/ rpcs' = [rpcs EXCEPT ![x] = Queued(rpcs[x], b, e)]
      BY <2>4 DEF ReceiveResend, ReplyWith
    <3>2. q = p \/ q = Queued(rpcs[r], b, e).resends
      BY <1>1, <3>1
    <3> QED BY <1>2, <1>3, <3>2, QueueGrows
  <2> QED BY <1>3, <1>4, <1>5, <2>1, <2>2, <2>3, <2>4 DEF ReceivePacket
<1>6. CASE ResendSeqStep
  <2> DEFINE e == ring[resending.start % RingSize]
  <2>1. e \in Entry
    BY <1>6, Slot, RepairTypes DEF ResendSeqStep, IInv, TypeOK, Span
  <2>2. rpcs' = rpcs \/ rpcs' = [rpcs EXCEPT ![e.rpc] = Merged(rpcs[e.rpc], e)]
    BY <1>6 DEF ResendSeqStep
  <2> HIDE DEF e
  <2>3. q = p \/ q = Merged(rpcs[r], e).resends
    BY <1>1, <2>2
  <2> QED BY <1>2, <1>3, <2>1, <2>3, QueueGrows
<1>7. ASSUME NEW x \in Rpc, GoesIdle(x) PROVE q = p
  BY <1>1, <1>7 DEF GoesIdle, RpcState
<1>8. CASE Sweep
  BY <1>1, <1>4, <1>8 DEF Sweep
<1>9. CASE Record
  <2> DEFINE w == work.rpc
             s == rpcs[w]
  <2>1. work \in Work /\ w \in Rpc
    BY DEF IInv, TypeOK, Work
  <2>2. CASE work.kind # "control"
    <3>1. rpcs' = [rpcs EXCEPT ![w] = WithTailDup(Recorded(s))]
      BY <1>9, <2>2 DEF Record
    <3>2. CASE w = r
      <4>1. q = WithTailDup(Recorded(rpcs[r])).resends
        BY <1>1, <3>1, <3>2
      <4>2. CASE work.kind = "resend"
        <5>1. Recorded(rpcs[r]) = [rpcs[r] EXCEPT !.resends = FrontSent(p)]
          BY <4>2 DEF Recorded
        <5>2. q = FrontSent(p)
          BY <1>1, <4>1, <4>2, <5>1 DEF WithTailDup, RpcState
        <5>3. p # <<>> /\ p[1].start = work.off
          BY <3>2, <4>2 DEF IInv, WorkInv, DataKinds
        <5>4. Owed(r) = Bytes(p) /\ Owed(r)' = Bytes(q)
          BY DEF Owed, Bytes, Units
        <5>5. pc = "record" /\ InFlight(r) = Units(work.off, work.n)
          BY <1>9, <3>2, <4>2 DEF Record, InFlight, IsData, DataKinds
        <5> HIDE DEF p, q
        <5> QED BY <1>2, <2>1, <4>2, <5>2, <5>3, <5>4, <5>5, FrontLoses
      <4>3. CASE work.kind # "resend"
        <5>1. work.kind \in DataKinds \cup {"meta", "none"}
          BY <2>1, <2>2 DEF Work
        <5>2. work.kind # "none"
          BY <1>9 DEF IInv, Record
        <5> DEFINE u == Recorded(rpcs[r])
        <5>3. u.resends = p
          BY <1>1, <4>3, <5>1, <5>2 DEF Recorded, RpcState, DataKinds
        <5>4. u \in RpcState
          BY <2>1, <3>2, <5>1, <5>2, RecordedInv DEF IInv, RpcInv
        <5> HIDE DEF u
        <5>5. WithTailDup(u).resends = u.resends
          BY <5>4 DEF WithTailDup, RpcState
        <5>6. q = p
          BY <4>1, <5>3, <5>5 DEF u
        <5> QED BY <1>4, <5>6
      <4> QED BY <4>2, <4>3
    <3>3. CASE w # r
      BY <1>1, <1>4, <3>1, <3>3
    <3> QED BY <3>2, <3>3
  <2>3. CASE work.kind = "control"
    BY <1>4, <1>9, <2>3 DEF Record
  <2> QED BY <2>2, <2>3
<1>10. ReceiveHello \/ ReceiveResendSeq \/ ResendSeqDone \/ Signal \/ Pick \/ Wake
       \/ CheckGrant \/ Transmit \/ TooLarge \/ PathShrinks \/ SessionEnds \/ UNCHANGED vars
         => rpcs' = rpcs
  BY DEF ReceiveHello, ReceiveResendSeq, ResendSeqDone, Signal, Pick, Wake,
         CheckGrant, Transmit, TooLarge, PathShrinks, SessionEnds, vars, session, sendVars
<1> QED BY <1>4, <1>5, <1>6, <1>7, <1>8, <1>9, <1>10 DEF Next, ReceiveLoop, SendLoop

\* Record and the receive loop: a byte that is owed leaves its queue only in the
\* datagram that carries it, though the loops share the queue.
THEOREM OwedUntilSentHolds == Spec => OwedUntilSent
<1>1. IInv /\ [Next]_vars =>
        [\A r \in live \cap live' :
           Owed(r) \ Owed(r)' \subseteq
             IF pc = "record" /\ work.kind = "resend" THEN InFlight(r) ELSE {}]_vars
  BY OwedStep
<1> QED BY <1>1, Inductive, PTL DEF Spec, OwedUntilSent
=============================================================================
