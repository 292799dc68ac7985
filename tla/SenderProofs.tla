---------------------------- MODULE SenderProofs ----------------------------
(***************************************************************************)
(* The safety of the passive sender, for every value of its constants.     *)
(* The argument is per rpc: RpcInv is what the session's record of one rpc *)
(* always satisfies, WorkInv ties the work in flight to the record it was  *)
(* chosen from, and the receive loop only ever grows a record (Grows), so  *)
(* it cannot make chosen work wrong while mu is released.                  *)
(***************************************************************************)
EXTENDS Sender, SequenceTheorems, TLAPS

\* What holds of the record of one live rpc.
RpcInv(s) ==
    /\ s \in RpcState
    /\ s.next <= s.granted /\ s.granted <= s.size
    /\ s.packet0Sent <= s.metaSent /\ s.metaSent <= s.packet0Req
    /\ \A i \in 1..Len(s.resends) :
         /\ s.resends[i].start < s.resends[i].end
         /\ s.resends[i].end <= s.next
    /\ s.tailDup.start <= s.tailDup.end /\ s.tailDup.end <= s.next

\* What holds of work w chosen from record s and not yet recorded.
WorkInv(w, s) ==
    /\ w.gen <= s.packet0Req
    /\ w.kind \in DataKinds => w.off <= s.next /\ w.off + w.n <= s.granted
    /\ w.kind = "meta" => s.metaSent <= w.gen /\ 0 < w.gen
    /\ w.kind = "packet0" => w.gen <= s.metaSent /\ s.packet0Sent <= w.gen /\ w.off = 0
    /\ w.kind = "resend" => /\ s.resends # <<>>
                            /\ s.resends[1].start = w.off
                            /\ w.off + w.n <= s.resends[1].end
    /\ w.kind = "new" => w.off = s.next
    /\ w.kind = "tailDup" => w.off + w.n <= s.next
    /\ w.kind \in DataKinds => 0 < s.metaSent

\* The inductive invariant.
IInv ==
    /\ TypeOK
    /\ \A r \in live : RpcInv(rpcs[r]) /\ 0 < rpcs[r].packet0Req
    /\ MetaLeadsData
    /\ SentIsPrefix
    /\ ungranted = 0
    /\ work.kind \in DataKinds \cup {"meta"} =>
         work.rpc \in live /\ WorkInv(work, rpcs[work.rpc])
    /\ work.kind = "none" <=> pc \in {"pick", "wait", "hold"}
    /\ work.kind = "control" => pending # <<>>
    /\ IsData /\ work.seq => nextSeq <= MaxSeq
    /\ resending.end <= MaxSeq

\* From record s to record t: what the receive loop may do to an rpc.
Grows(s, t) ==
    /\ t.size = s.size /\ t.next = s.next /\ t.tailDup = s.tailDup
    /\ t.metaSent = s.metaSent /\ t.packet0Sent = s.packet0Sent
    /\ s.granted <= t.granted /\ s.packet0Req <= t.packet0Req
    /\ s.resends # <<>> => /\ t.resends # <<>>
                           /\ t.resends[1].start = s.resends[1].start
                           /\ s.resends[1].end <= t.resends[1].end

-----------------------------------------------------------------------------
(* Lemmas on the operators. *)

\* A new record satisfies the record invariant.
LEMMA NewRpcInv ==
    ASSUME NEW size \in Nat
    PROVE  RpcInv(NewRpc(size))
BY DEF RpcInv, NewRpc, RpcState, Span, NoSpan

\* The front of a nonempty resend queue is a span.
LEMMA FrontSpan ==
    ASSUME NEW q \in Seq(Span), q # <<>>
    PROVE  /\ 1 \in 1..Len(q) /\ q[1] \in Span
           /\ q[1].start \in Nat /\ q[1].end \in Nat
<1>1. 1 \in 1..Len(q)
  BY EmptySeq
<1>2. q[1] \in Span
  BY <1>1, ElementOfSeq
<1> QED BY <1>1, <1>2 DEF Span

\* Raising a grant keeps the record invariant and only grows the record.
LEMMA RaiseInv ==
    ASSUME NEW s, RpcInv(s), NEW g \in Nat
    PROVE  RpcInv(Raise(s, g)) /\ Grows(s, Raise(s, g))
<1>1. s \in RpcState /\ s.resends \in Seq(Span)
  BY DEF RpcInv, RpcState
<1> DEFINE h == Greatest(s.granted, Least(g, s.size))
<1>2. h \in Nat /\ s.granted <= h /\ h <= s.size
  BY <1>1 DEF Greatest, Least, RpcInv, RpcState
<1>3. Raise(s, g) = [s EXCEPT !.granted = h, !.stale = FALSE]
  BY DEF Raise
<1> HIDE DEF h
<1>4. RpcInv(Raise(s, g))
  <2> DEFINE t == [s EXCEPT !.granted = h, !.stale = FALSE]
  <2>1. /\ t \in RpcState /\ t.granted = h /\ t.next = s.next /\ t.size = s.size
        /\ t.packet0Sent = s.packet0Sent /\ t.metaSent = s.metaSent
        /\ t.packet0Req = s.packet0Req /\ t.resends = s.resends /\ t.tailDup = s.tailDup
    BY <1>1, <1>2 DEF RpcState
  <2> HIDE DEF t
  <2>2. s.next <= h
    BY <1>1, <1>2 DEF RpcInv, RpcState
  <2>3. RpcInv(t)
    BY <1>2, <2>1, <2>2 DEF RpcInv
  <2> QED BY <1>3, <2>3 DEF t
<1>5. Grows(s, Raise(s, g))
  <2>1. s.resends # <<>> => s.resends[1].end <= s.resends[1].end
    BY <1>1, FrontSpan
  <2> QED BY <1>1, <1>2, <1>3, <2>1 DEF Grows, RpcState
<1> QED BY <1>4, <1>5

\* Queueing a lost range keeps the record invariant and only grows the record.
LEMMA QueuedInv ==
    ASSUME NEW s, RpcInv(s), NEW b \in Nat, NEW e \in Nat
    PROVE  RpcInv(Queued(s, b, e)) /\ Grows(s, Queued(s, b, e))
<1> DEFINE c    == Least(e, Sendable(s))
           span == [start |-> b, end |-> c]
<1>1. c \in Nat /\ c <= s.next
  BY DEF Least, Sendable, RpcInv, RpcState
<1>2. CASE b < c
  <2> DEFINE q == Append(s.resends, span)
  <2>1. s.resends \in Seq(Span) /\ span \in Span
    BY <1>1 DEF RpcInv, RpcState, Span
  <2>2. /\ q \in Seq(Span) /\ Len(q) = Len(s.resends) + 1
        /\ q[Len(q)] = span
        /\ \A i \in 1..Len(s.resends) : q[i] = s.resends[i]
    BY <2>1
  <2>3. \A i \in 1..Len(q) : q[i].start < q[i].end /\ q[i].end <= s.next
    BY <1>1, <1>2, <2>1, <2>2 DEF RpcInv
  <2>4. Queued(s, b, e) = [s EXCEPT !.stale = FALSE, !.resends = q]
    BY <1>2 DEF Queued
  <2>5. s.resends # <<>> => q # <<>> /\ q[1] = s.resends[1]
    BY <2>1, <2>2
  <2> HIDE DEF q
  <2>6. RpcInv(Queued(s, b, e))
    BY <2>2, <2>3, <2>4 DEF RpcInv, RpcState
  <2>7. Grows(s, Queued(s, b, e))
    <3>1. s.resends # <<>> => s.resends[1].end <= s.resends[1].end
      BY <2>1, FrontSpan
    <3> QED BY <2>4, <2>5, <3>1 DEF Grows, RpcInv, RpcState
  <2> QED BY <2>6, <2>7
<1>3. CASE ~(b < c)
  <2>1. Queued(s, b, e) = [s EXCEPT !.stale = FALSE]
    BY <1>3 DEF Queued, RpcInv, RpcState
  <2>2. s \in RpcState /\ s.resends \in Seq(Span)
    BY DEF RpcInv, RpcState
  <2>3. s.resends # <<>> => s.resends[1].end <= s.resends[1].end
    BY <2>2, FrontSpan
  <2>4. RpcInv(Queued(s, b, e))
    BY <2>1, <2>2 DEF RpcInv, RpcState
  <2>5. Grows(s, Queued(s, b, e))
    BY <2>1, <2>2, <2>3 DEF RpcState, Grows
  <2> QED BY <2>4, <2>5
<1> QED BY <1>2, <1>3

\* Queueing a remembered datagram, merged or not, keeps the record invariant.
LEMMA MergedInv ==
    ASSUME NEW s, RpcInv(s), NEW e \in Entry
    PROVE  RpcInv(Merged(s, e)) /\ Grows(s, Merged(s, e))
<1> DEFINE end == Least(e.off + e.n, Sendable(s))
           k   == Len(s.resends)
           old == s.resends
<1>1. s \in RpcState /\ old \in Seq(Span) /\ k \in Nat /\ e.off \in Nat /\ e.n \in Nat
  BY LenProperties DEF RpcInv, RpcState, Entry
<1>2. end \in Nat /\ end <= s.next
  BY <1>1 DEF Least, Sendable, RpcInv, RpcState
<1>3. CASE e.off < end /\ k > 0 /\ old[k].end = e.off
  <2> DEFINE top == [old[k] EXCEPT !.end = end]
             q   == [old EXCEPT ![k] = top]
  <2>1. k \in 1..Len(old) /\ old[k] \in Span
    BY <1>1, <1>3, ElementOfSeq
  <2>2. top \in Span /\ top.start = old[k].start /\ top.end = end
    BY <1>2, <2>1 DEF Span
  <2>3. Merged(s, e) = [s EXCEPT !.stale = FALSE, !.resends = q]
    BY <1>3 DEF Merged
  <2> HIDE DEF top, end
  <2>4. /\ q \in Seq(Span) /\ Len(q) = Len(old)
        /\ \A i \in 1..Len(old) : q[i] = IF i = k THEN top ELSE old[i]
    BY <1>1, <2>1, <2>2, ExceptSeq
  <2>5. \A i \in 1..Len(old) : old[i].start < old[i].end /\ old[i].end <= s.next
    BY DEF RpcInv
  <2>6. \A i \in 1..Len(q) : q[i].start < q[i].end /\ q[i].end <= s.next
    <3>1. top.start < top.end /\ top.end <= s.next
      <4>1. old[k].start < old[k].end /\ old[k].start \in Nat /\ old[k].end \in Nat
        BY <2>1, <2>5 DEF Span
      <4>2. old[k].end = e.off /\ e.off < end
        BY <1>3
      <4> QED BY <1>1, <1>2, <2>2, <4>1, <4>2
    <3> QED BY <2>4, <2>5, <3>1
  <2>7. q # <<>> /\ 1 \in 1..Len(old)
    BY <1>1, <1>3, <2>4
  <2>8. q[1].start = old[1].start /\ old[1].end <= q[1].end
    <3>1. CASE k = 1
      <4>1. q[1] = top /\ old[1] = old[k]
        BY <2>4, <2>7, <3>1
      <4>2. old[k].end = e.off /\ e.off < end
        BY <1>3
      <4> QED BY <1>1, <1>2, <2>2, <4>1, <4>2
    <3>2. CASE k # 1
      <4>1. q[1] = old[1] /\ old[1] \in Span
        BY <1>1, <2>4, <2>7, <3>2, ElementOfSeq
      <4> QED BY <4>1 DEF Span
    <3> QED BY <3>1, <3>2
  <2> HIDE DEF q
  <2>9. RpcInv(Merged(s, e))
    BY <1>1, <2>3, <2>4, <2>6 DEF RpcInv, RpcState
  <2>10. Grows(s, Merged(s, e))
    BY <1>1, <2>3, <2>7, <2>8 DEF Grows, RpcState
  <2> QED BY <2>9, <2>10
<1>4. CASE ~(e.off < end /\ k > 0 /\ old[k].end = e.off)
  <2>1. Merged(s, e) = Queued(s, e.off, e.off + e.n)
    BY <1>4 DEF Merged
  <2> QED BY <1>1, <2>1, QueuedInv
<1> QED BY <1>3, <1>4

\* What was chosen from a record still fits the record after it has grown.
LEMMA WorkSurvives ==
    ASSUME NEW w \in Work, NEW s, NEW t, RpcInv(s), RpcInv(t),
           WorkInv(w, s), Grows(s, t)
    PROVE  WorkInv(w, t)
<1>1. s \in RpcState /\ t \in RpcState
  BY DEF RpcInv
<1>2. w.off \in Nat /\ w.n \in Nat /\ w.gen \in Nat
  BY DEF Work
<1>3. w.kind = "resend" => /\ t.resends # <<>> /\ t.resends[1].start = w.off
                           /\ w.off + w.n <= t.resends[1].end
  <2> SUFFICES ASSUME w.kind = "resend"
               PROVE  /\ t.resends # <<>> /\ t.resends[1].start = w.off
                      /\ w.off + w.n <= t.resends[1].end
    OBVIOUS
  <2>1. s.resends # <<>> /\ s.resends[1].start = w.off /\ w.off + w.n <= s.resends[1].end
    BY DEF WorkInv
  <2>2. /\ t.resends # <<>> /\ t.resends[1].start = s.resends[1].start
        /\ s.resends[1].end <= t.resends[1].end
    BY <2>1 DEF Grows
  <2>3. s.resends[1].end \in Nat /\ t.resends[1].end \in Nat
    BY <1>1, <2>1, <2>2, FrontSpan DEF RpcState
  <2> QED BY <1>2, <2>1, <2>2, <2>3
<1> QED BY <1>1, <1>2, <1>3 DEF WorkInv, Grows, RpcState

\* The datagram just sent leaves the front of the resend queue.
LEMMA FrontSentInv ==
    ASSUME NEW q \in Seq(Span), q # <<>>, NEW b \in Nat, work \in Work,
           \A i \in 1..Len(q) : q[i].start < q[i].end /\ q[i].end <= b
    PROVE  /\ FrontSent(q) \in Seq(Span)
           /\ \A i \in 1..Len(FrontSent(q)) :
                /\ FrontSent(q)[i].start < FrontSent(q)[i].end
                /\ FrontSent(q)[i].end <= b
<1>1. /\ 1 \in 1..Len(q) /\ q[1] \in Span /\ q[1].start \in Nat /\ q[1].end \in Nat
  BY FrontSpan
<1>2. work.n \in Nat
  BY DEF Work
<1>3. CASE q[1].start + work.n >= q[1].end
  <2>1. FrontSent(q) = Tail(q)
    BY <1>3 DEF FrontSent
  <2>2. /\ Tail(q) \in Seq(Span) /\ Len(Tail(q)) = Len(q) - 1
        /\ \A i \in 1..Len(Tail(q)) : Tail(q)[i] = q[i + 1]
    BY HeadTailProperties
  <2>3. \A i \in 1..Len(Tail(q)) : i + 1 \in 1..Len(q)
    BY <2>2, LenProperties
  <2> QED BY <2>1, <2>2, <2>3
<1>4. CASE ~(q[1].start + work.n >= q[1].end)
  <2> DEFINE top == [q[1] EXCEPT !.start = @ + work.n]
             p   == [q EXCEPT ![1] = top]
  <2>1. top \in Span /\ top.end = q[1].end /\ top.start < top.end
    BY <1>1, <1>2, <1>4 DEF Span
  <2>2. FrontSent(q) = p
    BY <1>4 DEF FrontSent
  <2> HIDE DEF top
  <2>3. /\ p \in Seq(Span) /\ Len(p) = Len(q)
        /\ \A i \in 1..Len(q) : p[i] = IF i = 1 THEN top ELSE q[i]
    BY <1>1, <2>1, ExceptSeq
  <2> HIDE DEF p
  <2>4. \A i \in 1..Len(p) : p[i].start < p[i].end /\ p[i].end <= b
    BY <1>1, <2>1, <2>3
  <2> QED BY <2>2, <2>3, <2>4
<1> QED BY <1>3, <1>4

\* Recording a packet keeps the record invariant; a datagram of body extends
\* what was sent to its own end, and only to there.
LEMMA RecordedInv ==
    ASSUME NEW s, RpcInv(s), work \in Work, WorkInv(work, s),
           work.kind \in DataKinds \cup {"meta"}
    PROVE  /\ RpcInv(Recorded(s))
           /\ Recorded(s).packet0Req = s.packet0Req
           /\ s.metaSent <= Recorded(s).metaSent
           /\ Recorded(s).granted = s.granted
           /\ Recorded(s).next = IF IsData THEN Greatest(s.next, work.off + work.n)
                                 ELSE s.next
<1>1. s \in RpcState /\ s.resends \in Seq(Span)
  BY DEF RpcInv, RpcState
<1>2. work.off \in Nat /\ work.n \in Nat /\ work.gen \in Nat
  BY DEF Work
<1>3. CASE work.kind = "meta"
  <2>1. Recorded(s) = [s EXCEPT !.metaSent = work.gen]
    BY <1>3 DEF Recorded, Answers
  <2>2. s.metaSent <= work.gen /\ work.gen <= s.packet0Req
    BY <1>3 DEF WorkInv
  <2> QED BY <1>1, <1>2, <1>3, <2>1, <2>2 DEF RpcInv, RpcState, IsData, DataKinds
<1>4. CASE work.kind = "packet0"
  <2>1. Recorded(s) = [s EXCEPT !.packet0Sent = work.gen,
                                !.next = Greatest(@, work.n)]
    BY <1>4 DEF Recorded, Answers
  <2>2. /\ s.packet0Sent <= work.gen /\ work.gen <= s.metaSent
        /\ work.off = 0 /\ work.n <= s.granted
    BY <1>2, <1>4 DEF WorkInv, DataKinds
  <2> DEFINE m == Greatest(s.next, work.n)
  <2>3. /\ m \in Nat /\ s.next <= m /\ m <= s.granted
        /\ m = Greatest(s.next, work.off + work.n)
    BY <1>1, <1>2, <2>2 DEF Greatest, RpcInv, RpcState
  <2>4. Recorded(s) = [s EXCEPT !.packet0Sent = work.gen, !.next = m]
    BY <2>1
  <2> HIDE DEF m
  <2>5. /\ Recorded(s) \in RpcState /\ Recorded(s).next = m
        /\ Recorded(s).packet0Sent = work.gen /\ Recorded(s).size = s.size
        /\ Recorded(s).granted = s.granted /\ Recorded(s).metaSent = s.metaSent
        /\ Recorded(s).packet0Req = s.packet0Req
        /\ Recorded(s).resends = s.resends /\ Recorded(s).tailDup = s.tailDup
    BY <1>1, <1>2, <2>3, <2>4 DEF RpcState
  <2>6. \A i \in 1..Len(s.resends) : s.resends[i].start < s.resends[i].end
                                     /\ s.resends[i].end <= m
    <3> TAKE i \in 1..Len(s.resends)
    <3>1. s.resends[i] \in Span
      BY <1>1, ElementOfSeq
    <3>2. s.resends[i].start < s.resends[i].end /\ s.resends[i].end <= s.next
      BY DEF RpcInv
    <3> QED BY <1>1, <2>3, <3>1, <3>2 DEF Span, RpcState
  <2>7. s.tailDup.start <= s.tailDup.end /\ s.tailDup.end <= m
    BY <1>1, <2>3 DEF RpcInv, RpcState, Span
  <2>8. RpcInv(Recorded(s))
    BY <2>2, <2>3, <2>5, <2>6, <2>7 DEF RpcInv
  <2> QED BY <1>1, <1>4, <2>3, <2>5, <2>8 DEF IsData, DataKinds, RpcState
<1>5. CASE work.kind = "resend"
  <2>1. Recorded(s) = [s EXCEPT !.resends = FrontSent(s.resends)]
    BY <1>5 DEF Recorded
  <2>2. /\ s.resends # <<>> /\ work.off + work.n <= s.resends[1].end
    BY <1>5 DEF WorkInv
  <2>3. /\ FrontSent(s.resends) \in Seq(Span)
        /\ \A i \in 1..Len(FrontSent(s.resends)) :
             /\ FrontSent(s.resends)[i].start < FrontSent(s.resends)[i].end
             /\ FrontSent(s.resends)[i].end <= s.next
    <3>1. \A i \in 1..Len(s.resends) : s.resends[i].start < s.resends[i].end
                                       /\ s.resends[i].end <= s.next
      BY DEF RpcInv
    <3>2. s.next \in Nat
      BY <1>1 DEF RpcState
    <3> QED BY <1>1, <2>2, <3>1, <3>2, FrontSentInv
  <2>4. Greatest(s.next, work.off + work.n) = s.next
    <3>1. 1 \in 1..Len(s.resends) /\ s.resends[1].end \in Nat
      BY <1>1, <2>2, FrontSpan
    <3>2. s.resends[1].end <= s.next
      BY <3>1 DEF RpcInv
    <3> QED BY <1>1, <1>2, <2>2, <3>1, <3>2 DEF Greatest, RpcState
  <2> QED BY <1>1, <1>5, <2>1, <2>3, <2>4 DEF RpcInv, RpcState, IsData, DataKinds
<1>6. CASE work.kind = "new"
  <2>1. Recorded(s) = [s EXCEPT !.next = @ + work.n]
    BY <1>6 DEF Recorded
  <2>2. work.off = s.next /\ s.next + work.n <= s.granted
    BY <1>6 DEF WorkInv, DataKinds
  <2> DEFINE m == s.next + work.n
  <2>3. m \in Nat /\ s.next <= m /\ m <= s.granted /\ m = Greatest(s.next, work.off + work.n)
    BY <1>1, <1>2, <2>2 DEF Greatest, RpcInv, RpcState
  <2>4. Recorded(s) = [s EXCEPT !.next = m]
    BY <2>1
  <2> HIDE DEF m
  <2>5. /\ Recorded(s) \in RpcState /\ Recorded(s).next = m
        /\ Recorded(s).packet0Sent = s.packet0Sent /\ Recorded(s).size = s.size
        /\ Recorded(s).granted = s.granted /\ Recorded(s).metaSent = s.metaSent
        /\ Recorded(s).packet0Req = s.packet0Req
        /\ Recorded(s).resends = s.resends /\ Recorded(s).tailDup = s.tailDup
    BY <1>1, <2>3, <2>4 DEF RpcState
  <2>6. \A i \in 1..Len(s.resends) : s.resends[i].start < s.resends[i].end
                                     /\ s.resends[i].end <= m
    <3> TAKE i \in 1..Len(s.resends)
    <3>1. s.resends[i] \in Span
      BY <1>1, ElementOfSeq
    <3>2. s.resends[i].start < s.resends[i].end /\ s.resends[i].end <= s.next
      BY DEF RpcInv
    <3> QED BY <1>1, <2>3, <3>1, <3>2 DEF Span, RpcState
  <2>7. s.tailDup.start <= s.tailDup.end /\ s.tailDup.end <= m
    BY <1>1, <2>3 DEF RpcInv, RpcState, Span
  <2>8. RpcInv(Recorded(s))
    BY <2>3, <2>5, <2>6, <2>7 DEF RpcInv
  <2> QED BY <1>1, <1>6, <2>3, <2>5, <2>8 DEF IsData, DataKinds, RpcState
<1>7. CASE work.kind = "tailDup"
  <2>1. Recorded(s) = [s EXCEPT !.tailDup = NoSpan]
    BY <1>7 DEF Recorded
  <2>2. Greatest(s.next, work.off + work.n) = s.next
    BY <1>1, <1>2, <1>7 DEF WorkInv, Greatest, RpcState
  <2>3. NoSpan \in Span /\ NoSpan.start = 0 /\ NoSpan.end = 0
    BY DEF NoSpan, Span
  <2> QED BY <1>1, <1>7, <2>1, <2>2, <2>3 DEF RpcInv, RpcState, IsData, DataKinds
<1> QED BY <1>3, <1>4, <1>5, <1>6, <1>7 DEF DataKinds

\* Queueing the repeat of the last packet keeps the record invariant.
LEMMA WithTailDupInv ==
    ASSUME NEW s, RpcInv(s), work \in Work, IsData => work.off + work.n <= s.next
    PROVE  LET t == WithTailDup(s)
           IN  /\ RpcInv(t) /\ t.packet0Req = s.packet0Req /\ t.metaSent = s.metaSent
               /\ t.granted = s.granted /\ t.next = s.next
<1> DEFINE d == [start |-> work.off, end |-> work.off + work.n]
           u == [s EXCEPT !.tailDuped = TRUE, !.tailDup = d]
<1>1. s \in RpcState /\ work.off \in Nat /\ work.n \in Nat
  BY DEF RpcInv, Work
<1>2. CASE WithTailDup(s) = s
  BY <1>2
<1>3. CASE WithTailDup(s) = u /\ IsData
  <2>1. d \in Span /\ d.start <= d.end /\ d.end <= s.next
    BY <1>1, <1>3 DEF Span
  <2> HIDE DEF d
  <2>2. /\ u \in RpcState /\ u.tailDup = d
        /\ u.packet0Req = s.packet0Req /\ u.metaSent = s.metaSent
        /\ u.packet0Sent = s.packet0Sent /\ u.size = s.size
        /\ u.granted = s.granted /\ u.next = s.next /\ u.resends = s.resends
    BY <1>1, <2>1 DEF RpcState
  <2> HIDE DEF u
  <2>3. RpcInv(u)
    BY <2>1, <2>2 DEF RpcInv
  <2> QED BY <1>3, <2>2, <2>3
<1>4. WithTailDup(s) = s \/ (WithTailDup(s) = u /\ IsData)
  BY DEF WithTailDup
<1> QED BY <1>2, <1>3, <1>4

\* What pick chooses is well formed and fits the record it is chosen from.
LEMMA ChosenInv ==
    ASSUME TypeOK, NEW r \in live, RpcInv(rpcs[r]), 0 < rpcs[r].packet0Req,
           r \in DueRpcs
    PROVE  /\ Chosen(r) \in Work /\ Chosen(r).rpc = r
           /\ Chosen(r).kind \in DataKinds \cup {"meta"}
           /\ WorkInv(Chosen(r), rpcs[r])
           /\ Chosen(r).seq => nextSeq <= MaxSeq
<1> DEFINE s == rpcs[r]
           c == Chunk(Numbered)
           p == Payload(r, Numbered)
<1>1. /\ s \in RpcState /\ s.resends \in Seq(Span) /\ r \in Rpc
      /\ s.size \in Nat /\ s.granted \in Nat /\ s.next \in Nat
      /\ s.packet0Req \in Nat /\ s.metaSent \in Nat /\ s.packet0Sent \in Nat
      /\ s.tailDup \in Span /\ s.tailDup.start \in Nat /\ s.tailDup.end \in Nat
  BY DEF RpcInv, RpcState, TypeOK, Span
<1>2. c \in Nat /\ c >= 1
  <2>1. PlainHeader \in Nat /\ SeqHeader \in Nat /\ maxDatagram \in Nat
    BY SenderAssumption DEF TypeOK
  <2> QED BY <2>1 DEF Chunk, Greatest, Header
<1>3. Numbered \in BOOLEAN /\ (Numbered => nextSeq <= MaxSeq)
  BY DEF Numbered, TypeOK
<1>4. s.resends # <<>> =>
        /\ s.resends[1].start \in Nat /\ s.resends[1].end \in Nat
        /\ s.resends[1].start < s.resends[1].end /\ s.resends[1].end <= s.next
  BY <1>1, FrontSpan DEF RpcInv
<1>5. /\ s.next <= s.granted /\ s.granted <= s.size
      /\ s.packet0Sent <= s.metaSent /\ s.metaSent <= s.packet0Req
      /\ s.tailDup.start <= s.tailDup.end /\ s.tailDup.end <= s.next
  BY DEF RpcInv
<1>6. /\ Chosen(r).kind = Due(r) /\ Chosen(r).rpc = r /\ Chosen(r).off = p.off
      /\ Chosen(r).n = p.n /\ Chosen(r).gen = s.packet0Req
      /\ Chosen(r).seq = (Numbered /\ Due(r) # "meta")
  BY DEF Chosen
<1>12. p.off \in Nat /\ p.n \in Nat /\ Due(r) \in DataKinds \cup {"meta"}
         => Chosen(r) \in Work
  <2> SUFFICES ASSUME p.off \in Nat, p.n \in Nat, Due(r) \in DataKinds \cup {"meta"}
               PROVE  Chosen(r) \in Work
    OBVIOUS
  <2> DEFINE b == Numbered /\ Due(r) # "meta"
             d == Due(r)
  <2>1. b \in BOOLEAN
    OBVIOUS
  <2>2. Chosen(r) = [kind |-> d, rpc |-> r, off |-> p.off, n |-> p.n,
                     gen |-> s.packet0Req, seq |-> b]
    BY DEF Chosen
  <2>3. d \in DataKinds \cup {"meta"}
    OBVIOUS
  <2> HIDE DEF b, d, p
  <2> QED BY <1>1, <2>1, <2>2, <2>3 DEF Work
<1> HIDE DEF c
<1>7. CASE s.packet0Req > s.metaSent
  <2>1. Due(r) = "meta" /\ p.off = 0 /\ p.n = 0
    BY <1>7 DEF Due, Payload
  <2>2. WorkInv(Chosen(r), rpcs[r])
    BY <1>1, <1>5, <1>6, <1>7, <2>1 DEF WorkInv, DataKinds
  <2>3. Chosen(r) \in Work
    BY <1>1, <1>12, <2>1 DEF DataKinds
  <2> QED BY <1>3, <1>6, <2>1, <2>2, <2>3
<1>8. CASE ~(s.packet0Req > s.metaSent) /\ s.packet0Req > s.packet0Sent
  <2>1. Due(r) = "packet0"
    BY <1>8 DEF Due
  <2>2. p.off = 0 /\ p.n = Least(c, s.granted)
    BY <2>1 DEF Payload, c, Packet0Len
  <2>3. p.n \in Nat /\ p.n <= s.granted
    BY <1>1, <1>2, <2>2 DEF Least
  <2>4. WorkInv(Chosen(r), rpcs[r])
    BY <1>1, <1>5, <1>6, <1>8, <2>1, <2>2, <2>3 DEF WorkInv, DataKinds
  <2>5. Chosen(r) \in Work
    BY <1>1, <1>12, <2>1, <2>2, <2>3 DEF DataKinds
  <2> QED BY <1>3, <1>6, <2>1, <2>4, <2>5 DEF DataKinds
<1> DEFINE Answered == ~(s.packet0Req > s.metaSent) /\ ~(s.packet0Req > s.packet0Sent)
<1>9. CASE Answered /\ s.resends # <<>>
  <2>1. Due(r) = "resend"
    BY <1>9 DEF Due
  <2>2. p.off = s.resends[1].start
        /\ p.n = Least(c, s.resends[1].end - s.resends[1].start)
    BY <2>1 DEF Payload, c
  <2>3. p.off \in Nat /\ p.n \in Nat /\ p.off + p.n <= s.resends[1].end
    BY <1>2, <1>4, <1>9, <2>2 DEF Least
  <2>4. p.off <= s.next /\ p.off + p.n <= s.granted
    <3> DEFINE x == p.off
               y == p.n
               b == s.resends[1].end
    <3>1. x \in Nat /\ y \in Nat /\ b \in Nat /\ x + y <= b /\ b <= s.next
      BY <1>4, <1>9, <2>3
    <3> HIDE DEF x, y, b
    <3>2. x <= s.next /\ x + y <= s.granted
      BY <1>1, <1>5, <3>1
    <3> QED BY <3>2 DEF x, y
  <2>5. WorkInv(Chosen(r), rpcs[r])
    BY <1>1, <1>5, <1>6, <1>9, <2>1, <2>2, <2>3, <2>4 DEF WorkInv, DataKinds
  <2>6. Chosen(r) \in Work
    BY <1>1, <1>12, <2>1, <2>3 DEF DataKinds
  <2> QED BY <1>3, <1>6, <2>1, <2>5, <2>6 DEF DataKinds
<1>10. CASE Answered /\ s.resends = <<>> /\ s.next < s.granted
  <2>1. Due(r) = "new"
    BY <1>10 DEF Due
  <2>2. p.off = s.next /\ p.n = Least(c, s.granted - s.next)
    BY <2>1 DEF Payload, c
  <2>3. p.n \in Nat /\ p.off + p.n <= s.granted
    BY <1>1, <1>2, <1>10, <2>2 DEF Least
  <2>4. WorkInv(Chosen(r), rpcs[r])
    BY <1>1, <1>5, <1>6, <1>10, <2>1, <2>2, <2>3 DEF WorkInv, DataKinds
  <2>5. Chosen(r) \in Work
    BY <1>1, <1>12, <2>1, <2>2, <2>3 DEF DataKinds
  <2> QED BY <1>3, <1>6, <2>1, <2>4, <2>5 DEF DataKinds
<1>11. CASE Answered /\ s.resends = <<>> /\ ~(s.next < s.granted)
  <2>1. Due(r) = "tailDup"
    <3>1. Due(r) # "none"
      BY DEF DueRpcs
    <3> QED BY <1>11, <3>1 DEF Due
  <2>2. p.off = s.tailDup.start /\ p.n = s.tailDup.end - s.tailDup.start
    BY <2>1 DEF Payload
  <2>3. p.off \in Nat /\ p.n \in Nat /\ p.off + p.n <= s.next /\ p.off + p.n <= s.granted
        /\ p.off <= s.next
    <3> DEFINE x == p.off
               y == p.n
               a == s.tailDup.start
               b == s.tailDup.end
    <3>1. x = a /\ y = b - a /\ a \in Nat /\ b \in Nat /\ a <= b /\ b <= s.next
      BY <1>1, <1>5, <2>2
    <3> HIDE DEF x, y, a, b
    <3>2. x \in Nat /\ y \in Nat /\ x + y <= s.next /\ x + y <= s.granted /\ x <= s.next
      BY <1>1, <1>5, <3>1
    <3> QED BY <3>2 DEF x, y
  <2>4. WorkInv(Chosen(r), rpcs[r])
    BY <1>1, <1>5, <1>6, <1>11, <2>1, <2>2, <2>3 DEF WorkInv, DataKinds
  <2>5. Chosen(r) \in Work
    BY <1>1, <1>12, <2>1, <2>3 DEF DataKinds
  <2> QED BY <1>3, <1>6, <2>1, <2>4, <2>5 DEF DataKinds
<1> QED BY <1>7, <1>8, <1>9, <1>10, <1>11

-----------------------------------------------------------------------------
(* The inductive invariant. *)

\* The placeholders have the types of what they stand for.
LEMMA Placeholders ==
    AnyRpc \in Rpc /\ NoWork \in Work /\ NoEntry \in Entry /\ NoSpan \in Span
<1>1. AnyRpc \in Rpc
  BY RpcAssumption DEF AnyRpc
<1> QED BY <1>1 DEF NoWork, NoEntry, NoSpan, Work, Entry, Span

\* The sender starts in a state of the invariant.
LEMMA InitIInv == Init => IInv
<1> SUFFICES ASSUME Init PROVE IInv
  OBVIOUS
<1>1. TypeOK
  <2>1. NewRpc(0) \in RpcState
    BY NewRpcInv DEF RpcInv
  <2>2. RingSize \in Nat /\ MaxSeq \in Nat /\ MaxInbound \in Nat /\ InitialDatagram \in Nat
    BY SenderAssumption
  <2>3. rpcs \in [Rpc -> RpcState]
    BY <2>1 DEF Init
  <2>4. ring \in [0..RingSize - 1 -> Entry] /\ work \in Work /\ resending \in Span
    BY Placeholders DEF Init
  <2>5. onWire \in [Rpc -> SUBSET Nat] /\ repairs \in [0..MaxSeq -> Nat]
    BY DEF Init
  <2>6. pending \in Seq(Reply)
    BY DEF Init
  <2>7. /\ up \in BOOLEAN /\ seqOn \in BOOLEAN /\ wake \in BOOLEAN
        /\ rx \in {"receive", "resend", "signal"} /\ pc \in SendLoopPC
        /\ live \subseteq Rpc /\ limit \in Limits
    BY DEF Init, SendLoopPC
  <2>8. /\ inbound \in 0..MaxInbound /\ nextSeq \in 0..MaxSeq + 1
        /\ maxDatagram \in Nat /\ ungranted \in Nat
    BY <2>2 DEF Init
  <2> QED BY <2>3, <2>4, <2>5, <2>6, <2>7, <2>8 DEF TypeOK
<1>2. live = {} /\ work.kind = "none" /\ pc = "pick" /\ ungranted = 0 /\ resending.end = 0
  BY DEF Init, NoWork, NoSpan
<1> QED BY <1>1, <1>2, SenderAssumption DEF IInv, MetaLeadsData, SentIsPrefix, IsData, DataKinds

\* A step of the receive loop: it may create rpcs and grow them, queue replies
\* and never touches what belongs to the send loop.
LEMMA GrowthStep ==
    ASSUME IInv, TypeOK', live \subseteq live',
           \A r \in live : /\ RpcInv(rpcs'[r]) /\ Grows(rpcs[r], rpcs'[r])
                           /\ onWire'[r] = onWire[r],
           \A r \in live' \ live : /\ RpcInv(rpcs'[r]) /\ 0 < rpcs'[r].packet0Req
                                   /\ rpcs'[r].next = 0 /\ onWire'[r] = {},
           pending # <<>> => pending' # <<>>,
           UNCHANGED <<pc, work, nextSeq, ungranted>>,
           resending'.end <= MaxSeq
    PROVE  IInv'
<1>1. \A r \in live' : RpcInv(rpcs'[r]) /\ 0 < rpcs'[r].packet0Req
  <2> SUFFICES ASSUME NEW r \in live PROVE 0 < rpcs'[r].packet0Req
    OBVIOUS
  <2>1. rpcs[r].packet0Req \in Nat /\ rpcs'[r].packet0Req \in Nat
    BY DEF RpcInv, RpcState, IInv
  <2> QED BY <2>1 DEF IInv, Grows
<1>2. MetaLeadsData'
  <2> SUFFICES ASSUME NEW r \in live'
               PROVE  /\ rpcs'[r].packet0Sent <= rpcs'[r].metaSent
                      /\ rpcs'[r].metaSent <= rpcs'[r].packet0Req
                      /\ onWire'[r] # {} => rpcs'[r].metaSent > 0
    BY DEF MetaLeadsData
  <2>1. /\ rpcs'[r].packet0Sent <= rpcs'[r].metaSent
        /\ rpcs'[r].metaSent <= rpcs'[r].packet0Req
    BY <1>1 DEF RpcInv
  <2>2. onWire'[r] # {} => rpcs'[r].metaSent > 0
    BY DEF IInv, MetaLeadsData, Grows
  <2> QED BY <2>1, <2>2
<1>3. SentIsPrefix'
  <2> SUFFICES ASSUME NEW r \in live'
               PROVE  onWire'[r] = Units(0, rpcs'[r].next) \cup InFlight(r)'
    BY DEF SentIsPrefix
  <2>1. InFlight(r)' = InFlight(r)
    BY DEF InFlight, IsData, Units
  <2>2. CASE r \in live
    BY <2>1, <2>2 DEF IInv, SentIsPrefix, Grows, Units
  <2>3. CASE r \notin live
    <3>1. InFlight(r) = {}
      BY <2>3 DEF InFlight, IInv, IsData
    <3>2. Units(0, 0) = {}
      BY DEF Units
    <3> QED BY <2>1, <2>3, <3>1, <3>2
  <2> QED BY <2>2, <2>3
<1>4. work'.kind \in DataKinds \cup {"meta"} =>
        work'.rpc \in live' /\ WorkInv(work', rpcs'[work'.rpc])
  <2> SUFFICES ASSUME work.kind \in DataKinds \cup {"meta"}
               PROVE  work.rpc \in live' /\ WorkInv(work, rpcs'[work.rpc])
    OBVIOUS
  <2>1. work \in Work /\ work.rpc \in live /\ WorkInv(work, rpcs[work.rpc])
    BY DEF IInv, TypeOK
  <2> QED BY <2>1, WorkSurvives DEF IInv
<1>5. /\ ungranted' = 0
      /\ work'.kind = "none" <=> pc' \in {"pick", "wait", "hold"}
      /\ work'.kind = "control" => pending' # <<>>
      /\ IsData' /\ work'.seq => nextSeq' <= MaxSeq
  BY DEF IInv, IsData
<1> QED BY <1>1, <1>2, <1>3, <1>4, <1>5 DEF IInv

\* A REQ keeps the record invariant and only grows the record.
LEMMA RequestedInv ==
    ASSUME NEW s, RpcInv(s), NEW g \in Nat
    PROVE  LET t == [Raise(s, g) EXCEPT !.packet0Req = @ + 1]
           IN  RpcInv(t) /\ Grows(s, t) /\ 0 < t.packet0Req /\ t.next = s.next
<1> DEFINE u == Raise(s, g)
           t == [u EXCEPT !.packet0Req = @ + 1]
<1>1. RpcInv(u) /\ Grows(s, u) /\ u \in RpcState /\ s \in RpcState
  BY RaiseInv DEF RpcInv
<1> HIDE DEF u
<1>2. /\ t \in RpcState /\ t.packet0Req = u.packet0Req + 1 /\ t.size = u.size
      /\ t.next = u.next /\ t.granted = u.granted /\ t.tailDup = u.tailDup
      /\ t.metaSent = u.metaSent /\ t.packet0Sent = u.packet0Sent
      /\ t.resends = u.resends
  <2> DEFINE m == u.packet0Req + 1
  <2>1. m \in Nat
    BY <1>1 DEF RpcState
  <2>2. t = [u EXCEPT !.packet0Req = m]
    OBVIOUS
  <2> HIDE DEF m, t
  <2>3. /\ t \in RpcState /\ t.packet0Req = m /\ t.size = u.size
        /\ t.next = u.next /\ t.granted = u.granted /\ t.tailDup = u.tailDup
        /\ t.metaSent = u.metaSent /\ t.packet0Sent = u.packet0Sent
        /\ t.resends = u.resends
    BY <1>1, <2>1, <2>2 DEF RpcState
  <2> QED BY <2>3 DEF m
<1>7. /\ u.packet0Req \in Nat /\ u.metaSent \in Nat /\ s.packet0Req \in Nat
      /\ u.metaSent <= u.packet0Req
  BY <1>1 DEF RpcState, RpcInv
<1> HIDE DEF t
<1>3. u.metaSent <= t.packet0Req /\ 0 < t.packet0Req
  BY <1>2, <1>7
<1>4. RpcInv(t)
  BY <1>1, <1>2, <1>3 DEF RpcInv
<1>5. s.packet0Req <= t.packet0Req
  BY <1>1, <1>2, <1>7 DEF Grows
<1>6. Grows(s, t)
  BY <1>1, <1>2, <1>5 DEF Grows
<1> QED BY <1>1, <1>2, <1>3, <1>4, <1>6 DEF u, t, Grows

\* A reply queued instead keeps the types and leaves the rpcs alone.
LEMMA ReplyWithInv ==
    ASSUME TypeOK, NEW r \in Rpc, NEW code \in Codes, ReplyWith(r, code)
    PROVE  pending' \in Seq(Reply) /\ pending' # <<>>
<1>1. [rpc |-> r, code |-> code] \in Reply /\ pending \in Seq(Reply)
  BY DEF Reply, TypeOK
<1> QED BY <1>1, AppendProperties, EmptySeq DEF ReplyWith

\* What each packet does to the rpcs, the replies and the history.
LEMMA PacketEffect ==
    ASSUME IInv, ReceivePacket
    PROVE  /\ live \subseteq live' /\ live' \subseteq Rpc
           /\ rpcs' \in [Rpc -> RpcState] /\ onWire' \in [Rpc -> SUBSET Nat]
           /\ pending' \in Seq(Reply) /\ (pending # <<>> => pending' # <<>>)
           /\ \A r \in live : /\ RpcInv(rpcs'[r]) /\ Grows(rpcs[r], rpcs'[r])
                              /\ onWire'[r] = onWire[r]
           /\ \A r \in live' \ live :
                /\ RpcInv(rpcs'[r]) /\ 0 < rpcs'[r].packet0Req
                /\ rpcs'[r].next = 0 /\ onWire'[r] = {}
<1> USE DEF IInv
<1>1. /\ live \subseteq Rpc /\ rpcs \in [Rpc -> RpcState] /\ pending \in Seq(Reply)
      /\ onWire \in [Rpc -> SUBSET Nat] /\ MaxOffset \in Nat /\ Sizes \subseteq Nat
  BY SenderAssumption DEF TypeOK
<1>2. \A r \in live : RpcInv(rpcs[r]) /\ Grows(rpcs[r], rpcs[r])
  <2> TAKE r \in live
  <2>1. RpcInv(rpcs[r]) /\ rpcs[r] \in RpcState
    BY <1>1
  <2>2. rpcs[r].resends \in Seq(Span) /\ rpcs[r].granted \in Nat /\ rpcs[r].packet0Req \in Nat
    BY <2>1 DEF RpcState
  <2>3. rpcs[r].resends # <<>> => rpcs[r].resends[1].end <= rpcs[r].resends[1].end
    BY <2>2, FrontSpan
  <2> QED BY <2>1, <2>2, <2>3 DEF Grows
<1>3. ASSUME NEW r \in Rpc, NEW size \in Sizes, NEW g \in 0..MaxOffset, ReceiveReq(r, size, g)
      PROVE  /\ live \subseteq live' /\ live' \subseteq Rpc
             /\ rpcs' \in [Rpc -> RpcState] /\ onWire' \in [Rpc -> SUBSET Nat]
             /\ pending' = pending
             /\ \A q \in live : /\ RpcInv(rpcs'[q]) /\ Grows(rpcs[q], rpcs'[q])
                                /\ onWire'[q] = onWire[q]
             /\ \A q \in live' \ live :
                  /\ RpcInv(rpcs'[q]) /\ 0 < rpcs'[q].packet0Req
                  /\ rpcs'[q].next = 0 /\ onWire'[q] = {}
  <2> DEFINE known == IF r \in live THEN rpcs[r] ELSE NewRpc(size)
             t     == [Raise(known, g) EXCEPT !.packet0Req = @ + 1]
  <2>1. g \in Nat /\ size \in Nat
    BY <1>1
  <2>2. RpcInv(known) /\ (r \in live => known = rpcs[r]) /\ (r \notin live => known.next = 0)
    BY <1>2, <2>1, NewRpcInv DEF NewRpc
  <2>3. rpcs' = [rpcs EXCEPT ![r] = t]
    BY <1>3 DEF ReceiveReq
  <2> HIDE DEF known
  <2>4. RpcInv(t) /\ Grows(known, t) /\ 0 < t.packet0Req /\ t.next = known.next
    BY <2>1, <2>2, RequestedInv
  <2>5. t \in RpcState
    BY <2>4 DEF RpcInv
  <2> HIDE DEF t
  <2>6. /\ live' = live \cup {r} /\ pending' = pending
        /\ onWire' = IF r \in live THEN onWire ELSE [onWire EXCEPT ![r] = {}]
    BY <1>3 DEF ReceiveReq
  <2>7. \A q \in live : /\ RpcInv(rpcs'[q]) /\ Grows(rpcs[q], rpcs'[q])
                        /\ onWire'[q] = onWire[q]
    BY <1>1, <1>2, <2>2, <2>3, <2>4, <2>6
  <2>8. \A q \in live' \ live : /\ RpcInv(rpcs'[q]) /\ 0 < rpcs'[q].packet0Req
                                /\ rpcs'[q].next = 0 /\ onWire'[q] = {}
    BY <1>1, <2>2, <2>3, <2>4, <2>6
  <2> QED BY <1>1, <2>3, <2>5, <2>6, <2>7, <2>8
<1>4. ASSUME NEW r \in live, NEW t, RpcInv(t), Grows(rpcs[r], t),
             rpcs' = [rpcs EXCEPT ![r] = t], UNCHANGED <<live, pending, onWire>>
      PROVE  /\ rpcs' \in [Rpc -> RpcState]
             /\ \A q \in live : RpcInv(rpcs'[q]) /\ Grows(rpcs[q], rpcs'[q])
  <2>1. t \in RpcState
    BY <1>4 DEF RpcInv
  <2> QED BY <1>1, <1>2, <1>4, <2>1
<1>5. ASSUME NEW r \in Rpc, NEW code \in Codes, ReplyWith(r, code)
      PROVE  /\ pending' \in Seq(Reply) /\ pending' # <<>>
             /\ UNCHANGED <<live, rpcs, onWire>>
  BY <1>5, ReplyWithInv DEF ReplyWith
<1>6. CASE \E r \in Rpc : \E size \in Sizes, g \in 0..MaxOffset : ReceiveReq(r, size, g)
  BY <1>1, <1>3, <1>6
<1>7. CASE \E r \in Rpc : \E code \in {"NOT_FOUND", "BAD_REQUEST"} : ReceiveBadReq(r, code)
  BY <1>1, <1>2, <1>5, <1>7 DEF ReceiveBadReq, Codes
<1>8. CASE \E r \in Rpc : \E g \in 0..MaxOffset : ReceiveGrant(r, g)
  <2> PICK r \in Rpc, g \in 0..MaxOffset : ReceiveGrant(r, g)
    BY <1>8
  <2>1. CASE r \in live
    <3>1. g \in Nat /\ RpcInv(Raise(rpcs[r], g)) /\ Grows(rpcs[r], Raise(rpcs[r], g))
      BY <1>1, <1>2, <2>1, RaiseInv
    <3>2. rpcs' = [rpcs EXCEPT ![r] = Raise(rpcs[r], g)] /\ UNCHANGED <<live, pending, onWire>>
      BY <2>1 DEF ReceiveGrant
    <3> QED BY <1>1, <1>4, <2>1, <3>1, <3>2
  <2>2. CASE r \notin live
    BY <1>1, <1>2, <1>5, <2>2 DEF ReceiveGrant, Codes
  <2> QED BY <2>1, <2>2
<1>9. CASE \E r \in Rpc : \E e \in 1..MaxOffset : \E b \in 0..e - 1 : ReceiveResend(r, b, e)
  <2> PICK r \in Rpc, e \in 1..MaxOffset : \E b \in 0..e - 1 : ReceiveResend(r, b, e)
    BY <1>9
  <2> PICK b \in 0..e - 1 : ReceiveResend(r, b, e)
    OBVIOUS
  <2>1. CASE r \in live
    <3>1. /\ b \in Nat /\ e \in Nat /\ RpcInv(Queued(rpcs[r], b, e))
          /\ Grows(rpcs[r], Queued(rpcs[r], b, e))
      BY <1>1, <1>2, <2>1, QueuedInv
    <3>2. rpcs' = [rpcs EXCEPT ![r] = Queued(rpcs[r], b, e)] /\ UNCHANGED <<live, pending, onWire>>
      BY <2>1 DEF ReceiveResend
    <3> QED BY <1>1, <1>4, <2>1, <3>1, <3>2
  <2>2. CASE r \notin live
    BY <1>1, <1>2, <1>5, <2>2 DEF ReceiveResend, Codes
  <2> QED BY <2>1, <2>2
<1>10. CASE UNCHANGED <<live, rpcs, pending, onWire>>
  BY <1>1, <1>2, <1>10
<1> QED BY <1>6, <1>7, <1>8, <1>9, <1>10 DEF ReceivePacket

\* A step that touches neither rpcs nor the work of the send loop.
LEMMA QuietStep ==
    ASSUME IInv, TypeOK', resending'.end <= MaxSeq,
           UNCHANGED <<live, rpcs, pending, onWire, pc, work, nextSeq, ungranted>>
    PROVE  IInv'
<1>1. \A r \in live : RpcInv(rpcs[r]) /\ Grows(rpcs[r], rpcs[r])
  <2> TAKE r \in live
  <2>1. RpcInv(rpcs[r]) /\ rpcs[r] \in RpcState
    BY DEF IInv, RpcInv
  <2>2. rpcs[r].resends \in Seq(Span) /\ rpcs[r].granted \in Nat /\ rpcs[r].packet0Req \in Nat
    BY <2>1 DEF RpcState
  <2>3. rpcs[r].resends # <<>> => rpcs[r].resends[1].end <= rpcs[r].resends[1].end
    BY <2>2, FrontSpan
  <2> QED BY <2>1, <2>2, <2>3 DEF Grows
<1> QED BY <1>1, GrowthStep

\* A packet, a HELLO or a RESEND_SEQ arrives.
LEMMA ReceivePacketStep == IInv /\ ReceivePacket => IInv'
<1> SUFFICES ASSUME IInv, ReceivePacket PROVE IInv'
  OBVIOUS
<1>1. inbound' \in 0..MaxInbound
  BY SenderAssumption DEF ReceivePacket, Arrives, IInv, TypeOK
<1>2. /\ rx' = "signal"
      /\ UNCHANGED <<up, resending, seqOn, nextSeq, ring, maxDatagram, wake, pc,
                     work, limit, ungranted, repairs>>
  BY DEF ReceivePacket
<1>3. TypeOK'
  BY <1>1, <1>2, PacketEffect DEF IInv, TypeOK
<1>4. resending'.end <= MaxSeq
  BY <1>2 DEF IInv
<1> QED BY <1>2, <1>3, <1>4, PacketEffect, GrowthStep

LEMMA ReceiveHelloStep == IInv /\ ReceiveHello => IInv'
<1> SUFFICES ASSUME IInv, ReceiveHello PROVE IInv'
  OBVIOUS
<1>1. inbound' \in 0..MaxInbound /\ resending'.end <= MaxSeq
  BY SenderAssumption DEF ReceiveHello, Arrives, IInv, TypeOK
<1>2. seqOn' \in BOOLEAN
  BY DEF ReceiveHello
<1>3. /\ rx' = "signal"
      /\ UNCHANGED <<up, resending, live, rpcs, pending, ring, wake, limit, repairs,
                     pc, work, nextSeq, maxDatagram, ungranted, onWire>>
  BY DEF ReceiveHello, sendVars
<1>4. TypeOK'
  BY <1>1, <1>2, <1>3 DEF IInv, TypeOK
<1> QED BY <1>1, <1>3, <1>4, QuietStep

LEMMA ReceiveResendSeqStep == IInv /\ ReceiveResendSeq => IInv'
<1> SUFFICES ASSUME IInv, ReceiveResendSeq PROVE IInv'
  OBVIOUS
<1>1. inbound' \in 0..MaxInbound
  BY SenderAssumption DEF ReceiveResendSeq, Arrives, IInv, TypeOK
<1>2. resending' \in Span /\ resending'.end <= MaxSeq
  <2> PICK e \in 1..MaxSeq :
        \E b \in 0..e - 1 :
          resending' = [start |-> b, end |-> Least(e, b + MaxResendRange)]
    BY DEF ReceiveResendSeq
  <2> PICK b \in 0..e - 1 :
        resending' = [start |-> b, end |-> Least(e, b + MaxResendRange)]
    OBVIOUS
  <2>1. e \in Nat /\ b \in Nat /\ e <= MaxSeq /\ MaxResendRange \in Nat
    BY SenderAssumption
  <2>2. Least(e, b + MaxResendRange) \in Nat /\ Least(e, b + MaxResendRange) <= MaxSeq
    BY <2>1, SenderAssumption DEF Least
  <2> QED BY <2>1, <2>2 DEF Span
<1>3. /\ rx' = "resend"
      /\ UNCHANGED <<up, wake, limit, live, rpcs, pending, seqOn, ring, repairs,
                     pc, work, nextSeq, maxDatagram, ungranted, onWire>>
  BY DEF ReceiveResendSeq, session, sendVars
<1>4. TypeOK'
  BY <1>1, <1>2, <1>3 DEF IInv, TypeOK
<1> QED BY <1>2, <1>3, <1>4, QuietStep

\* One number of a RESEND_SEQ is looked up.
LEMMA ResendSeqStepStep == IInv /\ ResendSeqStep => IInv'
<1> SUFFICES ASSUME IInv, ResendSeqStep PROVE IInv'
  OBVIOUS
<1> DEFINE q    == resending.start
           slot == q % RingSize
           e    == ring[slot]
<1>1. /\ q \in Nat /\ resending.end \in Nat /\ q < resending.end
      /\ resending.end <= MaxSeq /\ MaxSeq \in Nat
  BY SenderAssumption DEF IInv, TypeOK, Span, ResendSeqStep
<1>2. slot \in 0..RingSize - 1
  <2>1. RingSize \in Nat \ {0}
    BY SenderAssumption
  <2> HIDE DEF q
  <2> QED BY <1>1, <2>1
<1>3. e \in Entry /\ e.rpc \in Rpc
  BY <1>2 DEF IInv, TypeOK, Entry
<1>4. resending' \in Span /\ resending'.end <= MaxSeq
  BY <1>1 DEF ResendSeqStep, IInv, TypeOK, Span
<1>5. UNCHANGED <<up, rx, inbound, wake, limit, live, pending, seqOn, pc, work,
                  nextSeq, maxDatagram, ungranted, onWire>>
  BY DEF ResendSeqStep, sendVars
<1>6. ring' \in [0..RingSize - 1 -> Entry]
  <2>1. [e EXCEPT !.resent = TRUE] \in Entry
    BY <1>3 DEF Entry
  <2>2. ring' = ring \/ ring' = [ring EXCEPT ![slot] = [e EXCEPT !.resent = TRUE]]
    BY DEF ResendSeqStep
  <2> QED BY <2>1, <2>2, <1>2 DEF IInv, TypeOK
<1>7. repairs' \in [0..MaxSeq -> Nat]
  <2>1. repairs' = repairs \/ repairs' = [repairs EXCEPT ![q] = @ + 1]
    BY DEF ResendSeqStep
  <2>2. q \in 0..MaxSeq /\ repairs \in [0..MaxSeq -> Nat]
    BY <1>1 DEF IInv, TypeOK
  <2> QED BY <2>1, <2>2
<1>8. CASE rpcs' = rpcs
  <2>1. TypeOK'
    BY <1>4, <1>5, <1>6, <1>7, <1>8 DEF IInv, TypeOK
  <2> QED BY <1>4, <1>5, <1>8, <2>1, QuietStep
<1>9. CASE e.rpc \in live /\ rpcs' = [rpcs EXCEPT ![e.rpc] = Merged(@, e)]
  <2> DEFINE t == Merged(rpcs[e.rpc], e)
  <2>1. RpcInv(t) /\ Grows(rpcs[e.rpc], t) /\ t \in RpcState
    BY <1>3, <1>9, MergedInv DEF IInv, RpcInv
  <2>2. rpcs \in [Rpc -> RpcState] /\ live \subseteq Rpc
    BY DEF IInv, TypeOK
  <2>3. rpcs' = [rpcs EXCEPT ![e.rpc] = t]
    BY <1>9
  <2> HIDE DEF t, e
  <2>4. TypeOK'
    BY <1>3, <1>4, <1>5, <1>6, <1>7, <2>1, <2>2, <2>3 DEF IInv, TypeOK
  <2>5. \A r \in live : RpcInv(rpcs'[r]) /\ Grows(rpcs[r], rpcs'[r])
    <3> TAKE r \in live
    <3>1. CASE r = e.rpc
      BY <2>1, <2>2, <2>3, <3>1
    <3>2. CASE r # e.rpc
      <4>1. rpcs'[r] = rpcs[r] /\ RpcInv(rpcs[r]) /\ rpcs[r] \in RpcState
        BY <2>2, <2>3, <3>2 DEF IInv, RpcInv
      <4>2. rpcs[r].resends \in Seq(Span) /\ rpcs[r].granted \in Nat
            /\ rpcs[r].packet0Req \in Nat
        BY <4>1 DEF RpcState
      <4>3. rpcs[r].resends # <<>> => rpcs[r].resends[1].end <= rpcs[r].resends[1].end
        BY <4>2, FrontSpan
      <4> QED BY <4>1, <4>2, <4>3 DEF Grows
    <3> QED BY <3>1, <3>2
  <2> QED BY <1>4, <1>5, <2>4, <2>5, GrowthStep
<1>10. rpcs' = rpcs \/ (e.rpc \in live /\ rpcs' = [rpcs EXCEPT ![e.rpc] = Merged(@, e)])
  BY DEF ResendSeqStep
<1> QED BY <1>8, <1>9, <1>10

LEMMA ResendSeqDoneStep == IInv /\ ResendSeqDone => IInv'
<1> SUFFICES ASSUME IInv, ResendSeqDone PROVE IInv'
  OBVIOUS
<1>1. resending' \in Span /\ resending'.end <= MaxSeq
  BY Placeholders, SenderAssumption DEF ResendSeqDone, NoSpan
<1>2. /\ rx' = "signal"
      /\ UNCHANGED <<up, inbound, wake, limit, live, rpcs, pending, seqOn, ring, repairs,
                     pc, work, nextSeq, maxDatagram, ungranted, onWire>>
  BY DEF ResendSeqDone, session, sendVars
<1>3. TypeOK'
  BY <1>1, <1>2 DEF IInv, TypeOK
<1> QED BY <1>1, <1>2, <1>3, QuietStep

LEMMA SignalStep == IInv /\ Signal => IInv'
<1> SUFFICES ASSUME IInv, Signal PROVE IInv'
  OBVIOUS
<1>1. /\ rx' = "receive" /\ wake' = TRUE
      /\ UNCHANGED <<up, inbound, resending, limit, live, rpcs, pending, seqOn, ring,
                     repairs, pc, work, nextSeq, maxDatagram, ungranted, onWire>>
  BY DEF Signal, session, sendVars
<1>2. TypeOK' /\ resending'.end <= MaxSeq
  BY <1>1 DEF IInv, TypeOK
<1> QED BY <1>1, <1>2, QuietStep

\* Work that follows from none in flight: the rpcs and their history unchanged.
LEMMA WorkStep ==
    ASSUME IInv, TypeOK', UNCHANGED <<live, rpcs, pending, nextSeq, ungranted, resending>>,
           MetaLeadsData', SentIsPrefix',
           work'.kind \in DataKinds \cup {"meta"} =>
             work'.rpc \in live /\ WorkInv(work', rpcs[work'.rpc]),
           work'.kind = "none" <=> pc' \in {"pick", "wait", "hold"},
           work'.kind = "control" => pending # <<>>,
           work'.kind \in DataKinds /\ work'.seq => nextSeq <= MaxSeq
    PROVE  IInv'
<1>1. \A r \in live' : RpcInv(rpcs'[r]) /\ 0 < rpcs'[r].packet0Req
  BY DEF IInv
<1>2. work'.kind \in DataKinds \cup {"meta"} =>
        work'.rpc \in live' /\ WorkInv(work', rpcs'[work'.rpc])
  OBVIOUS
<1>3. /\ ungranted' = 0 /\ resending'.end <= MaxSeq
      /\ work'.kind = "control" => pending' # <<>>
      /\ IsData' /\ work'.seq => nextSeq' <= MaxSeq
  BY DEF IInv, IsData
<1> QED BY <1>1, <1>2, <1>3 DEF IInv

\* The history is untouched while no datagram moves in or out of "record".
LEMMA HistorySame ==
    ASSUME IInv, UNCHANGED <<live, rpcs, onWire>>, pc # "record", pc' # "record"
    PROVE  MetaLeadsData' /\ SentIsPrefix'
<1>1. \A r \in live : InFlight(r)' = InFlight(r)
  BY DEF InFlight
<1> QED BY <1>1 DEF IInv, MetaLeadsData, SentIsPrefix, Units

LEMMA PickStep == IInv /\ Pick => IInv'
<1> SUFFICES ASSUME IInv, Pick PROVE IInv'
  OBVIOUS
<1>1. /\ UNCHANGED <<up, rx, inbound, resending, wake, limit, live, rpcs, pending,
                     seqOn, ring, repairs, nextSeq, maxDatagram, ungranted, onWire>>
      /\ pc = "pick" /\ work.kind = "none"
  BY DEF Pick, session, IInv
<1>2. TypeOK
  BY DEF IInv
<1>3. CASE pending # <<>> /\ work' = [NoWork EXCEPT !.kind = "control"] /\ pc' = "check"
  <2>1. work' \in Work /\ work'.kind = "control" /\ pc' \in SendLoopPC
    BY <1>3, Placeholders DEF Work, SendLoopPC
  <2>2. TypeOK'
    BY <1>1, <1>2, <2>1 DEF TypeOK
  <2>3. MetaLeadsData' /\ SentIsPrefix'
    BY <1>1, <1>3, HistorySame
  <2> QED BY <1>1, <1>3, <2>1, <2>2, <2>3, WorkStep DEF DataKinds
<1>4. CASE \E r \in DueRpcs : work' = Chosen(r) /\ pc' = "check"
  <2> PICK r \in DueRpcs : work' = Chosen(r) /\ pc' = "check"
    BY <1>4
  <2>1. r \in live /\ RpcInv(rpcs[r]) /\ 0 < rpcs[r].packet0Req
    BY DEF DueRpcs, IInv
  <2>2. /\ Chosen(r) \in Work /\ Chosen(r).rpc = r
        /\ Chosen(r).kind \in DataKinds \cup {"meta"}
        /\ WorkInv(Chosen(r), rpcs[r])
        /\ Chosen(r).seq => nextSeq <= MaxSeq
    BY <1>2, <2>1, ChosenInv
  <2>3. /\ work' \in Work /\ work'.rpc = r
        /\ work'.kind \in DataKinds \cup {"meta"}
        /\ WorkInv(work', rpcs[r])
        /\ work'.seq => nextSeq <= MaxSeq
    BY <2>2
  <2>4. TypeOK'
    BY <1>1, <1>2, <2>3 DEF TypeOK, SendLoopPC
  <2>5. MetaLeadsData' /\ SentIsPrefix'
    BY <1>1, HistorySame
  <2>6. work'.kind # "none" /\ work'.kind # "control"
    BY <2>3 DEF DataKinds
  <2> QED BY <1>1, <2>1, <2>3, <2>4, <2>5, <2>6, WorkStep
<1>5. CASE UNCHANGED work /\ pc' \in {"hold", "wait"}
  <2>1. TypeOK'
    BY <1>1, <1>2, <1>5 DEF TypeOK, SendLoopPC
  <2>2. MetaLeadsData' /\ SentIsPrefix'
    BY <1>1, <1>5, HistorySame
  <2> QED BY <1>1, <1>5, <2>1, <2>2, WorkStep DEF DataKinds
<1> QED BY <1>3, <1>4, <1>5 DEF Pick

LEMMA WakeStep == IInv /\ Wake => IInv'
<1> SUFFICES ASSUME IInv, Wake PROVE IInv'
  OBVIOUS
<1>1. /\ UNCHANGED <<up, rx, inbound, resending, limit, live, rpcs, pending,
                     seqOn, ring, repairs, nextSeq, maxDatagram, ungranted, onWire, work>>
      /\ pc \in {"wait", "hold"} /\ work.kind = "none" /\ pc' = "pick" /\ wake' \in BOOLEAN
  BY DEF Wake, session, IInv, TypeOK
<1>2. TypeOK'
  BY <1>1 DEF IInv, TypeOK, SendLoopPC
<1>3. MetaLeadsData' /\ SentIsPrefix'
  BY <1>1, HistorySame
<1> QED BY <1>1, <1>2, <1>3, WorkStep DEF DataKinds

LEMMA SweepStep == IInv /\ Sweep => IInv'
<1> SUFFICES ASSUME IInv, Sweep PROVE IInv'
  OBVIOUS
<1> DEFINE gone == {r \in live : rpcs[r].stale}
<1>1. /\ UNCHANGED <<up, rx, inbound, resending, wake, limit, pending, seqOn, nextSeq,
                     ring, maxDatagram, work, ungranted, repairs>>
      /\ pc \in {"pick", "wait"} /\ pc' = "pick" /\ work.kind = "none"
      /\ live' = live \ gone
      /\ rpcs' = [r \in Rpc |-> IF r \in gone THEN NewRpc(0) ELSE rpcs[r]]
      /\ onWire' = [r \in Rpc |-> IF r \in gone THEN {} ELSE onWire[r]]
  BY DEF Sweep, BetweenSends, IInv
<1> HIDE DEF gone
<1>2. live \subseteq Rpc /\ rpcs \in [Rpc -> RpcState] /\ onWire \in [Rpc -> SUBSET Nat]
  BY DEF IInv, TypeOK
<1>3. \A r \in live' : r \in live /\ rpcs'[r] = rpcs[r] /\ onWire'[r] = onWire[r]
  BY <1>1, <1>2
<1>4. TypeOK'
  <2>1. NewRpc(0) \in RpcState
    BY NewRpcInv DEF RpcInv
  <2>2. rpcs' \in [Rpc -> RpcState] /\ onWire' \in [Rpc -> SUBSET Nat] /\ live' \subseteq Rpc
    BY <1>1, <1>2, <2>1
  <2> QED BY <1>1, <2>2 DEF IInv, TypeOK, SendLoopPC
<1>5. \A r \in live' : InFlight(r)' = InFlight(r)
  BY <1>1 DEF InFlight
<1>6. MetaLeadsData' /\ SentIsPrefix'
  BY <1>3, <1>5 DEF IInv, MetaLeadsData, SentIsPrefix, Units
<1>7. \A r \in live' : RpcInv(rpcs'[r]) /\ 0 < rpcs'[r].packet0Req
  BY <1>3 DEF IInv
<1>8. /\ ungranted' = 0 /\ resending'.end <= MaxSeq /\ IsData' = IsData /\ ~IsData
      /\ work' = work
  BY <1>1 DEF IInv, IsData, DataKinds
<1> QED BY <1>1, <1>4, <1>6, <1>7, <1>8 DEF IInv, DataKinds

LEMMA CheckGrantStep == IInv /\ CheckGrant => IInv'
<1> SUFFICES ASSUME IInv, CheckGrant PROVE IInv'
  OBVIOUS
<1>1. /\ UNCHANGED <<up, rx, inbound, resending, wake, limit, live, rpcs, pending,
                     seqOn, ring, repairs, nextSeq, maxDatagram, onWire, work>>
      /\ pc = "check" /\ pc' = "send"
  BY DEF CheckGrant, session
<1>2. ungranted' = ungranted
  <2>1. IsData => /\ work.off + work.n <= rpcs[work.rpc].granted
                  /\ work.off + work.n \in Nat /\ rpcs[work.rpc].granted \in Nat
    BY DEF IsData, IInv, WorkInv, RpcInv, RpcState, TypeOK, Work
  <2>2. ~(IsData /\ work.off + work.n > rpcs[work.rpc].granted)
    BY <2>1
  <2> QED BY <2>2 DEF CheckGrant
<1>3. TypeOK'
  BY <1>1, <1>2 DEF IInv, TypeOK, SendLoopPC
<1>4. MetaLeadsData' /\ SentIsPrefix'
  BY <1>1, HistorySame
<1>5. work'.kind = "none" <=> pc' \in {"pick", "wait", "hold"}
  BY <1>1 DEF IInv
<1> QED BY <1>1, <1>2, <1>3, <1>4, <1>5, WorkStep DEF IInv, IsData

LEMMA TransmitStep == IInv /\ Transmit => IInv'
<1> SUFFICES ASSUME IInv, Transmit PROVE IInv'
  OBVIOUS
<1>1. /\ UNCHANGED <<up, rx, inbound, resending, wake, limit, live, rpcs, pending,
                     seqOn, ring, repairs, nextSeq, maxDatagram, work, ungranted>>
      /\ pc = "send" /\ pc' = "record"
      /\ onWire' = IF IsData
                   THEN [onWire EXCEPT ![work.rpc] = @ \cup Units(work.off, work.n)]
                   ELSE onWire
  BY DEF Transmit, session
<1>2. live \subseteq Rpc /\ onWire \in [Rpc -> SUBSET Nat] /\ work \in Work
  BY DEF IInv, TypeOK
<1>3. Units(work.off, work.n) \subseteq Nat
  BY <1>2 DEF Units, Work
<1>4. TypeOK'
  <2>1. onWire' \in [Rpc -> SUBSET Nat]
    BY <1>1, <1>2, <1>3
  <2> QED BY <1>1, <2>1 DEF IInv, TypeOK, SendLoopPC
<1>5. IsData => work.rpc \in live /\ rpcs[work.rpc].metaSent > 0
  BY DEF IsData, IInv, WorkInv, RpcInv, RpcState
<1>6. MetaLeadsData'
  <2> SUFFICES ASSUME NEW r \in live
               PROVE  onWire'[r] # {} => rpcs[r].metaSent > 0
    BY <1>1 DEF IInv, MetaLeadsData
  <2>1. CASE IsData /\ r = work.rpc
    BY <1>5, <2>1
  <2>2. CASE ~(IsData /\ r = work.rpc)
    <3>1. onWire'[r] = onWire[r]
      BY <1>1, <1>2, <2>2
    <3> QED BY <3>1 DEF IInv, MetaLeadsData
  <2> QED BY <2>1, <2>2
<1>7. SentIsPrefix'
  <2> SUFFICES ASSUME NEW r \in live
               PROVE  onWire'[r] = Units(0, rpcs[r].next) \cup InFlight(r)'
    BY <1>1 DEF SentIsPrefix, Units
  <2>1. onWire[r] = Units(0, rpcs[r].next)
    BY <1>1 DEF IInv, SentIsPrefix, InFlight
  <2>2. CASE IsData /\ r = work.rpc
    <3>1. InFlight(r)' = Units(work.off, work.n)
      BY <1>1, <2>2 DEF InFlight, IsData, Units
    <3> QED BY <1>1, <1>2, <2>1, <2>2, <3>1
  <2>3. CASE ~(IsData /\ r = work.rpc)
    <3>1. InFlight(r)' = {}
      BY <1>1, <2>3 DEF InFlight, IsData
    <3> QED BY <1>1, <1>2, <2>1, <2>3, <3>1
  <2> QED BY <2>2, <2>3
<1>8. work'.kind = "none" <=> pc' \in {"pick", "wait", "hold"}
  BY <1>1 DEF IInv
<1> QED BY <1>1, <1>4, <1>6, <1>7, <1>8, WorkStep DEF IInv, IsData

LEMMA TooLargeStep == IInv /\ TooLarge => IInv'
<1> SUFFICES ASSUME IInv, TooLarge PROVE IInv'
  OBVIOUS
<1>1. /\ UNCHANGED <<up, rx, inbound, resending, wake, limit, live, rpcs, pending,
                     seqOn, ring, repairs, nextSeq, ungranted, onWire>>
      /\ pc = "send" /\ pc' = "pick" /\ work' = NoWork /\ maxDatagram' = limit
  BY DEF TooLarge, session
<1>2. limit \in Nat
  BY SenderAssumption DEF IInv, TypeOK
<1>3. TypeOK'
  BY <1>1, <1>2, Placeholders DEF IInv, TypeOK, SendLoopPC
<1>4. MetaLeadsData' /\ SentIsPrefix'
  BY <1>1, HistorySame
<1>5. work'.kind = "none"
  BY <1>1 DEF NoWork
<1> QED BY <1>1, <1>3, <1>4, <1>5, WorkStep DEF DataKinds

LEMMA RecordStep == IInv /\ Record => IInv'
<1> SUFFICES ASSUME IInv, Record PROVE IInv'
  OBVIOUS
<1>1. /\ UNCHANGED <<up, rx, inbound, resending, wake, limit, live, seqOn,
                     maxDatagram, ungranted, onWire, repairs>>
      /\ pc = "record" /\ pc' = "pick" /\ work' = NoWork /\ work'.kind = "none"
  BY DEF Record, NoWork
<1>2. /\ work \in Work /\ work.rpc \in Rpc /\ work.off \in Nat /\ work.n \in Nat
      /\ live \subseteq Rpc /\ rpcs \in [Rpc -> RpcState] /\ pending \in Seq(Reply)
      /\ ring \in [0..RingSize - 1 -> Entry] /\ nextSeq \in 0..MaxSeq + 1
      /\ work.kind # "none"
  BY <1>1 DEF IInv, TypeOK, Work
<1>3. ring' \in [0..RingSize - 1 -> Entry] /\ nextSeq' \in 0..MaxSeq + 1
  <2> DEFINE e == [valid |-> TRUE, seq |-> nextSeq, resent |-> FALSE,
                   rpc |-> work.rpc, off |-> work.off, n |-> work.n]
  <2>1. CASE IsData /\ work.seq
    <3>1. nextSeq \in Nat /\ nextSeq <= MaxSeq /\ MaxSeq \in Nat /\ RingSize \in Nat \ {0}
      BY <1>2, <2>1, SenderAssumption DEF IInv
    <3>2. e \in Entry
      BY <1>2, <3>1 DEF Entry
    <3>3. nextSeq % RingSize \in 0..RingSize - 1
      BY <3>1
    <3>4. ring' = [ring EXCEPT ![nextSeq % RingSize] = e] /\ nextSeq' = nextSeq + 1
      BY <2>1 DEF Record
    <3> HIDE DEF e
    <3> QED BY <1>2, <3>1, <3>2, <3>3, <3>4
  <2>2. CASE ~(IsData /\ work.seq)
    BY <1>2, <2>2 DEF Record
  <2> QED BY <2>1, <2>2
<1>4. \A r \in live : InFlight(r)' = {}
  BY <1>1 DEF InFlight
<1>5. CASE work.kind = "control"
  <2>1. pending # <<>> /\ pending' = Tail(pending) /\ rpcs' = rpcs
    BY <1>5 DEF IInv, Record
  <2>2. pending' \in Seq(Reply)
    BY <1>2, <2>1, HeadTailProperties
  <2>3. TypeOK'
    BY <1>1, <1>3, <2>1, <2>2, Placeholders DEF IInv, TypeOK, SendLoopPC
  <2>4. \A r \in live : InFlight(r) = {}
    BY <1>5 DEF InFlight, IsData, DataKinds
  <2>5. MetaLeadsData' /\ SentIsPrefix'
    BY <1>1, <1>4, <2>1, <2>4 DEF IInv, MetaLeadsData, SentIsPrefix, Units
  <2>6. \A r \in live' : RpcInv(rpcs'[r]) /\ 0 < rpcs'[r].packet0Req
    BY <1>1, <2>1 DEF IInv
  <2>7. ungranted' = 0 /\ resending'.end <= MaxSeq
    BY <1>1 DEF IInv
  <2> QED BY <1>1, <2>3, <2>5, <2>6, <2>7 DEF IInv, IsData, DataKinds
<1>6. CASE work.kind \in DataKinds \cup {"meta"}
  <2> DEFINE w == work.rpc
             s == rpcs[w]
             u == Recorded(s)
             t == WithTailDup(u)
  <2>1. w \in live /\ RpcInv(s) /\ WorkInv(work, s) /\ 0 < s.packet0Req
    BY <1>6 DEF IInv
  <2>2. /\ RpcInv(u) /\ u.packet0Req = s.packet0Req /\ s.metaSent <= u.metaSent
        /\ u.next = IF IsData THEN Greatest(s.next, work.off + work.n) ELSE s.next
    BY <1>2, <1>6, <2>1, RecordedInv
  <2>3. s.next \in Nat /\ s.metaSent \in Nat /\ u.metaSent \in Nat
    BY <2>1, <2>2 DEF RpcInv, RpcState
  <2>4. IsData => work.off + work.n <= u.next
    BY <1>2, <2>2, <2>3 DEF Greatest
  <2> HIDE DEF u
  <2>5. /\ RpcInv(t) /\ t.packet0Req = u.packet0Req /\ t.metaSent = u.metaSent
        /\ t.next = u.next /\ t \in RpcState
    BY <1>2, <2>2, <2>4, WithTailDupInv DEF RpcInv
  <2>6. rpcs' = [rpcs EXCEPT ![w] = t] /\ pending' = pending
    BY <1>6 DEF Record, DataKinds, u
  <2> HIDE DEF t
  <2>7. rpcs' \in [Rpc -> RpcState]
    BY <1>2, <2>5, <2>6
  <2>8. TypeOK'
    BY <1>1, <1>3, <2>6, <2>7, Placeholders DEF IInv, TypeOK, SendLoopPC
  <2>9. \A r \in live' : RpcInv(rpcs'[r]) /\ 0 < rpcs'[r].packet0Req
    BY <1>1, <1>2, <2>1, <2>2, <2>5, <2>6 DEF IInv
  <2>10. MetaLeadsData'
    <3> SUFFICES ASSUME NEW r \in live
                 PROVE  /\ rpcs'[r].packet0Sent <= rpcs'[r].metaSent
                        /\ rpcs'[r].metaSent <= rpcs'[r].packet0Req
                        /\ onWire[r] # {} => rpcs'[r].metaSent > 0
      BY <1>1 DEF MetaLeadsData
    <3>1. /\ rpcs'[r].packet0Sent <= rpcs'[r].metaSent
          /\ rpcs'[r].metaSent <= rpcs'[r].packet0Req
      BY <1>1, <2>9 DEF RpcInv
    <3>2. onWire[r] # {} => rpcs[r].metaSent > 0
      BY DEF IInv, MetaLeadsData
    <3>3. CASE r = w
      BY <1>2, <2>2, <2>3, <2>5, <2>6, <3>1, <3>2, <3>3
    <3>4. CASE r # w
      BY <1>2, <2>6, <3>1, <3>2, <3>4
    <3> QED BY <3>3, <3>4
  <2>11. SentIsPrefix'
    <3> SUFFICES ASSUME NEW r \in live
                 PROVE  onWire[r] = Units(0, rpcs'[r].next)
      BY <1>1, <1>4 DEF SentIsPrefix, Units
    <3>1. onWire[r] = Units(0, rpcs[r].next) \cup InFlight(r)
      BY DEF IInv, SentIsPrefix
    <3>2. CASE r = w /\ IsData
      <4>1. InFlight(r) = Units(work.off, work.n)
        BY <1>1, <3>2 DEF InFlight
      <4>2. work.off <= s.next /\ rpcs'[r].next = Greatest(s.next, work.off + work.n)
        BY <1>2, <2>1, <2>2, <2>5, <2>6, <3>2 DEF WorkInv, IsData
      <4>3. Units(0, s.next) \cup Units(work.off, work.n)
              = Units(0, Greatest(s.next, work.off + work.n))
        BY <1>2, <2>3, <4>2 DEF Units, Greatest
      <4> QED BY <3>1, <3>2, <4>1, <4>2, <4>3
    <3>3. CASE ~(r = w /\ IsData)
      <4>1. InFlight(r) = {}
        BY <3>3 DEF InFlight
      <4>2. rpcs'[r].next = rpcs[r].next
        BY <1>2, <2>2, <2>5, <2>6, <3>3
      <4> QED BY <3>1, <4>1, <4>2
    <3> QED BY <3>2, <3>3
  <2>12. ungranted' = 0 /\ resending'.end <= MaxSeq
    BY <1>1 DEF IInv
  <2> QED BY <1>1, <2>8, <2>9, <2>10, <2>11, <2>12 DEF IInv, IsData, DataKinds
<1> QED BY <1>2, <1>5, <1>6 DEF Work

\* Time, the path and the end of the session.
LEMMA EnvironmentStep ==
    IInv /\ ((\E r \in Rpc : GoesIdle(r)) \/ PathShrinks \/ SessionEnds) => IInv'
<1>1. ASSUME IInv, NEW r \in Rpc, GoesIdle(r) PROVE IInv'
  <2> DEFINE s == rpcs[r]
             t == [s EXCEPT !.stale = TRUE]
  <2>1. /\ UNCHANGED <<up, rx, inbound, resending, wake, limit, live, pending, seqOn, ring,
                       repairs, pc, work, nextSeq, maxDatagram, ungranted, onWire>>
        /\ r \in live /\ rpcs' = [rpcs EXCEPT ![r] = t]
    BY <1>1 DEF GoesIdle, sendVars
  <2>2. \A q \in live : RpcInv(rpcs[q]) /\ rpcs[q] \in RpcState /\ rpcs \in [Rpc -> RpcState]
                        /\ live \subseteq Rpc
    BY <1>1 DEF IInv, RpcInv, TypeOK
  <2>3. \A q \in live : Grows(rpcs[q], rpcs[q])
    <3> TAKE q \in live
    <3>1. rpcs[q].resends \in Seq(Span) /\ rpcs[q].granted \in Nat /\ rpcs[q].packet0Req \in Nat
      BY <2>2 DEF RpcState
    <3>2. rpcs[q].resends # <<>> => rpcs[q].resends[1].end <= rpcs[q].resends[1].end
      BY <3>1, FrontSpan
    <3> QED BY <3>1, <3>2 DEF Grows
  <2>4. RpcInv(t) /\ Grows(s, t) /\ t \in RpcState
    <3>1. /\ t \in RpcState /\ t.size = s.size /\ t.granted = s.granted /\ t.next = s.next
          /\ t.resends = s.resends /\ t.packet0Req = s.packet0Req /\ t.tailDup = s.tailDup
          /\ t.metaSent = s.metaSent /\ t.packet0Sent = s.packet0Sent
      BY <2>1, <2>2 DEF RpcState
    <3> HIDE DEF t
    <3>2. RpcInv(t)
      BY <2>1, <2>2, <3>1 DEF RpcInv
    <3> QED BY <2>1, <2>3, <3>1, <3>2 DEF Grows
  <2> HIDE DEF t
  <2>5. \A q \in live : RpcInv(rpcs'[q]) /\ Grows(rpcs[q], rpcs'[q])
    BY <2>1, <2>2, <2>3, <2>4
  <2>6. rpcs' \in [Rpc -> RpcState]
    BY <2>1, <2>2, <2>4
  <2>7. TypeOK' /\ resending'.end <= MaxSeq
    BY <1>1, <2>1, <2>6 DEF IInv, TypeOK
  <2> QED BY <1>1, <2>1, <2>5, <2>7, GrowthStep
<1>2. ASSUME IInv, PathShrinks PROVE IInv'
  <2>1. /\ UNCHANGED <<up, rx, inbound, resending, wake, live, rpcs, pending, seqOn, ring,
                       repairs, pc, work, nextSeq, maxDatagram, ungranted, onWire>>
        /\ limit' \in Limits
    BY <1>2 DEF PathShrinks, session, sendVars
  <2>2. TypeOK' /\ resending'.end <= MaxSeq
    BY <1>2, <2>1 DEF IInv, TypeOK
  <2> QED BY <1>2, <2>1, <2>2, QuietStep
<1>3. ASSUME IInv, SessionEnds PROVE IInv'
  <2>1. /\ UNCHANGED <<rx, inbound, resending, wake, limit, live, rpcs, pending, seqOn, ring,
                       repairs, pc, work, nextSeq, maxDatagram, ungranted, onWire>>
        /\ up' = FALSE
    BY <1>3 DEF SessionEnds, session, sendVars
  <2>2. TypeOK' /\ resending'.end <= MaxSeq
    BY <1>3, <2>1 DEF IInv, TypeOK
  <2> QED BY <1>3, <2>1, <2>2, QuietStep
<1> QED BY <1>1, <1>2, <1>3

LEMMA StutterStep == IInv /\ UNCHANGED vars => IInv'
BY DEF IInv, vars, session, sendVars, TypeOK, MetaLeadsData, SentIsPrefix, InFlight,
       IsData, Units

\* IInv is inductive.
LEMMA NextIInv == IInv /\ [Next]_vars => IInv'
BY ReceivePacketStep, ReceiveHelloStep, ReceiveResendSeqStep, ResendSeqStepStep,
   ResendSeqDoneStep, SignalStep, PickStep, WakeStep, SweepStep, CheckGrantStep,
   TransmitStep, TooLargeStep, RecordStep, EnvironmentStep, StutterStep
   DEF Next, ReceiveLoop, SendLoop

-----------------------------------------------------------------------------
(* The theorems. *)

\* The inductive invariant holds of every behaviour of the sender.
THEOREM Inductive == Spec => []IInv
BY InitIInv, NextIInv, PTL DEF Spec

\* Every variable of the sender keeps its type.
THEOREM Typed == Spec => []TypeOK
<1>1. IInv => TypeOK
  BY DEF IInv
<1> QED BY <1>1, Inductive, PTL

\* G2: the server never sends a byte that the client has not granted, whatever
\* the interleaving of its loops, the packets it gets and the path.
THEOREM GrantsRespected == Spec => []NoUngrantedSent
<1>1. IInv => NoUngrantedSent
  BY DEF IInv, NoUngrantedSent
<1> QED BY <1>1, Inductive, PTL

\* Nothing is queued to be resent that was not granted and sent.
THEOREM ResendsClipped == Spec => []ResendsWithinSent
<1>1. IInv => ResendsWithinSent
  <2> SUFFICES ASSUME IInv, NEW r \in live, NEW i \in 1..Len(rpcs[r].resends)
               PROVE  /\ rpcs[r].resends[i].start < rpcs[r].resends[i].end
                      /\ rpcs[r].resends[i].end <= Least(rpcs[r].granted, rpcs[r].next)
    BY DEF ResendsWithinSent
  <2>1. RpcInv(rpcs[r]) /\ rpcs[r].resends \in Seq(Span)
    BY DEF IInv, RpcInv, RpcState
  <2>2. rpcs[r].resends[i] \in Span
    BY <2>1, ElementOfSeq
  <2> QED BY <2>1, <2>2 DEF RpcInv, RpcState, Span, Least
<1> QED BY <1>1, Inductive, PTL

\* What an rpc has sent is a prefix of its body: no byte is skipped.
THEOREM PrefixSent == Spec => []SentIsPrefix
<1>1. IInv => SentIsPrefix
  BY DEF IInv
<1> QED BY <1>1, Inductive, PTL

\* The work in flight still matches the queues when it is recorded.
THEOREM WorkStaysCurrent == Spec => []WorkIsCurrent
<1>1. IInv => WorkIsCurrent
  BY DEF IInv, WorkIsCurrent, WorkInv, IsData
<1> QED BY <1>1, Inductive, PTL

\* META is sent for every REQ before its packet 0, and before any body byte.
THEOREM MetaFirst == Spec => []MetaLeadsData
<1>1. IInv => MetaLeadsData
  BY DEF IInv
<1> QED BY <1>1, Inductive, PTL
=============================================================================
