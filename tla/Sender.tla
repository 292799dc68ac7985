------------------------------- MODULE Sender -------------------------------
(***************************************************************************)
(* The passive sender of one HTTP4 session                                 *)
(* (src/server/internal/sender/sender.go).  The receive loop applies the   *)
(* client's packets to the session and never sends; the send loop picks    *)
(* the most urgent packet, hands it to QUIC and records what it did.  They *)
(* share the session under one mutex, which the send loop releases between *)
(* the pick and the record: every step below is one critical section of    *)
(* one loop, or the unlocked work between two of them.                     *)
(*                                                                         *)
(* One unit of an offset, a size or a datagram stands for a run of bytes.  *)
(***************************************************************************)
EXTENDS Integers, Sequences, FiniteSets

CONSTANTS
    Rpc,              \* the rpc ids a client may use
    Sizes,            \* sizes of the bodies that Assets.Get may return
    MaxOffset,        \* bound: offsets named by the client are 0..MaxOffset
    MaxInbound,       \* bound: packets the client sends in the session
    PlainHeader,      \* wire.DataHeaderLen
    SeqHeader,        \* wire.DataSeqHeaderLen
    InitialDatagram,  \* Config.InitialMaxDatagram
    Limits,           \* datagram limits the path may impose
    TailDuplicate,    \* Config.TailDuplicate
    NoSeq,            \* Config.NoSeq
    Paced,            \* Config.SendQueueTarget is positive
    QuicSendQueue,    \* quicSendQueue: depth of QUIC's datagram queue
    MaxSeq,           \* math.MaxUint32
    RingSize,         \* seqRingSize
    MaxResendRange    \* maxResendSeqRange

ASSUME SenderAssumption ==
    /\ Sizes \subseteq Nat
    /\ Limits \subseteq Nat
    /\ MaxOffset \in Nat /\ MaxInbound \in Nat
    /\ PlainHeader \in Nat /\ SeqHeader \in Nat /\ InitialDatagram \in Nat
    /\ TailDuplicate \in Nat /\ QuicSendQueue \in Nat
    /\ NoSeq \in BOOLEAN /\ Paced \in BOOLEAN
    /\ MaxSeq \in Nat
    /\ RingSize \in Nat \ {0} /\ MaxResendRange \in Nat \ {0}

ASSUME RpcAssumption == Rpc # {}

\* The path carries at least one byte of body in a datagram.
ASSUME LimitAssumption == \A l \in Limits : l > SeqHeader /\ l > PlainHeader

VARIABLES
    up,           \* neither loop has returned
    rx,           \* receive loop: "receive", "resend" (mu held), "signal"
    inbound,      \* packets received so far
    resending,    \* sequence numbers RESEND_SEQ still has to look up
    live,         \* the keys of session.rpcs
    rpcs,         \* session.rpcs
    pending,      \* session.pending
    seqOn, nextSeq, ring, maxDatagram,   \* the session's other fields
    wake,         \* session.wake holds a token
    pc,           \* send loop: see SendLoopPC
    work,         \* the work picked and not yet recorded
    limit,        \* the largest datagram QUIC sends now
    ungranted,    \* Metrics.UngrantedSent
    onWire,       \* history: body units handed to QUIC for each live rpc
    repairs       \* history: how often RESEND_SEQ queued each number's bytes

session  == <<live, rpcs, pending, seqOn, ring, repairs>>
sendVars == <<pc, work, nextSeq, maxDatagram, ungranted, onWire>>
vars == <<up, rx, inbound, resending, wake, limit, session, sendVars>>

-----------------------------------------------------------------------------
(* The data of a session. *)

SendLoopPC == {"pick", "wait", "hold", "check", "send", "record"}
Codes      == {"NOT_FOUND", "BAD_REQUEST", "UNKNOWN_RPC"}
DataKinds  == {"packet0", "resend", "new", "tailDup"}
Span       == [start : Nat, end : Nat]
NoSpan     == [start |-> 0, end |-> 0]

RpcState == [size : Nat, granted : Nat, resends : Seq(Span),
             packet0Req : Nat, next : Nat, metaSent : Nat, packet0Sent : Nat,
             tailDuped : BOOLEAN, tailDup : Span,
             stale : BOOLEAN]   \* nothing has referred to it for IdleTimeout

NewRpc(size) ==
    [size |-> size, granted |-> 0, resends |-> <<>>, packet0Req |-> 0,
     next |-> 0, metaSent |-> 0, packet0Sent |-> 0,
     tailDuped |-> FALSE, tailDup |-> NoSpan, stale |-> FALSE]

Reply == [rpc : Rpc, code : Codes]

AnyRpc  == CHOOSE r \in Rpc : TRUE
Work    == [kind : DataKinds \cup {"none", "control", "meta"}, rpc : Rpc,
            off : Nat, n : Nat, gen : Nat, seq : BOOLEAN]
NoWork  == [kind |-> "none", rpc |-> AnyRpc, off |-> 0, n |-> 0, gen |-> 0,
            seq |-> FALSE]
Entry   == [valid : BOOLEAN, seq : Nat, resent : BOOLEAN, rpc : Rpc,
            off : Nat, n : Nat]
NoEntry == [valid |-> FALSE, seq |-> 0, resent |-> FALSE, rpc |-> AnyRpc,
            off |-> 0, n |-> 0]

Least(a, b)    == IF a <= b THEN a ELSE b
Greatest(a, b) == IF a >= b THEN a ELSE b
Units(off, n)  == off..(off + n - 1)
IsData         == work.kind \in DataKinds
Locked         == rx = "resend"   \* the receive loop is inside mu

Header(seq)    == IF seq THEN SeqHeader ELSE PlainHeader
ChunkPlain(seq) == Greatest(1, maxDatagram - PlainHeader)   \* mutant: one header for both
Chunk(seq)     == Greatest(1, maxDatagram - Header(seq))
DatagramSize   == Header(work.seq) + work.n

Init ==
    /\ up = TRUE /\ rx = "receive" /\ inbound = 0 /\ resending = NoSpan
    /\ live = {} /\ rpcs = [r \in Rpc |-> NewRpc(0)] /\ pending = <<>>
    /\ seqOn = FALSE /\ nextSeq = 0 /\ ring = [i \in 0..RingSize - 1 |-> NoEntry]
    /\ maxDatagram = InitialDatagram /\ limit \in Limits
    /\ wake = FALSE /\ pc = "pick" /\ work = NoWork
    /\ ungranted = 0
    /\ onWire = [r \in Rpc |-> {}] /\ repairs = [q \in 0..MaxSeq |-> 0]

-----------------------------------------------------------------------------
(* The receive loop.  One packet is handled under mu; the wake-up follows    *)
(* once mu is free.  RESEND_SEQ looks up its numbers one step at a time with *)
(* mu held throughout.                                                       *)

Arrives == up /\ rx = "receive" /\ inbound < MaxInbound /\ inbound' = inbound + 1

Raise(r, g) == [r EXCEPT !.granted = Greatest(@, Least(g, r.size)), !.stale = FALSE]

ReplyWith(r, code) ==
    /\ pending' = Append(pending, [rpc |-> r, code |-> code])
    /\ UNCHANGED <<live, rpcs, onWire>>

ReceiveReq(r, size, grant) ==
    LET known == IF r \in live THEN rpcs[r] ELSE NewRpc(size)
    IN  /\ rpcs' = [rpcs EXCEPT ![r] = [Raise(known, grant) EXCEPT !.packet0Req = @ + 1]]
        /\ live' = live \cup {r}
        /\ onWire' = IF r \in live THEN onWire ELSE [onWire EXCEPT ![r] = {}]
        /\ UNCHANGED pending

ReceiveBadReq(r, code) == r \notin live /\ ReplyWith(r, code)

ReceiveGrant(r, max) ==
    IF r \in live
    THEN /\ rpcs' = [rpcs EXCEPT ![r] = Raise(@, max)]
         /\ UNCHANGED <<live, pending, onWire>>
    ELSE ReplyWith(r, "UNKNOWN_RPC")

\* Only bytes granted and sent are resent; the rest goes out as new data.
GrantedOnly(r) == r.granted   \* mutant: unsent bytes are queued too
Sendable(r)    == Least(r.granted, r.next)

\* A lost range, clipped, joins the queue.
Queued(r, start, end) ==
    LET clipped == Least(end, Sendable(r))
    IN  [r EXCEPT !.stale = FALSE,
                  !.resends = IF start < clipped
                              THEN Append(@, [start |-> start, end |-> clipped])
                              ELSE @]

ReceiveResend(r, start, end) ==
    IF r \in live
    THEN /\ rpcs' = [rpcs EXCEPT ![r] = Queued(@, start, end)]
         /\ UNCHANGED <<live, pending, onWire>>
    ELSE ReplyWith(r, "UNKNOWN_RPC")

\* Every packet but HELLO and an accepted RESEND_SEQ, and those the server
\* refuses as a protocol violation (the last disjunct).
ReceivePacket ==
    /\ Arrives
    /\ \/ \E r \in Rpc :
            \/ \E size \in Sizes, g \in 0..MaxOffset : ReceiveReq(r, size, g)
            \/ \E code \in {"NOT_FOUND", "BAD_REQUEST"} : ReceiveBadReq(r, code)
            \/ \E g \in 0..MaxOffset : ReceiveGrant(r, g)
            \/ \E e \in 1..MaxOffset : \E b \in 0..e - 1 : ReceiveResend(r, b, e)
       \/ UNCHANGED <<live, rpcs, pending, onWire>>
    /\ rx' = "signal"
    /\ UNCHANGED <<up, resending, seqOn, nextSeq, ring, maxDatagram, wake, pc,
                   work, limit, ungranted, repairs>>

ReceiveHello ==
    /\ Arrives
    /\ seqOn' = (seqOn \/ ~NoSeq)
    /\ rx' = "signal"
    /\ UNCHANGED <<up, resending, live, rpcs, pending, ring, wake, limit,
                   repairs, sendVars>>

ReceiveResendSeq ==
    /\ Arrives /\ seqOn
    /\ \E e \in 1..MaxSeq : \E b \in 0..e - 1 :
         resending' = [start |-> b, end |-> Least(e, b + MaxResendRange)]
    /\ rx' = "resend"
    /\ UNCHANGED <<up, wake, limit, session, sendVars>>

\* resendSeq: consecutive lost datagrams of one rpc merge into one range.
Merged(r, e) ==
    LET end == Least(e.off + e.n, Sendable(r))
        k   == Len(r.resends)
    IN  IF e.off < end /\ k > 0 /\ r.resends[k].end = e.off
        THEN [r EXCEPT !.stale = FALSE, !.resends[k].end = end]
        ELSE Queued(r, e.off, e.off + e.n)

EveryRepeat(e, q) == e.valid /\ e.seq = q   \* mutant: repeats queue again
Remembered(e, q)  == e.valid /\ e.seq = q /\ ~e.resent

ResendSeqStep ==
    LET q    == resending.start
        slot == q % RingSize
        e    == ring[slot]
    IN  /\ up /\ Locked /\ q < resending.end
        /\ resending' = [resending EXCEPT !.start = @ + 1]
        /\ IF Remembered(e, q)
           THEN /\ ring' = [ring EXCEPT ![slot].resent = TRUE]
                /\ IF e.rpc \in live
                   THEN /\ rpcs' = [rpcs EXCEPT ![e.rpc] = Merged(@, e)]
                        /\ repairs' = [repairs EXCEPT ![q] = @ + 1]
                   ELSE UNCHANGED <<rpcs, repairs>>
           ELSE UNCHANGED <<ring, rpcs, repairs>>
        /\ UNCHANGED <<up, rx, inbound, wake, limit, live, pending, seqOn, sendVars>>

\* (The first is a mutant: the send loop is not woken for what was looked up.)
DoneQuietly ==
    /\ up /\ Locked /\ resending.start = resending.end
    /\ resending' = NoSpan /\ rx' = "receive"
    /\ UNCHANGED <<up, inbound, wake, limit, session, sendVars>>

ResendSeqDone ==
    /\ up /\ Locked /\ resending.start = resending.end
    /\ resending' = NoSpan /\ rx' = "signal"
    /\ UNCHANGED <<up, inbound, wake, limit, session, sendVars>>

Signal ==
    /\ up /\ rx = "signal"
    /\ rx' = "receive" /\ wake' = TRUE
    /\ UNCHANGED <<up, inbound, resending, limit, session, sendVars>>

-----------------------------------------------------------------------------
(* The send loop.                                                            *)

Due(r) ==
    LET s == rpcs[r]
    IN  IF s.packet0Req > s.metaSent         THEN "meta"
        ELSE IF s.packet0Req > s.packet0Sent THEN "packet0"
        ELSE IF s.resends # <<>>             THEN "resend"
        ELSE IF s.next < s.granted           THEN "new"
        ELSE IF s.tailDup # NoSpan           THEN "tailDup"
        ELSE "none"

Urgency(kind) == CASE kind = "meta"    -> 1 [] kind = "packet0" -> 2
                   [] kind = "resend"  -> 3 [] kind = "new"     -> 4
                   [] kind = "tailDup" -> 5 [] OTHER            -> 6

Remaining(r) == rpcs[r].size - rpcs[r].next
DueRpcs      == {r \in live : Due(r) # "none"}

\* The order of pick: the most urgent kind, then the fewest bytes left.
Precedes(r, q) ==
    \/ Urgency(Due(r)) < Urgency(Due(q))
    \/ Due(r) = Due(q) /\ Remaining(r) <= Remaining(q)

Packet0Whole(s, c) == Least(c, s.size)   \* mutant: the first packet needs no grant
Packet0Len(s, c)   == Least(c, s.granted)

Payload(r, seq) ==
    LET s == rpcs[r]
        c == Chunk(seq)
    IN  CASE Due(r) = "packet0" -> [off |-> 0, n |-> Packet0Len(s, c)]
          [] Due(r) = "resend"  -> [off |-> s.resends[1].start,
                                    n |-> Least(c, s.resends[1].end - s.resends[1].start)]
          [] Due(r) = "new"     -> [off |-> s.next, n |-> Least(c, s.granted - s.next)]
          [] Due(r) = "tailDup" -> [off |-> s.tailDup.start,
                                    n |-> s.tailDup.end - s.tailDup.start]
          [] OTHER              -> [off |-> 0, n |-> 0]

AlwaysNumbered == seqOn   \* mutant: no return to plain DATA after MaxSeq
Numbered       == seqOn /\ nextSeq <= MaxSeq

Chosen(r) ==
    LET range == Payload(r, Numbered)
    IN  [kind |-> Due(r), rpc |-> r, off |-> range.off, n |-> range.n,
         gen |-> rpcs[r].packet0Req, seq |-> Numbered /\ Due(r) # "meta"]

Bulk(w) == w.kind = "new" /\ Remaining(w.rpc) > QuicSendQueue * Chunk(w.seq)

\* pick, and the pacer's verdict on it: held work is dropped and picked again.
Pick ==
    /\ up /\ pc = "pick" /\ ~Locked
    /\ \/ /\ pending # <<>>
          /\ work' = [NoWork EXCEPT !.kind = "control"] /\ pc' = "check"
       \/ /\ pending = <<>>
          /\ \E r \in DueRpcs :
               /\ \A q \in DueRpcs : Precedes(r, q)
               /\ \/ work' = Chosen(r) /\ pc' = "check"
                  \/ Paced /\ Bulk(Chosen(r)) /\ UNCHANGED work /\ pc' = "hold"
       \/ /\ pending = <<>> /\ DueRpcs = {}
          /\ UNCHANGED work /\ pc' = "wait"
    /\ UNCHANGED <<up, rx, inbound, resending, wake, limit, session, nextSeq,
                   maxDatagram, ungranted, onWire>>

\* The wait for work, and hold cut short, consume the wake-up; hold's timer
\* does not.
Wake ==
    /\ up
    /\ \/ pc \in {"wait", "hold"} /\ wake /\ wake' = FALSE
       \/ pc = "hold" /\ UNCHANGED wake
    /\ pc' = "pick"
    /\ UNCHANGED <<up, rx, inbound, resending, limit, session, work, nextSeq,
                   maxDatagram, ungranted, onWire>>

\* evictIdle, on the sweep ticker, which the send loop reads between packets.
SweepAnytime == pc \in SendLoopPC   \* mutant: the ticker has a goroutine of its own
BetweenSends == pc \in {"pick", "wait"}

Sweep ==
    LET gone == {r \in live : rpcs[r].stale}
    IN  /\ up /\ BetweenSends /\ ~Locked
        /\ live' = live \ gone
        /\ rpcs' = [r \in Rpc |-> IF r \in gone THEN NewRpc(0) ELSE rpcs[r]]
        /\ onWire' = [r \in Rpc |-> IF r \in gone THEN {} ELSE onWire[r]]
        /\ pc' = "pick"
        /\ UNCHANGED <<up, rx, inbound, resending, wake, limit, pending, seqOn, nextSeq,
                       ring, maxDatagram, work, ungranted, repairs>>

\* The G2 check at the top of send.  The packet goes out whatever it finds.
CheckGrant ==
    LET granted == rpcs[work.rpc].granted
        end     == work.off + work.n
    IN  /\ up /\ pc = "check" /\ ~Locked
        /\ ungranted' = IF IsData /\ end > granted
                        THEN ungranted + end - Greatest(work.off, granted)
                        ELSE ungranted
        /\ pc' = "send"
        /\ UNCHANGED <<up, rx, inbound, resending, wake, limit, session, work, nextSeq,
                       maxDatagram, onWire>>

\* QUIC takes the datagram (or the drop hook loses it): mu is not held.
Transmit ==
    /\ up /\ pc = "send"
    /\ IsData => DatagramSize <= limit
    /\ onWire' = IF IsData
                 THEN [onWire EXCEPT ![work.rpc] = @ \cup Units(work.off, work.n)]
                 ELSE onWire
    /\ pc' = "record"
    /\ UNCHANGED <<up, rx, inbound, resending, wake, limit, session, work, nextSeq,
                   maxDatagram, ungranted>>

\* QUIC refuses it: nothing is recorded, and the next pick uses a smaller chunk.
\* (The first is a mutant: the refused datagram is recorded as sent.)
TooLargeRecorded ==
    /\ up /\ pc = "send" /\ ~Locked
    /\ IsData /\ DatagramSize > limit
    /\ maxDatagram' = limit
    /\ pc' = "record"
    /\ UNCHANGED <<up, rx, inbound, resending, wake, limit, session, work, nextSeq,
                   ungranted, onWire>>

TooLarge ==
    /\ up /\ pc = "send" /\ ~Locked
    /\ IsData /\ DatagramSize > limit
    /\ maxDatagram' = limit
    /\ pc' = "pick" /\ work' = NoWork
    /\ UNCHANGED <<up, rx, inbound, resending, wake, limit, session, nextSeq,
                   ungranted, onWire>>

LatestReq(s) == s.packet0Req   \* mutant: a REQ that came meanwhile counts as answered
Answers(s)   == work.gen

FrontDropped(q) == Tail(q)   \* mutant: the rest of a span longer than a datagram is lost
FrontSent(q) == IF q[1].start + work.n >= q[1].end THEN Tail(q)
                ELSE [q EXCEPT ![1].start = @ + work.n]

Recorded(s) ==
    CASE work.kind = "meta"    -> [s EXCEPT !.metaSent = Answers(s)]
      [] work.kind = "packet0" -> [s EXCEPT !.packet0Sent = Answers(s),
                                            !.next = Greatest(@, work.n)]
      [] work.kind = "resend"  -> [s EXCEPT !.resends = FrontSent(@)]
      [] work.kind = "new"     -> [s EXCEPT !.next = @ + work.n]
      [] work.kind = "tailDup" -> [s EXCEPT !.tailDup = NoSpan]

\* A small body's last packet is queued to be repeated, once.
WithTailDup(s) ==
    IF /\ IsData /\ work.kind # "resend" /\ ~s.tailDuped
       /\ s.size > 0 /\ s.size <= TailDuplicate /\ s.next = s.size
    THEN [s EXCEPT !.tailDuped = TRUE,
                   !.tailDup = [start |-> work.off, end |-> work.off + work.n]]
    ELSE s

Record ==
    /\ up /\ pc = "record" /\ ~Locked
    /\ IF work.kind = "control"
       THEN pending' = Tail(pending) /\ UNCHANGED rpcs
       ELSE /\ rpcs' = [rpcs EXCEPT ![work.rpc] = WithTailDup(Recorded(@))]
            /\ UNCHANGED pending
    /\ IF IsData /\ work.seq
       THEN /\ ring' = [ring EXCEPT ![nextSeq % RingSize] =
                         [valid |-> TRUE, seq |-> nextSeq, resent |-> FALSE,
                          rpc |-> work.rpc, off |-> work.off, n |-> work.n]]
            /\ nextSeq' = nextSeq + 1
       ELSE UNCHANGED <<ring, nextSeq>>
    /\ pc' = "pick" /\ work' = NoWork
    /\ UNCHANGED <<up, rx, inbound, resending, wake, limit, live, seqOn,
                   maxDatagram, ungranted, onWire, repairs>>

-----------------------------------------------------------------------------
(* The environment: time, the path and the end of the session (the context,  *)
(* a failed receive, a failed send).                                         *)

GoesIdle(r) ==
    /\ up /\ r \in live /\ ~rpcs[r].stale /\ ~Locked
    /\ rpcs' = [rpcs EXCEPT ![r].stale = TRUE]
    /\ UNCHANGED <<up, rx, inbound, resending, wake, limit, live, pending, seqOn,
                   ring, repairs, sendVars>>

PathShrinks ==
    /\ up
    /\ \E l \in Limits : l < limit /\ limit' = l
    /\ UNCHANGED <<up, rx, inbound, resending, wake, session, sendVars>>

SessionEnds ==
    /\ up /\ up' = FALSE
    /\ UNCHANGED <<rx, inbound, resending, wake, limit, session, sendVars>>

ReceiveLoop == ReceivePacket \/ ReceiveHello \/ ReceiveResendSeq
               \/ ResendSeqStep \/ ResendSeqDone \/ Signal
SendLoop    == Pick \/ Wake \/ Sweep \/ CheckGrant \/ Transmit \/ TooLarge \/ Record

Next == ReceiveLoop \/ SendLoop
        \/ (\E r \in Rpc : GoesIdle(r)) \/ PathShrinks \/ SessionEnds

Spec == Init /\ [][Next]_vars

\* The loops run while the session is up; mu is never held for ever, the client
\* being bounded.  Nothing obliges the client to send, the clock to idle an rpc,
\* the ticker to sweep or the path to change.  A bulk packet may be held again
\* and again, each time for a bounded wait that the pacer's booked slot ends:
\* hence strong fairness on the pick that goes on to send.
Fairness ==
    /\ WF_vars(ResendSeqStep) /\ WF_vars(ResendSeqDone) /\ WF_vars(Signal)
    /\ WF_vars(Pick) /\ SF_vars(Pick /\ pc' = "check") /\ WF_vars(Wake)
    /\ WF_vars(CheckGrant) /\ WF_vars(Transmit) /\ WF_vars(TooLarge) /\ WF_vars(Record)

FairSpec == Spec /\ Fairness

-----------------------------------------------------------------------------
(* Properties. *)

\* Every variable holds what the code's types allow.
TypeOK ==
    /\ up \in BOOLEAN /\ rx \in {"receive", "resend", "signal"}
    /\ inbound \in 0..MaxInbound /\ resending \in Span
    /\ live \subseteq Rpc /\ rpcs \in [Rpc -> RpcState] /\ pending \in Seq(Reply)
    /\ seqOn \in BOOLEAN /\ nextSeq \in 0..MaxSeq + 1
    /\ ring \in [0..RingSize - 1 -> Entry]
    /\ maxDatagram \in Nat /\ limit \in Limits
    /\ wake \in BOOLEAN /\ pc \in SendLoopPC /\ work \in Work
    /\ ungranted \in Nat
    /\ onWire \in [Rpc -> SUBSET Nat] /\ repairs \in [0..MaxSeq -> Nat]

\* No byte leaves before the client has granted it: Metrics.UngrantedSent, the
\* counter that send keeps to find a bug, stays at zero (G2).
NoUngrantedSent == ungranted = 0

\* A resend queue holds only bytes that were granted and sent, whatever the
\* client names and whichever rpc of that id a remembered datagram belonged to.
ResendsWithinSent ==
    \A r \in live : \A i \in 1..Len(rpcs[r].resends) :
        LET span == rpcs[r].resends[i]
        IN  /\ span.start < span.end
            /\ span.end <= Least(rpcs[r].granted, rpcs[r].next)

InFlight(r) == IF pc = "record" /\ IsData /\ work.rpc = r
               THEN Units(work.off, work.n) ELSE {}

\* What an rpc has sent is exactly [0, next), with the datagram handed to QUIC
\* and not yet recorded: no byte is skipped as new data, however packet 0, new
\* data, refused datagrams and repeated REQs interleave.
SentIsPrefix ==
    \A r \in live : onWire[r] = Units(0, rpcs[r].next) \cup InFlight(r)

\* The work chosen before mu was released is still what the queues hold when
\* send records it: its rpc has not been evicted, nor its span changed in front.
WorkIsCurrent ==
    work.kind \in DataKinds \cup {"meta"} =>
        LET s == rpcs[work.rpc]
        IN  /\ work.rpc \in live
            /\ work.kind = "resend" => /\ s.resends # <<>>
                                       /\ s.resends[1].start = work.off
                                       /\ work.off + work.n <= s.resends[1].end
            /\ work.kind = "new" => work.off = s.next
            /\ IsData => work.off + work.n <= s.granted

\* META leaves ahead of packet 0 for every REQ, and of any byte of the body.
MetaLeadsData ==
    \A r \in live :
        /\ rpcs[r].packet0Sent <= rpcs[r].metaSent
        /\ rpcs[r].metaSent <= rpcs[r].packet0Req
        /\ onWire[r] # {} => rpcs[r].metaSent > 0

\* Each number is resent at most once, however often RESEND_SEQ repeats it.
RepairedOnce == \A q \in 0..MaxSeq : repairs[q] <= 1

\* "decided at pick, so the payload fits" (sender.go:336): a picked payload fits
\* the datagram size the session believes in, unless one byte is already too big.
PayloadFits == IsData => DatagramSize <= maxDatagram \/ work.n <= 1

\* It is so of every payload that pick cuts (sender.go:473-487), as the header and
\* the size are read again at each pick, whatever HELLO and a refused datagram have
\* made of them.  The repeat of a tail is not cut.
ChosenFits == work.kind # "tailDup" => PayloadFits

Owed(r) == UNION {Units(rpcs[r].resends[i].start,
                        rpcs[r].resends[i].end - rpcs[r].resends[i].start)
                    : i \in 1..Len(rpcs[r].resends)}

\* A byte queued to be resent leaves the queue only by being sent (or with its
\* rpc), though the receive loop lengthens a span while its front is in flight.
OwedUntilSent ==
    [][\A r \in live \cap live' :
         Owed(r) \ Owed(r)' \subseteq
             IF pc = "record" /\ work.kind = "resend" THEN InFlight(r) ELSE {}]_vars

\* The repeat of a tail, as long as its original was, no longer fits a datagram.
TailTooLong(r) ==
    /\ Due(r) = "tailDup"
    /\ Header(Numbered) + rpcs[r].tailDup.end - rpcs[r].tailDup.start > limit

\* What is due is sent while the session lasts: no wake-up is lost between a
\* pick that finds nothing and the wait, and no refused datagram is dropped.  All
\* that can stay due is the repeat of a tail that QUIC refuses; nothing else waits
\* behind it, though the send loop never rests while it tries.
DueIsSent ==
    /\ \A r \in Rpc :
         (up /\ r \in live /\ Due(r) # "none")
             ~> (~up \/ r \notin live \/ Due(r) = "none" \/ TailTooLong(r))
    /\ (up /\ pending # <<>>) ~> (~up \/ pending = <<>>)

\* "Nothing was sent and nothing was recorded, so the same work is picked again next
\* time, at the smaller chunk size" (sender.go:572-573): what QUIC refuses goes out
\* in the end, in smaller pieces, unless the session or the rpc ends.
RefusedGoesOut ==
    \A r \in Rpc, kind \in DataKinds :
        (up /\ pc = "send" /\ work.rpc = r /\ work.kind = kind /\ DatagramSize > limit)
            ~> (~up \/ r \notin live
                    \/ (pc = "record" /\ work.rpc = r /\ work.kind = kind))
=============================================================================
