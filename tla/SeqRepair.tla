------------------------------ MODULE SeqRepair ------------------------------
(***************************************************************************)
(* Loss detection by session sequence number, once HELLO is agreed on: the *)
(* client's SeqTracker (src/client/src/reassembly.ts) as transport.ts      *)
(* drives it, against the server's ring of sent numbers                    *)
(* (src/server/internal/sender/sender.go), over a network that loses,      *)
(* duplicates and reorders the packets of both.                            *)
(*                                                                         *)
(* A DATA_SEQ carries one unit of one transfer.  The clock is left out: a  *)
(* window or a delay may have passed whenever the code could find that it  *)
(* has.  The stall timer and the tail probe, which repair what numbers do  *)
(* not show, are in module Transfer.                                       *)
(***************************************************************************)
EXTENDS Integers, FiniteSets, Functions

CONSTANTS
    Rpc,            \* the transfers of the session
    Size,           \* units of each body, all granted
    MaxSeq,         \* bound: numbers the server gives out
    Tries,          \* SEQ_RESEND_TRIES
    MaxGap,         \* SeqTracker.MAX_GAP
    MaxSettled,     \* SeqTracker.MAX_SETTLED
    RingSize,       \* seqRingSize
    MaxLosses,      \* bound: packets lost
    MaxDuplicates   \* bound: packets delivered twice

ASSUME SeqRepairAssumption ==
    /\ {Size, MaxSeq, Tries, RingSize} \subseteq Nat \ {0}
    /\ {MaxGap, MaxSettled, MaxLosses, MaxDuplicates} \subseteq Nat

VARIABLES
    tracker,     \* Http4Client.seq
    got, over,   \* what has arrived of each transfer; transfers no longer in the table
    next,        \* server: units of each transfer sent as new data
    owed,        \* server: numbers whose units are queued to be resent
    ring, nextSeq,          \* server: session.ring and session.nextSeq
    carried,                \* server: the unit each number carried
    toServer, toClient,     \* packets in flight
    losses, duplicates,     \* packets lost and delivered twice so far
    seen, asked, jumped,    \* history: numbers that arrived, were asked for, were
    misled, forgotten       \* jumped over, settled by a wrong hint, forgotten

client  == <<tracker, got, over>>
server  == <<next, owed, ring, nextSeq, carried>>
history == <<seen, asked, jumped, misled, forgotten>>
vars    == <<client, server, toServer, toClient, losses, duplicates, history>>

-----------------------------------------------------------------------------
(* Data. *)

Number == 0..MaxSeq - 1
Unit   == [rpc : Rpc, off : 0..Size - 1]
Hint   == [rpc : Rpc, start : 0..Size, end : 0..Size]
NoHint == [start |-> 0, end |-> 0]
Packet == [seq : Number, unit : Unit]
Span   == [start : Number, end : 1..MaxSeq, try : 1..Tries]   \* try tells repeats apart

Empty == [q \in {} |-> NoHint]
Slot  == [valid : BOOLEAN, seq : Number, resent : BOOLEAN]

Init ==
    /\ tracker = [highest |-> -1, last |-> NoHint, missing |-> Empty,
                  claimed |-> Empty, tries |-> Empty, settled |-> {}]
    /\ got = [r \in Rpc |-> {}] /\ over = {}
    /\ next = [r \in Rpc |-> 0] /\ owed = {} /\ nextSeq = 0
    /\ ring = [i \in 0..RingSize - 1 |-> [valid |-> FALSE, seq |-> 0, resent |-> FALSE]]
    /\ toServer = {} /\ toClient = {} /\ losses = 0 /\ duplicates = 0
    /\ carried = [q \in {} |-> [rpc |-> CHOOSE r \in Rpc : TRUE, off |-> 0]]
    /\ seen = {} /\ asked = {} /\ jumped = {} /\ misled = {} /\ forgotten = {}

-----------------------------------------------------------------------------
(* The tracker. *)

\* Map.set, for every key of new.
Entered(old, new) == [q \in DOMAIN old \cup DOMAIN new |->
                         IF q \in DOMAIN new THEN new[q] ELSE old[q]]

\* What the numbers between the highest and seq probably carried.
HintFor(t, seq, where) ==
    IF t.last # NoHint /\ seq - t.highest > 1 /\ t.last.rpc = where.rpc /\ t.last.end < where.start
    THEN [rpc |-> where.rpc, start |-> t.last.end, end |-> where.start] ELSE NoHint

Jumps(t, seq)   == seq - t.highest - 1 > MaxGap
Between(t, seq) == t.highest + 1..seq - 1

Struck(t, seq) ==
    [t EXCEPT !.missing = Restrict(@, DOMAIN @ \ {seq}),
              !.claimed = Restrict(@, DOMAIN @ \ {seq}),
              !.tries   = Restrict(@, DOMAIN @ \ {seq}),
              !.settled = @ \ {seq}]

\* (The first is a mutant: the gap ends one number early.)
OneShort(t, seq, where) ==
    IF seq <= t.highest THEN Struck(t, seq)
    ELSE [t EXCEPT !.highest = seq, !.last = where,
                   !.missing = IF Jumps(t, seq) THEN @
                               ELSE Entered(@, [q \in Between(t, seq - 1) |-> HintFor(t, seq, where)])]
Arrived(t, seq, where) ==
    IF seq <= t.highest THEN Struck(t, seq)
    ELSE [t EXCEPT !.highest = seq, !.last = where,
                   !.missing = IF Jumps(t, seq) THEN @
                               ELSE Entered(@, [q \in Between(t, seq) |-> HintFor(t, seq, where)])]

\* detect: a number became missing no later than the ones above it, so what has
\* been missing for long enough is all that is missing below some number.
Lost(t) == {{q \in DOMAIN t.missing : q < k} : k \in 0..MaxSeq}
Claimed(t, lost) ==
    [t EXCEPT !.missing = Restrict(@, DOMAIN @ \ lost),
              !.claimed = Entered(@, Restrict(t.missing, lost)),
              !.tries   = Entered(@, [q \in lost |-> 1])]

\* Whether the bytes a hint names have arrived, or their transfer is over.
Repaired(h) == h # NoHint /\ (h.rpc \in over \/ (h.start..h.end - 1) \subseteq got[h.rpc])

\* repeats, of the claimed numbers whose delay has passed.
\* (The first is a mutant: asked for once more than SEQ_RESEND_TRIES.)
OnceMore(t, due) == {q \in due : t.tries[q] > Tries \/ Repaired(t.claimed[q])}
GivenUp(t, due)  == {q \in due : t.tries[q] >= Tries \/ Repaired(t.claimed[q])}
Repeated(t, due, old) ==
    LET done == GivenUp(t, due)
    IN  [t EXCEPT !.claimed = Restrict(@, DOMAIN @ \ done),
                  !.tries   = [q \in DOMAIN @ \ done |-> IF q \in due THEN @[q] + 1 ELSE @[q]],
                  !.settled = (@ \cup done) \ old]

\* What it may forget of the settled numbers: those beyond MAX_SETTLED, oldest
\* first, and any that CLAIM_TTL_MS may have run out for, which what this call
\* settles has before it.  (Which of the earlier ones is older is not kept.)
Forgettable(t, due) ==
    LET done         == GivenUp(t, due)
        Kept(old)    == (t.settled \cup done) \ old
        Crowded(old) == t.settled \subseteq old /\ Cardinality(Kept(old)) = MaxSettled
    IN  {old \in SUBSET (t.settled \cup done) :
            /\ Cardinality(Kept(old)) <= MaxSettled
            /\ old \cap done = {} \/ Crowded(old)}

\* RESEND_SEQ for a set of numbers, one packet for each run of them.
ResendSeqs(qs, tries) ==
    {s \in [start : qs, end : 1..MaxSeq, try : 1..Tries] :
        /\ s.start < s.end /\ s.start..s.end - 1 \subseteq qs
        /\ s.start - 1 \notin qs /\ s.end \notin qs
        /\ s.try = tries[s.start]}

\* detectSeqLoss.  Repeating before detecting comes to the same, as no delay has
\* passed for what is claimed now.
\* (The first is a mutant: a number is asked for only once.)
NeverAgain(t, due) == {}
Again(t, due)      == due \ GivenUp(t, due)

Detected(t, lost, due) ==
    \E old \in Forgettable(t, due) :
    LET t2 == Claimed(Repeated(t, due, old), lost)
    IN  /\ tracker'  = t2
        /\ toServer' = toServer \cup ResendSeqs(lost, t2.tries)
                                \cup ResendSeqs(Again(t, due), t2.tries)
        /\ asked'     = asked \cup lost
        /\ forgotten' = forgotten \cup old
        /\ misled'    = misled \cup {q \in GivenUp(t, due) :
                          Repaired(t.claimed[q]) /\ carried[q].off \notin got[carried[q].rpc]}

DetectSeqLoss(t) ==
    \E lost \in Lost(t), due \in SUBSET DOMAIN t.claimed : Detected(t, lost, due)

-----------------------------------------------------------------------------
(* The client's callbacks. *)

\* A datagram leaves the network when it is delivered, unless it comes again.
Delivered(m, channel) ==
    \/ channel' = channel \ {m} /\ UNCHANGED duplicates
    \/ duplicates < MaxDuplicates /\ duplicates' = duplicates + 1 /\ UNCHANGED channel

\* handle: the number is recorded before the transfer is looked up, and loss
\* detection runs unless it ran a moment ago.
Receive(m) ==
    LET where == [rpc |-> m.unit.rpc, start |-> m.unit.off, end |-> m.unit.off + 1]
        t     == Arrived(tracker, m.seq, where)
        r     == m.unit.rpc
        all   == got[r] \cup {m.unit.off}
    IN  /\ m \in toClient /\ Delivered(m, toClient)
        /\ \/ DetectSeqLoss(t)
           \/ tracker' = t /\ UNCHANGED <<toServer, asked, misled, forgotten>>
        /\ IF r \in over THEN UNCHANGED <<got, over>>
           ELSE /\ got'  = [got EXCEPT ![r] = all]
                /\ over' = IF all = 0..Size - 1 THEN over \cup {r} ELSE over
        /\ seen'   = seen \cup {m.seq}
        /\ jumped' = IF m.seq > tracker.highest /\ Jumps(tracker, m.seq)
                     THEN jumped \cup Between(tracker, m.seq) ELSE jumped
        /\ UNCHANGED <<server, losses>>

\* tick, which runs while there are transfers.
Ticks == over # Rpc /\ UNCHANGED <<got, over, server, toClient, losses, duplicates, seen, jumped>>

Tick    == Ticks /\ DetectSeqLoss(tracker)
TickAll == Ticks /\ Detected(tracker, DOMAIN tracker.missing, DOMAIN tracker.claimed)

\* A transfer fails, or its reader cancels it.
Drop(r) ==
    /\ over' = over \cup {r}
    /\ UNCHANGED <<tracker, got, server, toServer, toClient, losses, duplicates, history>>

-----------------------------------------------------------------------------
(* The server (module Sender has its two loops) and the network. *)

Send(unit) ==
    /\ nextSeq < MaxSeq
    /\ toClient' = toClient \cup {[seq |-> nextSeq, unit |-> unit]}
    /\ carried'  = Entered(carried, [q \in {nextSeq} |-> unit])
    /\ ring'     = [ring EXCEPT ![nextSeq % RingSize] =
                      [valid |-> TRUE, seq |-> nextSeq, resent |-> FALSE]]
    /\ nextSeq'  = nextSeq + 1
    /\ UNCHANGED <<client, toServer, losses, duplicates, history>>

\* What is owed goes out before anything new.
ServerSend ==
    \/ \E q \in owed : Send(carried[q]) /\ owed' = owed \ {q} /\ UNCHANGED next
    \/ \E r \in Rpc : /\ owed = {} /\ next[r] < Size
                      /\ Send([rpc |-> r, off |-> next[r]])
                      /\ next' = [next EXCEPT ![r] = @ + 1] /\ UNCHANGED owed

\* resendSeq: each number the ring still holds is resent once.
\* (The first is a mutant: repeats are resent too.)
EveryRepeat(e, m) == e.valid /\ e.seq \in m.start..m.end - 1
Due(e, m)         == e.valid /\ e.seq \in m.start..m.end - 1 /\ ~e.resent

ServerReceive(m) ==
    LET named == {i \in DOMAIN ring : Due(ring[i], m)}
    IN  /\ m \in toServer /\ Delivered(m, toServer)
        /\ ring' = [i \in DOMAIN ring |-> [ring[i] EXCEPT !.resent = @ \/ i \in named]]
        /\ owed' = owed \cup {ring[i].seq : i \in named}
        /\ UNCHANGED <<client, next, nextSeq, carried, toClient, losses, history>>

Lose ==
    /\ losses < MaxLosses /\ losses' = losses + 1
    /\ \/ \E m \in toServer : toServer' = toServer \ {m} /\ UNCHANGED toClient
       \/ \E m \in toClient : toClient' = toClient \ {m} /\ UNCHANGED toServer
    /\ UNCHANGED <<client, server, duplicates, history>>

-----------------------------------------------------------------------------
Next ==
    \/ \E m \in toClient : Receive(m)
    \/ \E m \in toServer : ServerReceive(m)
    \/ \E r \in Rpc : Drop(r)
    \/ Tick \/ ServerSend \/ Lose

Spec == Init /\ [][Next]_vars

\* What the network does not lose it delivers, the server's send loop runs, and
\* the tick, while it runs, finds at last that every delay has passed.
Fairness ==
    /\ WF_vars(\E m \in toClient : Receive(m))
    /\ WF_vars(\E m \in toServer : ServerReceive(m))
    /\ WF_vars(ServerSend)
    /\ WF_vars(TickAll)

FairSpec == Spec /\ Fairness

-----------------------------------------------------------------------------
(* Properties. *)

Known == DOMAIN tracker.missing \cup DOMAIN tracker.claimed \cup tracker.settled

\* Every variable holds what the code's types allow; no number is asked for more
\* often than SEQ_RESEND_TRIES.
TypeOK ==
    /\ tracker.highest \in -1..MaxSeq - 1 /\ tracker.last \in Hint \cup {NoHint}
    /\ DOMAIN tracker.missing \subseteq Number /\ DOMAIN tracker.claimed \subseteq Number
    /\ DOMAIN tracker.tries = DOMAIN tracker.claimed
    /\ \A q \in DOMAIN tracker.tries : tracker.tries[q] \in 1..Tries
    /\ tracker.settled \subseteq Number
    /\ got \in [Rpc -> SUBSET (0..Size - 1)] /\ over \subseteq Rpc
    /\ next \in [Rpc -> 0..Size] /\ owed \subseteq Number /\ nextSeq \in 0..MaxSeq
    /\ ring \in [0..RingSize - 1 -> Slot]
    /\ toClient \subseteq Packet /\ toServer \subseteq Span

\* Each number below the highest that has not arrived and was not jumped over is
\* in one of the books, missing, asked for or settled, and in one only, whatever
\* came late or twice.  Only repeats takes one out before it arrives: it forgets
\* what is settled after CLAIM_TTL_MS or beyond MAX_SETTLED, so nothing that was
\* never asked for; and what has left the books never comes back.
Accounted ==
    /\ 0..tracker.highest \subseteq seen \cup Known \cup jumped \cup forgotten
    /\ Known \cap (seen \cup jumped \cup forgotten) = {} /\ forgotten \subseteq asked
    /\ \A q \in Known : q < tracker.highest
    /\ DOMAIN tracker.missing \cap DOMAIN tracker.claimed = {}
    /\ (DOMAIN tracker.missing \cup DOMAIN tracker.claimed) \cap tracker.settled = {}

Carriers(u) == {q \in DOMAIN carried : carried[q] = u}

\* "The server resends each number only once, so the repeats cost a small packet
\* each and never duplicate data": a unit goes out once, and once more for each
\* of its numbers that the client found missing.
ResentOnlyIfAsked ==
    \A u \in Unit : Carriers(u) # {} =>
        Cardinality(Carriers(u)) <= 1 + Cardinality(Carriers(u) \cap asked)

\* What numbers cannot repair: the number is the last, or was jumped over, or a
\* hint was wrong, or the server no longer held it.  (Or MaxSeq stops the model.)
LeftToTimer(u) ==
    \/ nextSeq = MaxSeq
    \/ \E q \in Carriers(u) :
         \/ q > tracker.highest \/ q \in jumped \cup misled
         \/ ring[q % RingSize].seq # q

\* "If the repair is lost too, that loss shows up as a new missing number of its
\* own [...] repeats asks again a few times": with fewer losses than tries every
\* datagram is repaired by number, save those that numbers cannot repair.
RepairedInTheEnd ==
    \A u \in Unit :
        <>[](u.off \in got[u.rpc] \/ u.rpc \in over \/ LeftToTimer(u))
=============================================================================
