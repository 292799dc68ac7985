------------------------------ MODULE Transfer ------------------------------
(***************************************************************************)
(* The transfers of one client session (src/client/src/transport.ts): REQ, *)
(* reassembly, grants, loss recovery and the streamed body, over datagrams *)
(* that are lost, duplicated and reordered, against a server that answers  *)
(* a packet with every datagram it makes due.  (Module Sender models how   *)
(* the server gets there; the network holds a datagram here for as long as *)
(* the send loop would.)                                                   *)
(*                                                                         *)
(* JavaScript runs one callback at a time, so each callback of the client  *)
(* is one step: a datagram, a tick's timer, the reader's read or cancel.   *)
(* One unit of an offset is a datagram's worth of bytes.  The clock is     *)
(* left out: a timer may run out whenever the code lets it.                *)
(***************************************************************************)
EXTENDS SrptGrants

CONSTANTS
    Rpc,              \* the transfers the callers may start
    Sizes,            \* sizes of the bodies the server may hold
    InitialGrant,     \* ClientOptions.initialGrant
    Budget,           \* ClientOptions.budget
    MaxRecoveries,    \* ClientOptions.maxRecoveries
    MaxResendRanges,  \* MAX_RESEND_RANGES
    ReorderPackets,   \* ClientOptions.reorderPackets
    Streaming,        \* requestStream rather than request
    HighWaterMark,    \* ClientOptions.streamHighWaterMark
    StreamChunk,      \* STREAM_CHUNK
    Lossy,            \* the kinds of packet the network may lose
    MaxLosses,        \* bound: packets lost in a session
    MaxDuplicates     \* bound: packets delivered twice in a session

ASSUME TransferAssumption ==
    /\ IsFiniteSet(Rpc)
    /\ Sizes \subseteq Nat /\ InitialGrant \in Nat /\ Budget \in Nat
    /\ MaxRecoveries \in Nat /\ MaxResendRanges \in Nat /\ ReorderPackets \in Nat
    /\ Streaming \in BOOLEAN /\ HighWaterMark \in Nat \ {0} /\ StreamChunk \in Nat
    /\ MaxLosses \in Nat /\ MaxDuplicates \in Nat

VARIABLES
    open,        \* Http4Client.isOpen
    transfers,   \* each caller's transfer, in Http4Client.transfers while live
    table,       \* SrptScheduler.rpcs
    arrivals,    \* SrptScheduler.seq
    server,      \* the server's rpcs
    toServer, toClient,     \* packets in flight
    losses, duplicates      \* packets lost and delivered twice so far

vars == <<open, transfers, table, arrivals, server, toServer, toClient,
          losses, duplicates>>

-----------------------------------------------------------------------------
(* Data. *)

Request == [kind : {"REQ", "GRANT", "RESEND"}, rpc : Rpc, start : Nat, end : Nat]
Reply   == [kind : {"META", "DATA", "ERROR"}, rpc : Rpc, size : Nat,
            start : Nat, end : Nat]

Req(r)         == [kind |-> "REQ", rpc |-> r, start |-> 0, end |-> InitialGrant]
Grant(r, max)  == [kind |-> "GRANT", rpc |-> r, start |-> 0, end |-> max]
Resends(r, gs) == {[kind |-> "RESEND", rpc |-> r, start |-> g.start, end |-> g.end] : g \in gs}

Units(g) == g.start..(g.end - 1)

TransferState ==
    [stage : {"idle", "live", "over"},
     sized : BOOLEAN, size : Nat, got : SUBSET Nat,   \* asm
     headers : BOOLEAN,
     settled : {"no", "resolved", "rejected"},
     recoveries : 0..MaxRecoveries + 1, tailProbed : BOOLEAN,
     emitted : Nat, paused : BOOLEAN,                 \* stream
     body : {"open", "closed", "errored", "cancelled"},
     taken : Nat, reading : BOOLEAN]   \* the reader: units read, a read waits

NotStarted ==
    [stage |-> "idle", sized |-> FALSE, size |-> 0, got |-> {}, headers |-> FALSE,
     settled |-> "no", recoveries |-> 0, tailProbed |-> FALSE, emitted |-> 0,
     paused |-> FALSE, body |-> "open", taken |-> 0, reading |-> FALSE]

Live == {r \in Rpc : transfers[r].stage = "live"}

Frontier(t)   == IF t.got = {} THEN 0
                 ELSE 1 + CHOOSE u \in t.got : \A v \in t.got : v <= u
EndArrived(t) == t.sized /\ Frontier(t) = t.size   \* mutant: gaps below the end do not count
Complete(t)   == t.sized /\ t.got = 0..(t.size - 1)
Contiguous(t) == CHOOSE k \in 0..t.size : 0..(k - 1) \subseteq t.got /\ k \notin t.got

\* Reassembly.missing: the maximal gaps below limit.
Missing(t, limit) ==
    {g \in [start : 0..limit, end : 0..limit] :
        /\ g.start < g.end /\ Units(g) \cap t.got = {}
        /\ g.start = 0 \/ g.start - 1 \in t.got
        /\ g.end = limit \/ g.end \in t.got}

Init ==
    /\ open = TRUE /\ transfers = [r \in Rpc |-> NotStarted]
    /\ table = [r \in {} |-> NewEntry(0, 0, 0, 0, 0)] /\ arrivals = 0
    /\ server = [r \in Rpc |-> [known |-> FALSE, size |-> 0, granted |-> 0]]
    /\ toServer = {} /\ toClient = {} /\ losses = 0 /\ duplicates = 0

-----------------------------------------------------------------------------
(* The stream of a body, and the end of a transfer. *)

Flushable(t)  == LET pending == Contiguous(t) - t.emitted
                 IN  pending > 0 /\ (t.emitted = 0 \/ pending >= StreamChunk \/ Complete(t))

\* The queue's desired size is zero or less once the chunk is in it.
BehindBefore(t, f) == t.emitted - t.taken >= HighWaterMark   \* mutant: asked too early
Behind(t, f)       == f.emitted - f.taken >= HighWaterMark

\* flushStream: a waiting read takes the chunk past the queue.
Flush(t) ==
    IF ~Streaming \/ t.body # "open" \/ ~t.sized THEN t
    ELSE LET to == IF Flushable(t) THEN Contiguous(t) ELSE t.emitted
             f  == [t EXCEPT !.emitted = to,
                             !.taken   = IF t.reading THEN to ELSE @,
                             !.reading = @ /\ ~Flushable(t)]
         IN  [f EXCEPT !.paused = @ \/ Behind(t, f)]

\* maybeStart: the caller gets the stream once size and headers are known.
MaybeStart(t) == IF Streaming /\ t.sized /\ t.headers /\ t.settled = "no"
                 THEN [t EXCEPT !.settled = "resolved"] ELSE t

\* (The first is a mutant: a stream is errored and its caller never rejected.)
ErroredOnly(t, ok) ==
    LET f == IF ok THEN Flush(t) ELSE t
    IN  [f EXCEPT !.stage   = "over",
                  !.body    = IF Streaming /\ @ = "open"
                              THEN IF ok THEN "closed" ELSE "errored" ELSE @,
                  !.settled = IF @ # "no" \/ Streaming THEN @
                              ELSE IF ok THEN "resolved" ELSE "rejected"]

Finished(t, ok) ==
    LET f == IF ok THEN Flush(t) ELSE t
    IN  [f EXCEPT !.stage   = "over",
                  !.body    = IF Streaming /\ @ = "open"
                              THEN IF ok THEN "closed" ELSE "errored" ELSE @,
                  !.settled = IF @ # "no" THEN @
                              ELSE IF ok THEN "resolved" ELSE "rejected"]

-----------------------------------------------------------------------------
(* Grants.  The table follows the transfer, and every callback that may have *)
(* freed budget ends by pumping grants.                                      *)

\* The initial grants of transfers whose size is not known yet.
NoneReserved(ts) == 0   \* mutant: the scheduler counts only what it granted itself
Reserved(ts) == InitialGrant * Cardinality({r \in Rpc : ts[r].stage = "live" /\ ~ts[r].sized})

\* The table once transfer r has become t: add, onData, setPaused and remove.
\* (The first is a mutant: the entry of a finished transfer stays.)
Lingering(r, t) ==
    IF ~t.sized THEN table
    ELSE LET e == IF r \in DOMAIN table THEN table[r]
                  ELSE NewEntry(t.size, InitialGrant, 0, arrivals, 0)
         IN  [q \in DOMAIN table \cup {r} |->
                IF q = r THEN [e EXCEPT !.received = Cardinality(t.got), !.paused = t.paused]
                ELSE table[q]]

Scheduled(r, t) ==
    IF t.stage # "live" \/ ~t.sized THEN Restrict(table, DOMAIN table \ {r})
    ELSE LET e == IF r \in DOMAIN table THEN table[r]
                  ELSE NewEntry(t.size, InitialGrant, 0, arrivals, 0)
         IN  [q \in DOMAIN table \cup {r} |->
                IF q = r THEN [e EXCEPT !.received = Cardinality(t.got), !.paused = t.paused]
                ELSE table[q]]

\* Transfer r becomes t, its packets go out, and pumpGrants spends what is free.
Pumped(r, t, sends) ==
    LET before == Scheduled(r, t)
        after  == Granted(before, Budget, Reserved([transfers EXCEPT ![r] = t]))
    IN  /\ transfers' = [transfers EXCEPT ![r] = t]
        /\ table' = after
        /\ arrivals' = arrivals + Cardinality(DOMAIN before \ DOMAIN table)
        /\ toServer' = toServer \cup sends \cup
              {Grant(q, after[q].granted) :
                  q \in {p \in DOMAIN after : after[p].granted > before[p].granted}}

-----------------------------------------------------------------------------
(* The client's callbacks. *)

\* A caller asks; a REQ that cannot be sent is refused at once.
Start(r) ==
    /\ transfers[r].stage = "idle"
    /\ \/ /\ open
          /\ transfers' = [transfers EXCEPT ![r].stage = "live"]
          /\ toServer' = toServer \cup {Req(r)}
       \/ /\ transfers' = [transfers EXCEPT ![r].stage = "over", ![r].settled = "rejected"]
          /\ UNCHANGED toServer
    /\ UNCHANGED <<open, table, arrivals, server, toClient, losses, duplicates>>

\* detectLoss: gaps that data past them shows to be lost.
Suspects(t, granted) ==
    LET front == Frontier(t)
    IN  Missing(t, IF front < granted THEN Larger(0, front - ReorderPackets) ELSE front)

ReceiveMeta(m) ==
    LET t == [transfers[m.rpc] EXCEPT !.headers = TRUE, !.recoveries = 0]
        s == MaybeStart(t)
    IN  IF transfers[m.rpc].headers THEN UNCHANGED <<transfers, table, arrivals, toServer>>
        ELSE Pumped(m.rpc, IF Complete(t) THEN Finished(s, TRUE) ELSE s, {})

\* One DATA joins what has arrived.
Reassembled(t, m) ==
    IF Units(m) \subseteq t.got THEN t
    ELSE [t EXCEPT !.got = @ \cup Units(m), !.recoveries = 0, !.tailProbed = FALSE]

ReceiveData(m) ==
    LET r == m.rpc
        t == transfers[r]
        a == Reassembled([t EXCEPT !.sized = TRUE, !.size = m.size], m)
        s == Flush(MaybeStart(a))
    IN  IF t.sized /\ t.size # m.size
        THEN Pumped(r, Finished(t, FALSE), {})
        ELSE IF Complete(s) /\ s.headers
        THEN Pumped(r, Finished(s, TRUE), {})
        ELSE \E lost \in SUBSET Suspects(s, Scheduled(r, s)[r].granted) :
                Pumped(r, s, Resends(r, lost))

ReceiveError(m) == Pumped(m.rpc, Finished(transfers[m.rpc], FALSE), {})

\* A datagram leaves the network when it is delivered, unless it comes again.
Arrives(m, channel, channel2) ==
    \/ channel2 = channel \ {m} /\ UNCHANGED duplicates
    \/ /\ duplicates < MaxDuplicates /\ duplicates' = duplicates + 1
       /\ channel2 = channel

\* readLoop and handle.  Packets of finished transfers are dropped.
Receive(m) ==
    /\ open /\ m \in toClient
    /\ Arrives(m, toClient, toClient')
    /\ IF m.rpc \notin Live THEN UNCHANGED <<transfers, table, arrivals, toServer>>
       ELSE CASE m.kind = "META"  -> ReceiveMeta(m)
              [] m.kind = "DATA"  -> ReceiveData(m)
              [] m.kind = "ERROR" -> ReceiveError(m)
    /\ UNCHANGED <<open, server, losses>>

\* What a tick may find for a live transfer: its timers are not running while
\* it waits for grants or for its own reader.
GrantedTo(r) == IF r \in DOMAIN table THEN table[r].granted ELSE 0

AwaitingMeta(r) ==   \* mutant: a transfer that only lacks META waits too
    LET t == transfers[r]
    IN  (t.sized /\ Cardinality(t.got) >= GrantedTo(r)) \/ t.paused
Waiting(r) ==
    LET t == transfers[r]
    IN  (t.sized /\ t.headers /\ Cardinality(t.got) >= GrantedTo(r)) \/ t.paused

\* A tick's own detectLoss.
DetectLoss(r) ==
    /\ r \in Live /\ transfers[r].sized
    /\ \E lost \in SUBSET Suspects(transfers[r], GrantedTo(r)) :
         toServer' = toServer \cup Resends(r, lost)
    /\ UNCHANGED <<open, transfers, table, arrivals, server, toClient, losses, duplicates>>

\* The last packet granted, if nothing past the frontier has come for a while.
\* The repair tracker may hold back a range requested a moment ago.
TailProbe(r) ==
    LET t    == transfers[r]
        last == [start |-> Larger(Frontier(t), GrantedTo(r) - 1), end |-> GrantedTo(r)]
    IN  /\ r \in Live /\ ~Waiting(r) /\ t.sized /\ ~t.tailProbed
        /\ Frontier(t) < GrantedTo(r)
        /\ transfers' = [transfers EXCEPT ![r].tailProbed = TRUE]
        /\ \E claimed \in SUBSET {last} : toServer' = toServer \cup Resends(r, claimed)
        /\ UNCHANGED <<open, table, arrivals, server, toClient, losses, duplicates>>

\* The gaps recover asks for: those below the frontier, the first of them only,
\* and the first and the last packet of the tail.
LostRanges(r) ==
    LET t       == transfers[r]
        front   == Frontier(t)
        granted == GrantedTo(r)
        gaps    == Missing(t, Smaller(front, granted))
        first   == {g \in gaps : Cardinality({h \in gaps : h.start < g.start}) < MaxResendRanges}
    IN  first \cup (IF front < granted
                    THEN {[start |-> front, end |-> front + 1],
                          [start |-> granted - 1, end |-> granted]}
                    ELSE {})

LateCount(t) == t.recoveries > MaxRecoveries   \* mutant: one attempt too many
Exhausted(t) == t.recoveries + 1 > MaxRecoveries

\* The stall timer: one more attempt, or the end of the transfer.
Recover(r) ==
    LET t       == transfers[r]
        req     == IF t.sized /\ t.headers THEN {} ELSE {Req(r)}
        regrant == IF GrantedTo(r) > InitialGrant THEN {Grant(r, GrantedTo(r))} ELSE {}
    IN  /\ r \in Live /\ ~Waiting(r)
        /\ IF Exhausted(t)
           THEN Pumped(r, Finished([t EXCEPT !.recoveries = @ + 1], FALSE), {})
           ELSE /\ transfers' = [transfers EXCEPT ![r].recoveries = @ + 1]
                /\ \E claimed \in SUBSET (IF t.sized THEN LostRanges(r) ELSE {}) :
                     toServer' = toServer \cup req \cup regrant \cup Resends(r, claimed)
                /\ UNCHANGED <<table, arrivals>>
        /\ UNCHANGED <<open, server, toClient, losses, duplicates>>

\* pull: the queue has room again, so a paused transfer takes grants.
\* (The first is a mutant: grants wait for another packet.)
PulledQuietly(r, t) ==
    /\ transfers' = [transfers EXCEPT ![r] =
         [t EXCEPT !.paused = @ /\ ~(t.body = "open" /\ t.emitted - t.taken < HighWaterMark)]]
    /\ UNCHANGED <<table, arrivals, toServer>>

HasRoom(t) == t.emitted - t.taken < HighWaterMark

Pulled(r, t) ==
    IF t.paused /\ t.body = "open" /\ HasRoom(t)
    THEN Pumped(r, [t EXCEPT !.paused = FALSE], {})
    ELSE transfers' = [transfers EXCEPT ![r] = t] /\ UNCHANGED <<table, arrivals, toServer>>

HasStream(r) == Streaming /\ transfers[r].settled = "resolved"

\* The caller's reader takes some of what is queued, or waits for more.
Read(r) ==
    LET t == transfers[r]
    IN  /\ HasStream(r)
        /\ \/ /\ t.body \in {"open", "closed"}
              /\ \E k \in t.taken + 1..t.emitted : Pulled(r, [t EXCEPT !.taken = k])
           \/ /\ t.body = "open" /\ t.taken = t.emitted /\ ~t.reading
              /\ Pulled(r, [t EXCEPT !.reading = TRUE])
        /\ UNCHANGED <<open, server, toClient, losses, duplicates>>

\* drop: the caller cancels the stream, and the protocol has no cancel.
Cancel(r) ==
    /\ HasStream(r) /\ transfers[r].body = "open"
    /\ Pumped(r, [transfers[r] EXCEPT !.body = "cancelled", !.stage = "over"], {})
    /\ UNCHANGED <<open, server, toClient, losses, duplicates>>

\* The session closes: failAll.
SessionCloses ==
    /\ open /\ open' = FALSE
    /\ transfers' = [r \in Rpc |-> IF r \in Live THEN Finished(transfers[r], FALSE)
                                   ELSE transfers[r]]
    /\ table' = Restrict(table, {})
    /\ toServer' = {} /\ toClient' = {}
    /\ UNCHANGED <<arrivals, server, losses, duplicates>>

-----------------------------------------------------------------------------
(* The server (Sender says how it does this) and the network. *)

Meta(r)        == [kind |-> "META", rpc |-> r, size |-> 0, start |-> 0, end |-> 0]
Error(r)       == [kind |-> "ERROR", rpc |-> r, size |-> 0, start |-> 0, end |-> 0]
Datagrams(r, size, start, end) ==
    {[kind |-> "DATA", rpc |-> r, size |-> size, start |-> u, end |-> u + 1]
        : u \in start..(end - 1)}

\* Packet 0 goes out even when no byte of the body may.
Packet0(r, size, granted) ==
    IF Smaller(granted, size) > 0 THEN Datagrams(r, size, 0, 1)
    ELSE {[kind |-> "DATA", rpc |-> r, size |-> size, start |-> 0, end |-> 0]}

\* A grant raises what may be sent, and what it adds is sent.
ServerRaise(r, s, max) ==
    LET granted == Larger(s.granted, Smaller(max, s.size))
    IN  [state |-> [s EXCEPT !.granted = granted],
         sent  |-> Datagrams(r, s.size, s.granted, granted)]

ServerAnswers(r, s, raised, sent) ==
    /\ server' = [server EXCEPT ![r] = raised]
    /\ toClient' = toClient \cup sent

ServerReq(m) ==
    LET r == m.rpc
        answer(s) == LET up == ServerRaise(r, s, m.end)
                     IN  ServerAnswers(r, s, up.state, up.sent \cup {Meta(r)}
                                         \cup Packet0(r, s.size, up.state.granted))
    IN  IF server[r].known THEN answer(server[r])
        ELSE \/ \E size \in Sizes : answer([known |-> TRUE, size |-> size, granted |-> 0])
             \/ ServerAnswers(r, server[r], server[r], {Error(r)})

ServerReceive(m) ==
    LET r == m.rpc
        s == server[r]
    IN  /\ open /\ m \in toServer
        /\ Arrives(m, toServer, toServer')
        /\ CASE m.kind = "REQ" -> ServerReq(m)
             [] m.kind = "GRANT" /\ s.known ->
                  LET up == ServerRaise(r, s, m.end) IN ServerAnswers(r, s, up.state, up.sent)
             [] m.kind = "RESEND" /\ s.known ->
                  ServerAnswers(r, s, s, Datagrams(r, s.size, m.start, Smaller(m.end, s.granted)))
             [] OTHER -> ServerAnswers(r, s, s, {Error(r)})
        /\ UNCHANGED <<open, transfers, table, arrivals, losses>>

\* The server forgets an rpc nothing has referred to for its idle timeout.
Evict(r) ==
    /\ open /\ server[r].known
    /\ server' = [server EXCEPT ![r].known = FALSE]
    /\ UNCHANGED <<open, transfers, table, arrivals, toServer, toClient, losses, duplicates>>

Lose ==
    /\ losses < MaxLosses /\ losses' = losses + 1
    /\ \/ \E m \in toServer : m.kind \in Lossy /\ toServer' = toServer \ {m} /\ UNCHANGED toClient
       \/ \E m \in toClient : m.kind \in Lossy /\ toClient' = toClient \ {m} /\ UNCHANGED toServer
    /\ UNCHANGED <<open, transfers, table, arrivals, server, duplicates>>

-----------------------------------------------------------------------------
Client(r) == Start(r) \/ DetectLoss(r) \/ TailProbe(r) \/ Recover(r) \/ Read(r) \/ Cancel(r)

Next ==
    \/ \E r \in Rpc : Client(r) \/ Evict(r)
    \/ \E m \in toClient : Receive(m)
    \/ \E m \in toServer : ServerReceive(m)
    \/ SessionCloses \/ Lose

Spec == Init /\ [][Next]_vars

\* The tick runs while any transfer is live, a caller that has its stream reads
\* it, and a META the network does not lose arrives.  Nothing else is promised:
\* neither that a datagram arrives nor that the session closes.
Fairness ==
    /\ \A r \in Rpc : WF_vars(Recover(r)) /\ WF_vars(Read(r))
    /\ WF_vars(\E m \in toClient : m.kind = "META" /\ Receive(m))

FairSpec == Spec /\ Fairness

\* The same on a network that delivers every packet it does not lose.
DeliverySpec ==
    /\ FairSpec
    /\ WF_vars(\E m \in toClient : Receive(m))
    /\ WF_vars(\E m \in toServer : ServerReceive(m))

-----------------------------------------------------------------------------
(* Properties. *)

\* Every variable holds what the code's types allow.
TypeOK ==
    /\ open \in BOOLEAN /\ transfers \in [Rpc -> TransferState]
    /\ DOMAIN table \subseteq Rpc /\ \A r \in DOMAIN table : table[r] \in Entry
    /\ arrivals \in Nat
    /\ server \in [Rpc -> [known : BOOLEAN, size : Nat, granted : Nat]]
    /\ toServer \subseteq Request /\ toClient \subseteq Reply
    /\ losses \in 0..MaxLosses /\ duplicates \in 0..MaxDuplicates

\* What a caller is given is whole: a resolved request has every byte and the
\* headers, and a stream ends cleanly only when all of the body was queued (a
\* truncated body never ends cleanly, transport.ts:400).
NothingTruncated ==
    \A r \in Rpc : LET t == transfers[r] IN
        /\ t.settled = "resolved" => t.sized /\ t.headers
        /\ t.settled = "resolved" /\ ~Streaming => t.got = 0..(t.size - 1)
        /\ t.body = "closed" => t.got = 0..(t.size - 1) /\ t.emitted = t.size

\* A stream queues only the gap-free prefix, in order, and a reader reads no more.
StreamIsPrefix ==
    \A r \in Rpc : LET t == transfers[r] IN
        t.taken <= t.emitted /\ 0..(t.emitted - 1) \subseteq t.got

\* A transfer that is over has answered its caller, once and for all: drop, which
\* settles nothing, only meets transfers whose caller holds the stream.
Answered == \A r \in Rpc : transfers[r].stage = "over" => transfers[r].settled # "no"

\* G2 across the wire: the server never believes in a grant the client has not
\* made, and the client gets no byte it has not granted.  (A server that forgot
\* the transfer and found a body of another size under its name holds what the
\* REQ allows of that one; the size it tells ends the transfer.)
GrantsAgree ==
    \A r \in DOMAIN table :
        /\ server[r].known /\ server[r].size = table[r].size
              => server[r].granted <= table[r].granted
        /\ transfers[r].got \subseteq 0..(table[r].granted - 1)

\* A transfer is kept from being granted exactly while its reader is behind by
\* the high-water mark: no pull is missed, and no queue outgrows it unnoticed.
PausedWhenBehind ==
    \A r \in Live : LET t == transfers[r] IN
        t.paused <=> t.emitted - t.taken >= HighWaterMark

Unsized == {r \in Live : ~transfers[r].sized}

\* A round of grants never commits more than the budget, the initial grants of
\* transfers of unknown size included ("the client keeps at most budget bytes
\* granted but not yet received, across all RPCs", scheduler.ts).
GrantsWithinBudget ==
    [][(\E r \in DOMAIN table' :
           table'[r].granted > (IF r \in DOMAIN table THEN table[r].granted
                                ELSE Smaller(InitialGrant, table'[r].size)))
       => Outstanding(table') + Cardinality(Unsized') * InitialGrant <= Budget]_vars

\* "A transfer that has bytes outstanding, or no META yet, but hasn't made
\* progress for one RTO is stalled. [...] the transfer fails after maxRecoveries
\* attempts" (transport.ts:7-14): every caller gets an answer.
Settles == \A r \in Rpc : transfers[r].stage = "live" ~> transfers[r].settled # "no"

\* A caller that goes on reading its stream comes to its end, or to an error,
\* though the transfer is paused whenever the reader is behind.
StreamEnds ==
    \A r \in Rpc : HasStream(r) ~> transfers[r].body # "open"
=============================================================================
