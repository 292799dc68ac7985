# HTTP4 in TLA+

HTTP4 moves static assets over WebTransport datagrams. The client decides how
much may be in flight (receiver-driven grants, shortest remaining transfer
first) and finds its own losses; the server is passive and sends what it is
allowed to. This directory models the protocol's two ends, the scheduler, the repair
of losses and the service worker's bridge, checks them with TLC, and proves with TLAPS
most of the safety properties it checks, for every value of the constants.

    tlc -workers 2 -config SenderSend.cfg MCSender      # a run of PROJECT.json
    tlapm SenderProofs.tla                              # the proofs

`PROJECT.json` lists components, runs, hazards, findings and theorems, and maps
every definition to the source lines it stands for. "Mutant" in a comment marks
a deliberately wrong variant of the definition below it: put in its place, it
must break a property, which shows that the property can fail.

## 1. Inventory

| part | source | state | operations | what makes it correct |
|---|---|---|---|---|
| passive sender | `server/internal/sender/sender.go` | per session: rpcs, pending replies, ring of sent numbers, datagram size, wake token; per rpc: granted, next, resend queue, META and packet 0 owed | receive loop: REQ, GRANT, RESEND, RESEND_SEQ, HELLO; send loop: pick, transmit, record, hold, wait, sweep | nothing past a grant, nothing skipped, META first, a repair once per number, no lost wake-up |
| pacer | `sender/pacer.go` | rate, queue level | wait, sent, idle, observe | never blocks for ever; affects speed only |
| asset lookup | `sender/assets.go` | pinned index | Get | a body of fixed size, or an error |
| client transfers | `client/src/transport.ts` | transfers, RTT, detection times; per transfer: reassembly, headers, stream, recoveries | request, requestStream, datagram, tick, pull, cancel, close | whole or failed, always answered, reader sees a prefix |
| scheduler | `client/src/scheduler.ts` | table of size, granted, received, paused, class | add, remove, onData, setPaused, grants | budget respected, SRPT order, never wedged |
| reassembly, trackers | `client/src/reassembly.ts` | arrived ranges; suspects and live RESENDs; missing, claimed and settled numbers | add, missing, detect, claim, arrive, repeats | exact gaps; nothing asked for twice too soon or forgotten |
| budget controller | `client/src/budget.ts` | delivery rate, min RTT, budget | onDelivered, onLoss, update | a number between floor and cap |
| priority classes | `client/src/priority.ts` | none | classify | a rank |
| wire formats | `client/src/wire.ts`, `server/internal/wire/wire.go` | none | encode, decode | inverse of each other (shared fixtures) |
| fetcher, sessions | `fetcher.ts`, `index.ts`, `auto.ts`, `main.ts` | the opened promise, the handle, a handshake the page began | install, open, connect, time out, fetch, fall back, abort | every fetch ends with one outcome; a late connection is closed |
| service worker bridge | `sw.ts`, `swproto.ts`, `page.ts` | per tab: acked, info, gaveUp; per request: where serve awaits | hello, ready, forward, acknowledge, watchdog | every intercepted request is answered once |
| byte cache, passthrough | `bytecache/`, `server/passthrough.go`, `server/cacheable.go` | entries, LRU order, bytes | Get, Put, sweep | bytes is the sum of the entries and within capacity |
| server lifecycle, site, certificates | `server/`, `certs/`, `devcert/`, `cmd/http4d` | listeners, files | serve, shut down | I/O |
| impairment proxy | `impair/`, `cmd/impair` | mappings, queues | forward, drop, delay, expire | a test tool |
| metrics, drop injector, fixtures, embedded client, examples, spikes, benches | various | - | - | - |

How they interact. A caller's `request` makes the client send REQ with an
initial grant. The server's receive loop notes it and wakes the send loop, which
sends META and packet 0. Packet 0 tells the client the size, and the transfer
enters the scheduler; every datagram ends in a round of grants, and each GRANT
lets the server's send loop go on. Losses are named by byte range (RESEND, per
transfer) or by number (RESEND_SEQ, per session, once HELLO agreed on numbers).
A streamed body adds the reader: a full queue pauses the transfer's grants and
the stream's `pull` resumes them. On the server two goroutines share a session
under a mutex that is released while a datagram goes to QUIC; on the client
every callback is atomic, but callbacks come in any order. Above the session, a
service worker intercepts the requests of all tabs, asks each tab once whether it
can serve them (hello), forwards what the tab can serve to it over a port, and
falls back to the network for the rest; the page decides per request, and its own
`fetch` falls back through the worker too.

What is hard: the server's unlocked window between pick and record; wake-ups;
evicted and re-created rpcs; the ring that wraps; header sizes that change in
mid-session; on the client loss, duplication and reordering of every packet
kind, timers that race answers, pauses that race completion, one budget
shared by transfers of unknown size, RESENDs of three timers that must not repeat
each other; above it a session that may come late, never or twice, waits of many
requests for one tab, and replies that cross a tab's end. `PROJECT.json` lists these as hazards, each
at its line, with the properties that cover it or the reason why none does yet.

## 2. Modules

| module | what it is |
|---|---|
| `Sender` | the passive sender, both loops |
| `SenderProofs` | its inductive invariant, and grants, order and queues |
| `SenderResendProofs` | a repair once per number, payloads that fit, resends that are kept |
| `SrptGrants` | one round of grants as pure operators on a table |
| `SrptGrantsProofs` | sums over finite sets, and what one round gives whom |
| `Scheduler` | the scheduler driven by any callers, its rounds compared with the code's walk |
| `SchedulerProofs` | its theorems: budget, order, no wedge, and that a round is the code's walk |
| `Transfer` | the client's transfers, the network and an abstract server; uses `SrptGrants` |
| `TransferProofs` | its theorems: transfers, table, server and packets agree |
| `SeqRepair` | loss detection by session number: the client's tracker against the server's ring |
| `SeqRepairProofs` | its theorems: each number accounted for, resent only if asked |
| `RangePromise` | what RESENDs by range promise, byte by byte (abstract) |
| `RangeRepair` | Reassembly, RepairTracker and the timers that drive them; implements `RangePromise` |
| `RangeRepairProofs` | its theorems: what each loop computes, the promise kept byte by byte, patience |
| `Budget` | the budget controller |
| `PageSession` | how one tab gets and loses its session, as operators on the page |
| `Bridge` | the service worker, the pages and their requests; uses `PageSession` |
| `BridgeProofs` | its theorems: one outcome, one hello, no session leaked or ignored |
| `MCSender`, `MCScheduler`, `MCTransfer`, `MCSeqRepair`, `MCRangeRepair`, `MCBudget`, `MCBridge` | the instances TLC checks |

### Sender

One step is one critical section of one goroutine, or the unlocked work between
two. The receive loop (`rx`) applies a packet and then signals; RESEND_SEQ takes
one step per number it looks up, as it holds the mutex per number's rpc.
The send loop (`pc`) picks under the mutex (`Pick`), checks the grant again
(`CheckGrant`), transmits without the mutex (`Transmit`, `TooLarge`) and records
(`Record`); between two sends its own ticker sweeps idle rpcs (`Sweep`), and with
nothing due it waits for the wake token (`Wake`). `Sweep` runs only where the
code's `select` runs it. Among rpcs owing the same kind of work `Pick` follows the code's
order (urgency, then fewest bytes remaining, ties free). Offsets count units of
some bytes; a datagram carries `maxDatagram` minus the header, as in
`chunk`. QUIC is external: it accepts a datagram or names a smaller limit, and
`PathShrinks` may lower that limit at any time. The pacer is a free choice to
hold bulk data while more than the queue's worth remains. History variables:
`onWire` (bytes handed over), `repairs` (times a number was resent), `ungranted`
(the code's own counter `Metrics.UngrantedSent`).

### SrptGrants and Scheduler

`Granted(table, budget, reserved)` says what a round gives each rpc: what is left
of the free budget once the rpcs ahead of it are filled. The code walks a sorted
array and mutates; `Walk` writes that loop down as a recursive function and
`AsTheWalkGrants` checks that both agree in every reachable state. In
`Scheduler` budget and reservation of each round are free, so what the budget
controller computes does not matter; the properties of a round are action
properties over the table before and after it.

### Transfer

One step is one callback: a datagram (`Receive`), one thing a tick may do to one
transfer (`DetectLoss`, `TailProbe`, `Recover`), a read or a cancel, or the closing
session. `Pumped` is the common tail: the scheduler's table follows the transfer
and `pumpGrants` runs in the same callback. Timers carry no clock: a timer may run
out whenever the code lets it run, so every race of a timer with a late packet
is there. RTT estimates and the reordering window only choose when, and the
repair tracker may hold back any range, so its choice is a free subset. One unit
of an offset is one datagram's worth of bytes. Packets in flight are sets: they
are delivered in any order; `Lose` drops one of the kinds in `Lossy`, and
duplication leaves one in place. The server is the abstract form of `Sender`: it
answers a packet with every datagram that packet makes due. What the send loop
adds (order, delay) the network already allows.

A `ReadableStream` is external: a queue of units with a high-water mark, at most
one waiting read that takes a chunk past the queue, and `pull` after a read that
leaves room.

### SeqRepair

Once HELLO is agreed on, every datagram carries a session number and the client
finds losses by the numbers it skips. `tracker` is `SeqTracker`; `Receive` is
`handle` for a DATA_SEQ (`arrive`, then detection unless one ran a moment ago),
`Tick` the tick, `Drop` the end of a transfer by error or cancel. `Detected`
is one call of `detectSeqLoss` with the missing numbers found lost and the claimed
ones whose delay has passed; both are free, save that what has been missing longer is found
no later. The server keeps its ring, resends each number once, before new data,
under a new number. `carried` (what each number held) stands for the byte range in the ring's
entry and in the resend queue. What `repeats` settles it also trims: `Forgettable` are the
sets of settled numbers that CLAIM_TTL_MS or MAX_SETTLED may take, as which of them is older is not
kept. A packet's `try` field only tells repeats of one RESEND_SEQ apart in a set. The two loops' races are `Sender`'s part.

### RangePromise and RangeRepair

`RangeRepair` keeps the sorted range lists of the code: `Merged`, `Missing`, `Live` and
`Uncovered` are the loops of `add`, `missing` and `claim` (`PushGap`, `PushLive`, `PushCut` and
`PushPiece` their turns), whose two indices only
move forward and so rely on the order of both lists. `Receive` is `handle` for DATA,
`Tick` the whole tick for one transfer: detection, then the tail probe, then
recovery, each claiming what it wants. Everything is kept relative to now (a due
time is the time left, a start time an age), so that time has no bound; one tick is
the unit. On arrival detection may be skipped, since whether it ran in the last
millisecond (DETECT_INTERVAL_MS) is finer than a tick. The peer is the freest there is:
any granted payload may arrive at any time, repeatedly or never.

`RangePromise` knows no ranges: each byte has the time until its RESEND is
overdue, a step wants some missing bytes, and sends exactly those with no time
left. `KeepsPromise` maps a byte of `RangeRepair` to the pending range that covers
it, if any, and checks every step: a range held back too long, asked for twice or lost
from the list breaks it.

### Budget

`Budget` is `BudgetController` with whole-number rates; a sample carries its age in
rounds. `NoteLimited`, `OnLoss` and `OnRttSample` come at any time, as the transfers
that cause them do. (`OnLoss` is more frequent than `lossBackoff` lets it be.)

### PageSession and Bridge

A request is where `serve` awaits: `finding` (clients.get), `acking`, `waiting` (for
ready), `forwarded`, `network`; `fetch` is a request the page itself serves with
`Http4.fetch`. A path is one of four kinds: an asset, one under the prefix that maps
to no asset (`odd`), one not under it (`other`), and one the worker leaves alone
(`bypass`). A promise that resolves continues every request that awaits it in the
callback that resolves it (`Resume`). Messages of a port keep their order, ports
do not. `SessionStep` takes one callback of `open` or of the session; `Moves` in
`PageSession` gives the pages it may leave. A hello whose `opened` promise is open
waits in `asking`; one of an earlier life of the worker is answered to a dead port.
The worker stops only with no request in hand, as browsers do.
A transfer ends as `Transfer` says: with its body, with NOT_FOUND, or failed. For a
streamed response the model follows it to its head; what its body does is `StreamEnds`.

## 3. Runs

| run | instance | what it shows |
|---|---|---|
| `sender_send` | 2 rpcs, 3 packets, path shrinks, tail duplicates, eviction | TypeOK, NoUngrantedSent, SentIsPrefix, WorkIsCurrent, MetaLeadsData |
| `sender_repair` | 1 rpc, 4 packets, ring of 2 that wraps, pacer on, path shrinks, tail duplicates | ResendsWithinSent, RepairedOnce, ChosenFits, OwedUntilSent, DueIsSent |
| `sender_tail` | 1 rpc, 2 packets, tail duplicates, HELLO in mid-session, a path that never shrinks | finding 2 |
| `transfer_stream` | 1 streamed rpc of 3 datagrams, initial grant 1, budget 2, high-water mark 1, a packet of any kind lost and one delivered twice, 1 recovery | NothingTruncated, StreamIsPrefix, Answered, GrantsAgree, PausedWhenBehind, StreamEnds, TypeOK |
| `transfer_answer` | 1 request of 0 or 2 datagrams, a loss, a duplicate, 2 recoveries | Settles |
| `transfer_share` | 2 requests of 2 datagrams, initial grants 1, budget 1, no loss | GrantsWithinBudget, Settles |
| `transfer_hang` | 1 streamed rpc, high-water mark 1, META lost, all else delivered | finding 1 |
| `scheduler_rounds` | 2 rpcs, sizes 2 and 5, 2 classes, budgets 3 and 4, reservations 0 and 3 | TypeOK, AsTheWalkGrants, WithinBudget, ShortestFirst, NeverWedged, GrantedWhole |
| `seq_repair` | 1 rpc of 3 datagrams, 2 losses in either direction, 1 packet twice, 2 tries, MAX_GAP 1, MAX_SETTLED 1, ring of 3 | TypeOK, Accounted, ResentOnlyIfAsked, RepairedInTheEnd |
| `range_repair` | 1 transfer of 4 units, payloads of 1 or 2, delays 1 and 3, window 1 or 2, timeouts 2 and 4, 2 recoveries | TypeOK, KeepsPromise, Patient, AskedInTheEnd |
| `bridge_requests` | 1 tab, 2 requests of any kind, 2 lives of the worker | TypeOK, OneOutcome, NoSessionLeaked, OneHello, ReadyIsHonored, EveryRequestAnswered |
| `budget_quiet` | the window of 10 rounds, rates 1 and 2 | finding 3 |

Bounds and why they are enough. Every interesting step of the sender involves at most two
rpcs (one being sent, one that changes) and the packet that arrives while a
datagram is out; three packets give REQ, GRANT and a repair of one rpc; with four, HELLO, REQ
and two RESEND_SEQs repeat numbers and wrap a ring of two. A body of three datagrams has a first, a last and one
between, so gaps at each place, a tail and an initial grant short of the size all
happen; a high-water mark of 1 pauses the transfer while the rest of the body is
not granted yet, so that the pull decides whether it ever is. Two transfers with
initial grants of 1 and a budget of 1 compete for every datagram, and a round that forgot
a reservation would overcommit. In the scheduler, size 5 exceeds both
budgets and 2 fits in either, budgets shrink and grow between rounds, and the
reservation can take all of the budget or all but one unit. In `seq_repair` three
numbers leave room for a gap, a jump beyond MAX_GAP, a wrong hint and a late
original of a settled number, all of which happen, and with MAX_SETTLED 1 a second settled
number crowds the first out; repairs wrap the ring; two losses can take a datagram and its RESEND_SEQ or
its repair; MaxSeq is never reached there. Hints between two transfers do not
arise with one rpc. In `range_repair` four units give two gaps at once, a gap that grows and
one that splits, pending ranges that are partly repaired, and more gaps than one
recovery may ask for (MaxRanges 1). Tabs share nothing but the worker's lives, so
`bridge_requests` has one; two requests are enough for one to find what the other
left (a hello, a mark, a session), and two lives for a hello and its page to be of different ones. MaxOffset, MaxInbound, MaxLosses,
MaxDuplicates and the number of additions are bounds of the model, not of the
code; all other constants are configuration or constants of the source, scaled down.

Deadlock is not checked: a session whose caller asks nothing, or is closed, stops.

Fairness. Sender: each loop is a goroutine that runs while it can (weak fairness
of the send loop's steps and of the receive loop's work on a packet it has, none on
the arrival of packets, on the sweep or on the path). `DueIsSent` makes one exception,
the repeat of a tail that no longer fits (`TailTooLong`, finding 2). Transfer: the ticker runs while
a transfer is live, so a stall timer runs out (`Recover`); a caller that holds a stream reads it; a META that
is not lost arrives. No other delivery is assumed, neither of data nor of grants:
`Settles` holds because recovery gives up. `transfer_hang` assumes in addition
that the network delivers all it does not lose, so the hang is not the network's.
SeqRepair: the network
delivers what it does not lose, the send loop runs, and the ticker, while a
transfer is live, at last finds every window and delay over (`TickAll`).
`RepairedInTheEnd` claims repair only where numbers can give it: not for the last
number, a jump, a wrong hint or an entry the ring has lost, which `LeftToTimer` names
and the stall timer of `Transfer` covers.
RangeRepair: the ticker is an interval timer; nothing need arrive. Bridge: timers
fire, the network answers or fails, a page with the script handles its messages, a
transfer ends (finding 1 is the exception); the handshake, the configuration and the
script itself need never come.
Scheduler: what was granted to a transfer that is not paused arrives or recovery fails the
transfer (`Recovered`); nothing of a paused one need arrive, as the tick skips it
(transport.ts:687-691), and nobody need unpause it. Rounds go on, and once in a while no transfer of
unknown size holds a reservation. `GrantedWhole` so exempts a session whose budget paused
transfers hold (`HeldByPaused`): it says that their hold is all they cost the others.

## 4. Findings

1. **A streamed transfer that lost its META can hang** (`transfer_hang`). DATA
   fills the stream's queue to the high-water mark before META; the transfer is
   paused; nobody holds the stream, so nobody pulls; `tick` takes the pause
   for a slow reader (transport.ts:687) and never recovers. The comment at
   transport.ts:7-14 promises a repeated REQ and a failure after `maxRecoveries`.
   The body must reach the mark, so it needs an asset larger than that.
2. **A tail duplicate can be too long for its header, and is then retried without end**
   (`sender_tail`). It keeps the length of the original
   (sender.go:475-477); after HELLO it goes out with the longer DATA_SEQ header. The
   comment "decided at pick, so the payload fits" (336) is not true of it. QUIC refuses
   it; the refusal returns before the record (571-580), so the duplicate stays
   queued, and the next pick takes the same length, not "the smaller chunk size" of 572-573.
   Whenever nothing else is due the send loop spins on it, until the rpc is evicted or the
   session ends. Other work that becomes due still goes first (`DueIsSent`). A path that
   shrinks between a tail and its repeat has the same effect without HELLO.
3. **A quiet period shrinks the estimate after all** (`budget_quiet`). Each interval
   counts a round, also one the budget did not limit, and the samples of ten
   rounds ago are dropped before the comparison (budget.ts:125-127). After ten
   rounds of a page that fetches little, the little it fetched is the maximum and the budget
   follows it down, against the header (budget.ts:27-30).

Three smaller observations have no run. `budgetLimited` is also true when the last of the budget
filled everybody (scheduler.ts:137, against 64-67), so the budget may grow once
when demand was the limit. A page that turns HTTP4 off does not adopt the session its
inline script began, but nothing closes it (auto.ts:36-38); no more does one whose
configuration fails to load. Lost bytes at the end of what a paused transfer was granted
keep their share of the budget until its reader goes on, however long that takes (the fairness
of `scheduler_rounds` allows for it).

## 5. Proofs

`SenderProofs` proves, for every value of the constants that meets the named
assumptions of `Sender` (every datagram limit exceeds the headers; there is an rpc), that
`Spec` implies `[]IInv` (`Inductive`) and from it TypeOK, NoUngrantedSent,
ResendsWithinSent, SentIsPrefix, WorkIsCurrent and MetaLeadsData.

The argument. None of these is inductive alone. `NoUngrantedSent` needs that the work in
hand is still within the grant when it is transmitted: grants only rise, and the
work was clipped at the pick, which is a conjunct about `work` at each value of `pc`.
That in turn needs that no step of the receive loop or the sweep invalidates
what was picked: an rpc in hand stays live as the sweep runs only between sends;
RESEND appends to a resend queue and RESEND_SEQ appends or lengthens its last
span, so the front of the queue keeps its start and never shrinks. A resend
from the ring must lie below `next` of whatever rpc now has that id, which is
why the receive loop clips what it remembers. `SentIsPrefix` needs that
what is in flight begins at `next`. One lemma per action shows each
conjunct preserved; lemmas on sequences (append, tail, replacing the last
element) carry the queue facts.

`SenderResendProofs` adds what is resent. RepairedOnce needs to know that the ring no longer
offers a number once it was repaired: its slot is marked, or holds a later number, and a
number that left the ring never returns to it. `ChosenPayloadFits` proves ChosenFits: every
payload but the repeat of a tail fits the limit the session knows when it goes out.
`PayloadFits` itself is a theorem only where `TailDuplicate = 0`, and finding 2 is the
rest. OwedUntilSent is an
action property: both loops change a resend queue, yet while its rpc lives a byte
leaves it only when the datagram that carries it is recorded.

`SrptGrantsProofs` and `SchedulerProofs` are about one round of grants on any table. A
sum over a finite set is a recursive function, of which nothing follows until it is known to
exist; induction over sets is out of the prover's reach, so existence and the
laws of sums (take one out, monotone, additive, drop zeros) come from a smallest
counterexample under strict inclusion, which is well-founded. Then: the last rpc that gets
anything has all the others ahead of it, so the grants of a round are at most what is free
(WithinBudget); an rpc gets anything only if what is left covers all ahead of it
(ShortestFirst); somebody is first (NeverWedged). `AsTheWalkGrantsHolds` shows that
this form of a round is the code: `Walk` is `grants()` line by line, and at its
i-th candidate either all before it were filled and what is at hand is what they left, or the
walk is over and nothing is left for those to come (`WalkOK`). `SchedInv` adds to the type
invariant that rpcs arrived one after another, which makes the order total.

`TransferProofs` proves `[]TransferInv` for any set of transfers, sizes, losses and
duplicates, and from it TypeOK, NothingTruncated, StreamIsPrefix, Answered, GrantsAgree,
PausedWhenBehind and GrantsWithinBudget. The invariant has three parts. Each transfer by itself:
what has arrived, what its stream has taken and handed out, what its caller was told,
and that it is paused exactly while its reader is behind. The books: the table
holds the live transfers of known size and follows each in size, arrivals and pause, which `Pumped` restores
within every callback. The wire: no packet and no server record names more than the
client ever allowed of that transfer (`Ceiling`: its grant, or the initial grant while
the size is unknown). GrantsAgree needs all three. It is also the one property a proof attempt
corrected: a server that evicted an rpc and is asked again may find a body of another
size and clip its grant to that one, so its belief is comparable with the client's grant only
when both know the same size.

`SeqRepairProofs` proves TypeOK, Accounted and ResentOnlyIfAsked. The tracker's books, the
arrivals, the jumps and what was forgotten account for each number up to the highest (`forgotten`
is a history variable; a number gets there only from `settled`, so it was asked for); what is claimed
or in a request was found missing; a ring slot of number q is slot `q % RingSize`. ResentOnlyIfAsked is not inductive, as it
says nothing of what is queued: `OnceEach` counts the queued resends of a unit too
and pays for each with a number that was asked for and that the ring no longer offers.
The bound on numbers must not be 0, as a session sends at least META; that is an assumption.

`BridgeProofs` proves, for any number of tabs, requests and lives of the worker, TypeOK,
OneOutcome, OneHello, ReadyIsHonored and NoSessionLeaked. NoSessionLeaked needs `PagesOK`:
nothing is opened before the script has loaded, and a page that tried has a promise
that is connecting or settled, from which no callback connects again. `BridgeInv` adds
where each request can be: it leaves one trace at a time, a message to the page, a transfer
or a reply, and none once it is on the network, so it cannot go there twice; and what is left
of each hello: at most one is under way per tab and life, however many requests wait for it.

`RangeRepairProofs` proves, for any transfer, payloads, delays and order of arrival, TypeOK,
KeepsPromise and Patient: that the code's range lists implement `RangePromise` is a refinement
proved step by step. Most of it is about loops. A loop of the code is a function defined by
recursion over the list it walks; that there is one, and what holds of its k-th turn, comes
from the well-founded order of the numbers (`Along`, `Course`), as the library's
induction cannot be used. Each loop then has an invariant, as in a proof of the program:
`GapsSwept`, `LiveSwept`, `CutSwept`, `UncoveredSwept` say which units the list built so
far covers, and that the second index never passes a range that is still
needed, which holds only because both lists are in order. From them `ClaimIs`: claim asks
for exactly the units of the gaps whose RESENDs have no time left. `MergedIs` and `FreshCounts`
are the same for `add`. The inductive invariant `IInv` is what the loops
assume: ranges apart and equal to what arrived, RESENDs in order, disjoint and below the
grant. Patient adds `Waited`: a unit has waited longer than the age of every suspect whose gap
it has been in since, so a gap that splits or is repaired in part hands no age on
to a unit beyond it, and the window never shrinks under a repair that was asked for.

Assumptions on constants, each named in the module of the constant: limits of a
datagram exceed its headers and there is an rpc (`Sender`); there are finitely many transfers
(`Scheduler`, `Transfer`); numbers, sizes, tries and the ring are positive
(`SeqRepair`); some RESEND delay and a greatest drain time exist (`RangeRepair`); increments and sizes are natural numbers. None restricts the code.

Only model-checked:
- what happens in the end (DueIsSent, Settles, StreamEnds, GrantedWhole, RepairedInTheEnd,
  AskedInTheEnd, EveryRequestAnswered): the prover has neither ENABLED nor liveness
  under fairness;
- `Budget`, whose one property is the violated one of finding 3.

## 6. Not modelled

Clocks, RTT and rate estimates (they choose when, and every when is explored);
byte contents and packet layouts; files, certificates, listeners, caches on disk.
Not yet modelled: the change from DATA to DATA_SEQ in mid-session on the client,
the byte cache, the worker's request log and its mirror in the page.
`Transfer` has one transfer with loss or two without: lost bytes of a transfer
that is paused beside another are beyond its instances.

## 7. Plan

In this order, the most important behaviour first; 1 to 3 and 5 to 7 are done.

1. `Sender` and its proofs: the rule "no byte before its grant" and its neighbours.
2. `SrptGrants`, `Scheduler`: the order and the bound of the grants.
3. `Transfer`: the whole client against loss.
4. `PassiveSender`: what the client may rely on (grants, order, repair) as an
   abstract specification; `Sender` shown to implement it by a refinement
   mapping, and the server half of `Transfer` stated with it.
5. `SeqRepair`: SeqTracker against the sender's ring, a lossy path and repeats:
   every lost number is asked for and no number is repaired twice.
6. `RangePromise`, `RangeRepair`: RESENDs by range, and what they promise.
7. `PageSession`, `Bridge`: page, service worker, watchdogs and session opening; each
   request answered once. `Budget`: the window of rates.
8. `ByteCache`: accounting of Put, Get and sweep; proof that bytes never exceeds capacity.
9. Proofs: done for every safety property of `Sender`, `Scheduler`, `Transfer`,
   `SeqRepair`, `RangeRepair` and `Bridge` that a run checks. What remains: the capacity of
   step 8, the refinement of step 4.
