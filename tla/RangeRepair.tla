---------------------------- MODULE RangeRepair ----------------------------
(***************************************************************************)
(* Reassembly and RepairTracker (reassembly.ts) of one transfer whose META *)
(* has come, in a session without numbers (SeqRepair has those), with the   *)
(* timers of transport.ts that drive them: early                           *)
(* detection, the tail probe and stall recovery.  The range lists and      *)
(* their sweeps are the code's; module RangePromise says byte by byte what *)
(* they are for.                                                           *)
(*                                                                         *)
(* A unit is the smallest payload.  Time is counted in ticks of the        *)
(* transfer's ticker and kept relative to now: a due time as the time left *)
(* and a start time as an age, so that time need not end.  Any granted     *)
(* payload may arrive at any time, again and again, or never.              *)
(***************************************************************************)
EXTENDS Integers, SequencesExt

CONSTANTS
    Size,            \* units of the transfer
    MaxPayload,      \* units of a datagram
    ReorderPackets,  \* packets that make a gap a suspect
    Quarter, Srtt,   \* quarter of the minimal round trip; the smoothed one
    MaxSteps,        \* MAX_REORDER_STEPS
    Delays,          \* what repairDelay may give
    Drains,          \* what drainMs may give
    Rto, MaxRto, MaxRecoveries,
    MaxRanges        \* MAX_RESEND_RANGES

ASSUME RangeAssumption ==
    /\ {Size, MaxPayload, Quarter, Srtt, MaxSteps, Rto, MaxRto, MaxRanges} \subseteq Nat \ {0}
    /\ {ReorderPackets, MaxRecoveries} \cup Drains \subseteq Nat
    /\ Delays \subseteq Nat \ {0} /\ Delays # {}
    /\ \E d \in Drains : \A e \in Drains : e <= d

VARIABLES
    t,         \* the Transfer
    repair,    \* its RepairTracker, and what the last step asked for
    steps,     \* reorderSteps
    calm,      \* time since the last spurious repair that counted
    clock,     \* ticks so far, modulo 2
    arrived,   \* history: the units that arrived
    passed     \* history: each unit, ticks + 1 since data beyond it came; 0 if none

vars == <<t, repair, steps, calm, clock, arrived, passed>>

-----------------------------------------------------------------------------
(* Ranges. *)

Unit   == 0..Size-1
R(a, b) == [start |-> a, end |-> b]
Units(rs) == UNION {rs[k].start..rs[k].end-1 : k \in DOMAIN rs}

Least(a, b)    == IF a < b THEN a ELSE b
Greatest(a, b) == IF a < b THEN b ELSE a

Sorted(rs) == \A k \in 1..Len(rs)-1 : rs[k].end <= rs[k+1].start
Frontier(rs) == IF rs = <<>> THEN 0 ELSE Last(rs).end

\* Reassembly.add: p takes in the ranges it touches.
\* (The first is a mutant: a range that only touches p is left beside it.)
BeforeOrAt(r, p) == r.end <= p.start
Before(r, p)     == r.end < p.start
Merged(rs, p) ==
    LET i == Min({k \in 1..Len(rs)+1 : k > Len(rs) \/ ~Before(rs[k], p)})
        j == Min({k \in i..Len(rs)+1 : k > Len(rs) \/ rs[k].start > p.end})
    IN  SubSeq(rs, 1, i-1)
        \o <<R(Min({p.start} \cup {rs[k].start : k \in i..j-1}),
               Max({p.end} \cup {rs[k].end : k \in i..j-1}))>>
        \o SubSeq(rs, j, Len(rs))

Overlap(r, p) == Greatest(0, Least(r.end, p.end) - Greatest(r.start, p.start))
Fresh(rs, p) ==
    LET covered[k \in 0..Len(rs)] ==
            IF k = 0 THEN 0 ELSE covered[k-1] + Overlap(rs[k], p)
    IN  p.end - p.start - covered[Len(rs)]

\* Reassembly.missing
PushGap(acc, r, limit) ==
    IF acc.at >= limit THEN acc
    ELSE [at |-> r.end, gaps |-> IF r.start <= acc.at THEN acc.gaps
                                 ELSE Append(acc.gaps, R(acc.at, Least(r.start, limit)))]
Missing(rs, limit) ==
    LET walk[k \in 0..Len(rs)] ==
            IF k = 0 THEN [at |-> 0, gaps |-> <<>>] ELSE PushGap(walk[k-1], rs[k], limit)
        end == walk[Len(rs)]
    IN  IF end.at < limit THEN Append(end.gaps, R(end.at, limit)) ELSE end.gaps

-----------------------------------------------------------------------------
(* RepairTracker. *)

\* The sweeps of claim go on from index i to the first range that ends after at.
Skip(rs, i, at) == Min({k \in i..Len(rs)+1 : k > Len(rs) \/ rs[k].end > at})

\* RESENDs that are neither overdue nor repaired.
\* (The first is a mutant: a RESEND is waited for until it is repaired.)
NeverOverdue(p) == FALSE
Overdue(p)      == p.left = 0
PushLive(acc, p, open) ==
    LET i == Skip(open, acc.i, p.start)
    IN  IF Overdue(p) THEN acc
        ELSE [i |-> i, live |-> IF i <= Len(open) /\ open[i].start < p.end
                                THEN Append(acc.live, p) ELSE acc.live]
Live(pending, open) ==
    LET walk[k \in 0..Len(pending)] ==
            IF k = 0 THEN [i |-> 1, live |-> <<>>] ELSE PushLive(walk[k-1], pending[k], open)
    IN  walk[Len(pending)].live

\* What live RESENDs, from the j-th on, leave of the gap g.
PushPiece(acc, p, g) ==
    IF p.start >= g.end THEN acc
    ELSE [at  |-> Greatest(acc.at, p.end),
          out |-> IF p.start > acc.at THEN Append(acc.out, R(acc.at, p.start)) ELSE acc.out]
Cut(out, g, live, j) ==
    LET walk[k \in j-1..Len(live)] ==
            IF k = j-1 THEN [at |-> g.start, out |-> out] ELSE PushPiece(walk[k-1], live[k], g)
        end == walk[Len(live)]
    IN  IF end.at < g.end THEN Append(end.out, R(end.at, g.end)) ELSE end.out

\* What they leave of the gaps.
PushCut(acc, g, live) ==
    LET j == Skip(live, acc.j, g.start) IN [j |-> j, out |-> Cut(acc.out, g, live, j)]
Uncovered(gaps, live) ==
    LET walk[k \in 0..Len(gaps)] ==
            IF k = 0 THEN [j |-> 1, out |-> <<>>] ELSE PushCut(walk[k-1], gaps[k], live)
    IN  walk[Len(gaps)].out

\* In the order of their starts, no two of which are equal.
ByStart(rs) ==
    [k \in DOMAIN rs |-> CHOOSE p \in Range(rs) :
                            Cardinality({q \in Range(rs) : q.start < p.start}) = k - 1]

Claim(r, rs, gaps, delay) ==
    LET live  == Live(r.pending, Missing(rs, Size))
        out   == Uncovered(gaps, live)
        fresh == [k \in DOMAIN out |-> [start |-> out[k].start, end |-> out[k].end, left |-> delay]]
    IN  [r EXCEPT !.pending   = ByStart(live \o fresh),
                  !.requested = @ \/ out # <<>>,
                  !.wanted = @ \cup Units(gaps), !.sent = @ \cup Units(out)]

\* (The first is a mutant: the oldest suspect speaks for every gap.)
OldestAge(suspects, g) == IF suspects = <<>> THEN 0 ELSE Max(Range(suspects))
AgeOf(suspects, g)     == IF g.start \in DOMAIN suspects THEN suspects[g.start] ELSE 0

\* The gaps that have been suspects for the window.
PushLost(lost, g, suspects, window) ==
    IF AgeOf(suspects, g) >= window THEN Append(lost, g) ELSE lost
LostEarly(gaps, suspects, window) ==
    LET walk[k \in 0..Len(gaps)] ==
            IF k = 0 THEN <<>> ELSE PushLost(walk[k-1], gaps[k], suspects, window)
    IN  walk[Len(gaps)]

Detect(r, rs, limit, window, delay) ==
    LET gaps == Missing(rs, limit)
        next == Claim([r EXCEPT !.suspects =
                    [s \in {gaps[k].start : k \in DOMAIN gaps} |-> AgeOf(r.suspects, R(s, s))]],
                    rs, LostEarly(gaps, r.suspects, window), delay)
    IN  [next EXCEPT !.early = next.sent]

-----------------------------------------------------------------------------
(* The transfer. *)

ReorderWindow == Least(Quarter * steps, Greatest(Quarter, Srtt))
MaxWindow     == Least(Quarter * MaxSteps, Greatest(Quarter, Srtt))

DetectLoss(tr, r, window, delay) ==
    LET frontier == Frontier(tr.ranges)
        limit    == IF frontier < tr.granted THEN frontier - ReorderPackets * tr.payload ELSE frontier
    IN  IF limit <= 0 THEN r ELSE Detect(r, tr.ranges, limit, window, delay)

Quiet(r) == [r EXCEPT !.wanted = {}, !.sent = {}, !.early = {}]

Init == \E a \in Unit, b \in 1..Size :
    /\ a < b /\ b - a <= MaxPayload
    /\ t \in [ranges : {<<R(a, b)>>}, received : {b - a}, payload : {b - a}, granted : b..Size,
              quiet : {0}, recoveries : {0}, probed : {FALSE},
              over : {IF b - a = Size THEN "done" ELSE "no"}]
    /\ repair = [suspects |-> <<>>, pending |-> <<>>, requested |-> FALSE,
                 wanted |-> {}, sent |-> {}, early |-> {}]
    /\ steps = 1 /\ calm = Srtt /\ clock = 0
    /\ arrived = a..b-1 /\ passed = [u \in Unit |-> IF u < a THEN 1 ELSE 0]

\* noteSpurious
NoteSpurious == IF calm < Srtt THEN UNCHANGED <<steps, calm>>
                ELSE steps' = Least(MaxSteps, steps * 2) /\ calm' = 0

\* handle, for DATA: detection runs unless it just has (DETECT_INTERVAL_MS).
Receive == \E a \in Unit, b \in 1..t.granted :
    LET p     == R(a, b)
        fresh == Fresh(t.ranges, p)
        tr    == [t EXCEPT !.ranges = Merged(@, p), !.received = @ + fresh,
                           !.payload = Greatest(@, b - a)]
        next  == IF fresh > 0 THEN [tr EXCEPT !.quiet = 0, !.recoveries = 0, !.probed = FALSE] ELSE tr
    IN  /\ t.over = "no" /\ a < b /\ b - a <= MaxPayload
        /\ arrived' = arrived \cup (a..b-1)
        /\ passed' = [u \in Unit |-> IF passed[u] = 0 /\ u < a THEN 1 ELSE passed[u]]
        /\ UNCHANGED clock
        /\ IF fresh < b - a /\ repair.requested THEN NoteSpurious ELSE UNCHANGED <<steps, calm>>
        /\ IF next.received = Size
           THEN t' = [next EXCEPT !.over = "done"] /\ repair' = Quiet(repair)
           ELSE /\ t' = next
                /\ \/ repair' = Quiet(repair)
                   \/ \E delay \in Delays :
                         repair' = DetectLoss(next, Quiet(repair), ReorderWindow', delay)

GrantMore ==
    /\ t.over = "no" /\ t.granted < Size /\ \E g \in t.granted+1..Size : t' = [t EXCEPT !.granted = g]
    /\ UNCHANGED <<repair, steps, calm, clock, arrived, passed>>

\* One unit of time for every timer and age.
Older(r) == [Quiet(r) EXCEPT
    !.pending  = [k \in DOMAIN r.pending |->
                     [r.pending[k] EXCEPT !.left = Greatest(0, r.pending[k].left - 1)]],
    !.suspects = [s \in DOMAIN r.suspects |-> Least(MaxWindow, r.suspects[s] + 1)]]

\* The tail probe asks for the last packet of the grant, once.
Probe(tr, r, drain, delay) ==
    LET frontier == Frontier(tr.ranges)
        last     == R(Greatest(frontier, tr.granted - tr.payload), tr.granted)
    IN  IF ~tr.probed /\ frontier < tr.granted /\ tr.quiet >= 2 * Srtt + drain
        THEN [t |-> [tr EXCEPT !.probed = TRUE], repair |-> Claim(r, tr.ranges, <<last>>, delay)]
        ELSE [t |-> tr, repair |-> r]

\* The gaps, at most MaxRanges of them, and the first and last packet of the tail.
Lost(tr) ==
    LET frontier == Frontier(tr.ranges)
        gaps     == Missing(tr.ranges, Least(frontier, tr.granted))
        first    == R(frontier, Least(tr.granted, frontier + tr.payload))
        last     == R(Greatest(first.end, tr.granted - tr.payload), tr.granted)
    IN  SubSeq(gaps, 1, Least(Len(gaps), MaxRanges))
        \o (IF frontier < tr.granted THEN <<first>> ELSE <<>>)
        \o (IF frontier < tr.granted /\ last.start < last.end THEN <<last>> ELSE <<>>)

Recover(tr, r, delay) ==
    IF tr.recoveries = MaxRecoveries THEN [t |-> [tr EXCEPT !.over = "failed"], repair |-> r]
    ELSE [t |-> [tr EXCEPT !.recoveries = @ + 1, !.quiet = 0],
          repair |-> Claim(r, tr.ranges, Lost(tr), delay)]

Timeout(tr, drain) == Greatest(Least(MaxRto, Rto * 2^tr.recoveries), drain)

\* Nothing is outstanding: the transfer is queued, not stalled.
\* (The first is a mutant: nothing is missing behind the frontier.)
NoGaps(tr)  == tr.received >= Frontier(tr.ranges)
Waiting(tr) == tr.received >= tr.granted

Tick == \E delay \in Delays, drain \in Drains :
    LET aged     == [t EXCEPT !.quiet = Least(Greatest(MaxRto, 2 * Srtt) + Max(Drains), @ + 1)]
        detected == DetectLoss(aged, Older(repair), ReorderWindow, delay)
        probed   == Probe(aged, detected, drain, delay)
        after    == IF Waiting(t) THEN [t |-> [t EXCEPT !.quiet = 0], repair |-> detected]
                    ELSE IF aged.quiet >= Timeout(aged, drain)
                    THEN Recover(probed.t, probed.repair, delay)
                    ELSE probed
    IN  /\ t.over = "no" /\ t' = after.t /\ repair' = after.repair
        /\ calm' = Least(Srtt, calm + 1) /\ clock' = 1 - clock
        /\ passed' = [u \in Unit |-> IF passed[u] = 0 THEN 0 ELSE Least(MaxWindow + 1, passed[u] + 1)]
        /\ UNCHANGED <<steps, arrived>>

-----------------------------------------------------------------------------
Next == Receive \/ GrantMore \/ Tick
Spec == Init /\ [][Next]_vars

\* The ticker is an interval timer: WF_vars(Tick), told by the steps of the clock,
\* which are the Ticks.
FairSpec == Spec /\ WF_clock(t.over = "no" /\ clock' = 1 - clock)

-----------------------------------------------------------------------------
(* Properties. *)

\* The ranges are sorted, apart from each other and hold what arrived, each unit
\* counted once; pending RESENDs are sorted and disjoint, as the sweeps of claim
\* need them.
TypeOK ==
    /\ Units(t.ranges) = arrived /\ t.received = Cardinality(arrived)
    /\ \A k \in 1..Len(t.ranges)-1 : t.ranges[k].end < t.ranges[k+1].start
    /\ t.granted \in Frontier(t.ranges)..Size /\ t.recoveries \in 0..MaxRecoveries
    /\ DOMAIN repair.suspects \subseteq Unit /\ steps \in 1..MaxSteps
    /\ Units(repair.pending) \subseteq 0..t.granted-1 /\ Sorted(repair.pending)
    /\ t.over = "done" <=> arrived = Unit

\* "A RESENT range isn't requested again until its delay has passed", whichever
\* timer wants it, and then it is: claim implements the promise byte by byte.
LeftOf(u) ==
    LET held == {k \in DOMAIN repair.pending : /\ repair.pending[k].start <= u
                                               /\ u < repair.pending[k].end}
    IN  IF u \in arrived THEN 0 ELSE Max({0} \cup {repair.pending[k].left : k \in held})

Abstract == INSTANCE RangePromise WITH
    due <- [u \in Unit |-> LeftOf(u)], wanted <- repair.wanted, sent <- repair.sent

KeepsPromise == Abstract!Promise

\* "A merely reordered packet has time to arrive": early detection asks for no
\* unit before data beyond it has been there for the reordering window.
Patient == [][\A u \in repair'.early : passed'[u] > ReorderWindow]_vars

\* A granted unit that stays missing is asked for, or the transfer fails.
AskedInTheEnd == \A u \in Unit :
    u < t.granted /\ u \notin arrived
        ~> u \in arrived \/ u \in repair.sent \/ t.over = "failed"
=============================================================================
