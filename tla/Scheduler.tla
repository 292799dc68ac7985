----------------------------- MODULE Scheduler -----------------------------
(***************************************************************************)
(* The client's receiver-driven SRPT scheduler as its callers drive it     *)
(* (src/client/src/scheduler.ts): transfers are added when their size is   *)
(* known, data arrives, readers fall behind and catch up, and pumpGrants   *)
(* runs a round with whatever the budget and the reserved initial grants   *)
(* have become.  Module Transfer drives the same rounds with one budget.   *)
(***************************************************************************)
EXTENDS SrptGrants, Sequences

CONSTANTS
    Rpc,           \* the transfers that may be scheduled
    Sizes,         \* sizes of their bodies
    Classes,       \* ranks of the priority classes in use
    InitialGrants, \* what their REQs allowed
    Budgets,       \* what BudgetController.budget may be at a round
    Reservations   \* initial grants of transfers of unknown size

ASSUME SchedulerAssumption ==
    /\ IsFiniteSet(Rpc)
    /\ Sizes \subseteq Nat /\ Classes \subseteq Nat /\ InitialGrants \subseteq Nat
    /\ Budgets \subseteq Nat \ {0} /\ Reservations \subseteq Nat

VARIABLES
    table,     \* SrptScheduler.rpcs
    arrivals,  \* SrptScheduler.seq
    limited    \* SrptScheduler.limited

vars == <<table, arrivals, limited>>

Init == table = [r \in {} |-> NewEntry(0, 0, 0, 0, 0)] /\ arrivals = 0 /\ limited = FALSE

Update(r, e) == table' = [table EXCEPT ![r] = e] /\ UNCHANGED <<arrivals, limited>>

\* Bound: Cardinality(Rpc) transfers are added in all.
Add(r) ==
    /\ r \notin DOMAIN table /\ arrivals < Cardinality(Rpc)
    /\ \E size \in Sizes, g \in InitialGrants, cls \in Classes :
         table' = [q \in DOMAIN table \cup {r} |->
                     IF q = r THEN NewEntry(size, g, 0, arrivals, cls) ELSE table[q]]
    /\ arrivals' = arrivals + 1 /\ UNCHANGED limited

Remove(r) ==
    /\ r \in DOMAIN table
    /\ table' = Restrict(table, DOMAIN table \ {r}) /\ UNCHANGED <<arrivals, limited>>

\* Only what was granted arrives.
OnData(r) ==
    /\ r \in DOMAIN table
    /\ \E n \in 1..Unreceived(table[r]) : Update(r, [table[r] EXCEPT !.received = @ + n])

SetPaused(r) ==
    /\ r \in DOMAIN table
    /\ Update(r, [table[r] EXCEPT !.paused = ~@])

\* setBudget and grants, as pumpGrants calls them.
Grants(budget, reserved) ==
    /\ table' = Granted(table, budget, reserved)
    /\ limited' = BudgetLimited(table, budget, reserved)
    /\ UNCHANGED arrivals

Round == \E budget \in Budgets, reserved \in Reservations : Grants(budget, reserved)

Next == Round \/ \E r \in Rpc : Add(r) \/ Remove(r) \/ OnData(r) \/ SetPaused(r)

Spec == Init /\ [][Next]_vars

\* The stall timer sees to what a transfer is owed: it arrives, or recovery fails
\* the transfer.  The tick skips a paused transfer, so nothing of it need arrive.
Recovered(r) ==
    /\ r \in DOMAIN table /\ ~table[r].paused /\ Unreceived(table[r]) > 0
    /\ OnData(r) \/ Remove(r)

\* The ticker runs, each arrival pumps, and transfers of unknown size do not hold
\* their reservation for ever.  Nobody need pause, resume or add anything.
Fairness ==
    /\ \A r \in Rpc : WF_vars(Recovered(r))
    /\ WF_vars(\E budget \in Budgets : Grants(budget, 0))

FairSpec == Spec /\ Fairness

-----------------------------------------------------------------------------
(* The walk of grants(), candidate by candidate, as the code writes it. *)

Walk(t, budget, reserved) ==
    LET free   == budget - reserved - Outstanding(t)
        Sorted == CHOOSE s \in [1..Cardinality(Candidates(t)) -> Candidates(t)] :
                     \A i, j \in DOMAIN s : i < j => Ahead(t, s[i], s[j])
        state[i \in 0..Cardinality(Candidates(t))] ==
            IF i = 0 THEN [t |-> t, free |-> free, stop |-> FALSE, sent |-> 0,
                           limited |-> Candidates(t) # {} /\ free < Worthwhile(budget)]
            ELSE LET s      == state[i - 1]
                     e      == s.t[Sorted[i]]
                     target == Smaller(e.size, e.granted + s.free)
                     inc    == target - e.granted
                     alone  == Outstanding(t) = 0 /\ s.sent = 0
                 IN  IF s.stop \/ s.free <= 0 THEN s
                     ELSE IF inc < Worthwhile(budget) /\ target < e.size /\ ~alone
                     THEN [s EXCEPT !.stop = TRUE, !.limited = TRUE]
                     ELSE [s EXCEPT !.t[Sorted[i]].granted = target,
                                    !.free = @ - inc, !.sent = @ + 1]
        last == state[Cardinality(Candidates(t))]
    IN  [table |-> last.t,
         limited |-> \/ last.limited
                     \/ /\ free > 0 /\ last.free <= 0
                        /\ \E r \in Candidates(t) : last.t[r].granted < t[r].size]

-----------------------------------------------------------------------------
(* Properties. *)

\* Every variable holds what the code's types allow, and no transfer is granted
\* more than its size or receives more than it was granted.
TypeOK ==
    /\ DOMAIN table \subseteq Rpc /\ \A r \in DOMAIN table : table[r] \in Entry
    /\ \A r \in DOMAIN table : /\ table[r].received <= table[r].granted
                               /\ table[r].granted <= table[r].size
    /\ arrivals \in 0..Cardinality(Rpc) /\ limited \in BOOLEAN

\* A round gives each transfer what the code's walk over the sorted candidates
\* gives it, and calls the budget the limit when the walk does.
AsTheWalkGrants ==
    [][\A b \in Budgets, q \in Reservations :
         Grants(b, q) => LET walk == Walk(table, b, q)
                         IN  table' = walk.table /\ limited' = walk.limited]_vars

\* "At most budget bytes granted but not yet received": a round that grants
\* leaves no more than the budget in flight, whatever was reserved or shrank.
WithinBudget ==
    [][\A b \in Budgets, q \in Reservations :
         Grants(b, q) /\ table' # table => Outstanding(table') + q <= b]_vars

\* "The next RPC gets grants only once every shorter one is fully granted",
\* within the class and across classes.
ShortestFirst ==
    [][\A b \in Budgets, q \in Reservations : Grants(b, q) =>
         \A r, p \in Candidates(table) :
            table'[r].granted > table[r].granted /\ Ahead(table, p, r)
                => table'[p].granted = table[p].size]_vars

\* With nothing in flight a small grant is the only thing that can restart the
\* session: such a round grants something to somebody who wants it.
NeverWedged ==
    [][\A b \in Budgets, q \in Reservations :
         Grants(b, q) /\ Outstanding(table) = 0 /\ q < b /\ Candidates(table) # {}
            => table' # table]_vars

\* What transfers paused by their readers still hold, lost or not, leaves too
\* little of some budget for a worthwhile grant.
HeldByPaused ==
    LET paused == {r \in DOMAIN table : table[r].paused}
    IN  \E b \in Budgets : b - Outstanding(Restrict(table, paused)) < Worthwhile(b)

\* "What it already holds still counts against the budget, so the others see the
\* true amount in flight": a slow reader costs the others what its transfer holds
\* and no more.  A transfer not kept waiting by its own reader is granted whole,
\* whatever of the paused ones never arrives, unless they hold all but a little
\* of a budget; then it waits for their readers.
GrantedWhole ==
    \A r \in Rpc :
        r \in DOMAIN table ~> \/ r \notin DOMAIN table
                              \/ table[r].paused
                              \/ table[r].granted = table[r].size
                              \/ HeldByPaused
=============================================================================
