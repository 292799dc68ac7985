----------------------------- MODULE SrptGrants -----------------------------
(***************************************************************************)
(* One round of the client's grant scheduler                               *)
(* (src/client/src/scheduler.ts).  A table maps each scheduled rpc to its  *)
(* entry; a round spends the free budget on the rpcs that want more, the   *)
(* most urgent first, and each rpc is filled before the next gets any.     *)
(*                                                                         *)
(* The code walks the sorted candidates.  Only the last one it reaches can *)
(* be left short, so what the walk gives an rpc depends on nothing but the *)
(* total the rpcs before it still need, which is how it is stated here.    *)
(***************************************************************************)
EXTENDS Integers, FiniteSets, Functions

CONSTANTS
    MinIncrement,   \* SchedulerOptions.minIncrement
    BudgetShare     \* MIN_INCREMENT_BUDGET_SHARE

ASSUME GrantAssumption == MinIncrement \in Nat /\ BudgetShare \in Nat \ {0}

Entry == [size : Nat, granted : Nat, received : Nat, paused : BOOLEAN,
          seq : Nat, cls : Nat]

Smaller(a, b) == IF a <= b THEN a ELSE b
Larger(a, b)  == IF a >= b THEN a ELSE b

\* (Two mutants first: what the REQ allowed is forgotten; it is not clipped.)
Unallowed(size, granted, received, seq, cls) ==
    [size |-> size, granted |-> 0, received |-> received,
     paused |-> FALSE, seq |-> seq, cls |-> cls]
Unclipped(size, granted, received, seq, cls) ==
    [size |-> size, granted |-> granted, received |-> received,
     paused |-> FALSE, seq |-> seq, cls |-> cls]
NewEntry(size, granted, received, seq, cls) ==
    [size |-> size, granted |-> Smaller(granted, size), received |-> received,
     paused |-> FALSE, seq |-> seq, cls |-> cls]

Unreceived(e)  == Larger(0, e.granted - e.received)
AllGranted(t)  == SumFunction([r \in DOMAIN t |-> t[r].granted])   \* mutant: arrivals free nothing
Outstanding(t) == SumFunction([r \in DOMAIN t |-> Unreceived(t[r])])

Ungranted(e)  == e.size - e.granted
Candidates(t) == {r \in DOMAIN t : t[r].granted < t[r].size /\ ~t[r].paused}

\* Class first, then the shortest remaining, then the order of arrival.
Ahead(t, p, r) ==
    LET left(q) == t[q].size - t[q].received
    IN  \/ t[p].cls < t[r].cls
        \/ t[p].cls = t[r].cls /\ left(p) < left(r)
        \/ t[p].cls = t[r].cls /\ left(p) = left(r) /\ t[p].seq < t[r].seq

FirstCome(t, r) == {p \in Candidates(t) : t[p].seq < t[r].seq}   \* mutant: no SRPT
Before(t, r) == {p \in Candidates(t) : Ahead(t, p, r)}

\* The smallest increment worth a GRANT: never so large that the budget cannot
\* afford BudgetShare of them.
Worthwhile(budget) == Smaller(MinIncrement, Larger(1, budget \div BudgetShare))

\* What is left for r once the rpcs ahead of it are filled.
AllOfIt(t, r, free) == free   \* mutant: available is not reduced
LeftFor(t, r, free) ==
    free - SumFunctionOnSet([p \in DOMAIN t |-> Ungranted(t[p])], Before(t, r))

\* (The first is a mutant: a small grant never restarts an idle session.)
NoRestart(t, r, budget, reserved) ==
    LET left == LeftFor(t, r, budget - reserved - Outstanding(t))
    IN  IF r \notin Candidates(t) THEN 0
        ELSE IF left >= Ungranted(t[r]) THEN Ungranted(t[r])
        ELSE IF left >= Worthwhile(budget) THEN left
        ELSE 0

Increment(t, r, budget, reserved) ==
    LET left  == LeftFor(t, r, budget - reserved - Outstanding(t))
        alone == Outstanding(t) = 0 /\ Before(t, r) = {}
    IN  IF r \notin Candidates(t) THEN 0
        ELSE IF left >= Ungranted(t[r]) THEN Ungranted(t[r])
        ELSE IF left > 0 /\ (left >= Worthwhile(budget) \/ alone) THEN left
        ELSE 0

\* grants(): the table after a round, and whether the budget was the limit.
Granted(t, budget, reserved) ==
    [r \in DOMAIN t |-> [t[r] EXCEPT !.granted = @ + Increment(t, r, budget, reserved)]]

\* (The first is a mutant: only a round that starts short counts as limited.)
ShortAtStart(t, budget, reserved) ==
    Candidates(t) # {} /\ budget - reserved - Outstanding(t) < Worthwhile(budget)

BudgetLimited(t, budget, reserved) ==
    LET free == budget - reserved - Outstanding(t)
    IN  \/ Candidates(t) # {} /\ free < Worthwhile(budget)
        \/ free > 0 /\ \E r \in Candidates(t) :
                          Increment(t, r, budget, reserved) < Ungranted(t[r])
=============================================================================
