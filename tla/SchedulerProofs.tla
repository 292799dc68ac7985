-------------------------- MODULE SchedulerProofs --------------------------
(***************************************************************************)
(* What is proved about module Scheduler for every set of transfers, every *)
(* size, class and initial grant and whatever the budget is at each round: *)
(* its type invariant, and that a round stays within the budget, serves    *)
(* the shortest first, never leaves an idle session wedged and is what the *)
(* walk over the sorted candidates in grants() makes of the table.         *)
(*                                                                         *)
(* The lemmas about one round are those of SrptGrantsProofs.  They ask for *)
(* a table whose entries are well formed and whose rpcs arrived one after  *)
(* another, which is what SchedInv adds to the type invariant.             *)
(***************************************************************************)
EXTENDS Scheduler, SrptGrantsProofs

SchedInv ==
    /\ TableOK(table) /\ DOMAIN table \subseteq Rpc
    /\ \A r \in DOMAIN table : table[r].received <= table[r].granted
    /\ \A r \in DOMAIN table : table[r].seq < arrivals
    /\ Ordered(table)
    /\ arrivals \in 0..Cardinality(Rpc) /\ limited \in BOOLEAN

\* The additions are bounded by a number.
LEMMA CardinalityNat == Cardinality(Rpc) \in Nat
  BY SchedulerAssumption, FS_CardinalityType DEF SchedulerAssumption

LEMMA InitSchedInv == ASSUME Init PROVE SchedInv
<1>1. DOMAIN table = {} /\ table \in [{} -> Entry]
  BY DEF Init
<1>2. IsFiniteSet({})
  BY FS_EmptySet
<1>3. TableOK(table)
  BY <1>1, <1>2 DEF TableOK
<1>4. Ordered(table)
  BY <1>1 DEF Ordered
<1>5. arrivals = 0 /\ 0 \in 0..Cardinality(Rpc) /\ limited = FALSE
  BY CardinalityNat DEF Init
<1> QED
  BY <1>1, <1>3, <1>4, <1>5 DEF SchedInv

\* onData and setPaused change one entry, but not its size, grant or place in the order.
LEMMA UpdateStep ==
    ASSUME SchedInv, NEW r \in DOMAIN table, NEW e \in Entry, Update(r, e),
           e.size = table[r].size, e.granted = table[r].granted, e.seq = table[r].seq,
           e.received <= e.granted
    PROVE  SchedInv'
<1>1. table' = [table EXCEPT ![r] = e] /\ arrivals' = arrivals /\ limited' = limited
  BY DEF Update
<1>2. DOMAIN table' = DOMAIN table /\ table' \in [DOMAIN table -> Entry]
  BY <1>1 DEF SchedInv, TableOK
<1>3. \A p \in DOMAIN table : /\ table'[p].size = table[p].size
                              /\ table'[p].granted = table[p].granted
                              /\ table'[p].seq = table[p].seq
                              /\ table'[p].received <= table'[p].granted
  BY <1>1 DEF SchedInv, TableOK
<1>4. TableOK(table')
  BY <1>2, <1>3 DEF SchedInv, TableOK
<1>5. Ordered(table')
  BY <1>2, <1>3 DEF SchedInv, Ordered
<1> QED
  BY <1>1, <1>2, <1>3, <1>4, <1>5 DEF SchedInv

LEMMA OnDataStep == ASSUME SchedInv, NEW r \in Rpc, OnData(r) PROVE SchedInv'
<1>1. PICK n \in 1..Unreceived(table[r]) : Update(r, [table[r] EXCEPT !.received = @ + n])
  BY DEF OnData
<1>2. r \in DOMAIN table
  BY DEF OnData
<1> DEFINE e == [table[r] EXCEPT !.received = @ + n]
<1>3. table[r] \in Entry /\ table[r].received <= table[r].granted
  BY <1>2 DEF SchedInv, TableOK
<1>4. /\ e \in Entry /\ e.size = table[r].size /\ e.granted = table[r].granted
      /\ e.seq = table[r].seq /\ e.received <= e.granted
  BY <1>3 DEF Entry, Unreceived, Larger
<1> HIDE DEF e
<1> QED
  BY <1>1, <1>2, <1>4, UpdateStep DEF e

LEMMA SetPausedStep == ASSUME SchedInv, NEW r \in Rpc, SetPaused(r) PROVE SchedInv'
<1> DEFINE e == [table[r] EXCEPT !.paused = ~@]
<1>1. Update(r, e) /\ r \in DOMAIN table
  BY DEF SetPaused
<1>2. table[r] \in Entry /\ table[r].received <= table[r].granted
  BY <1>1 DEF SchedInv, TableOK
<1>3. /\ e \in Entry /\ e.size = table[r].size /\ e.granted = table[r].granted
      /\ e.seq = table[r].seq /\ e.received <= e.granted
  BY <1>2 DEF Entry
<1> HIDE DEF e
<1> QED
  BY <1>1, <1>3, UpdateStep

\* add: the new rpc comes after all others, and its initial grant is clipped.
LEMMA AddStep == ASSUME SchedInv, NEW r \in Rpc, Add(r) PROVE SchedInv'
<1>1. PICK size \in Sizes, g \in InitialGrants, cls \in Classes :
        table' = [q \in DOMAIN table \cup {r} |->
                     IF q = r THEN NewEntry(size, g, 0, arrivals, cls) ELSE table[q]]
  BY DEF Add
<1>2. /\ r \notin DOMAIN table /\ arrivals < Cardinality(Rpc)
      /\ arrivals' = arrivals + 1 /\ limited' = limited
  BY DEF Add
<1> DEFINE e == NewEntry(size, g, 0, arrivals, cls)
<1>3. arrivals \in Nat /\ size \in Nat /\ g \in Nat /\ cls \in Nat
  BY CardinalityNat, SchedulerAssumption DEF SchedulerAssumption, SchedInv
<1>4. /\ e \in Entry /\ e.granted <= e.size /\ e.received <= e.granted /\ e.seq = arrivals
  BY <1>3 DEF NewEntry, Entry, Smaller
<1>5. /\ DOMAIN table' = DOMAIN table \cup {r} /\ table'[r] = e
      /\ \A q \in DOMAIN table : table'[q] = table[q]
  BY <1>1, <1>2
<1>6. table' = [q \in DOMAIN table' |-> table'[q]]
  BY <1>1
<1> HIDE DEF e
<1>7. \A q \in DOMAIN table : /\ table[q] \in Entry /\ table[q].granted <= table[q].size
                              /\ table[q].received <= table[q].granted
                              /\ table[q].seq < arrivals
  BY DEF SchedInv, TableOK
<1>8. \A q \in DOMAIN table' : /\ table'[q] \in Entry /\ table'[q].granted <= table'[q].size
                               /\ table'[q].received <= table'[q].granted
                               /\ table'[q].seq < arrivals'
  <2> SUFFICES ASSUME NEW q \in DOMAIN table'
               PROVE  /\ table'[q] \in Entry /\ table'[q].granted <= table'[q].size
                      /\ table'[q].received <= table'[q].granted
                      /\ table'[q].seq < arrivals'
    OBVIOUS
  <2>1. CASE q = r
    BY <1>2, <1>3, <1>4, <1>5, <2>1
  <2>2. CASE q \in DOMAIN table
    <3>1. table[q].seq \in Nat /\ table[q].seq < arrivals
      BY <1>7, <2>2 DEF Entry
    <3> QED
      BY <1>2, <1>3, <1>5, <1>7, <2>2, <3>1
  <2> QED
    BY <1>5, <2>1, <2>2
<1>9. IsFiniteSet(DOMAIN table')
  BY <1>5, FS_AddElement DEF SchedInv, TableOK
<1>10. TableOK(table')
  BY <1>6, <1>8, <1>9 DEF TableOK
<1>11. Ordered(table')
  <2>1. \A q \in DOMAIN table : table'[q].seq # arrivals /\ table'[q].seq \in Nat
    BY <1>3, <1>5, <1>7 DEF Entry
  <2>2. table'[r].seq = arrivals
    BY <1>4, <1>5
  <2>3. \A p, q \in DOMAIN table : p # q => table'[p].seq # table'[q].seq
    BY <1>5 DEF SchedInv, Ordered
  <2> QED
    BY <1>5, <2>1, <2>2, <2>3 DEF Ordered
<1>12. arrivals' \in 0..Cardinality(Rpc)
  BY <1>2, <1>3, CardinalityNat
<1> QED
  BY <1>2, <1>5, <1>8, <1>10, <1>11, <1>12 DEF SchedInv

LEMMA RemoveStep == ASSUME SchedInv, NEW r \in Rpc, Remove(r) PROVE SchedInv'
<1> DEFINE D == DOMAIN table \ {r}
<1>1. /\ table' = [q \in D |-> table[q]] /\ arrivals' = arrivals /\ limited' = limited
  BY DEF Remove, Restrict
<1>2. DOMAIN table' = D /\ D \subseteq DOMAIN table /\ \A q \in D : table'[q] = table[q]
  BY <1>1
<1>3. IsFiniteSet(D)
  BY <1>2, FS_Subset DEF SchedInv, TableOK
<1>4. TableOK(table')
  BY <1>1, <1>2, <1>3 DEF SchedInv, TableOK
<1>5. Ordered(table')
  BY <1>2 DEF SchedInv, Ordered
<1> QED
  BY <1>1, <1>2, <1>4, <1>5 DEF SchedInv

\* What a round finds: numbers to compute with and a table in order.
LEMMA RoundFinds ==
    ASSUME SchedInv, NEW b \in Budgets, NEW q \in Reservations, Grants(b, q)
    PROVE  /\ b \in Int /\ q \in Int /\ TableOK(table) /\ Ordered(table)
           /\ table' = Granted(table, b, q)
  BY SchedulerAssumption DEF SchedulerAssumption, SchedInv, Grants

\* What it leaves.
LEMMA RoundLeaves ==
    ASSUME SchedInv, NEW b \in Budgets, NEW q \in Reservations, Grants(b, q)
    PROVE  /\ DOMAIN table' = DOMAIN table /\ TableOK(table')
           /\ \A r \in DOMAIN table :
                /\ Increment(table, r, b, q) \in Nat
                /\ table[r].granted \in Nat /\ table[r].size \in Nat
                /\ table'[r].granted = table[r].granted + Increment(table, r, b, q)
                /\ table'[r].granted \in table[r].granted..table[r].size
                /\ SameButGrant(table'[r], table[r])
<1>1. b \in Int /\ q \in Int /\ TableOK(table)
  BY RoundFinds
<1>2. ASSUME NEW u, u = Granted(table, b, q)
      PROVE  /\ DOMAIN u = DOMAIN table /\ TableOK(u)
             /\ \A r \in DOMAIN table :
                  /\ Increment(table, r, b, q) \in Nat
                  /\ table[r].granted \in Nat /\ table[r].size \in Nat
                  /\ u[r].granted = table[r].granted + Increment(table, r, b, q)
                  /\ u[r].granted \in table[r].granted..table[r].size
                  /\ SameButGrant(u[r], table[r])
  BY <1>1, <1>2, RoundGives
<1>3. table' = Granted(table, b, q)
  BY RoundFinds
<1> QED
  BY <1>2, <1>3, Zenon

LEMMA RoundStep == ASSUME SchedInv, Round PROVE SchedInv'
<1>1. PICK b \in Budgets, q \in Reservations : Grants(b, q)
  BY DEF Round
<1>2. /\ b \in Int /\ q \in Int /\ TableOK(table) /\ Ordered(table)
      /\ table' = Granted(table, b, q)
  BY <1>1, RoundFinds
<1>3. DOMAIN table' = DOMAIN table /\ TableOK(table')
  BY <1>1, RoundLeaves
<1>4. ASSUME NEW r \in DOMAIN table
      PROVE  /\ table'[r].seq = table[r].seq
             /\ table'[r].received <= table'[r].granted
  <2>1. /\ table'[r].granted \in table[r].granted..table[r].size
        /\ SameButGrant(table'[r], table[r])
    BY <1>1, RoundLeaves
  <2>2. table[r] \in Entry /\ table[r].received <= table[r].granted
    BY DEF SchedInv, TableOK
  <2> QED
    BY <2>1, <2>2 DEF Entry, SameButGrant
<1>5. Ordered(table')
  BY <1>3, <1>4 DEF SchedInv, Ordered
<1>6. arrivals' = arrivals /\ limited' \in BOOLEAN
  BY <1>1 DEF Grants, BudgetLimited
<1> QED
  BY <1>3, <1>4, <1>5, <1>6 DEF SchedInv

-----------------------------------------------------------------------------
(* The walk of grants(). *)

\* The order of the walk: the candidates, the most urgent first.
InOrder(s, t, P) ==
    /\ s \in [1..Cardinality(P) -> P]
    /\ \A i, j \in 1..Cardinality(P) : i < j => Ahead(t, s[i], s[j])

SortedOf(t) ==
    CHOOSE s \in [1..Cardinality(Candidates(t)) -> Candidates(t)] :
        \A i, j \in DOMAIN s : i < j => Ahead(t, s[i], s[j])

\* A table's rpcs can be sorted: of the sets that cannot, take a smallest; without
\* its least urgent rpc it can, and that one goes to the end.
LEMMA SortExists ==
    ASSUME NEW t, TableOK(t), Ordered(t), NEW C, C \subseteq DOMAIN t
    PROVE  \E s : InOrder(s, t, C)
<1> DEFINE Bad == {P \in SUBSET C : ~\E s : InOrder(s, t, P)}
<1> SUFFICES ASSUME ~\E s : InOrder(s, t, C) PROVE FALSE
  OBVIOUS
<1>1. IsFiniteSet(C)
  BY FS_Subset DEF TableOK
<1>2. PICK P \in Bad : \A U \in Bad : ~(U \subseteq P /\ U # P)
  <2>1. Bad # {} /\ Bad \subseteq SUBSET C
    OBVIOUS
  <2> HIDE DEF Bad
  <2> QED
    BY <1>1, <2>1, SmallestSubset
<1>3. IsFiniteSet(P) /\ P \subseteq DOMAIN t /\ P \subseteq C
  BY <1>1, <1>2, FS_Subset
<1>4. P # {}
  <2> SUFFICES ASSUME P = {} PROVE FALSE
    OBVIOUS
  <2>1. Cardinality(P) = 0
    BY FS_EmptySet, Zenon
  <2>2. InOrder([i \in {} |-> 0], t, P)
    <3>1. 1..Cardinality(P) = {}
      BY <2>1
    <3> QED
      BY <3>1 DEF InOrder
  <2> QED
    BY <1>2, <2>2
<1>5. PICK l \in P : \A p \in P : p # l => Ahead(t, p, l)
  BY <1>3, <1>4, LastOf
<1> DEFINE Q == P \ {l}
           n == Cardinality(P)
<1>6. n \in Nat /\ n > 0 /\ Cardinality(Q) = n - 1
  <2>1. Cardinality(Q) = n - 1 /\ IsFiniteSet(Q)
    BY <1>3, FS_RemoveElement
  <2>2. n \in Nat /\ Cardinality(Q) \in Nat
    BY <1>3, <2>1, FS_CardinalityType
  <2> HIDE DEF Q, n
  <2> QED
    BY <2>1, <2>2
<1>7. PICK s : InOrder(s, t, Q)
  <2>1. Q \subseteq P /\ Q # P /\ Q \in SUBSET C
    BY <1>3
  <2> QED
    BY <1>2, <2>1
<1> HIDE DEF n
<1> DEFINE z == [i \in 1..n |-> IF i = n THEN l ELSE s[i]]
<1>8. \A i \in 1..n : i # n => s[i] \in Q /\ i \in 1..Cardinality(Q)
  <2> HIDE DEF Q
  <2>1. s \in [1..Cardinality(Q) -> Q]
    BY <1>7 DEF InOrder
  <2> QED
    BY <1>6, <2>1
<1>9. z \in [1..n -> P]
  BY <1>5, <1>8
<1>10. ASSUME NEW i \in 1..n, NEW j \in 1..n, i < j
       PROVE  Ahead(t, z[i], z[j])
  <2>1. i # n
    BY <1>6, <1>10
  <2>2. z[i] = s[i] /\ s[i] \in P /\ s[i] # l
    BY <1>8, <2>1
  <2>3. CASE j = n
    BY <1>5, <2>2, <2>3
  <2>4. CASE j # n
    BY <1>7, <1>8, <1>10, <2>1, <2>2, <2>4 DEF InOrder
  <2> QED
    BY <2>3, <2>4
<1> HIDE DEF z
<1>11. InOrder(z, t, P)
  BY <1>9, <1>10 DEF InOrder, n
<1> QED
  BY <1>2, <1>11

\* It is all of them, and those before a place are the rpcs ahead of the one there.
LEMMA SortedIs ==
    ASSUME NEW t, TableOK(t), Ordered(t)
    PROVE  LET s == SortedOf(t)
               n == Cardinality(Candidates(t))
           IN  /\ n \in Nat /\ s \in [1..n -> Candidates(t)]
               /\ \A r \in Candidates(t) : \E i \in 1..n : r = s[i]
               /\ \A i, j \in 1..n : i # j => s[i] # s[j]
               /\ \A i \in 1..n : Before(t, s[i]) = {s[j] : j \in 1..i - 1}
<1> DEFINE C == Candidates(t)
           n == Cardinality(C)
           s == SortedOf(t)
<1>1. C \subseteq DOMAIN t /\ IsFiniteSet(C) /\ n \in Nat
  BY NeedsNat, FS_CardinalityType
<1> HIDE DEF n
<1>2. s \in [1..n -> C] /\ \A i, j \in 1..n : i < j => Ahead(t, s[i], s[j])
  <2>1. PICK x : InOrder(x, t, C)
    BY <1>1, SortExists
  <2>2. x \in [1..n -> C] /\ \A i, j \in DOMAIN x : i < j => Ahead(t, x[i], x[j])
    BY <2>1 DEF InOrder, n
  <2>3. s \in [1..n -> C] /\ \A i, j \in DOMAIN s : i < j => Ahead(t, s[i], s[j])
    BY <2>2 DEF SortedOf, n
  <2> QED
    BY <2>3
<1> HIDE DEF s, C
<1>3. \A i, j \in 1..n : i # j => s[i] # s[j]
  <2> SUFFICES ASSUME NEW i \in 1..n, NEW j \in 1..n, i < j
               PROVE  s[i] # s[j]
    BY <1>1
  <2>1. Ahead(t, s[i], s[j]) /\ s[i] \in DOMAIN t
    BY <1>1, <1>2
  <2>2. ~Ahead(t, s[i], s[i])
    BY <2>1, AheadIsOrder
  <2> QED
    BY <2>1, <2>2
<1>4. s \in Surjection(1..n, C)
  <2>1. s \in Injection(1..n, C)
    BY <1>2, <1>3 DEF Injection, IsInjective
  <2>2. Cardinality(1..n) = Cardinality(C)
    BY <1>1, FS_Interval DEF n
  <2> QED
    BY <1>1, <2>1, <2>2, FS_Injection
<1>5. \A r \in C : \E i \in 1..n : r = s[i]
  BY <1>4 DEF Surjection
<1>6. ASSUME NEW i \in 1..n
      PROVE  Before(t, s[i]) = {s[j] : j \in 1..i - 1}
  <2>1. ASSUME NEW j \in 1..i - 1 PROVE s[j] \in Before(t, s[i])
    <3>1. j \in 1..n /\ j < i
      BY <1>1
    <3> QED
      BY <1>2, <3>1 DEF Before, C
  <2>2. ASSUME NEW p \in Before(t, s[i]) PROVE \E j \in 1..i - 1 : p = s[j]
    <3>1. p \in C /\ Ahead(t, p, s[i])
      BY DEF Before, C
    <3>2. PICK j \in 1..n : p = s[j]
      BY <1>5, <3>1
    <3>3. p \in DOMAIN t /\ s[i] \in DOMAIN t
      BY <1>1, <1>2, <3>1
    <3>4. ~Ahead(t, p, p)
      BY <3>3, AheadIsOrder
    <3>5. ~Ahead(t, s[i], p)
      BY <3>1, <3>3, <3>4, AheadIsOrder
    <3>6. ~(i = j) /\ ~(i < j)
      BY <1>2, <3>1, <3>2, <3>4, <3>5
    <3> QED
      BY <1>1, <3>2, <3>6
  <2> QED
    BY <2>1, <2>2
<1> QED
  BY <1>1, <1>2, <1>3, <1>5, <1>6 DEF n, C, s

\* The walk before its first candidate, and what it makes of the next one.
WalkStart(t, budget, free) ==
    [t |-> t, free |-> free, stop |-> FALSE, sent |-> 0,
     limited |-> Candidates(t) # {} /\ free < Worthwhile(budget)]

Target(s, r) == Smaller(s.t[r].size, s.t[r].granted + s.free)

Filled(s, r) ==
    [s EXCEPT !.t[r].granted = Target(s, r),
              !.free = @ - (Target(s, r) - s.t[r].granted), !.sent = @ + 1]

TooSmall(s, r, t, budget) ==
    Target(s, r) - s.t[r].granted < Worthwhile(budget) /\ Target(s, r) < s.t[r].size
    /\ ~(Outstanding(t) = 0 /\ s.sent = 0)

WalkStep(s, r, t, budget) ==
    IF s.stop \/ s.free <= 0 THEN s
    ELSE IF TooSmall(s, r, t, budget) THEN [s EXCEPT !.stop = TRUE, !.limited = TRUE]
    ELSE Filled(s, r)

\* g is the recursive function of the walk, as far as the candidate n.
IsWalk(g, n, t, budget, free) ==
    g = [i \in 0..n |-> IF i = 0 THEN WalkStart(t, budget, free)
                        ELSE WalkStep(g[i - 1], SortedOf(t)[i], t, budget)]

WalkEnd(t, budget, free) ==
    (CHOOSE g : IsWalk(g, Cardinality(Candidates(t)), t, budget, free))[Cardinality(Candidates(t))]

LEMMA WalkIs ==
    ASSUME NEW t, NEW budget, NEW reserved
    PROVE  LET free == Free(t, budget, reserved)
               last == WalkEnd(t, budget, free)
               w    == Walk(t, budget, reserved)
           IN  /\ w.table = last.t
               /\ w.limited = \/ last.limited
                              \/ /\ free > 0 /\ last.free <= 0
                                 /\ \E r \in Candidates(t) : last.t[r].granted < t[r].size
<1> DEFINE free == Free(t, budget, reserved)
           last == WalkEnd(t, budget, free)
<1>1. Walk(t, budget, reserved)
        = [table |-> last.t,
           limited |-> \/ last.limited
                       \/ /\ free > 0 /\ last.free <= 0
                          /\ \E r \in Candidates(t) : last.t[r].granted < t[r].size]
  BY Zenon DEF Walk, WalkEnd, IsWalk, WalkStep, WalkStart, Filled, TooSmall, Target, Free, SortedOf
<1> HIDE DEF free, last
<1> QED
  BY <1>1 DEF free, last

\* What holds of the first and passes from each to the next holds of all up to n.
LEMMA UpTo ==
    ASSUME NEW n \in Nat, NEW G, 0 \in G, \A i \in 1..n : i - 1 \in G => i \in G
    PROVE  \A i \in 0..n : i \in G
<1> DEFINE Bad == {i \in 0..n : i \notin G}
<1> SUFFICES ASSUME Bad # {} PROVE FALSE
  OBVIOUS
<1>1. PICK k \in Bad : \A j \in Bad : ~(j < k)
  <2>1. Bad \subseteq Nat
    OBVIOUS
  <2>2. IsWellFoundedOn(OpToRel(<, Nat), Nat)
    BY NatLessThanWellFounded
  <2> HIDE DEF Bad
  <2>3. PICK k \in Bad : \A j \in Bad : ~(<<j, k>> \in OpToRel(<, Nat))
    BY <2>1, <2>2, WFMin
  <2> QED
    BY <2>1, <2>3 DEF OpToRel
<1>2. k \in 0..n /\ k # 0 /\ k \notin G
  OBVIOUS
<1>3. k \in 1..n /\ k - 1 \in 0..n /\ k - 1 < k
  BY <1>2
<1>4. k - 1 \in G
  BY <1>1, <1>3
<1> QED
  BY <1>2, <1>3, <1>4

\* The walk can be taken to its end.
LEMMA WalkExists ==
    ASSUME NEW n \in Nat, NEW t, NEW budget, NEW free
    PROVE  \E g : IsWalk(g, n, t, budget, free)
<1> DEFINE next(x, i) == WalkStep(x, SortedOf(t)[i], t, budget)
           start == WalkStart(t, budget, free)
           G == {i \in 0..n : \E g : IsWalk(g, i, t, budget, free)}
<1>1. 0 \in G
  <2> DEFINE g == [i \in 0..0 |-> start]
  <2> HIDE DEF start, next
  <2>1. \A i \in 0..0 : i = 0
    OBVIOUS
  <2>2. g = [i \in 0..0 |-> IF i = 0 THEN start ELSE next(g[i - 1], i)]
    BY <2>1
  <2> HIDE DEF g
  <2>3. IsWalk(g, 0, t, budget, free)
    BY <2>2, Zenon DEF IsWalk, start, next
  <2> QED
    BY <2>3
<1>2. ASSUME NEW k \in 1..n, k - 1 \in G
      PROVE  k \in G
  <2>1. PICK h : IsWalk(h, k - 1, t, budget, free)
    BY <1>2
  <2> DEFINE g == [i \in 0..k |-> IF i = k THEN next(h[k - 1], k) ELSE h[i]]
  <2> HIDE DEF next, start
  <2>2. \A i \in 0..(k - 1) : h[i] = IF i = 0 THEN start ELSE next(h[i - 1], i)
    BY <2>1 DEF IsWalk, next, start
  <2>3. \A i \in 0..k : g[i] = IF i = 0 THEN start ELSE next(g[i - 1], i)
    <3> SUFFICES ASSUME NEW i \in 0..k
                 PROVE  g[i] = IF i = 0 THEN start ELSE next(g[i - 1], i)
      OBVIOUS
    <3>1. CASE i = k
      <4>1. g[i] = next(h[k - 1], k) /\ g[k - 1] = h[k - 1]
        BY <3>1
      <4> QED
        BY <3>1, <4>1
    <3>2. CASE i # k
      <4>1. g[i] = h[i] /\ i \in 0..(k - 1) /\ (i # 0 => g[i - 1] = h[i - 1])
        BY <3>2
      <4> QED
        BY <2>2, <4>1
    <3> QED
      BY <3>1, <3>2
  <2>4. g = [i \in 0..k |-> g[i]]
    OBVIOUS
  <2> HIDE DEF g
  <2>5. g = [i \in 0..k |-> IF i = 0 THEN start ELSE next(g[i - 1], i)]
    BY <2>3, <2>4
  <2>6. IsWalk(g, k, t, budget, free)
    BY <2>5, Zenon DEF IsWalk, start, next
  <2> QED
    BY <2>6
<1> HIDE DEF G
<1>3. n \in G
  BY <1>1, <1>2, UpTo
<1> QED
  BY <1>3 DEF G

\* Along the walk: what is left at the i-th candidate, what it still needs, and what
\* it is given.
LeftAt(t, i, budget, reserved) == LeftFor(t, SortedOf(t)[i], Free(t, budget, reserved))
NeedAt(t, i) == t[SortedOf(t)[i]].size - t[SortedOf(t)[i]].granted
IncAt(t, i, budget, reserved) == Increment(t, SortedOf(t)[i], budget, reserved)

\* The first finds all that is free, each other one what its predecessor did not need.
LEMMA LeftAlong ==
    ASSUME NEW t, TableOK(t), Ordered(t), NEW budget \in Int, NEW reserved \in Int,
           NEW i \in 1..Cardinality(Candidates(t))
    PROVE  LET left == LeftAt(t, i, budget, reserved)
               need == NeedAt(t, i)
               free == Free(t, budget, reserved)
           IN  /\ left \in Int /\ free \in Int /\ left <= free /\ need \in Nat /\ need > 0
               /\ i = 1 => left = free
               /\ i < Cardinality(Candidates(t))
                    => LeftAt(t, i + 1, budget, reserved) = left - need
               /\ IncAt(t, i, budget, reserved)
                    = IF left >= need THEN need
                      ELSE IF left > 0 /\ (left >= Worthwhile(budget)
                                             \/ (Outstanding(t) = 0 /\ i = 1)) THEN left
                      ELSE 0
<1> DEFINE s == SortedOf(t)
           n == Cardinality(Candidates(t))
           r == s[i]
           free == Free(t, budget, reserved)
           B == Before(t, r)
<1>1. /\ n \in Nat /\ s \in [1..n -> Candidates(t)]
      /\ \A k, j \in 1..n : k # j => s[k] # s[j]
      /\ \A k \in 1..n : Before(t, s[k]) = {s[j] : j \in 1..k - 1}
  BY SortedIs
<1>2. r \in Candidates(t) /\ Candidates(t) \subseteq DOMAIN t
  BY <1>1, NeedsNat
<1>3. /\ Needs(t)[r] = NeedAt(t, i) /\ NeedAt(t, i) \in Nat /\ NeedAt(t, i) > 0
  BY <1>2, NeedsNat DEF NeedAt
<1>4. free \in Int /\ LeftFor(t, r, free) \in Int /\ LeftFor(t, r, free) <= free
  BY <1>2, IncrementIs
<1>5. B = {} <=> i = 1
  <2>1. B = {s[j] : j \in 1..i - 1}
    BY <1>1
  <2> QED
    BY <1>1, <2>1
<1>6. i = 1 => LeftFor(t, r, free) = free
  <2>1. SumFunctionOnSet(Needs(t), {}) = 0
    BY SumEmpty
  <2>2. LeftFor(t, r, free) = free - SumFunctionOnSet(Needs(t), B)
    BY BeforeFinite
  <2> HIDE DEF B, free
  <2> QED
    BY <1>4, <1>5, <2>1, <2>2
<1>7. ASSUME i < n
      PROVE  LeftFor(t, s[i + 1], free) = LeftFor(t, r, free) - NeedAt(t, i)
  <2> DEFINE A == Before(t, s[i + 1])
  <2>1. A = {s[j] : j \in 1..i} /\ B = {s[j] : j \in 1..i - 1}
    <3>1. i + 1 \in 1..n /\ (i + 1) - 1 = i
      BY <1>1, <1>7
    <3> QED
      BY <1>1, <3>1
  <2>2. r \in A
    BY <2>1
  <2>3. A \ {r} = B
    <3>1. \A j \in 1..i : s[j] # r <=> j \in 1..i - 1
      BY <1>1
    <3> HIDE DEF r, A, B, s
    <3> QED
      BY <2>1, <3>1
  <2>4. IsFiniteSet(A) /\ A \subseteq Candidates(t)
    BY BeforeFinite
  <2>5. \A x \in A : Needs(t)[x] \in Int
    BY <1>2, <2>4, NeedsNat
  <2>6. /\ LeftFor(t, s[i + 1], free) = free - SumFunctionOnSet(Needs(t), A)
        /\ LeftFor(t, r, free) = free - SumFunctionOnSet(Needs(t), B)
        /\ SumFunctionOnSet(Needs(t), B) \in Nat
    BY BeforeFinite
  <2> HIDE DEF A, B, r, s, free
  <2>7. SumFunctionOnSet(Needs(t), A) = Needs(t)[r] + SumFunctionOnSet(Needs(t), A \ {r})
    BY <2>2, <2>4, <2>5, SumRemove
  <2>8. SumFunctionOnSet(Needs(t), A) = NeedAt(t, i) + SumFunctionOnSet(Needs(t), B)
    BY <1>3, <2>3, <2>7, Zenon
  <2> QED
    BY <1>3, <1>4, <2>6, <2>8
<1>8. IncAt(t, i, budget, reserved)
        = IF LeftFor(t, r, free) >= NeedAt(t, i) THEN NeedAt(t, i)
          ELSE IF LeftFor(t, r, free) > 0
                  /\ (LeftFor(t, r, free) >= Worthwhile(budget)
                        \/ (Outstanding(t) = 0 /\ B = {})) THEN LeftFor(t, r, free)
          ELSE 0
  <2>1. NeedAt(t, i) = Ungranted(t[r])
    BY DEF NeedAt, Ungranted
  <2>2. free = budget - reserved - Outstanding(t)
    BY DEF Free
  <2> HIDE DEF r, B, free
  <2> QED
    BY <1>2, <2>1, <2>2 DEF IncAt, Increment, r, B
<1>9. /\ LeftAt(t, i, budget, reserved) = LeftFor(t, r, free)
      /\ LeftAt(t, i + 1, budget, reserved) = LeftFor(t, s[i + 1], free)
  BY DEF LeftAt
<1> HIDE DEF s, r, free, B
<1> QED
  BY <1>3, <1>4, <1>5, <1>6, <1>7, <1>8, <1>9 DEF n, free

WalkState(t) ==
    [t : [DOMAIN t -> Entry], free : Int, stop : BOOLEAN, sent : Nat, limited : BOOLEAN]

\* What r has been given once the walk has passed i candidates.
GivenBy(t, i, r, budget, reserved) ==
    IF \E j \in 1..i : r = SortedOf(t)[j] THEN Increment(t, r, budget, reserved) ELSE 0

\* Where the walk stands after i candidates: each of them has its increment; while the
\* budget lasts they were all filled and what they left is at hand; once it does not,
\* nothing is left for those to come.
WalkOK(x, i, t, budget, reserved) ==
    LET n    == Cardinality(Candidates(t))
        free == Free(t, budget, reserved)
        out  == x.stop \/ x.free <= 0
    IN  /\ x \in WalkState(t)
        /\ \A r \in DOMAIN t :
             /\ SameButGrant(x.t[r], t[r])
             /\ x.t[r].granted = t[r].granted + GivenBy(t, i, r, budget, reserved)
        /\ x.limited <=> \/ Candidates(t) # {} /\ free < Worthwhile(budget)
                         \/ x.stop
        /\ ~out => /\ x.sent = i /\ free > 0
                   /\ i < n => x.free = LeftAt(t, i + 1, budget, reserved)
                   /\ \A j \in 1..i : IncAt(t, j, budget, reserved) = NeedAt(t, j)
        /\ out /\ i < n => LeftAt(t, i + 1, budget, reserved) <= 0
        /\ x.stop => /\ free > 0
                     /\ \E j \in 1..i : IncAt(t, j, budget, reserved) < NeedAt(t, j)

\* MIN_INCREMENT_BUDGET_SHARE divides the budget.
LEMMA WorthwhileInt == ASSUME NEW budget \in Int PROVE Worthwhile(budget) \in Int
<1> DEFINE q == budget \div BudgetShare
<1>1. q \in Int
  BY GrantAssumption DEF GrantAssumption
<1> HIDE DEF q
<1> QED
  BY <1>1, GrantAssumption DEF GrantAssumption, Worthwhile, Smaller, Larger, q

LEMMA WalkBegins ==
    ASSUME NEW t, TableOK(t), Ordered(t), NEW budget \in Int, NEW reserved \in Int
    PROVE  WalkOK(WalkStart(t, budget, Free(t, budget, reserved)), 0, t, budget, reserved)
<1> DEFINE free == Free(t, budget, reserved)
           x == WalkStart(t, budget, free)
           n == Cardinality(Candidates(t))
<1>1. free \in Int
  BY OutstandingNat DEF Free
<1>2. /\ x.t = t /\ x.free = free /\ x.stop = FALSE /\ x.sent = 0
      /\ x.limited <=> Candidates(t) # {} /\ free < Worthwhile(budget)
      /\ x \in WalkState(t)
  <2>1. t \in [DOMAIN t -> Entry]
    BY DEF TableOK
  <2> HIDE DEF free
  <2> QED
    BY <1>1, <2>1 DEF WalkStart, WalkState
<1>3. \A r \in DOMAIN t : GivenBy(t, 0, r, budget, reserved) = 0
  BY DEF GivenBy
<1>4. \A r \in DOMAIN t : t[r].granted = t[r].granted + 0
  BY DEF TableOK, Entry
<1>5. 0 < n => LeftAt(t, 1, budget, reserved) = free
  <2> SUFFICES ASSUME 0 < n PROVE LeftAt(t, 1, budget, reserved) = free
    OBVIOUS
  <2>1. 1 \in 1..n
    BY SortedIs
  <2> QED
    BY <2>1, LeftAlong
<1> HIDE DEF x, free
<1>6. \A r \in DOMAIN t : SameButGrant(x.t[r], t[r])
  BY <1>2 DEF SameButGrant
<1> QED
  BY <1>1, <1>2, <1>3, <1>4, <1>5, <1>6 DEF WalkOK, n, x, free

\* At a candidate of the walk: who it is, and who has been given what.
LEMMA WalkAt ==
    ASSUME NEW t, TableOK(t), Ordered(t), NEW budget \in Int, NEW reserved \in Int,
           NEW i \in 1..Cardinality(Candidates(t))
    PROVE  LET r == SortedOf(t)[i]
           IN  /\ r \in DOMAIN t
               /\ GivenBy(t, i - 1, r, budget, reserved) = 0
               /\ \A p \in DOMAIN t :
                    GivenBy(t, i, p, budget, reserved)
                      = IF p = r THEN IncAt(t, i, budget, reserved)
                        ELSE GivenBy(t, i - 1, p, budget, reserved)
<1> DEFINE s == SortedOf(t)
           n == Cardinality(Candidates(t))
           r == s[i]
<1>1. /\ n \in Nat /\ s \in [1..n -> Candidates(t)]
      /\ \A k, j \in 1..n : k # j => s[k] # s[j]
  BY SortedIs
<1>2. r \in DOMAIN t
  BY <1>1, NeedsNat
<1>3. \A j \in 1..(i - 1) : r # s[j]
  BY <1>1
<1>4. \A p : (\E j \in 1..i : p = s[j]) <=> (p = r \/ \E j \in 1..(i - 1) : p = s[j])
  <2>1. \A j : j \in 1..i <=> j = i \/ j \in 1..(i - 1)
    BY <1>1
  <2> HIDE DEF s
  <2> QED
    BY <2>1
<1> HIDE DEF s
<1>5. GivenBy(t, i - 1, r, budget, reserved) = 0
  BY <1>3 DEF GivenBy, s
<1>6. ASSUME NEW p \in DOMAIN t
      PROVE  GivenBy(t, i, p, budget, reserved)
               = IF p = r THEN IncAt(t, i, budget, reserved)
                 ELSE GivenBy(t, i - 1, p, budget, reserved)
  BY <1>4 DEF GivenBy, s, IncAt
<1> QED
  BY <1>2, <1>5, <1>6 DEF s

\* One candidate further.
LEMMA WalkGoes ==
    ASSUME NEW t, TableOK(t), Ordered(t), NEW budget \in Int, NEW reserved \in Int,
           NEW i \in 1..Cardinality(Candidates(t)),
           NEW x, WalkOK(x, i - 1, t, budget, reserved)
    PROVE  WalkOK(WalkStep(x, SortedOf(t)[i], t, budget), i, t, budget, reserved)
<1> DEFINE n == Cardinality(Candidates(t))
           free == Free(t, budget, reserved)
           W == Worthwhile(budget)
           r == SortedOf(t)[i]
           left == LeftAt(t, i, budget, reserved)
           next == LeftAt(t, i + 1, budget, reserved)
           need == NeedAt(t, i)
           inc == IncAt(t, i, budget, reserved)
           y == WalkStep(x, r, t, budget)
           given(k, p) == GivenBy(t, k, p, budget, reserved)
           short(j) == IncAt(t, j, budget, reserved) < NeedAt(t, j)
           whole(j) == IncAt(t, j, budget, reserved) = NeedAt(t, j)
<1>1. /\ left \in Int /\ free \in Int /\ left <= free /\ need \in Nat /\ need > 0
      /\ i < n => next = left - need
      /\ inc = IF left >= need THEN need
               ELSE IF left > 0 /\ (left >= W \/ (Outstanding(t) = 0 /\ i = 1)) THEN left
               ELSE 0
  BY LeftAlong
<1>2. /\ r \in DOMAIN t /\ given(i - 1, r) = 0
      /\ \A p \in DOMAIN t : given(i, p) = IF p = r THEN inc ELSE given(i - 1, p)
  BY WalkAt
<1>3. /\ n \in Nat /\ i \in 1..n /\ (i - 1) + 1 = i /\ i - 1 < n
      /\ \A j : j \in 1..i <=> j = i \/ j \in 1..(i - 1)
  BY SortedIs
<1>4. W \in Int
  BY WorthwhileInt
<1>5. /\ x \in WalkState(t)
      /\ \A p \in DOMAIN t : /\ SameButGrant(x.t[p], t[p])
                             /\ x.t[p].granted = t[p].granted + given(i - 1, p)
      /\ x.limited <=> \/ Candidates(t) # {} /\ free < W
                       \/ x.stop
  BY DEF WalkOK
<1>6. ASSUME ~(x.stop \/ x.free <= 0)
      PROVE  x.sent = i - 1 /\ free > 0 /\ x.free = left /\ \A j \in 1..(i - 1) : whole(j)
  BY <1>3, <1>6 DEF WalkOK
<1>7. ASSUME x.stop \/ x.free <= 0
      PROVE  left <= 0
  BY <1>3, <1>7 DEF WalkOK
<1>8. x.stop => free > 0 /\ \E j \in 1..(i - 1) : short(j)
  BY DEF WalkOK
<1>9. need = t[r].size - t[r].granted /\ t[r].size \in Nat /\ t[r].granted \in Nat
  BY <1>2 DEF NeedAt, TableOK, Entry
<1> HIDE DEF n, free, W, r, left, next, need, inc, y, given, short, whole
<1>10. SUFFICES
         /\ y \in WalkState(t)
         /\ \A p \in DOMAIN t : /\ SameButGrant(y.t[p], t[p])
                                /\ y.t[p].granted = t[p].granted + given(i, p)
         /\ y.limited <=> \/ Candidates(t) # {} /\ free < W
                          \/ y.stop
         /\ ~(y.stop \/ y.free <= 0)
              => /\ y.sent = i /\ free > 0
                 /\ i < n => y.free = next
                 /\ \A j \in 1..i : whole(j)
         /\ (y.stop \/ y.free <= 0) /\ i < n => next <= 0
         /\ y.stop => free > 0 /\ \E j \in 1..i : short(j)
  BY DEF WalkOK, n, free, W, r, next, y, given, short, whole
<1>11. CASE x.stop \/ x.free <= 0
  <2>1. y = x
    BY <1>11 DEF y, WalkStep
  <2>2. inc = 0 /\ (i < n => next <= 0)
    BY <1>1, <1>7, <1>11
  <2>3. \A p \in DOMAIN t : given(i, p) = given(i - 1, p)
    BY <1>2, <2>2
  <2> QED
    BY <1>3, <1>5, <1>8, <1>11, <2>1, <2>2, <2>3
<1>12. CASE ~(x.stop \/ x.free <= 0)
  <2>1. /\ x.sent = i - 1 /\ free > 0 /\ x.free = left /\ left > 0
        /\ ~x.stop /\ \A j \in 1..(i - 1) : whole(j)
    BY <1>1, <1>6, <1>12
  <2>2. x.t[r].size = t[r].size /\ x.t[r].granted = t[r].granted
    BY <1>2, <1>5, <1>9 DEF SameButGrant
  <2>3. Target(x, r) = IF left >= need THEN t[r].size ELSE t[r].granted + left
    BY <1>1, <1>9, <2>1, <2>2 DEF Target, Smaller
  <2>4. Target(x, r) - x.t[r].granted = IF left >= need THEN need ELSE left
    BY <1>1, <1>9, <2>2, <2>3
  <2>5. TooSmall(x, r, t, budget) <=> /\ left < need /\ left < W
                                      /\ ~(Outstanding(t) = 0 /\ i = 1)
    <3>1. Target(x, r) < x.t[r].size <=> left < need
      BY <1>1, <1>9, <2>2, <2>3
    <3>2. x.sent = 0 <=> i = 1
      BY <1>3, <2>1
    <3>3. Target(x, r) < x.t[r].size
             => (Target(x, r) - x.t[r].granted < Worthwhile(budget) <=> left < W)
      BY <1>1, <2>4, <3>1 DEF W
    <3> QED
      BY <3>1, <3>2, <3>3 DEF TooSmall
  <2>6. CASE TooSmall(x, r, t, budget)
    <3>1. y = [x EXCEPT !.stop = TRUE, !.limited = TRUE]
      BY <1>12, <2>6 DEF y, WalkStep
    <3>2. y \in WalkState(t) /\ y.t = x.t /\ y.stop = TRUE /\ y.limited = TRUE
      BY <1>5, <3>1 DEF WalkState
    <3>3. inc = 0 /\ short(i) /\ (i < n => next <= 0)
      BY <1>1, <1>4, <2>5, <2>6 DEF short, inc, need
    <3>4. \A p \in DOMAIN t : given(i, p) = given(i - 1, p)
      BY <1>2, <3>3
    <3> QED
      BY <1>3, <1>5, <2>1, <3>2, <3>3, <3>4
  <2>7. CASE ~TooSmall(x, r, t, budget)
    <3>1. y = Filled(x, r)
      BY <1>12, <2>7 DEF y, WalkStep
    <3>2. inc = (IF left >= need THEN need ELSE left) /\ inc \in Nat
      BY <1>1, <1>4, <2>1, <2>5, <2>7
    <3>3. /\ y.stop = FALSE /\ y.limited = x.limited /\ y.sent = i
          /\ y.free = left - inc
      <4>1. y.free = x.free - (Target(x, r) - x.t[r].granted) /\ y.sent = x.sent + 1
            /\ y.stop = x.stop /\ y.limited = x.limited
        BY <1>5, <3>1 DEF Filled, WalkState
      <4> QED
        BY <1>3, <1>5, <2>1, <2>4, <3>2, <4>1 DEF WalkState
    <3>4. /\ y.t \in [DOMAIN t -> Entry] /\ SameButGrant(y.t[r], x.t[r])
          /\ y.t[r].granted = t[r].granted + inc
          /\ \A p \in DOMAIN t : p # r => y.t[p] = x.t[p]
      <4> DEFINE e == [x.t[r] EXCEPT !.granted = Target(x, r)]
      <4>1. y.t = [x.t EXCEPT ![r] = e]
        BY <1>5, <3>1 DEF Filled, WalkState
      <4>2. x.t \in [DOMAIN t -> Entry] /\ x.t[r] \in Entry
        BY <1>2, <1>5 DEF WalkState
      <4>3. Target(x, r) = t[r].granted + inc /\ Target(x, r) \in Nat
        BY <1>1, <1>9, <2>3, <3>2
      <4>4. e \in Entry /\ SameButGrant(e, x.t[r]) /\ e.granted = Target(x, r)
        <5> DEFINE z == Target(x, r)
        <5> HIDE DEF z
        <5> QED
          BY <4>2, <4>3 DEF Entry, SameButGrant, z
      <4> HIDE DEF e
      <4> QED
        BY <1>2, <4>1, <4>2, <4>3, <4>4
    <3>5. y \in WalkState(t)
      <4>1. /\ y.free \in Int /\ y.stop \in BOOLEAN /\ y.limited \in BOOLEAN /\ y.sent \in Nat
        <5>1. y.free \in Int /\ y.sent \in Nat
          BY <1>1, <1>3, <3>2, <3>3
        <5>2. x.limited \in BOOLEAN
          BY <1>5 DEF WalkState
        <5>3. y.stop \in BOOLEAN /\ y.limited \in BOOLEAN
          BY <3>3, <5>2, Zenon
        <5> QED
          BY <5>1, <5>3, Zenon
      <4>2. y = [x EXCEPT !.t = y.t, !.free = y.free, !.sent = y.sent]
        BY <1>5, <3>1 DEF Filled, WalkState
      <4> QED
        BY <1>5, <3>4, <4>1, <4>2 DEF WalkState
    <3>6. ASSUME NEW p \in DOMAIN t
          PROVE  /\ SameButGrant(y.t[p], t[p])
                 /\ y.t[p].granted = t[p].granted + given(i, p)
      <4>1. CASE p = r
        BY <1>2, <1>5, <3>4, <4>1 DEF SameButGrant
      <4>2. CASE p # r
        BY <1>2, <1>5, <3>4, <4>2
      <4> QED
        BY <4>1, <4>2
    <3>7. /\ y.free > 0 => whole(i) /\ (i < n => y.free = next)
          /\ y.free <= 0 => (i < n => next <= 0)
      <4>1. inc = need => whole(i)
        BY DEF whole, inc, need
      <4> QED
        BY <1>1, <2>1, <3>2, <3>3, <4>1
    <3> QED
      BY <1>1, <1>3, <1>5, <2>1, <3>2, <3>3, <3>5, <3>6, <3>7
  <2> QED
    BY <2>6, <2>7
<1> QED
  BY <1>11, <1>12

\* The walk to its end.
LEMMA WalkEnds ==
    ASSUME NEW t, TableOK(t), Ordered(t), NEW budget \in Int, NEW reserved \in Int
    PROVE  WalkOK(WalkEnd(t, budget, Free(t, budget, reserved)), Cardinality(Candidates(t)),
                  t, budget, reserved)
<1> DEFINE n == Cardinality(Candidates(t))
           free == Free(t, budget, reserved)
           g == CHOOSE h : IsWalk(h, n, t, budget, free)
           G == {i \in 0..n : WalkOK(g[i], i, t, budget, reserved)}
<1>1. n \in Nat
  BY SortedIs
<1> HIDE DEF n
<1>2. IsWalk(g, n, t, budget, free)
  BY <1>1, WalkExists
<1> HIDE DEF g
<1>3. /\ \A i \in 1..n : g[i] = WalkStep(g[i - 1], SortedOf(t)[i], t, budget)
      /\ g[0] = WalkStart(t, budget, free)
  <2>1. \A i \in 0..n : g[i] = IF i = 0 THEN WalkStart(t, budget, free)
                               ELSE WalkStep(g[i - 1], SortedOf(t)[i], t, budget)
    BY <1>2 DEF IsWalk
  <2>2. 0 \in 0..n /\ \A i \in 1..n : i \in 0..n /\ i # 0
    BY <1>1
  <2> HIDE DEF free
  <2> QED
    BY <2>1, <2>2
<1>4. 0 \in G
  BY <1>1, <1>3, WalkBegins
<1>5. ASSUME NEW i \in 1..n, i - 1 \in G
      PROVE  i \in G
  <2>1. WalkOK(g[i - 1], i - 1, t, budget, reserved) /\ i \in 0..n
    BY <1>5
  <2>2. WalkOK(WalkStep(g[i - 1], SortedOf(t)[i], t, budget), i, t, budget, reserved)
    BY <2>1, WalkGoes DEF n
  <2>3. WalkOK(g[i], i, t, budget, reserved)
    BY <1>3, <2>2
  <2> QED
    BY <2>1, <2>3
<1> HIDE DEF G
<1>6. n \in G
  <2>1. \A i \in 0..n : i \in G
    BY <1>1, <1>4, <1>5, UpTo
  <2> QED
    BY <1>1, <2>1
<1>7. g[n] = WalkEnd(t, budget, free)
  BY DEF WalkEnd, g, n
<1> QED
  BY <1>6, <1>7 DEF G, n, free

\* A round is what the code's walk makes of it, whatever the table.
LEMMA RoundIsWalk ==
    ASSUME NEW t, TableOK(t), Ordered(t), NEW budget \in Int, NEW reserved \in Int
    PROVE  LET walk == Walk(t, budget, reserved)
           IN  /\ Granted(t, budget, reserved) = walk.table
               /\ BudgetLimited(t, budget, reserved) = walk.limited
<1> DEFINE n == Cardinality(Candidates(t))
           C == Candidates(t)
           s == SortedOf(t)
           free == Free(t, budget, reserved)
           x == WalkEnd(t, budget, free)
           inc(r) == Increment(t, r, budget, reserved)
           poor == C # {} /\ free < Worthwhile(budget)
           u == Granted(t, budget, reserved)
<1>1. WalkOK(x, n, t, budget, reserved)
  BY WalkEnds
<1>2. /\ n \in Nat /\ s \in [1..n -> C]
      /\ \A r \in C : \E i \in 1..n : r = s[i]
      /\ C \subseteq DOMAIN t
  BY SortedIs, NeedsNat
<1>3. \A r \in DOMAIN t : r \notin C => inc(r) = 0
  BY DEF Increment
<1>4. \A r \in DOMAIN t : GivenBy(t, n, r, budget, reserved) = inc(r)
  BY <1>2, <1>3 DEF GivenBy
<1>5. /\ DOMAIN u = DOMAIN t /\ TableOK(u)
      /\ \A r \in DOMAIN t :
           /\ inc(r) \in Nat /\ t[r].granted \in Nat /\ t[r].size \in Nat
           /\ u[r].granted = t[r].granted + inc(r)
           /\ SameButGrant(u[r], t[r])
  BY RoundGives
<1>6. \A j \in 1..n : /\ IncAt(t, j, budget, reserved) = inc(s[j])
                      /\ NeedAt(t, j) = t[s[j]].size - t[s[j]].granted
                      /\ s[j] \in C
  BY <1>2 DEF IncAt, NeedAt
<1>7. /\ x \in WalkState(t)
      /\ \A r \in DOMAIN t : /\ SameButGrant(x.t[r], t[r])
                             /\ x.t[r].granted = t[r].granted + inc(r)
      /\ x.limited <=> poor \/ x.stop
      /\ ~(x.stop \/ x.free <= 0)
            => free > 0 /\ \A j \in 1..n : IncAt(t, j, budget, reserved) = NeedAt(t, j)
      /\ x.stop => /\ free > 0
                   /\ \E j \in 1..n : IncAt(t, j, budget, reserved) < NeedAt(t, j)
  BY <1>1, <1>4 DEF WalkOK
<1>8. BudgetLimited(t, budget, reserved)
        <=> poor \/ (free > 0 /\ \E r \in C : inc(r) < t[r].size - t[r].granted)
  BY DEF BudgetLimited, Free, Ungranted
<1> DEFINE w == Walk(t, budget, reserved)
<1>9. /\ w.table = x.t
      /\ w.limited = \/ x.limited
                     \/ /\ free > 0 /\ x.free <= 0
                        /\ \E r \in C : x.t[r].granted < t[r].size
  BY WalkIs
<1> HIDE DEF n, C, s, free, x, inc, poor, u, w
<1>10. u = x.t
  <2>1. ASSUME NEW r \in DOMAIN t
        PROVE  u[r] = x.t[r]
    <3>1. u[r] \in Entry /\ x.t[r] \in Entry
      BY <1>5, <1>7 DEF TableOK, WalkState
    <3>2. u[r].granted = x.t[r].granted
      BY <1>5, <1>7
    <3>3. SameButGrant(u[r], t[r]) /\ SameButGrant(x.t[r], t[r])
      BY <1>5, <1>7
    <3> QED
      BY <3>1, <3>2, <3>3 DEF Entry, SameButGrant
  <2>2. u = [r \in DOMAIN t |-> u[r]]
    BY <1>5 DEF TableOK
  <2>3. x.t = [r \in DOMAIN t |-> x.t[r]]
    BY <1>7 DEF WalkState
  <2> QED
    BY <2>1, <2>2, <2>3
<1>11. \A r \in C : x.t[r].granted < t[r].size <=> inc(r) < t[r].size - t[r].granted
  BY <1>2, <1>5, <1>7
<1>12. x.stop => free > 0 /\ \E r \in C : inc(r) < t[r].size - t[r].granted
  BY <1>6, <1>7
<1>13. ~(x.stop \/ x.free <= 0) => \A r \in C : inc(r) = t[r].size - t[r].granted
  BY <1>2, <1>6, <1>7
<1>14. w.limited <=> poor \/ (free > 0 /\ \E r \in C : inc(r) < t[r].size - t[r].granted)
  <2>1. w.limited <=> \/ x.limited
                      \/ /\ free > 0 /\ x.free <= 0
                         /\ \E r \in C : x.t[r].granted < t[r].size
    BY <1>9
  <2>2. ~(x.stop \/ x.free <= 0) => ~\E r \in C : inc(r) < t[r].size - t[r].granted
    BY <1>2, <1>5, <1>13
  <2> QED
    BY <1>7, <1>11, <1>12, <2>1, <2>2
<1>15. BudgetLimited(t, budget, reserved) = w.limited
  <2>1. BudgetLimited(t, budget, reserved) <=> w.limited
    BY <1>8, <1>14
  <2>2. BudgetLimited(t, budget, reserved) \in BOOLEAN
    BY DEF BudgetLimited
  <2>3. w.limited \in BOOLEAN
    BY <1>9
  <2> QED
    BY <2>1, <2>2, <2>3
<1> QED
  BY <1>9, <1>10, <1>15 DEF u, w

-----------------------------------------------------------------------------
(* The theorems. *)

\* The table stays well formed and in the order of arrival through all that the
\* scheduler's callers do (add, remove, onData, setPaused, grants).
THEOREM SchedInvariant == Spec => []SchedInv
<1>1. ASSUME SchedInv, [Next]_vars
      PROVE  SchedInv'
  <2>1. CASE UNCHANGED vars
    BY <1>1, <2>1 DEF vars, SchedInv, TableOK, Ordered
  <2> QED
    BY <1>1, <2>1, RoundStep, AddStep, RemoveStep, OnDataStep, SetPausedStep DEF Next
<1> QED
  BY <1>1, InitSchedInv, PTL DEF Spec

\* No rpc is granted more than its size or receives more than it was granted
\* (add clips the initial grant; grants() stops at the size).
THEOREM Typed == Spec => []TypeOK
<1>1. SchedInv => TypeOK
  BY DEF SchedInv, TableOK, TypeOK
<1> QED
  BY <1>1, SchedInvariant, PTL

\* A round that grants anything keeps what is in flight, the reserved initial
\* grants included, within the budget (grants()).
THEOREM WithinBudgetHolds == Spec => WithinBudget
<1> DEFINE Step == \A b \in Budgets, q \in Reservations :
                      Grants(b, q) /\ table' # table => Outstanding(table') + q <= b
<1>1. SchedInv => Step
  <2> SUFFICES ASSUME SchedInv, NEW b \in Budgets, NEW q \in Reservations,
                      Grants(b, q), table' # table
               PROVE  Outstanding(table') + q <= b
    OBVIOUS
  <2>1. /\ b \in Int /\ q \in Int /\ TableOK(table) /\ Ordered(table)
        /\ table' = Granted(table, b, q)
    BY RoundFinds
  <2>2. PICK r \in DOMAIN table : Increment(table, r, b, q) > 0
    BY <2>1, RoundChanges
  <2> QED
    BY <2>1, <2>2, RoundFits
<1>2. SchedInv => [Step]_vars
  BY <1>1
<1>3. WithinBudget <=> [][Step]_vars
  BY DEF WithinBudget
<1> HIDE DEF Step
<1> QED
  BY <1>2, <1>3, SchedInvariant, PTL

\* An rpc gets a grant in a round only if each one ahead of it is granted whole.
THEOREM ShortestFirstHolds == Spec => ShortestFirst
<1> DEFINE Step == \A b \in Budgets, q \in Reservations : Grants(b, q) =>
                      \A r, p \in Candidates(table) :
                         table'[r].granted > table[r].granted /\ Ahead(table, p, r)
                             => table'[p].granted = table[p].size
<1>1. SchedInv => Step
  <2> SUFFICES ASSUME SchedInv, NEW b \in Budgets, NEW q \in Reservations, Grants(b, q),
                      NEW r \in Candidates(table), NEW p \in Candidates(table),
                      table'[r].granted > table[r].granted, Ahead(table, p, r)
               PROVE  table'[p].granted = table[p].size
    OBVIOUS
  <2>1. b \in Int /\ q \in Int /\ TableOK(table) /\ table' = Granted(table, b, q)
    BY RoundFinds
  <2>2. r \in DOMAIN table /\ p \in DOMAIN table
    BY DEF Candidates
  <2>3. ASSUME NEW s \in DOMAIN table
        PROVE  /\ table'[s].granted = table[s].granted + Increment(table, s, b, q)
               /\ table[s].granted \in Nat /\ table[s].size \in Nat
               /\ Increment(table, s, b, q) \in Nat
    BY RoundLeaves
  <2>4. Increment(table, r, b, q) > 0
    BY <2>2, <2>3
  <2>5. Increment(table, p, b, q) = table[p].size - table[p].granted
    BY <2>1, <2>4, RoundInOrder
  <2> QED
    BY <2>2, <2>3, <2>5
<1>2. SchedInv => [Step]_vars
  BY <1>1
<1>3. ShortestFirst <=> [][Step]_vars
  BY DEF ShortestFirst
<1> HIDE DEF Step
<1> QED
  BY <1>2, <1>3, SchedInvariant, PTL

\* With nothing in flight, a round with budget to spare grants something to
\* somebody who wants it, however small the grant.
THEOREM NeverWedgedHolds == Spec => NeverWedged
<1> DEFINE Step == \A b \in Budgets, q \in Reservations :
                      Grants(b, q) /\ Outstanding(table) = 0 /\ q < b /\ Candidates(table) # {}
                          => table' # table
<1>1. SchedInv => Step
  <2> SUFFICES ASSUME SchedInv, NEW b \in Budgets, NEW q \in Reservations, Grants(b, q),
                      Outstanding(table) = 0, q < b, Candidates(table) # {}
               PROVE  table' # table
    OBVIOUS
  <2>1. b \in Int /\ q \in Int /\ TableOK(table) /\ table' = Granted(table, b, q)
    BY RoundFinds
  <2>2. PICK r \in Candidates(table) : Increment(table, r, b, q) > 0
    BY <2>1, RoundRestarts
  <2>3. r \in DOMAIN table
    BY DEF Candidates
  <2>4. /\ table'[r].granted = table[r].granted + Increment(table, r, b, q)
        /\ Increment(table, r, b, q) \in Nat /\ table[r].granted \in Nat
    BY <2>3, RoundLeaves
  <2> QED
    BY <2>2, <2>4
<1>2. SchedInv => [Step]_vars
  BY <1>1
<1>3. NeverWedged <=> [][Step]_vars
  BY DEF NeverWedged
<1> HIDE DEF Step
<1> QED
  BY <1>2, <1>3, SchedInvariant, PTL

\* A round gives each rpc what grants() gives it, walking over the candidates in
\* order, and calls the budget the limit exactly when grants() does.
THEOREM AsTheWalkGrantsHolds == Spec => AsTheWalkGrants
<1> DEFINE Step == \A b \in Budgets, q \in Reservations :
                      Grants(b, q) => LET walk == Walk(table, b, q)
                                      IN  table' = walk.table /\ limited' = walk.limited
<1>1. SchedInv => Step
  <2> SUFFICES ASSUME SchedInv, NEW b \in Budgets, NEW q \in Reservations, Grants(b, q)
               PROVE  LET walk == Walk(table, b, q)
                      IN  table' = walk.table /\ limited' = walk.limited
    OBVIOUS
  <2>1. b \in Int /\ q \in Int /\ TableOK(table) /\ Ordered(table)
    BY RoundFinds
  <2>2. table' = Granted(table, b, q) /\ limited' = BudgetLimited(table, b, q)
    BY DEF Grants
  <2> QED
    BY <2>1, <2>2, RoundIsWalk
<1>2. SchedInv => [Step]_vars
  BY <1>1
<1>3. AsTheWalkGrants <=> [][Step]_vars
  BY DEF AsTheWalkGrants
<1> HIDE DEF Step
<1> QED
  BY <1>2, <1>3, SchedInvariant, PTL
=============================================================================
