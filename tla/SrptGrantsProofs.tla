-------------------------- MODULE SrptGrantsProofs --------------------------
(***************************************************************************)
(* Facts about one round of grants (module SrptGrants), for any table: how *)
(* much a round gives each rpc, that it stays within the budget, that it   *)
(* serves the most urgent first, and that it does not leave an idle        *)
(* session without a grant.                                                *)
(*                                                                         *)
(* All of them rest on sums over finite sets.  SumFunctionOnSet is a       *)
(* recursive function, so that nothing can be computed from it before it   *)
(* is known to exist; the first part shows that, and the usual laws of     *)
(* sums.  In place of an induction each takes a smallest counterexample    *)
(* (SmallestSubset), as the strict inclusion of finite sets is             *)
(* well-founded.                                                           *)
(***************************************************************************)
EXTENDS SrptGrants, FiniteSetTheorems, WellFoundedInduction, TLAPS

-----------------------------------------------------------------------------
(* Sums. *)

\* An arbitrary element, as the fold takes it.
Some(s) == CHOOSE x \in s : TRUE

\* g is the recursive function the fold of f over the subsets of S defines.
IsSum(g, f, S) ==
    g = [s \in SUBSET S |-> IF s = {} THEN 0 ELSE f[Some(s)] + g[s \ {Some(s)}]]

\* The sum is what the community modules' fold computes.
LEMMA SumIsChosen ==
    ASSUME NEW f, NEW S
    PROVE  SumFunctionOnSet(f, S) = (CHOOSE g : IsSum(g, f, S))[S]
  BY DEF SumFunctionOnSet, FoldFunctionOnSet, MapThenFoldSet, IsSum, Some

LEMMA SomeIn == ASSUME NEW s, s # {} PROVE Some(s) \in s
  BY DEF Some

\* Among some subsets of a finite set there is one that includes no other.
LEMMA SmallestSubset ==
    ASSUME NEW S, IsFiniteSet(S), NEW T, T \subseteq SUBSET S, T # {}
    PROVE  \E s \in T : \A u \in T : ~(u \subseteq s /\ u # s)
<1> DEFINE R == StrictSubsetOrdering(S)
<1>1. FiniteSubsetsOf(S) = SUBSET S
  BY FS_FiniteSubsetsOfFinite
<1>2. IsWellFoundedOn(R, SUBSET S)
  BY <1>1, FS_StrictSubsetOrderingWellFounded
<1>3. \A u, s \in SUBSET S : u \subseteq s /\ u # s => <<u, s>> \in R
  BY DEF StrictSubsetOrdering
<1> HIDE DEF R
<1>4. PICK s \in T : \A u \in T : ~(<<u, s>> \in R)
  BY <1>2, WFMin
<1> QED
  BY <1>3, <1>4

\* Two sums of f agree wherever both are defined.
LEMMA SumUnique ==
    ASSUME NEW f, NEW S, NEW T, NEW g, NEW h, IsSum(g, f, S), IsSum(h, f, T),
           NEW U, U \subseteq S, U \subseteq T, IsFiniteSet(U)
    PROVE  g[U] = h[U]
<1> DEFINE Bad == {s \in SUBSET U : g[s] # h[s]}
<1> SUFFICES ASSUME g[U] # h[U] PROVE FALSE
  OBVIOUS
<1>1. PICK s \in Bad : \A u \in Bad : ~(u \subseteq s /\ u # s)
  <2>1. Bad # {} /\ Bad \subseteq SUBSET U
    OBVIOUS
  <2> HIDE DEF Bad
  <2> QED
    BY <2>1, SmallestSubset
<1>2. s \in SUBSET S /\ s \in SUBSET T
  OBVIOUS
<1>3. g[s] = IF s = {} THEN 0 ELSE f[Some(s)] + g[s \ {Some(s)}]
  BY <1>2 DEF IsSum
<1>4. h[s] = IF s = {} THEN 0 ELSE f[Some(s)] + h[s \ {Some(s)}]
  BY <1>2 DEF IsSum
<1>5. CASE s = {}
  BY <1>3, <1>4, <1>5
<1>6. CASE s # {}
  <2>1. Some(s) \in s
    BY <1>6, SomeIn
  <2>2. g[s \ {Some(s)}] = h[s \ {Some(s)}]
    BY <1>1, <2>1
  <2> QED
    BY <1>3, <1>4, <1>6, <2>2
<1> QED
  BY <1>5, <1>6

\* A finite set has a sum.
LEMMA SumExists ==
    ASSUME NEW f, NEW S, IsFiniteSet(S)
    PROVE  \E g : IsSum(g, f, S)
<1> DEFINE Bad == {U \in SUBSET S : ~\E g : IsSum(g, f, U)}
<1> SUFFICES ASSUME ~\E g : IsSum(g, f, S) PROVE FALSE
  OBVIOUS
<1>1. PICK U \in Bad : \A W \in Bad : ~(W \subseteq U /\ W # U)
  <2>1. Bad # {} /\ Bad \subseteq SUBSET S
    OBVIOUS
  <2> HIDE DEF Bad
  <2> QED
    BY <2>1, SmallestSubset
<1> DEFINE v(W) == SumFunctionOnSet(f, W)
           G(W) == CHOOSE g : IsSum(g, f, W)
           val(s) == IF s = {} THEN 0 ELSE f[Some(s)] + v(s \ {Some(s)})
<1>2. ASSUME NEW W \in SUBSET U, W # U
      PROVE  IsSum(G(W), f, W) /\ v(W) = G(W)[W] /\ IsFiniteSet(W)
  <2>1. \E g : IsSum(g, f, W)
    BY <1>1, <1>2
  <2>2. IsFiniteSet(W)
    BY FS_Subset
  <2>3. v(W) = G(W)[W]
    BY SumIsChosen
  <2> QED
    BY <2>1, <2>2, <2>3
<1>3. ASSUME NEW W \in SUBSET U, W # U
      PROVE  v(W) = val(W)
  <2>1. G(W)[W] = IF W = {} THEN 0 ELSE f[Some(W)] + G(W)[W \ {Some(W)}]
    <3>1. IsSum(G(W), f, W)
      BY <1>2, <1>3
    <3> HIDE DEF G
    <3> QED
      BY <3>1 DEF IsSum
  <2>2. CASE W = {}
    BY <1>2, <1>3, <2>1, <2>2
  <2>3. CASE W # {}
    <3> DEFINE Y == W \ {Some(W)}
    <3>1. Some(W) \in W /\ Y \subseteq W /\ Y \in SUBSET U /\ Y # U
      BY <2>3, SomeIn
    <3>2. IsSum(G(W), f, W) /\ v(W) = G(W)[W]
      BY <1>2, <1>3
    <3>3. IsSum(G(Y), f, Y) /\ v(Y) = G(Y)[Y] /\ IsFiniteSet(Y)
      BY <1>2, <3>1
    <3> HIDE DEF Y, G, v
    <3>4. G(W)[Y] = G(Y)[Y]
      BY <3>1, <3>2, <3>3, SumUnique
    <3> QED
      BY <2>1, <2>3, <3>2, <3>3, <3>4 DEF Y
  <2> QED
    BY <2>2, <2>3
<1> DEFINE g == [s \in SUBSET U |-> val(s)]
<1>4. ASSUME NEW s \in SUBSET U
      PROVE  g[s] = IF s = {} THEN 0 ELSE f[Some(s)] + g[s \ {Some(s)}]
  <2>1. CASE s = {}
    BY <2>1
  <2>2. CASE s # {}
    <3> DEFINE Y == s \ {Some(s)}
    <3>1. Y \in SUBSET U /\ Y # U
      BY <2>2, SomeIn
    <3>2. g[Y] = val(Y)
      BY <3>1
    <3>3. v(Y) = val(Y)
      BY <1>3, <3>1
    <3>4. g[s] = f[Some(s)] + v(Y)
      BY <2>2
    <3> HIDE DEF g, val, v
    <3> QED
      BY <2>2, <3>2, <3>3, <3>4
  <2> QED
    BY <2>1, <2>2
<1>5. IsSum(g, f, U)
  <2>1. g = [s \in SUBSET U |-> g[s]]
    OBVIOUS
  <2> HIDE DEF g
  <2> QED
    BY <1>4, <2>1 DEF IsSum
<1> HIDE DEF g
<1> QED
  BY <1>1, <1>5

\* Nothing sums to zero.
LEMMA SumEmpty == ASSUME NEW f PROVE SumFunctionOnSet(f, {}) = 0
<1>1. IsFiniteSet({})
  BY FS_EmptySet
<1>2. IsSum(CHOOSE g : IsSum(g, f, {}), f, {})
  BY <1>1, SumExists
<1>3. (CHOOSE g : IsSum(g, f, {}))[{}] = 0
  BY <1>2 DEF IsSum
<1> QED
  BY <1>3, SumIsChosen

\* The recursion of the fold: one element, and the rest.
LEMMA SumStep ==
    ASSUME NEW f, NEW S, IsFiniteSet(S), S # {}
    PROVE  SumFunctionOnSet(f, S) = f[Some(S)] + SumFunctionOnSet(f, S \ {Some(S)})
<1> DEFINE Y == S \ {Some(S)}
           g == CHOOSE x : IsSum(x, f, S)
           h == CHOOSE x : IsSum(x, f, Y)
<1>1. IsSum(g, f, S)
  BY SumExists
<1>2. Y \subseteq S /\ IsFiniteSet(Y)
  BY FS_Subset
<1>3. IsSum(h, f, Y)
  <2> HIDE DEF Y
  <2> QED
    BY <1>2, SumExists
<1>4. SumFunctionOnSet(f, S) = g[S] /\ SumFunctionOnSet(f, Y) = h[Y]
  BY SumIsChosen
<1> HIDE DEF g, h, Y
<1>5. g[Y] = h[Y]
  BY <1>1, <1>2, <1>3, SumUnique
<1>6. g[S] = f[Some(S)] + g[S \ {Some(S)}]
  BY <1>1 DEF IsSum
<1> QED
  BY <1>4, <1>5, <1>6 DEF Y

\* Integers sum to an integer.
LEMMA SumType ==
    ASSUME NEW S, IsFiniteSet(S), NEW f, \A x \in S : f[x] \in Int
    PROVE  SumFunctionOnSet(f, S) \in Int
<1> DEFINE Bad == {s \in SUBSET S : SumFunctionOnSet(f, s) \notin Int}
<1> SUFFICES ASSUME SumFunctionOnSet(f, S) \notin Int PROVE FALSE
  OBVIOUS
<1>1. PICK s \in Bad : \A u \in Bad : ~(u \subseteq s /\ u # s)
  <2>1. Bad # {} /\ Bad \subseteq SUBSET S
    OBVIOUS
  <2> HIDE DEF Bad
  <2> QED
    BY <2>1, SmallestSubset
<1>2. s # {}
  BY SumEmpty
<1>3. IsFiniteSet(s)
  BY FS_Subset
<1> DEFINE c == Some(s)
<1>4. SumFunctionOnSet(f, s) = f[c] + SumFunctionOnSet(f, s \ {c})
  BY <1>2, <1>3, SumStep
<1>5. c \in s
  BY <1>2, SomeIn
<1>6. SumFunctionOnSet(f, s \ {c}) \in Int /\ f[c] \in Int
  BY <1>1, <1>5
<1> QED
  BY <1>1, <1>4, <1>6

\* Any element may be taken out of a sum, not only the one the fold takes.
LEMMA SumRemove ==
    ASSUME NEW S, IsFiniteSet(S), NEW f, \A x \in S : f[x] \in Int, NEW e \in S
    PROVE  SumFunctionOnSet(f, S) = f[e] + SumFunctionOnSet(f, S \ {e})
<1> DEFINE Sum(s) == SumFunctionOnSet(f, s)
           Bad == {s \in SUBSET S : \E x \in s : Sum(s) # f[x] + Sum(s \ {x})}
<1> SUFFICES ASSUME S \in Bad PROVE FALSE
  OBVIOUS
<1>1. PICK s \in Bad : \A u \in Bad : ~(u \subseteq s /\ u # s)
  <2>1. Bad # {} /\ Bad \subseteq SUBSET S
    OBVIOUS
  <2> HIDE DEF Bad
  <2> QED
    BY <2>1, SmallestSubset
<1>2. ASSUME NEW u, u \subseteq s, u # s, NEW y \in u
      PROVE  Sum(u) = f[y] + Sum(u \ {y})
  BY <1>2, <1>1
<1>3. PICK x \in s : Sum(s) # f[x] + Sum(s \ {x})
  OBVIOUS
<1> DEFINE c == Some(s)
<1>4. IsFiniteSet(s) /\ IsFiniteSet(s \ {x}) /\ IsFiniteSet((s \ {c}) \ {x})
  BY FS_Subset
<1>5. Sum(s) = f[c] + Sum(s \ {c})
  BY <1>4, SumStep
<1>6. c \in s
  BY SomeIn
<1>7. c # x
  BY <1>3, <1>5
<1>8. Sum(s \ {c}) = f[x] + Sum((s \ {c}) \ {x})
  <2>1. s \ {c} \subseteq s /\ s \ {c} # s /\ x \in s \ {c}
    BY <1>6, <1>7
  <2> HIDE DEF c, Bad
  <2> QED
    BY <1>2, <2>1
<1>9. Sum((s \ {c}) \ {x}) \in Int /\ f[x] \in Int /\ f[c] \in Int
  <2>1. (s \ {c}) \ {x} \subseteq S
    OBVIOUS
  <2> HIDE DEF c
  <2>2. Sum((s \ {c}) \ {x}) \in Int
    BY <1>4, <2>1, SumType
  <2> QED
    BY <1>3, <1>6, <2>2
<1>10. Sum(s \ {x}) = f[c] + Sum((s \ {x}) \ {c})
  <2>1. s \ {x} \subseteq s /\ s \ {x} # s /\ c \in s \ {x}
    BY <1>6, <1>7
  <2> HIDE DEF c, Bad
  <2> QED
    BY <1>2, <2>1
<1>11. (s \ {x}) \ {c} = (s \ {c}) \ {x}
  OBVIOUS
<1> QED
  BY <1>3, <1>5, <1>8, <1>9, <1>10, <1>11

\* Induction on a finite set, with the set of the good subsets for a predicate.
LEMMA GoodSubsets ==
    ASSUME NEW S, IsFiniteSet(S), NEW G, {} \in G,
           \A s \in SUBSET S, x \in S : x \in s /\ s \ {x} \in G => s \in G
    PROVE  S \in G
<1> DEFINE Bad == {s \in SUBSET S : s \notin G}
<1> SUFFICES ASSUME S \notin G PROVE FALSE
  OBVIOUS
<1>1. PICK s \in Bad : \A u \in Bad : ~(u \subseteq s /\ u # s)
  <2>1. Bad # {} /\ Bad \subseteq SUBSET S
    OBVIOUS
  <2> HIDE DEF Bad
  <2> QED
    BY <2>1, SmallestSubset
<1>2. PICK x \in s : TRUE
  OBVIOUS
<1>3. s \ {x} \in G
  BY <1>1
<1> QED
  BY <1>3

\* Naturals sum to a natural.
LEMMA SumNat ==
    ASSUME NEW S, IsFiniteSet(S), NEW f, \A x \in S : f[x] \in Nat
    PROVE  SumFunctionOnSet(f, S) \in Nat
<1> DEFINE G == {s \in SUBSET S : SumFunctionOnSet(f, s) \in Nat}
<1>1. {} \in G
  BY SumEmpty
<1>2. ASSUME NEW s \in SUBSET S, NEW x \in S, x \in s, s \ {x} \in G
      PROVE  s \in G
  <2>1. IsFiniteSet(s)
    BY FS_Subset
  <2>2. SumFunctionOnSet(f, s) = f[x] + SumFunctionOnSet(f, s \ {x})
    BY <1>2, <2>1, SumRemove
  <2> QED
    BY <1>2, <2>2
<1> HIDE DEF G
<1>3. S \in G
  BY <1>1, <1>2, GoodSubsets
<1> QED
  BY <1>3 DEF G

\* The sum of smaller terms is smaller.
LEMMA SumMonotone ==
    ASSUME NEW S, IsFiniteSet(S), NEW f, NEW g,
           \A x \in S : f[x] \in Int /\ g[x] \in Int /\ f[x] <= g[x]
    PROVE  SumFunctionOnSet(f, S) <= SumFunctionOnSet(g, S)
<1> DEFINE G == {s \in SUBSET S : SumFunctionOnSet(f, s) <= SumFunctionOnSet(g, s)}
<1>1. {} \in G
  BY SumEmpty
<1>2. ASSUME NEW s \in SUBSET S, NEW x \in S, x \in s, s \ {x} \in G
      PROVE  s \in G
  <2>1. IsFiniteSet(s) /\ IsFiniteSet(s \ {x})
    BY FS_Subset
  <2>2. SumFunctionOnSet(f, s) = f[x] + SumFunctionOnSet(f, s \ {x})
    BY <1>2, <2>1, SumRemove
  <2>3. SumFunctionOnSet(g, s) = g[x] + SumFunctionOnSet(g, s \ {x})
    BY <1>2, <2>1, SumRemove
  <2>4. SumFunctionOnSet(f, s \ {x}) \in Int /\ SumFunctionOnSet(g, s \ {x}) \in Int
    BY <2>1, SumType
  <2> QED
    BY <1>2, <2>2, <2>3, <2>4
<1> HIDE DEF G
<1>3. S \in G
  BY <1>1, <1>2, GoodSubsets
<1> QED
  BY <1>3 DEF G

\* The sum of the terms' sums is the sum of the sums.
LEMMA SumPlus ==
    ASSUME NEW S, IsFiniteSet(S), NEW f, NEW g, NEW h,
           \A x \in S : f[x] \in Int /\ g[x] \in Int /\ h[x] = f[x] + g[x]
    PROVE  SumFunctionOnSet(h, S) = SumFunctionOnSet(f, S) + SumFunctionOnSet(g, S)
<1> DEFINE G == {s \in SUBSET S : SumFunctionOnSet(h, s)
                                    = SumFunctionOnSet(f, s) + SumFunctionOnSet(g, s)}
<1>1. {} \in G
  BY SumEmpty
<1>2. ASSUME NEW s \in SUBSET S, NEW x \in S, x \in s, s \ {x} \in G
      PROVE  s \in G
  <2>1. IsFiniteSet(s) /\ IsFiniteSet(s \ {x})
    BY FS_Subset
  <2>2. SumFunctionOnSet(f, s) = f[x] + SumFunctionOnSet(f, s \ {x})
    BY <1>2, <2>1, SumRemove
  <2>3. SumFunctionOnSet(g, s) = g[x] + SumFunctionOnSet(g, s \ {x})
    BY <1>2, <2>1, SumRemove
  <2>4. SumFunctionOnSet(h, s) = h[x] + SumFunctionOnSet(h, s \ {x})
    <3>1. \A y \in s : h[y] \in Int
      OBVIOUS
    <3> QED
      BY <1>2, <2>1, <3>1, SumRemove
  <2>5. SumFunctionOnSet(f, s \ {x}) \in Int /\ SumFunctionOnSet(g, s \ {x}) \in Int
    BY <2>1, SumType
  <2> QED
    BY <1>2, <2>2, <2>3, <2>4, <2>5
<1> HIDE DEF G
<1>3. S \in G
  BY <1>1, <1>2, GoodSubsets
<1> QED
  BY <1>3 DEF G

\* Terms that are zero may be left out.
LEMMA SumWithout ==
    ASSUME NEW S, IsFiniteSet(S), NEW f, \A x \in S : f[x] \in Int,
           NEW T \in SUBSET S, \A x \in S \ T : f[x] = 0
    PROVE  SumFunctionOnSet(f, S) = SumFunctionOnSet(f, T)
<1> DEFINE Sum(s) == SumFunctionOnSet(f, s)
           G == {s \in SUBSET S : Sum(s) = Sum(s \cap T)}
<1>1. {} \in G
  <2>1. {} \cap T = {}
    OBVIOUS
  <2> QED
    BY <2>1
<1>2. ASSUME NEW s \in SUBSET S, NEW x \in S, x \in s, s \ {x} \in G
      PROVE  s \in G
  <2>1. IsFiniteSet(s) /\ IsFiniteSet(s \cap T) /\ IsFiniteSet((s \ {x}) \cap T)
    BY FS_Subset
  <2>2. Sum(s) = f[x] + Sum(s \ {x})
    BY <1>2, <2>1, SumRemove
  <2>3. Sum(s \ {x}) = Sum((s \ {x}) \cap T)
    BY <1>2
  <2>4. Sum((s \ {x}) \cap T) \in Int
    BY <2>1, SumType
  <2>5. CASE x \in T
    <3>1. (s \cap T) \ {x} = (s \ {x}) \cap T /\ x \in s \cap T
      BY <1>2, <2>5
    <3>2. Sum(s \cap T) = f[x] + Sum((s \cap T) \ {x})
      BY <2>1, <3>1, SumRemove
    <3> QED
      BY <2>2, <2>3, <3>1, <3>2
  <2>6. CASE x \notin T
    <3>1. s \cap T = (s \ {x}) \cap T
      BY <2>6
    <3>2. f[x] = 0
      BY <2>6
    <3>3. Sum(s) = Sum((s \ {x}) \cap T)
      BY <2>2, <2>3, <2>4, <3>2
    <3>4. Sum(s) = Sum(s \cap T)
      BY <3>1, <3>3, Zenon
    <3> QED
      BY <3>4
  <2> QED
    BY <2>5, <2>6
<1> HIDE DEF G
<1>3. S \in G
  BY <1>1, <1>2, GoodSubsets
<1>4. S \cap T = T
  OBVIOUS
<1> QED
  BY <1>3, <1>4 DEF G

-----------------------------------------------------------------------------
(* What a round gives each rpc. *)

\* A table as the scheduler keeps it: finitely many rpcs, none granted more than
\* its size.
TableOK(t) ==
    /\ IsFiniteSet(DOMAIN t) /\ t \in [DOMAIN t -> Entry]
    /\ \A r \in DOMAIN t : t[r].granted <= t[r].size

\* SrptScheduler.seq: no two rpcs were added at once.
Ordered(t) == \A p, r \in DOMAIN t : p # r => t[p].seq # t[r].seq

Free(t, budget, reserved) == budget - reserved - Outstanding(t)
Needs(t)                  == [p \in DOMAIN t |-> Ungranted(t[p])]
Increments(t, budget, reserved) ==
    [r \in DOMAIN t |-> Increment(t, r, budget, reserved)]

\* What is in flight is a natural number, and so is each rpc's part of it.
LEMMA OutstandingNat ==
    ASSUME NEW t, TableOK(t)
    PROVE  Outstanding(t) \in Nat /\ \A r \in DOMAIN t : Unreceived(t[r]) \in Nat
<1> DEFINE f == [r \in DOMAIN t |-> Unreceived(t[r])]
<1>1. \A r \in DOMAIN t : Unreceived(t[r]) \in Nat
  BY DEF TableOK, Entry, Unreceived, Larger
<1>2. \A r \in DOMAIN t : f[r] \in Nat
  BY <1>1
<1>3. Outstanding(t) = SumFunctionOnSet(f, DOMAIN t)
  BY DEF Outstanding, SumFunction
<1> HIDE DEF f
<1> QED
  BY <1>1, <1>2, <1>3, SumNat DEF TableOK

\* An rpc needs no less than nothing, and a candidate needs something.
LEMMA NeedsNat ==
    ASSUME NEW t, TableOK(t)
    PROVE  /\ IsFiniteSet(Candidates(t)) /\ Candidates(t) \subseteq DOMAIN t
           /\ \A r \in DOMAIN t : /\ Needs(t)[r] = t[r].size - t[r].granted
                                  /\ Needs(t)[r] \in Nat
                                  /\ r \in Candidates(t) => Needs(t)[r] > 0
<1>1. Candidates(t) \subseteq DOMAIN t
  BY DEF Candidates
<1>2. IsFiniteSet(Candidates(t))
  BY <1>1, FS_Subset DEF TableOK
<1>3. \A r \in DOMAIN t : t[r] \in Entry /\ t[r].granted <= t[r].size
  BY DEF TableOK
<1> QED
  BY <1>1, <1>2, <1>3 DEF Needs, Ungranted, Candidates, Entry

\* What the rpcs ahead of r need is a number, and LeftFor is the rest.
LEMMA BeforeFinite ==
    ASSUME NEW t, TableOK(t), NEW r
    PROVE  /\ IsFiniteSet(Before(t, r)) /\ Before(t, r) \subseteq Candidates(t)
           /\ SumFunctionOnSet(Needs(t), Before(t, r)) \in Nat
           /\ \A free : LeftFor(t, r, free) = free - SumFunctionOnSet(Needs(t), Before(t, r))
<1>1. Before(t, r) \subseteq Candidates(t)
  BY DEF Before
<1>2. IsFiniteSet(Before(t, r))
  BY <1>1, NeedsNat, FS_Subset
<1>3. \A p \in Before(t, r) : Needs(t)[p] \in Nat
  BY <1>1, NeedsNat
<1>4. SumFunctionOnSet(Needs(t), Before(t, r)) \in Nat
  BY <1>2, <1>3, SumNat
<1>5. \A free : LeftFor(t, r, free) = free - SumFunctionOnSet(Needs(t), Before(t, r))
  BY DEF LeftFor, Needs
<1> QED
  BY <1>1, <1>2, <1>4, <1>5

\* A round gives an rpc nothing, or what it still needs at most, out of what the
\* rpcs ahead of it leave.
LEMMA IncrementIs ==
    ASSUME NEW t, TableOK(t), NEW r \in DOMAIN t, NEW budget \in Int, NEW reserved \in Int
    PROVE  LET inc  == Increment(t, r, budget, reserved)
               left == LeftFor(t, r, Free(t, budget, reserved))
           IN  /\ inc \in 0..t[r].size - t[r].granted
               /\ left \in Int /\ Free(t, budget, reserved) \in Int
               /\ left <= Free(t, budget, reserved)
               /\ inc > 0 => r \in Candidates(t) /\ inc <= left
               /\ r \in Candidates(t) /\ left >= t[r].size - t[r].granted
                    => inc = t[r].size - t[r].granted
               /\ r \in Candidates(t) /\ left > 0 /\ Outstanding(t) = 0 /\ Before(t, r) = {}
                    => inc > 0
<1> DEFINE inc  == Increment(t, r, budget, reserved)
           free == Free(t, budget, reserved)
           left == LeftFor(t, r, free)
           need == t[r].size - t[r].granted
<1>1. free \in Int
  BY OutstandingNat DEF Free
<1>2. left \in Int /\ left <= free
  <2> HIDE DEF free
  <2>1. left = free - SumFunctionOnSet(Needs(t), Before(t, r))
    BY BeforeFinite
  <2>2. SumFunctionOnSet(Needs(t), Before(t, r)) \in Nat
    BY BeforeFinite
  <2> QED
    BY <1>1, <2>1, <2>2
<1>3. need \in Nat /\ (r \in Candidates(t) => need > 0)
  BY NeedsNat
<1>4. inc = IF r \notin Candidates(t) THEN 0
            ELSE IF left >= need THEN need
            ELSE IF left > 0 /\ (\/ left >= Worthwhile(budget)
                                 \/ Outstanding(t) = 0 /\ Before(t, r) = {}) THEN left
            ELSE 0
  BY DEF Increment, Ungranted, Free
<1> HIDE DEF free, left, need, inc
<1>5. inc \in 0..need
  BY <1>2, <1>3, <1>4
<1>6. inc > 0 => r \in Candidates(t) /\ inc <= left
  BY <1>2, <1>3, <1>4
<1>7. r \in Candidates(t) /\ left >= need => inc = need
  BY <1>4
<1>8. r \in Candidates(t) /\ left > 0 /\ Outstanding(t) = 0 /\ Before(t, r) = {} => inc > 0
  BY <1>2, <1>3, <1>4
<1> QED
  BY <1>1, <1>2, <1>5, <1>6, <1>7, <1>8 DEF need, inc, left, free

\* Two entries that differ in what is granted at most.
SameButGrant(e, f) ==
    /\ e.size = f.size /\ e.received = f.received /\ e.paused = f.paused
    /\ e.seq = f.seq /\ e.cls = f.cls

\* The table u after a round, rpc by rpc.
LEMMA RoundGives ==
    ASSUME NEW t, TableOK(t), NEW budget \in Int, NEW reserved \in Int,
           NEW u, u = Granted(t, budget, reserved)
    PROVE  /\ DOMAIN u = DOMAIN t /\ TableOK(u)
           /\ \A r \in DOMAIN t :
                /\ Increment(t, r, budget, reserved) \in Nat
                /\ t[r].granted \in Nat /\ t[r].size \in Nat
                /\ u[r].granted = t[r].granted + Increment(t, r, budget, reserved)
                /\ u[r].granted \in t[r].granted..t[r].size
                /\ SameButGrant(u[r], t[r])
<1>1. DOMAIN u = DOMAIN t
  BY DEF Granted
<1>2. ASSUME NEW r \in DOMAIN t
      PROVE  /\ Increment(t, r, budget, reserved) \in Nat
             /\ t[r].granted \in Nat /\ t[r].size \in Nat
             /\ u[r].granted = t[r].granted + Increment(t, r, budget, reserved)
             /\ u[r].granted \in t[r].granted..t[r].size
             /\ SameButGrant(u[r], t[r])
             /\ u[r] \in Entry /\ u[r].granted <= u[r].size
  <2> DEFINE inc == Increment(t, r, budget, reserved)
  <2>1. inc \in 0..t[r].size - t[r].granted
    BY IncrementIs
  <2>2. t[r] \in Entry /\ t[r].granted <= t[r].size
    BY DEF TableOK
  <2>3. u[r] = [t[r] EXCEPT !.granted = @ + inc]
    BY DEF Granted
  <2> HIDE DEF inc
  <2> QED
    BY <2>1, <2>2, <2>3 DEF Entry, inc, SameButGrant
<1>3. u = [r \in DOMAIN u |-> u[r]]
  BY DEF Granted
<1>4. TableOK(u)
  BY <1>1, <1>2, <1>3 DEF TableOK
<1> QED
  BY <1>1, <1>2, <1>4

-----------------------------------------------------------------------------
(* The order of a round. *)

\* A sum of naturals is no less than the sum of some of them.
LEMMA SumSubset ==
    ASSUME NEW S, IsFiniteSet(S), NEW f, \A x \in S : f[x] \in Nat, NEW T \in SUBSET S
    PROVE  SumFunctionOnSet(f, T) <= SumFunctionOnSet(f, S)
<1> DEFINE g == [x \in S |-> IF x \in T THEN f[x] ELSE 0]
<1>1. IsFiniteSet(T)
  BY FS_Subset
<1>2. \A x \in S : g[x] \in Int /\ f[x] \in Int /\ g[x] <= f[x] /\ (x \notin T => g[x] = 0)
  OBVIOUS
<1>3. \A x \in T : f[x] \in Int /\ g[x] \in Int /\ f[x] <= g[x]
  OBVIOUS
<1> HIDE DEF g
<1>4. SumFunctionOnSet(g, S) <= SumFunctionOnSet(f, S)
  BY <1>2, SumMonotone
<1>5. SumFunctionOnSet(g, S) = SumFunctionOnSet(g, T)
  BY <1>2, SumWithout
<1>6. SumFunctionOnSet(f, T) <= SumFunctionOnSet(g, T)
  BY <1>1, <1>3, SumMonotone
<1>7. /\ SumFunctionOnSet(f, T) \in Int /\ SumFunctionOnSet(g, T) \in Int
      /\ SumFunctionOnSet(f, S) \in Int
  BY <1>1, <1>2, <1>3, SumType
<1> QED
  BY <1>4, <1>5, <1>6, <1>7

\* The order of urgency is strict and, when no two rpcs arrived at once, total.
LEMMA AheadIsOrder ==
    ASSUME NEW t, TableOK(t), NEW p \in DOMAIN t, NEW q \in DOMAIN t, NEW r \in DOMAIN t
    PROVE  /\ ~Ahead(t, p, p)
           /\ Ahead(t, p, q) /\ Ahead(t, q, r) => Ahead(t, p, r)
           /\ Ordered(t) /\ p # r => Ahead(t, p, r) \/ Ahead(t, r, p)
<1> DEFINE left(x) == t[x].size - t[x].received
<1>1. \A x \in DOMAIN t : t[x].cls \in Int /\ t[x].seq \in Int /\ left(x) \in Int
  BY DEF TableOK, Entry
<1>2. Ordered(t) /\ p # r => t[p].seq # t[r].seq
  BY DEF Ordered
<1>3. \A x, y \in DOMAIN t :
        Ahead(t, x, y) <=> \/ t[x].cls < t[y].cls
                           \/ t[x].cls = t[y].cls /\ left(x) < left(y)
                           \/ /\ t[x].cls = t[y].cls /\ left(x) = left(y)
                              /\ t[x].seq < t[y].seq
  BY DEF Ahead
<1> HIDE DEF left
<1> QED
  BY <1>1, <1>2, <1>3

\* Among some rpcs there is one that all others are ahead of.
LEMMA LastOf ==
    ASSUME NEW t, TableOK(t), Ordered(t), NEW P, P \subseteq DOMAIN t, P # {}
    PROVE  \E l \in P : \A p \in P : p # l => Ahead(t, p, l)
<1> DEFINE After(r) == {p \in P : Ahead(t, r, p)}
           T == {After(r) : r \in P}
<1>1. IsFiniteSet(P)
  BY FS_Subset DEF TableOK
<1>2. PICK s \in T : \A u \in T : ~(u \subseteq s /\ u # s)
  <2>1. T \subseteq SUBSET P /\ T # {}
    OBVIOUS
  <2> HIDE DEF T
  <2> QED
    BY <1>1, <2>1, SmallestSubset
<1>3. PICK l \in P : s = After(l)
  OBVIOUS
<1>4. ASSUME NEW p \in P, Ahead(t, l, p)
      PROVE  FALSE
  <2>1. After(p) \subseteq After(l)
    BY <1>4, AheadIsOrder
  <2>2. p \in After(l) /\ p \notin After(p)
    BY <1>4, AheadIsOrder
  <2>3. After(p) \in T
    OBVIOUS
  <2> HIDE DEF T, After
  <2> QED
    BY <1>2, <1>3, <2>1, <2>2, <2>3
<1> QED
  BY <1>4, AheadIsOrder

\* If a round grants anything, it grants no more than what is free in all: the last
\* to be granted something has all the others ahead of it.
LEMMA IncrementsFit ==
    ASSUME NEW t, TableOK(t), Ordered(t), NEW budget \in Int, NEW reserved \in Int,
           NEW r0 \in DOMAIN t, Increment(t, r0, budget, reserved) > 0
    PROVE  SumFunctionOnSet(Increments(t, budget, reserved), DOMAIN t)
             <= Free(t, budget, reserved)
<1> DEFINE inc  == Increments(t, budget, reserved)
           free == Free(t, budget, reserved)
           P    == {r \in DOMAIN t : Increment(t, r, budget, reserved) > 0}
<1>1. PICK l \in P : \A p \in P : p # l => Ahead(t, p, l)
  <2>1. P \subseteq DOMAIN t /\ P # {}
    OBVIOUS
  <2> HIDE DEF P
  <2> QED
    BY <2>1, LastOf
<1> DEFINE B == Before(t, l)
           S == B \cup {l}
<1>2. IsFiniteSet(B) /\ B \subseteq DOMAIN t /\ S \subseteq DOMAIN t /\ l \notin B
  BY BeforeFinite, NeedsNat, AheadIsOrder DEF Before
<1>3. \A r \in DOMAIN t : /\ inc[r] = Increment(t, r, budget, reserved)
                          /\ inc[r] \in Nat /\ inc[r] <= Needs(t)[r] /\ Needs(t)[r] \in Nat
  <2> SUFFICES ASSUME NEW r \in DOMAIN t
               PROVE  /\ inc[r] = Increment(t, r, budget, reserved)
                      /\ inc[r] \in Nat /\ inc[r] <= Needs(t)[r] /\ Needs(t)[r] \in Nat
    OBVIOUS
  <2>1. inc[r] = Increment(t, r, budget, reserved)
    BY DEF Increments
  <2>2. Increment(t, r, budget, reserved) \in 0..t[r].size - t[r].granted
    BY IncrementIs
  <2>3. Needs(t)[r] = t[r].size - t[r].granted /\ Needs(t)[r] \in Nat
    BY NeedsNat
  <2> HIDE DEF inc
  <2> QED
    BY <2>1, <2>2, <2>3
<1>4. \A r \in DOMAIN t : r \notin S => inc[r] = 0
  <2> SUFFICES ASSUME NEW r \in DOMAIN t, inc[r] # 0 PROVE r \in S
    OBVIOUS
  <2>1. Increment(t, r, budget, reserved) > 0
    BY <1>3
  <2>2. r \in Candidates(t)
    BY <2>1, IncrementIs
  <2>3. r = l \/ Ahead(t, r, l)
    BY <1>1, <2>1
  <2> QED
    BY <2>2, <2>3 DEF Before
<1>5. inc[l] > 0 /\ inc[l] <= LeftFor(t, l, free)
  BY <1>3, IncrementIs
<1>6. LeftFor(t, l, free) = free - SumFunctionOnSet(Needs(t), B)
  BY BeforeFinite
<1>7. SumFunctionOnSet(Needs(t), B) \in Nat /\ free \in Int
  BY BeforeFinite, IncrementIs
<1> HIDE DEF inc, free, P, B
<1>8. SumFunctionOnSet(inc, DOMAIN t) = SumFunctionOnSet(inc, S)
  <2> HIDE DEF S
  <2> QED
    BY <1>2, <1>3, <1>4, SumWithout DEF TableOK
<1>9. SumFunctionOnSet(inc, S) = inc[l] + SumFunctionOnSet(inc, B)
  <2>1. IsFiniteSet(S) /\ l \in S
    BY <1>2, FS_AddElement
  <2>2. S \ {l} = B
    BY <1>2
  <2>3. \A x \in S : inc[x] \in Int
    BY <1>2, <1>3
  <2> HIDE DEF S
  <2>4. SumFunctionOnSet(inc, S) = inc[l] + SumFunctionOnSet(inc, S \ {l})
    BY <2>1, <2>3, SumRemove
  <2> QED
    BY <2>2, <2>4
<1>10. SumFunctionOnSet(inc, B) <= SumFunctionOnSet(Needs(t), B)
  BY <1>2, <1>3, SumMonotone
<1>11. SumFunctionOnSet(inc, B) \in Int /\ inc[l] \in Int
  <2>1. \A x \in B : inc[x] \in Int
    BY <1>2, <1>3
  <2>2. SumFunctionOnSet(inc, B) \in Int
    BY <1>2, <2>1, SumType
  <2> QED
    BY <1>2, <1>3, <2>2
<1> HIDE DEF S
<1>12. SumFunctionOnSet(inc, DOMAIN t) <= free
  BY <1>5, <1>6, <1>7, <1>8, <1>9, <1>10, <1>11
<1> QED
  BY <1>12 DEF inc, free

-----------------------------------------------------------------------------
(* What a round promises. *)

\* After a round that grants anything, what is in flight and what is reserved fit in
\* the budget.
LEMMA RoundFits ==
    ASSUME NEW t, TableOK(t), Ordered(t), NEW budget \in Int, NEW reserved \in Int,
           NEW u, u = Granted(t, budget, reserved),
           NEW r0 \in DOMAIN t, Increment(t, r0, budget, reserved) > 0
    PROVE  Outstanding(u) + reserved <= budget
<1> DEFINE S   == DOMAIN t
           inc == Increments(t, budget, reserved)
           f   == [r \in S |-> Unreceived(t[r])]
           g   == [r \in S |-> Unreceived(u[r])]
           h   == [r \in S |-> f[r] + inc[r]]
<1>1. IsFiniteSet(S) /\ DOMAIN u = S /\ TableOK(u)
  BY RoundGives DEF TableOK
<1>2. Outstanding(t) = SumFunctionOnSet(f, S) /\ Outstanding(u) = SumFunctionOnSet(g, S)
  BY <1>1 DEF Outstanding, SumFunction
<1>3. ASSUME NEW r \in S
      PROVE  /\ f[r] \in Int /\ g[r] \in Int /\ inc[r] \in Int
             /\ h[r] = f[r] + inc[r] /\ g[r] <= h[r]
  <2>1. inc[r] = Increment(t, r, budget, reserved)
    BY DEF Increments
  <2>2. /\ Increment(t, r, budget, reserved) \in Nat
        /\ u[r].granted = t[r].granted + Increment(t, r, budget, reserved)
        /\ SameButGrant(u[r], t[r])
    BY RoundGives
  <2>3. t[r] \in Entry
    BY DEF TableOK
  <2>4. u[r].received = t[r].received
    BY <2>2, <2>3 DEF Entry, SameButGrant
  <2>5. /\ f[r] = Larger(0, t[r].granted - t[r].received)
        /\ g[r] = Larger(0, u[r].granted - u[r].received)
    BY DEF Unreceived
  <2>6. h[r] = f[r] + inc[r]
    OBVIOUS
  <2> HIDE DEF f, g, h, inc
  <2> QED
    BY <2>1, <2>2, <2>3, <2>4, <2>5, <2>6 DEF Larger, Entry
<1>4. SumFunctionOnSet(inc, S) <= Free(t, budget, reserved)
  BY IncrementsFit
<1>5. Free(t, budget, reserved) = budget - reserved - Outstanding(t) /\ Outstanding(t) \in Int
  BY OutstandingNat DEF Free
<1> HIDE DEF f, g, h, inc, S
<1>6. \A r \in S : h[r] \in Int
  BY <1>3
<1>7. SumFunctionOnSet(g, S) <= SumFunctionOnSet(h, S)
  BY <1>1, <1>3, <1>6, SumMonotone
<1>8. SumFunctionOnSet(h, S) = SumFunctionOnSet(f, S) + SumFunctionOnSet(inc, S)
  BY <1>1, <1>3, SumPlus
<1>9. SumFunctionOnSet(g, S) \in Int /\ SumFunctionOnSet(inc, S) \in Int
  BY <1>1, <1>3, SumType
<1> QED
  BY <1>2, <1>4, <1>5, <1>7, <1>8, <1>9

\* An rpc is granted something only when each one ahead of it is granted whole.
LEMMA RoundInOrder ==
    ASSUME NEW t, TableOK(t), NEW budget \in Int, NEW reserved \in Int,
           NEW r \in Candidates(t), NEW p \in Candidates(t), Ahead(t, p, r),
           Increment(t, r, budget, reserved) > 0
    PROVE  Increment(t, p, budget, reserved) = t[p].size - t[p].granted
<1> DEFINE free == Free(t, budget, reserved)
           B    == Before(t, p)
           S    == B \cup {p}
<1>1. /\ r \in DOMAIN t /\ p \in DOMAIN t
      /\ IsFiniteSet(B) /\ B \subseteq DOMAIN t /\ p \notin B
  BY NeedsNat, BeforeFinite, AheadIsOrder DEF Before
<1>2. S \subseteq Before(t, r)
  BY <1>1, NeedsNat, AheadIsOrder DEF Before
<1>3. IsFiniteSet(Before(t, r)) /\ Before(t, r) \subseteq DOMAIN t
  BY NeedsNat, BeforeFinite
<1>4. \A x \in DOMAIN t : Needs(t)[x] \in Nat /\ Needs(t)[x] = t[x].size - t[x].granted
  BY NeedsNat
<1> HIDE DEF free, B
<1>5. SumFunctionOnSet(Needs(t), S) <= SumFunctionOnSet(Needs(t), Before(t, r))
  <2>1. \A x \in Before(t, r) : Needs(t)[x] \in Nat
    BY <1>3, <1>4
  <2> HIDE DEF S
  <2> QED
    BY <1>2, <1>3, <2>1, SumSubset
<1>6. SumFunctionOnSet(Needs(t), S) = Needs(t)[p] + SumFunctionOnSet(Needs(t), B)
  <2>1. IsFiniteSet(S) /\ p \in S
    BY <1>1, FS_AddElement
  <2>2. S \ {p} = B
    BY <1>1
  <2>3. \A x \in S : Needs(t)[x] \in Int
    BY <1>1, <1>4
  <2> HIDE DEF S
  <2>4. SumFunctionOnSet(Needs(t), S)
          = Needs(t)[p] + SumFunctionOnSet(Needs(t), S \ {p})
    BY <2>1, <2>3, SumRemove
  <2> QED
    BY <2>2, <2>4
<1>7. /\ LeftFor(t, r, free) = free - SumFunctionOnSet(Needs(t), Before(t, r))
      /\ LeftFor(t, p, free) = free - SumFunctionOnSet(Needs(t), B)
      /\ SumFunctionOnSet(Needs(t), Before(t, r)) \in Nat
      /\ SumFunctionOnSet(Needs(t), B) \in Nat
  BY BeforeFinite DEF B
<1>8. free \in Int /\ LeftFor(t, r, free) > 0
  <2>1. /\ free \in Int /\ LeftFor(t, r, free) \in Int
        /\ Increment(t, r, budget, reserved) <= LeftFor(t, r, free)
        /\ Increment(t, r, budget, reserved) \in 0..t[r].size - t[r].granted
    BY <1>1, IncrementIs DEF free
  <2> QED
    BY <2>1
<1>9. LeftFor(t, p, free) >= t[p].size - t[p].granted
  <2>1. Needs(t)[p] \in Nat /\ Needs(t)[p] = t[p].size - t[p].granted
    BY <1>1, <1>4
  <2> HIDE DEF S
  <2> QED
    BY <1>5, <1>6, <1>7, <1>8, <2>1
<1> QED
  BY <1>1, <1>9, IncrementIs DEF free

\* With nothing in flight and budget to spare, whoever is first is granted some.
LEMMA RoundRestarts ==
    ASSUME NEW t, TableOK(t), NEW budget \in Int, NEW reserved \in Int,
           Outstanding(t) = 0, reserved < budget, Candidates(t) # {}
    PROVE  \E r \in Candidates(t) : Increment(t, r, budget, reserved) > 0
<1> DEFINE T == {Before(t, r) : r \in Candidates(t)}
<1>1. IsFiniteSet(Candidates(t)) /\ Candidates(t) \subseteq DOMAIN t
  BY NeedsNat
<1>2. PICK s \in T : \A u \in T : ~(u \subseteq s /\ u # s)
  <2>1. T \subseteq SUBSET Candidates(t) /\ T # {}
    BY BeforeFinite
  <2> HIDE DEF T
  <2> QED
    BY <1>1, <2>1, SmallestSubset
<1>3. PICK r \in Candidates(t) : s = Before(t, r)
  OBVIOUS
<1>4. ASSUME NEW p \in Before(t, r)
      PROVE  FALSE
  <2>1. p \in Candidates(t) /\ Ahead(t, p, r)
    BY DEF Before
  <2>2. Before(t, p) \subseteq s /\ p \in s /\ p \notin Before(t, p)
    BY <1>1, <1>3, <2>1, AheadIsOrder DEF Before
  <2> QED
    BY <1>2, <2>1, <2>2
<1>5. Before(t, r) = {}
  BY <1>4
<1>6. LeftFor(t, r, Free(t, budget, reserved)) = budget - reserved
  <2>1. SumFunctionOnSet(Needs(t), {}) = 0
    BY SumEmpty
  <2> QED
    BY <1>5, <2>1, BeforeFinite DEF Free
<1> QED
  BY <1>1, <1>5, <1>6, IncrementIs

\* A round that changes the table grants something to somebody.
LEMMA RoundChanges ==
    ASSUME NEW t, TableOK(t), NEW budget \in Int, NEW reserved \in Int,
           NEW u, u = Granted(t, budget, reserved), u # t
    PROVE  \E r \in DOMAIN t : Increment(t, r, budget, reserved) > 0
<1> SUFFICES ASSUME \A r \in DOMAIN t : ~(Increment(t, r, budget, reserved) > 0)
             PROVE  u = t
  OBVIOUS
<1>1. ASSUME NEW r \in DOMAIN t
      PROVE  u[r] = t[r]
  <2>1. /\ Increment(t, r, budget, reserved) \in Nat /\ t[r].granted \in Nat
        /\ u[r].granted = t[r].granted + Increment(t, r, budget, reserved)
        /\ SameButGrant(u[r], t[r])
    BY RoundGives
  <2>2. u[r].granted = t[r].granted
    BY <2>1
  <2>3. t[r] \in Entry /\ u[r] \in Entry
    BY RoundGives DEF TableOK
  <2> QED
    BY <2>1, <2>2, <2>3 DEF Entry, SameButGrant
<1>2. u = [r \in DOMAIN t |-> u[r]]
  BY DEF Granted
<1>3. t = [r \in DOMAIN t |-> t[r]]
  BY DEF TableOK
<1> QED
  BY <1>1, <1>2, <1>3
=============================================================================
