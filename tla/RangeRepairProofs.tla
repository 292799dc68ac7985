-------------------------- MODULE RangeRepairProofs -------------------------
(***************************************************************************)
(* The theorems of RangeRepair: the lists of Reassembly and RepairTracker   *)
(* are always what their sweeps need (Typed), every RESEND of every timer   *)
(* is asked for by the rule of RangePromise (KeepsPromiseHolds), and early  *)
(* detection waits for the reordering window (PatientHolds).                *)
(*                                                                         *)
(* First the loops: a loop of the code is a function defined by recursion   *)
(* over the list it walks, and its lemma says what the list it builds       *)
(* covers.  Then claim, the merge of a payload into the ranges, and each    *)
(* step of the transfer; last the inductive invariant.                      *)
(***************************************************************************)
EXTENDS RangeRepair, FiniteSetTheorems, WellFoundedInduction, TLAPS

-----------------------------------------------------------------------------
(* Loops. *)

\* What holds at m and passes from each number to the next holds at n.
LEMMA Along ==
    ASSUME NEW m \in Int, NEW n \in Int, m <= n, NEW G, m \in G,
           NEW l, l = m + 1, \A k \in l..n : k - 1 \in G => k \in G
    PROVE  \A k \in m..n : k \in G
<1> DEFINE Bad == {d \in 0..n - m : m + d \notin G}
<1> SUFFICES ASSUME NEW k \in m..n, k \notin G PROVE FALSE
  OBVIOUS
<1>1. k - m \in Bad
  <2>1. k - m \in 0..n - m /\ m + (k - m) = k
    OBVIOUS
  <2> QED
    BY <2>1
<1>2. PICK d \in Bad : \A e \in Bad : ~(e < d)
  <2>1. Bad \subseteq Nat
    OBVIOUS
  <2>2. IsWellFoundedOn(OpToRel(<, Nat), Nat)
    BY NatLessThanWellFounded
  <2> HIDE DEF Bad
  <2>3. PICK d \in Bad : \A e \in Bad : ~(<<e, d>> \in OpToRel(<, Nat))
    BY <1>1, <2>1, <2>2, WFMin
  <2> QED
    BY <2>1, <2>3 DEF OpToRel
<1>3. d \in 0..n - m /\ m + d \notin G
  OBVIOUS
<1>4. d # 0
  BY <1>3
<1>5. d - 1 \in 0..n - m /\ d - 1 < d /\ m + d \in l..n /\ m + (d - 1) = (m + d) - 1
  BY <1>3, <1>4
<1>6. m + (d - 1) \in G
  BY <1>2, <1>5
<1> QED
  BY <1>3, <1>5, <1>6

\* Induction over the naturals up to n, in the form the loops below use.
LEMMA Upward ==
    ASSUME NEW n \in Nat, NEW G, 0 \in G, \A k \in 1..n : k - 1 \in G => k \in G
    PROVE  n \in G
<1>1. 0 \in Int /\ n \in Int /\ 0 <= n /\ 1 = 0 + 1
  OBVIOUS
<1>2. \A k \in 0..n : k \in G
  BY <1>1, Along
<1> QED
  BY <1>2

\* g is the course of a loop from m to n, of states in D: F[k] is its k-th turn.
IsCourse(g, m, n, D, base, l, F) ==
    /\ g \in [m..n -> D] /\ g[m] = base
    /\ \A k \in l..n : g[k] = F[k][g[k-1]]

\* A loop whose states stay in D has a course.
LEMMA Course ==
    ASSUME NEW m \in Int, NEW n \in Int, m <= n, NEW D, NEW base \in D,
           NEW l, l = m + 1, NEW F \in [l..n -> [D -> D]]
    PROVE  \E g : IsCourse(g, m, n, D, base, l, F)
<1> DEFINE Is(g, i) == /\ g \in [m..i -> D] /\ g[m] = base
                       /\ \A k \in l..i : g[k] = F[k][g[k-1]]
           G == {i \in m..n : \E g : Is(g, i)}
<1>1. m \in G
  <2> DEFINE g == [k \in m..m |-> base]
  <2>1. m \in m..m /\ g \in [m..m -> D] /\ \A k \in l..m : FALSE
    OBVIOUS
  <2>2. g[m] = base
    BY <2>1
  <2> HIDE DEF g
  <2>3. Is(g, m)
    BY <2>1, <2>2
  <2> QED
    BY <2>3
<1>2. ASSUME NEW i \in l..n, i - 1 \in G
      PROVE  i \in G
  <2>1. PICK h : Is(h, i - 1)
    BY <1>2
  <2> DEFINE g == [k \in m..i |-> IF k = i THEN F[i][h[i-1]] ELSE h[k]]
  <2>2. h[i-1] \in D /\ F[i][h[i-1]] \in D
    BY <2>1
  <2>3. g \in [m..i -> D] /\ g[m] = base
    BY <2>1, <2>2
  <2>4. ASSUME NEW k \in l..i
        PROVE  g[k] = F[k][g[k-1]]
    <3>1. k - 1 \in m..i /\ k - 1 # i /\ g[k-1] = h[k-1]
      OBVIOUS
    <3>2. CASE k = i
      BY <3>1, <3>2
    <3>3. CASE k # i
      <4>1. k \in l..i-1 /\ g[k] = h[k]
        BY <3>3
      <4> QED
        BY <2>1, <3>1, <4>1
    <3> QED
      BY <3>2, <3>3
  <2> HIDE DEF g
  <2>5. Is(g, i)
    BY <2>3, <2>4
  <2> QED
    BY <2>5
<1> HIDE DEF G
<1>3. \A i \in m..n : i \in G
  BY <1>1, <1>2, Along
<1>4. n \in G
  BY <1>3
<1> QED
  BY <1>4 DEF G, IsCourse

-----------------------------------------------------------------------------
(* Least and greatest. *)

\* A least member is the minimum.
LEMMA MinIs == ASSUME NEW S, S \subseteq Int, NEW m \in S, \A x \in S : m <= x PROVE Min(S) = m
<1>1. \A x \in S : (\A y \in S : x <= y) => x = m
  OBVIOUS
<1> QED
  BY <1>1 DEF Min

\* A greatest member is the maximum.
LEMMA MaxIs == ASSUME NEW S, S \subseteq Int, NEW m \in S, \A x \in S : x <= m PROVE Max(S) = m
<1>1. \A x \in S : (\A y \in S : x >= y) => x = m
  OBVIOUS
<1> QED
  BY <1>1 DEF Max

\* The first index that passes a test, of which the last one does.
LEMMA FirstIs ==
    ASSUME NEW i \in Int, NEW n \in Int, i <= n, NEW P, n \in P
    PROVE  LET j == Min({k \in i..n : k \in P})
           IN  j \in i..n /\ j \in P /\ \A k \in i..j-1 : k \notin P
<1> DEFINE S == {k \in i..n : k \in P}
           D == {d \in Nat : i + d \in S}
<1>1. D \subseteq Nat /\ n - i \in D
  OBVIOUS
<1>2. PICK d \in D : \A e \in D : ~(e < d)
  <2>2. IsWellFoundedOn(OpToRel(<, Nat), Nat)
    BY NatLessThanWellFounded
  <2> HIDE DEF D
  <2>3. PICK d \in D : \A e \in D : ~(<<e, d>> \in OpToRel(<, Nat))
    BY <1>1, <2>2, WFMin
  <2> QED
    BY <1>1, <2>3 DEF OpToRel
<1>3. i + d \in S /\ \A x \in S : i + d <= x
  <2>1. \A x \in S : x - i \in D
    OBVIOUS
  <2> QED
    BY <1>2, <2>1
<1>4. Min(S) = i + d
  <2> HIDE DEF D
  <2>1. S \subseteq Int
    OBVIOUS
  <2> HIDE DEF S
  <2> QED
    BY <1>3, <2>1, MinIs
<1> QED
  BY <1>3, <1>4

-----------------------------------------------------------------------------
(* Lists of ranges. *)

Rng  == [start : Int, end : Int]
Held == [start : Int, end : Int, left : Nat]   \* a RESEND

\* No range is empty and each ends where the next begins at the latest.
InOrder(rs) ==
    /\ \A k \in 1..Len(rs) : rs[k].start < rs[k].end
    /\ \A j, k \in 1..Len(rs) : j < k => rs[j].end <= rs[k].start

Within(u, r)  == r.start <= u /\ u < r.end
Covers(rs, u) == \E k \in 1..Len(rs) : Within(u, rs[k])

\* Both kinds of range have a start and an end.
HasEnds(S) == \A x \in S : x.start \in Int /\ x.end \in Int

\* Ranges and RESENDs both have a start and an end.
LEMMA BothHaveEnds == HasEnds(Rng) /\ HasEnds(Held)
  BY DEF HasEnds, Rng, Held

\* The members of a list of such records.
LEMMA ListIs ==
    ASSUME NEW S, HasEnds(S), NEW rs \in Seq(S)
    PROVE  /\ Len(rs) \in Nat /\ DOMAIN rs = 1..Len(rs)
           /\ \A k \in 1..Len(rs) : rs[k] \in S /\ rs[k].start \in Int /\ rs[k].end \in Int
<1>1. Len(rs) \in Nat /\ DOMAIN rs = 1..Len(rs) /\ \A k \in 1..Len(rs) : rs[k] \in S
  OBVIOUS
<1> QED
  BY <1>1 DEF HasEnds

\* The members of a range list.
LEMMA RngsAre ==
    ASSUME NEW rs \in Seq(Rng)
    PROVE  /\ Len(rs) \in Nat
           /\ \A k \in 1..Len(rs) : rs[k] \in Rng /\ rs[k].start \in Int /\ rs[k].end \in Int
  BY BothHaveEnds, ListIs

\* Units is the set of what a list covers.
LEMMA UnitsAre ==
    ASSUME NEW S, HasEnds(S), NEW rs \in Seq(S)
    PROVE  Units(rs) = {u \in Int : Covers(rs, u)}
<1>1. /\ DOMAIN rs = 1..Len(rs)
      /\ \A k \in 1..Len(rs) : rs[k].start \in Int /\ rs[k].end \in Int
  BY ListIs
<1>2. \A k \in 1..Len(rs) : \A u :
         u \in rs[k].start..rs[k].end-1 <=> u \in Int /\ Within(u, rs[k])
  BY <1>1 DEF Within
<1>3. \A u : u \in Units(rs) <=> \E k \in 1..Len(rs) : u \in rs[k].start..rs[k].end-1
  BY <1>1 DEF Units
<1> QED
  BY <1>2, <1>3 DEF Covers

\* A list with one more member at its end.
LEMMA Appended ==
    ASSUME NEW S, NEW s \in Seq(S), NEW e \in S
    PROVE  /\ Append(s, e) \in Seq(S) /\ Len(Append(s, e)) = Len(s) + 1 /\ Len(s) \in Nat
           /\ \A k \in 1..Len(s) : Append(s, e)[k] = s[k]
           /\ Append(s, e)[Len(s) + 1] = e
  OBVIOUS

\* A range that comes after all of a list may be added to it.
LEMMA Pushed ==
    ASSUME NEW S, HasEnds(S), NEW rs \in Seq(S), InOrder(rs), NEW e \in S, e.start < e.end,
           \A k \in 1..Len(rs) : rs[k].end <= e.start
    PROVE  /\ Append(rs, e) \in Seq(S) /\ InOrder(Append(rs, e))
           /\ \A k \in 1..Len(Append(rs, e)) : Append(rs, e)[k].end <= e.end
           /\ \A u \in Int : Covers(Append(rs, e), u) <=> Covers(rs, u) \/ Within(u, e)
<1> DEFINE n == Len(rs)
           z == Append(rs, e)
<1>1. /\ z \in Seq(S) /\ Len(z) = n + 1 /\ n \in Nat
      /\ \A k \in 1..n : z[k] = rs[k]
      /\ z[n + 1] = e
  BY Appended
<1>2. \A k \in 1..n : rs[k].start \in Int /\ rs[k].end \in Int
  BY ListIs
<1> HIDE DEF z
<1>3. \A k \in 1..n+1 : k # n + 1 => k \in 1..n
  BY <1>1
<1>4. \A k \in 1..n+1 : z[k].start < z[k].end /\ z[k].end <= e.end
  <2> SUFFICES ASSUME NEW k \in 1..n+1 PROVE z[k].start < z[k].end /\ z[k].end <= e.end
    OBVIOUS
  <2>1. CASE k = n + 1
    BY <1>1, <2>1 DEF HasEnds
  <2>2. CASE k # n + 1
    <3>1. k \in 1..n /\ z[k] = rs[k]
      BY <1>1, <1>3, <2>2
    <3>2. rs[k].start < rs[k].end /\ rs[k].end <= e.start /\ e.start \in Int /\ e.end \in Int
      BY <3>1 DEF InOrder, HasEnds
    <3> QED
      BY <1>2, <3>1, <3>2
  <2> QED
    BY <2>1, <2>2
<1>5. \A j, k \in 1..n+1 : j < k => z[j].end <= z[k].start
  <2> SUFFICES ASSUME NEW j \in 1..n+1, NEW k \in 1..n+1, j < k
               PROVE  z[j].end <= z[k].start
    OBVIOUS
  <2>1. j \in 1..n /\ z[j] = rs[j]
    BY <1>1, <1>3
  <2>2. CASE k = n + 1
    BY <1>1, <2>1, <2>2
  <2>3. CASE k # n + 1
    BY <1>1, <1>3, <2>1, <2>3 DEF InOrder
  <2> QED
    BY <2>2, <2>3
<1>6. \A u \in Int : Covers(z, u) <=> Covers(rs, u) \/ Within(u, e)
  <2>1. \A k : k \in 1..n+1 <=> k \in 1..n \/ k = n + 1
    BY <1>1
  <2> QED
    BY <1>1, <2>1 DEF Covers
<1> QED
  BY <1>1, <1>4, <1>5, <1>6 DEF InOrder, z

\* Skip goes on to the first range that ends after at.
LEMMA SkipIs ==
    ASSUME NEW rs, NEW i \in Int, NEW at \in Int, Len(rs) \in Nat, i <= Len(rs) + 1,
           \A k \in i..Len(rs) : rs[k].end \in Int
    PROVE  LET j == Skip(rs, i, at)
           IN  /\ j \in i..Len(rs)+1
               /\ \A k \in i..j-1 : rs[k].end <= at
               /\ j <= Len(rs) => rs[j].end > at
<1> DEFINE n == Len(rs) + 1
           P == {k \in i..n : k > Len(rs) \/ rs[k].end > at}
           S == {k \in i..n : k \in P}
<1>1. n \in Int /\ n \in P
  OBVIOUS
<1>2. Skip(rs, i, at) = Min(S)
  <2>1. P = S
    OBVIOUS
  <2> QED
    BY <2>1 DEF Skip
<1>3. \A k \in i..n : k \in P <=> k > Len(rs) \/ rs[k].end > at
  OBVIOUS
<1> HIDE DEF P
<1>4. Min(S) \in i..n /\ Min(S) \in P /\ \A k \in i..Min(S)-1 : k \notin P
  BY <1>1, FirstIs
<1> HIDE DEF S
<1> DEFINE j == Min(S)
<1> HIDE DEF j
<1>5. j \in i..n /\ j \in P /\ \A k \in i..j-1 : k \notin P
  BY <1>4 DEF j
<1>6. \A k \in i..j-1 : rs[k].end <= at
  <2> SUFFICES ASSUME NEW k \in i..j-1 PROVE rs[k].end <= at
    OBVIOUS
  <2>1. k \in i..n /\ k \in i..Len(rs) /\ ~(k > Len(rs))
    BY <1>1, <1>5
  <2> QED
    BY <1>3, <1>5, <2>1
<1>7. j <= Len(rs) => rs[j].end > at
  BY <1>1, <1>3, <1>5
<1>8. Skip(rs, i, at) = j
  BY <1>2 DEF j
<1> QED
  BY <1>5, <1>6, <1>7, <1>8

-----------------------------------------------------------------------------
(* The gaps. *)

GapsSoFar == [at : Int, gaps : Seq(Rng)]

IsMissing(g, rs, limit) ==
    g = [k \in 0..Len(rs) |-> IF k = 0 THEN [at |-> 0, gaps |-> <<>>]
                              ELSE PushGap(g[k-1], rs[k], limit)]

\* Missing is read off a function that makes its sweep.
LEMMA MissingChosen ==
    ASSUME NEW rs, NEW limit
    PROVE  Missing(rs, limit)
             = LET end == (CHOOSE g : IsMissing(g, rs, limit))[Len(rs)]
               IN  IF end.at < limit THEN Append(end.gaps, R(end.at, limit)) ELSE end.gaps
  BY Zenon DEF Missing, IsMissing

\* A step of missing leaves a position and a list of ranges.
LEMMA PushGapType ==
    ASSUME NEW x \in GapsSoFar, NEW r \in Rng, NEW limit \in Int
    PROVE  PushGap(x, r, limit) \in GapsSoFar
<1>1. R(x.at, Least(r.start, limit)) \in Rng
  BY DEF R, Rng, Least, GapsSoFar
<1>2. Append(x.gaps, R(x.at, Least(r.start, limit))) \in Seq(Rng)
  BY <1>1, Appended DEF GapsSoFar
<1> QED
  BY <1>2 DEF PushGap, GapsSoFar, Rng

\* The sweep of missing exists and goes range by range.
LEMMA MissingCourse ==
    ASSUME NEW rs \in Seq(Rng), NEW limit \in Int
    PROVE  \E g : /\ g[0] = [at |-> 0, gaps |-> <<>>]
                  /\ \A k \in 1..Len(rs) : g[k] = PushGap(g[k-1], rs[k], limit)
                  /\ Missing(rs, limit)
                       = LET end == g[Len(rs)]
                         IN  IF end.at < limit THEN Append(end.gaps, R(end.at, limit))
                             ELSE end.gaps
<1> DEFINE D == GapsSoFar
           n == Len(rs)
           base == [at |-> 0, gaps |-> <<>>]
           F == [k \in 1..n |-> [x \in D |-> PushGap(x, rs[k], limit)]]
           h == CHOOSE g : IsMissing(g, rs, limit)
<1>1. n \in Int /\ 0 \in Int /\ 0 <= n /\ 1 = 0 + 1 /\ base \in D
  BY DEF GapsSoFar
<1>2. F \in [1..n -> [D -> D]]
  BY PushGapType
<1>3. \A k \in 1..n, x \in D : F[k][x] = PushGap(x, rs[k], limit)
  OBVIOUS
<1> HIDE DEF F, D, base, n
<1>4. PICK g : IsCourse(g, 0, n, D, base, 1, F)
  BY <1>1, <1>2, Course
<1>5. g \in [0..n -> D] /\ g[0] = base /\ \A k \in 1..n : g[k] = PushGap(g[k-1], rs[k], limit)
  BY <1>1, <1>3, <1>4 DEF IsCourse
<1>6. IsMissing(g, rs, limit)
  <2>1. g = [k \in 0..n |-> IF k = 0 THEN base ELSE PushGap(g[k-1], rs[k], limit)]
    BY <1>1, <1>5
  <2> QED
    BY <2>1 DEF IsMissing, n, base
<1>7. IsMissing(h, rs, limit)
  BY <1>6
<1> HIDE DEF h
<1>8. h = [k \in 0..n |-> IF k = 0 THEN base ELSE PushGap(h[k-1], rs[k], limit)]
  BY <1>7 DEF IsMissing, n, base
<1>9. h[0] = base /\ \A k \in 1..n : h[k] = PushGap(h[k-1], rs[k], limit)
  <2>1. \A k \in 0..n : h[k] = IF k = 0 THEN base ELSE PushGap(h[k-1], rs[k], limit)
    BY <1>8
  <2>2. 0 \in 0..n /\ \A k \in 1..n : k \in 0..n /\ k # 0
    BY <1>1
  <2> QED
    BY <2>1, <2>2
<1>10. Missing(rs, limit) = LET end == h[n]
                             IN  IF end.at < limit THEN Append(end.gaps, R(end.at, limit))
                                 ELSE end.gaps
  BY MissingChosen DEF h, n
<1> QED
  BY <1>9, <1>10 DEF n, base

\* After k ranges, the gaps below at.
GapsSwept(acc, k, rs, limit) ==
    /\ acc \in GapsSoFar /\ acc.at \in Nat /\ InOrder(acc.gaps)
    /\ \A i \in 1..Len(acc.gaps) : acc.gaps[i].end <= acc.at /\ acc.gaps[i].end <= limit
    /\ \A u \in Int : Covers(acc.gaps, u) <=> 0 <= u /\ u < Least(acc.at, limit) /\ ~Covers(rs, u)
    /\ \/ acc.at >= limit
       \/ /\ \A i \in 1..k : rs[i].end <= acc.at
          /\ \A i \in k+1..Len(rs) : acc.at <= rs[i].start

\* A step of missing keeps what the sweep has so far: the gaps below its position.
LEMMA GapsStep ==
    ASSUME NEW rs \in Seq(Rng), InOrder(rs), NEW limit \in Nat, NEW k \in 1..Len(rs),
           NEW acc, GapsSwept(acc, k - 1, rs, limit)
    PROVE  GapsSwept(PushGap(acc, rs[k], limit), k, rs, limit)
<1> DEFINE r == rs[k]
           next == PushGap(acc, r, limit)
           e == R(acc.at, Least(r.start, limit))
<1>1. /\ Len(rs) \in Nat
      /\ \A i \in 1..Len(rs) : rs[i] \in Rng /\ rs[i].start \in Int /\ rs[i].end \in Int
  BY RngsAre
<1>2. CASE acc.at >= limit
  <2>1. next = acc
    BY <1>2 DEF PushGap
  <2> QED
    BY <1>2, <2>1 DEF GapsSwept
<1>3. CASE acc.at < limit
  <2>1. /\ acc.at \in Nat /\ acc.gaps \in Seq(Rng) /\ InOrder(acc.gaps)
        /\ \A i \in 1..Len(acc.gaps) : acc.gaps[i].end <= acc.at
        /\ \A i \in 1..k-1 : rs[i].end <= acc.at
        /\ acc.at <= r.start
    BY <1>1, <1>3 DEF GapsSwept, GapsSoFar
  <2>2. /\ \A i \in 1..k : rs[i].end <= r.end
        /\ \A i \in k+1..Len(rs) : r.end <= rs[i].start
        /\ r.start < r.end /\ r.start \in Int /\ r.end \in Int
    <3>1. \A i \in 1..k : i = k \/ i \in 1..k-1
      BY <1>1
    <3>2. k \in 1..Len(rs) /\ \A i \in k+1..Len(rs) : i \in 1..Len(rs) /\ k < i
      BY <1>1
    <3>3. r.start < r.end /\ r.start \in Int /\ r.end \in Int
      BY <1>1, <3>2 DEF InOrder
    <3>4. \A i \in 1..k-1 : i \in 1..Len(rs) /\ i < k
      BY <1>1
    <3>5. \A i \in 1..k-1 : rs[i].end <= rs[k].start /\ rs[i].end \in Int
      BY <1>1, <3>2, <3>4 DEF InOrder
    <3>6. \A i \in 1..k : rs[i].end <= r.end
      BY <3>1, <3>3, <3>5
    <3> QED
      BY <3>2, <3>3, <3>6 DEF InOrder
  <2>3. \A u \in Int : acc.at <= u /\ u < r.end => (Covers(rs, u) <=> r.start <= u)
    <3> SUFFICES ASSUME NEW u \in Int, acc.at <= u, u < r.end
                 PROVE  Covers(rs, u) <=> r.start <= u
      OBVIOUS
    <3>1. ASSUME r.start <= u PROVE Covers(rs, u)
      BY <3>1 DEF Covers, Within
    <3>2. ASSUME NEW i \in 1..Len(rs), Within(u, rs[i]) PROVE r.start <= u
      <4>1. rs[i].start <= u /\ u < rs[i].end /\ rs[i].start \in Int /\ rs[i].end \in Int
        BY <1>1, <3>2 DEF Within
      <4>2. ~(i \in 1..k-1)
        BY <2>1, <4>1
      <4>3. ~(i \in k+1..Len(rs))
        BY <2>2, <4>1
      <4>4. i = k
        BY <1>1, <4>2, <4>3
      <4> QED
        BY <4>1, <4>4
    <3> QED
      BY <3>1, <3>2 DEF Covers
  <2>4. \A u \in Int : Covers(acc.gaps, u) <=> 0 <= u /\ u < acc.at /\ ~Covers(rs, u)
    BY <1>3, <2>1 DEF GapsSwept, Least
  <2>5. CASE r.start <= acc.at
    <3>1. next = [at |-> r.end, gaps |-> acc.gaps] /\ r.start = acc.at
      BY <1>3, <2>1, <2>2, <2>5 DEF PushGap
    <3>2. next \in GapsSoFar /\ next.at = r.end /\ next.gaps = acc.gaps /\ next.at \in Nat
      BY <2>1, <2>2, <3>1 DEF GapsSoFar
    <3>3. \A u \in Int : Covers(next.gaps, u)
                           <=> 0 <= u /\ u < Least(next.at, limit) /\ ~Covers(rs, u)
      BY <1>3, <2>1, <2>2, <2>3, <2>4, <3>1, <3>2 DEF Least
    <3>4. \A i \in 1..Len(acc.gaps) : acc.gaps[i].end <= r.end /\ acc.gaps[i].end <= limit
      <4>1. \A i \in 1..Len(acc.gaps) : acc.gaps[i].end \in Int
        BY <2>1, RngsAre
      <4> QED
        BY <1>3, <2>1, <2>2, <3>1, <4>1
    <3> HIDE DEF next
    <3>5. GapsSwept(next, k, rs, limit)
      BY <2>1, <2>2, <3>2, <3>3, <3>4 DEF GapsSwept
    <3> QED
      BY <3>5 DEF next
  <2>6. CASE r.start > acc.at
    <3>1. next = [at |-> r.end, gaps |-> Append(acc.gaps, e)]
      <4>1. ~(acc.at >= limit) /\ ~(r.start <= acc.at)
        BY <1>3, <2>1, <2>2, <2>6
      <4> QED
        BY <4>1, Zenon DEF PushGap
    <3>2. e \in Rng /\ e.start = acc.at /\ e.end = Least(r.start, limit) /\ e.start < e.end
      BY <1>3, <2>1, <2>2, <2>6 DEF R, Rng, Least
    <3> HIDE DEF e
    <3>3. /\ Append(acc.gaps, e) \in Seq(Rng) /\ InOrder(Append(acc.gaps, e))
          /\ \A i \in 1..Len(Append(acc.gaps, e)) : Append(acc.gaps, e)[i].end <= e.end
          /\ \A u \in Int : Covers(Append(acc.gaps, e), u) <=> Covers(acc.gaps, u) \/ Within(u, e)
      BY <2>1, <3>2, BothHaveEnds, Pushed
    <3>4. next \in GapsSoFar /\ next.at = r.end /\ next.gaps = Append(acc.gaps, e) /\ next.at \in Nat
      BY <2>1, <2>2, <3>1, <3>3 DEF GapsSoFar
    <3>5. \A i \in 1..Len(next.gaps) : next.gaps[i].end <= r.end /\ next.gaps[i].end <= limit
      <4>1. \A i \in 1..Len(next.gaps) : next.gaps[i].end \in Int /\ next.gaps[i].end <= e.end
        BY <3>3, <3>4, RngsAre
      <4>2. e.end <= r.end /\ e.end <= limit /\ e.end \in Int
        BY <1>3, <2>1, <2>2, <3>2 DEF Least
      <4> QED
        BY <2>2, <4>1, <4>2
    <3>6. \A u \in Int : Covers(next.gaps, u)
                           <=> 0 <= u /\ u < Least(next.at, limit) /\ ~Covers(rs, u)
      <4> SUFFICES ASSUME NEW u \in Int
                   PROVE  Covers(next.gaps, u)
                           <=> 0 <= u /\ u < Least(next.at, limit) /\ ~Covers(rs, u)
        OBVIOUS
      <4>1. Covers(next.gaps, u) <=> Covers(acc.gaps, u) \/ (acc.at <= u /\ u < Least(r.start, limit))
        BY <3>2, <3>3, <3>4 DEF Within
      <4> QED
        BY <1>3, <2>1, <2>2, <2>3, <2>4, <2>6, <3>4, <4>1 DEF Least
    <3> HIDE DEF next
    <3>7. GapsSwept(next, k, rs, limit)
      BY <2>2, <3>3, <3>4, <3>5, <3>6 DEF GapsSwept
    <3> QED
      BY <3>7 DEF next
  <2> QED
    BY <2>1, <2>2, <2>5, <2>6
<1>4. acc.at \in Nat
  BY DEF GapsSwept
<1> QED
  BY <1>2, <1>3, <1>4

\* Reassembly.missing returns the ranges between those there are, below limit.
LEMMA MissingIs ==
    ASSUME NEW rs \in Seq(Rng), InOrder(rs), \A k \in 1..Len(rs) : rs[k].start >= 0,
           NEW limit \in Nat
    PROVE  /\ Missing(rs, limit) \in Seq(Rng) /\ InOrder(Missing(rs, limit))
           /\ \A u \in Int : Covers(Missing(rs, limit), u) <=> 0 <= u /\ u < limit /\ ~Covers(rs, u)
<1> DEFINE n == Len(rs)
<1>1. n \in Nat /\ \A k \in 1..n : rs[k] \in Rng /\ rs[k].start \in Int /\ rs[k].end \in Int
  BY RngsAre
<1>2. PICK g : /\ g[0] = [at |-> 0, gaps |-> <<>>]
               /\ \A k \in 1..n : g[k] = PushGap(g[k-1], rs[k], limit)
               /\ Missing(rs, limit)
                    = LET end == g[n]
                      IN  IF end.at < limit THEN Append(end.gaps, R(end.at, limit)) ELSE end.gaps
  BY MissingCourse, limit \in Int, Zenon
<1> DEFINE G == {k \in 0..n : GapsSwept(g[k], k, rs, limit)}
           end == g[n]
           e == R(end.at, limit)
<1>3. 0 \in G
  <2>1. g[0].at = 0 /\ g[0].gaps = <<>> /\ g[0] \in GapsSoFar
    BY <1>2 DEF GapsSoFar
  <2>2. InOrder(<<>>) /\ \A u : ~Covers(<<>>, u)
    BY DEF InOrder, Covers
  <2>3. \A u \in Int : ~(0 <= u /\ u < Least(0, limit))
    BY DEF Least
  <2>4. 0 \in 0..n
    BY <1>1
  <2> QED
    BY <1>1, <2>1, <2>2, <2>3, <2>4 DEF GapsSwept
<1>4. \A k \in 1..n : k - 1 \in G => k \in G
  BY <1>1, <1>2, GapsStep
<1>5. GapsSwept(end, n, rs, limit)
  <2> HIDE DEF G
  <2>1. n \in G
    BY <1>1, <1>3, <1>4, Upward
  <2> QED
    BY <2>1 DEF G
<1>6. Missing(rs, limit) = IF end.at < limit THEN Append(end.gaps, e) ELSE end.gaps
  BY <1>2
<1> HIDE DEF G, end
<1>7. /\ end.at \in Nat /\ end.gaps \in Seq(Rng) /\ InOrder(end.gaps)
      /\ \A i \in 1..Len(end.gaps) : end.gaps[i].end <= end.at
      /\ \A u \in Int : Covers(end.gaps, u)
                          <=> 0 <= u /\ u < Least(end.at, limit) /\ ~Covers(rs, u)
  BY <1>5 DEF GapsSwept, GapsSoFar
<1>8. CASE end.at >= limit
  BY <1>6, <1>7, <1>8 DEF Least
<1>9. CASE end.at < limit
  <2>1. e \in Rng /\ e.start = end.at /\ e.end = limit
    BY <1>7 DEF R, Rng
  <2> HIDE DEF e
  <2>2. /\ Append(end.gaps, e) \in Seq(Rng) /\ InOrder(Append(end.gaps, e))
        /\ \A u \in Int : Covers(Append(end.gaps, e), u) <=> Covers(end.gaps, u) \/ Within(u, e)
    BY <1>7, <1>9, <2>1, BothHaveEnds, Pushed
  <2>3. \A u \in Int : end.at <= u => ~Covers(rs, u)
    <3>1. \A i \in 1..n : rs[i].end <= end.at
      BY <1>5, <1>7, <1>9 DEF GapsSwept
    <3> QED
      BY <1>1, <1>7, <3>1 DEF Covers, Within
  <2>4. Missing(rs, limit) = Append(end.gaps, e)
    BY <1>6, <1>9
  <2> QED
    BY <1>7, <1>9, <2>1, <2>2, <2>3, <2>4 DEF Within, Least
<1> QED
  BY <1>7, <1>8, <1>9

-----------------------------------------------------------------------------
(* The live RESENDs. *)

LiveSoFar(open) == [i : 1..Len(open)+1, live : Seq(Held)]

IsLive(g, pending, open) ==
    g = [k \in 0..Len(pending) |-> IF k = 0 THEN [i |-> 1, live |-> <<>>]
                                   ELSE PushLive(g[k-1], pending[k], open)]

\* Live is read off a function that makes its sweep.
LEMMA LiveChosen ==
    ASSUME NEW pending, NEW open
    PROVE  Live(pending, open) = (CHOOSE g : IsLive(g, pending, open))[Len(pending)].live
  BY Zenon DEF Live, IsLive

\* The members of a list of RESENDs.
LEMMA HeldsAre ==
    ASSUME NEW rs \in Seq(Held)
    PROVE  /\ Len(rs) \in Nat /\ DOMAIN rs = 1..Len(rs)
           /\ \A k \in 1..Len(rs) : /\ rs[k] \in Held /\ rs[k].left \in Nat
                                    /\ rs[k].start \in Int /\ rs[k].end \in Int
<1>1. Len(rs) \in Nat /\ DOMAIN rs = 1..Len(rs) /\ \A k \in 1..Len(rs) : rs[k] \in Held
  OBVIOUS
<1> QED
  BY <1>1 DEF Held

\* A step of the first sweep of claim leaves an index and a list of RESENDs.
LEMMA PushLiveType ==
    ASSUME NEW open \in Seq(Rng), NEW x \in LiveSoFar(open), NEW p \in Held
    PROVE  /\ PushLive(x, p, open) \in LiveSoFar(open)
           /\ LET i == Skip(open, x.i, p.start)
              IN  /\ i \in x.i..Len(open)+1
                  /\ \A k \in x.i..i-1 : open[k].end <= p.start
                  /\ i <= Len(open) => open[i].end > p.start
<1>1. /\ Len(open) \in Nat
      /\ \A k \in 1..Len(open) : open[k].start \in Int /\ open[k].end \in Int
  BY RngsAre
<1>2. /\ x.i \in 1..Len(open)+1 /\ x.live \in Seq(Held) /\ p.start \in Int
      /\ x.i \in Int /\ x.i <= Len(open) + 1 /\ \A k \in x.i..Len(open) : open[k].end \in Int
  BY <1>1 DEF LiveSoFar, Held
<1> DEFINE i == Skip(open, x.i, p.start)
<1>3. /\ i \in x.i..Len(open)+1
      /\ \A k \in x.i..i-1 : open[k].end <= p.start
      /\ i <= Len(open) => open[i].end > p.start
  BY <1>1, <1>2, SkipIs
<1> HIDE DEF i
<1>4. i \in 1..Len(open)+1 /\ Append(x.live, p) \in Seq(Held)
  BY <1>1, <1>2, <1>3
<1>5. PushLive(x, p, open) \in LiveSoFar(open)
  BY <1>2, <1>4 DEF PushLive, LiveSoFar, i
<1> QED
  BY <1>3, <1>5 DEF i

\* The first sweep of claim exists and goes RESEND by RESEND.
LEMMA LiveCourse ==
    ASSUME NEW pending \in Seq(Held), NEW open \in Seq(Rng)
    PROVE  \E g : /\ g[0] = [i |-> 1, live |-> <<>>]
                  /\ \A k \in 1..Len(pending) : g[k] = PushLive(g[k-1], pending[k], open)
                  /\ Live(pending, open) = g[Len(pending)].live
<1> DEFINE D == LiveSoFar(open)
           n == Len(pending)
           base == [i |-> 1, live |-> <<>>]
           F == [k \in 1..n |-> [x \in D |-> PushLive(x, pending[k], open)]]
           h == CHOOSE g : IsLive(g, pending, open)
<1>1. n \in Int /\ 0 \in Int /\ 0 <= n /\ 1 = 0 + 1 /\ base \in D
  BY DEF LiveSoFar
<1>2. F \in [1..n -> [D -> D]]
  <2>1. \A k \in 1..n : pending[k] \in Held
    BY HeldsAre
  <2>2. ASSUME NEW k \in 1..n, NEW x \in D PROVE PushLive(x, pending[k], open) \in D
    BY <2>1, PushLiveType
  <2> QED
    BY <2>2
<1>3. \A k \in 1..n, x \in D : F[k][x] = PushLive(x, pending[k], open)
  OBVIOUS
<1> HIDE DEF F, D, base, n
<1>4. PICK g : IsCourse(g, 0, n, D, base, 1, F)
  BY <1>1, <1>2, Course
<1>5. g \in [0..n -> D] /\ g[0] = base /\ \A k \in 1..n : g[k] = PushLive(g[k-1], pending[k], open)
  BY <1>1, <1>3, <1>4 DEF IsCourse
<1>6. IsLive(g, pending, open)
  <2>1. g = [k \in 0..n |-> IF k = 0 THEN base ELSE PushLive(g[k-1], pending[k], open)]
    BY <1>1, <1>5
  <2> QED
    BY <2>1 DEF IsLive, n, base
<1>7. IsLive(h, pending, open)
  BY <1>6
<1> HIDE DEF h
<1>8. h = [k \in 0..n |-> IF k = 0 THEN base ELSE PushLive(h[k-1], pending[k], open)]
  BY <1>7 DEF IsLive, n, base
<1>9. h[0] = base /\ \A k \in 1..n : h[k] = PushLive(h[k-1], pending[k], open)
  <2>1. \A k \in 0..n : h[k] = IF k = 0 THEN base ELSE PushLive(h[k-1], pending[k], open)
    BY <1>8
  <2>2. 0 \in 0..n /\ \A k \in 1..n : k \in 0..n /\ k # 0
    BY <1>1
  <2> QED
    BY <2>1, <2>2
<1>10. Live(pending, open) = h[n].live
  BY LiveChosen DEF h, n
<1> QED
  BY <1>9, <1>10 DEF n, base

Overlaps(open, p) == \E u \in Int : Covers(open, u) /\ Within(u, p)

\* After k RESENDs.
LiveSwept(acc, k, pending, open) ==
    /\ acc \in LiveSoFar(open) /\ InOrder(acc.live)
    /\ \A j \in k+1..Len(pending) :
          /\ \A m \in 1..acc.i-1 : open[m].end <= pending[j].start
          /\ \A m \in 1..Len(acc.live) : acc.live[m].end <= pending[j].start
    /\ \A m \in 1..Len(acc.live) : \E j \in 1..k : acc.live[m] = pending[j] /\ pending[j].left # 0
    /\ \A j \in 1..k : pending[j].left # 0 /\ Overlaps(open, pending[j])
                         => \E m \in 1..Len(acc.live) : acc.live[m] = pending[j]

\* A step keeps what the first sweep of claim has so far: the RESENDs not overdue that
\* reach a range still missing.
LEMMA LiveStep ==
    ASSUME NEW pending \in Seq(Held), InOrder(pending), NEW open \in Seq(Rng), InOrder(open),
           NEW k \in 1..Len(pending), NEW acc, LiveSwept(acc, k - 1, pending, open)
    PROVE  LiveSwept(PushLive(acc, pending[k], open), k, pending, open)
<1> DEFINE n == Len(pending)
           p == pending[k]
           i == Skip(open, acc.i, p.start)
           next == PushLive(acc, p, open)
           pushed == i <= Len(open) /\ open[i].start < p.end
<1>1. /\ n \in Nat
      /\ \A j \in 1..n : /\ pending[j] \in Held /\ pending[j].left \in Nat
                         /\ pending[j].start \in Int /\ pending[j].end \in Int
  BY HeldsAre
<1>2. /\ Len(open) \in Nat
      /\ \A m \in 1..Len(open) : open[m].start \in Int /\ open[m].end \in Int
  BY RngsAre
<1>3. /\ acc \in LiveSoFar(open) /\ acc.i \in 1..Len(open)+1 /\ acc.live \in Seq(Held)
      /\ InOrder(acc.live) /\ Len(acc.live) \in Nat
  BY DEF LiveSwept, LiveSoFar
<1>4. k \in 1..n /\ p \in Held /\ p.start < p.end /\ p.start \in Int /\ p.end \in Int /\ p.left \in Nat
  BY <1>1 DEF InOrder
<1>5. next \in LiveSoFar(open)
  BY <1>3, <1>4, PushLiveType
<1>6. /\ i \in acc.i..Len(open)+1
      /\ \A m \in acc.i..i-1 : open[m].end <= p.start
      /\ i <= Len(open) => open[i].end > p.start
  BY <1>3, <1>4, PushLiveType
<1>7. \A j \in k+1..n : j \in k-1+1..n /\ j \in 1..n /\ k < j /\ p.end <= pending[j].start
  BY <1>1, <1>4 DEF InOrder
<1>8. k \in k-1+1..n /\ \A j \in 1..k : j = k \/ j \in 1..k-1
  BY <1>1
<1>9. /\ \A m \in 1..acc.i-1 : open[m].end <= p.start
      /\ \A m \in 1..Len(acc.live) : acc.live[m].end <= p.start
  BY <1>8 DEF LiveSwept
<1>10. CASE Overdue(p)
  <2>1. next = acc /\ p.left = 0
    BY <1>10 DEF PushLive, Overdue
  <2>2. \A m \in 1..Len(acc.live) : \E j \in 1..k : acc.live[m] = pending[j] /\ pending[j].left # 0
    <3>1. \A j \in 1..k-1 : j \in 1..k
      BY <1>1
    <3> QED
      BY <3>1 DEF LiveSwept
  <2>3. \A j \in 1..k : pending[j].left # 0 /\ Overlaps(open, pending[j])
                         => \E m \in 1..Len(acc.live) : acc.live[m] = pending[j]
    BY <1>8, <2>1 DEF LiveSwept
  <2>4. LiveSwept(acc, k, pending, open)
    BY <1>3, <1>7, <2>2, <2>3 DEF LiveSwept
  <2> QED
    BY <2>1, <2>4
<1> HIDE DEF i
<1>11. \A m \in 1..i-1 : open[m].end <= p.start
  <2>1. \A m \in 1..i-1 : m \in 1..acc.i-1 \/ m \in acc.i..i-1
    BY <1>3, <1>6
  <2> QED
    BY <1>6, <1>9, <2>1
<1>12. Overlaps(open, p) => pushed
  <2> SUFFICES ASSUME NEW u \in Int, NEW m \in 1..Len(open), Within(u, open[m]), Within(u, p)
               PROVE  pushed
    BY DEF Overlaps, Covers
  <2>1. open[m].start <= u /\ u < open[m].end /\ p.start <= u /\ u < p.end
    BY DEF Within
  <2>2. ~(m \in 1..i-1) /\ open[m].start \in Int /\ open[m].end \in Int
    BY <1>2, <1>4, <1>11, <2>1
  <2>3. i <= m /\ i \in 1..Len(open)
    BY <1>2, <1>3, <1>6, <2>2
  <2>4. open[i].start <= open[m].start
    <3>1. CASE i = m
      BY <2>2, <3>1
    <3>2. CASE i < m
      <4>1. open[i].start < open[i].end
        BY <2>3 DEF InOrder
      <4>2. open[i].end <= open[m].start
        BY <2>3, <3>2 DEF InOrder
      <4> QED
        BY <1>2, <2>2, <2>3, <4>1, <4>2
    <3> QED
      BY <1>6, <2>2, <2>3, <3>1, <3>2
  <2> QED
    BY <1>2, <1>4, <2>1, <2>2, <2>3, <2>4
<1>13. \A j \in k+1..n : \A m \in 1..i-1 : open[m].end <= pending[j].start
  <2>1. \A m \in 1..i-1 : m \in 1..Len(open)
    BY <1>2, <1>3, <1>6
  <2>2. ASSUME NEW j \in k+1..n, NEW m \in 1..i-1 PROVE open[m].end <= pending[j].start
    <3>1. open[m].end <= p.start /\ open[m].end \in Int
      BY <1>2, <1>11, <2>1
    <3>2. p.end <= pending[j].start /\ pending[j].start \in Int
      BY <1>1, <1>7
    <3> QED
      BY <1>4, <3>1, <3>2
  <2> QED
    BY <2>2
<1>14. CASE ~Overdue(p) /\ pushed
  <2>1. next = [i |-> i, live |-> Append(acc.live, p)] /\ p.left # 0
    BY <1>14 DEF PushLive, Overdue, i
  <2>2. /\ InOrder(Append(acc.live, p))
        /\ \A m \in 1..Len(Append(acc.live, p)) : Append(acc.live, p)[m].end <= p.end
    BY <1>3, <1>4, <1>9, BothHaveEnds, Pushed
  <2>3. /\ Append(acc.live, p) \in Seq(Held) /\ Len(Append(acc.live, p)) = Len(acc.live) + 1
        /\ \A m \in 1..Len(acc.live) : Append(acc.live, p)[m] = acc.live[m]
        /\ Append(acc.live, p)[Len(acc.live) + 1] = p
    BY <1>3, <1>4, Appended
  <2> DEFINE z == Append(acc.live, p)
             l == Len(acc.live)
  <2>4. next.i = i /\ next.live = z
    BY <2>1
  <2> HIDE DEF z, next, pushed
  <2>5. z \in Seq(Held) /\ Len(z) = l + 1 /\ (\A m \in 1..l : z[m] = acc.live[m]) /\ z[l + 1] = p
    BY <2>3 DEF z
  <2>6. \A j \in k+1..n : \A m \in 1..Len(z) : z[m].end <= pending[j].start
    <3>1. \A m \in 1..Len(z) : z[m].end <= p.end /\ z[m].end \in Int
      BY <2>2, <2>5, HeldsAre DEF z
    <3> QED
      BY <1>1, <1>4, <1>7, <3>1
  <2>7. \A m \in 1..Len(z) : m \in 1..l \/ m = l + 1
    BY <1>3, <2>5
  <2>8. \A m \in 1..Len(z) : \E j \in 1..k : z[m] = pending[j] /\ pending[j].left # 0
    <3>1. k \in 1..k /\ \A j \in 1..k-1 : j \in 1..k
      BY <1>1
    <3>2. \A m \in 1..l : \E j \in 1..k-1 : acc.live[m] = pending[j] /\ pending[j].left # 0
      BY DEF LiveSwept
    <3> QED
      BY <2>1, <2>5, <2>7, <3>1, <3>2
  <2>9. \A j \in 1..k : pending[j].left # 0 /\ Overlaps(open, pending[j])
                         => \E m \in 1..Len(z) : z[m] = pending[j]
    <3>1. l + 1 \in 1..Len(z) /\ \A m \in 1..l : m \in 1..Len(z)
      BY <1>3, <2>5
    <3>2. \A j \in 1..k-1 : pending[j].left # 0 /\ Overlaps(open, pending[j])
                             => \E m \in 1..l : acc.live[m] = pending[j]
      BY DEF LiveSwept
    <3> QED
      BY <1>8, <2>5, <3>1, <3>2
  <2>10. InOrder(z)
    BY <2>2 DEF z
  <2>11. LiveSwept(next, k, pending, open)
    BY <1>5, <1>13, <2>4, <2>6, <2>8, <2>9, <2>10 DEF LiveSwept
  <2> QED
    BY <2>11 DEF next
<1>15. CASE ~Overdue(p) /\ ~pushed
  <2>1. next = [i |-> i, live |-> acc.live]
    BY <1>15 DEF PushLive, i
  <2>2. next.i = i /\ next.live = acc.live
    BY <2>1
  <2>3. \A m \in 1..Len(acc.live) : \E j \in 1..k : acc.live[m] = pending[j] /\ pending[j].left # 0
    <3>1. \A j \in 1..k-1 : j \in 1..k
      BY <1>1
    <3> QED
      BY <3>1 DEF LiveSwept
  <2>4. \A j \in 1..k : pending[j].left # 0 /\ Overlaps(open, pending[j])
                         => \E m \in 1..Len(acc.live) : acc.live[m] = pending[j]
    BY <1>8, <1>12, <1>15 DEF LiveSwept
  <2>5. \A j \in k+1..n : \A m \in 1..Len(acc.live) : acc.live[m].end <= pending[j].start
    BY <1>7 DEF LiveSwept
  <2> HIDE DEF next
  <2>6. LiveSwept(next, k, pending, open)
    BY <1>3, <1>5, <1>13, <2>2, <2>3, <2>4, <2>5 DEF LiveSwept
  <2> QED
    BY <2>6 DEF next
<1> QED
  BY <1>10, <1>14, <1>15

\* The RESENDs to wait for: neither overdue nor repaired, in their order.
LEMMA LiveIs ==
    ASSUME NEW pending \in Seq(Held), InOrder(pending), NEW open \in Seq(Rng), InOrder(open)
    PROVE  LET live == Live(pending, open)
           IN  /\ live \in Seq(Held) /\ InOrder(live)
               /\ \A m \in 1..Len(live) :
                     \E j \in 1..Len(pending) : live[m] = pending[j] /\ pending[j].left # 0
               /\ \A j \in 1..Len(pending) : pending[j].left # 0 /\ Overlaps(open, pending[j])
                                                => \E m \in 1..Len(live) : live[m] = pending[j]
<1> DEFINE n == Len(pending)
<1>1. PICK g : /\ g[0] = [i |-> 1, live |-> <<>>]
               /\ \A k \in 1..n : g[k] = PushLive(g[k-1], pending[k], open)
               /\ Live(pending, open) = g[n].live
  BY LiveCourse, Zenon
<1> DEFINE G == {k \in 0..n : LiveSwept(g[k], k, pending, open)}
<1>2. n \in Nat /\ Len(open) \in Nat
  OBVIOUS
<1>3. 0 \in G
  <2>1. g[0].i = 1 /\ g[0].live = <<>> /\ g[0] \in LiveSoFar(open)
    BY <1>1, <1>2 DEF LiveSoFar
  <2>2. InOrder(<<>>)
    BY DEF InOrder
  <2> QED
    BY <1>2, <2>1, <2>2 DEF LiveSwept
<1>4. \A k \in 1..n : k - 1 \in G => k \in G
  BY <1>1, <1>2, LiveStep
<1> HIDE DEF G
<1>5. n \in G
  BY <1>2, <1>3, <1>4, Upward
<1>6. LiveSwept(g[n], n, pending, open)
  BY <1>5 DEF G
<1> QED
  BY <1>1, <1>6 DEF LiveSwept, LiveSoFar

-----------------------------------------------------------------------------
(* What live RESENDs leave of a gap. *)

CutSoFar == [at : Int, out : Seq(Rng)]

IsCut(f, out, g, live, j) ==
    f = [k \in j-1..Len(live) |-> IF k = j-1 THEN [at |-> g.start, out |-> out]
                                  ELSE PushPiece(f[k-1], live[k], g)]

\* Cut is read off a function that makes its sweep.
LEMMA CutChosen ==
    ASSUME NEW out, NEW g, NEW live, NEW j
    PROVE  Cut(out, g, live, j)
             = LET end == (CHOOSE f : IsCut(f, out, g, live, j))[Len(live)]
               IN  IF end.at < g.end THEN Append(end.out, R(end.at, g.end)) ELSE end.out
  BY Zenon DEF Cut, IsCut

\* A step inside a gap leaves a position and a list of ranges.
LEMMA PushPieceType ==
    ASSUME NEW x \in CutSoFar, NEW p \in Held, NEW g \in Rng
    PROVE  PushPiece(x, p, g) \in CutSoFar
<1>1. x.at \in Int /\ x.out \in Seq(Rng) /\ p.start \in Int /\ p.end \in Int
  BY DEF CutSoFar, Held
<1>2. R(x.at, p.start) \in Rng /\ Greatest(x.at, p.end) \in Int
  BY <1>1 DEF R, Rng, Greatest
<1>3. Append(x.out, R(x.at, p.start)) \in Seq(Rng)
  BY <1>1, <1>2, Appended
<1> QED
  BY <1>1, <1>2, <1>3 DEF PushPiece, CutSoFar

CutTurns(f, out, g, live, j) ==
    /\ f[j-1] = [at |-> g.start, out |-> out]
    /\ \A k \in j..Len(live) : f[k] = PushPiece(f[k-1], live[k], g)
    /\ Cut(out, g, live, j)
         = LET end == f[Len(live)]
           IN  IF end.at < g.end THEN Append(end.out, R(end.at, g.end)) ELSE end.out

\* The sweep inside a gap exists and goes RESEND by RESEND.
LEMMA CutCourse ==
    ASSUME NEW out \in Seq(Rng), NEW g \in Rng, NEW live \in Seq(Held), NEW j \in 1..Len(live)+1
    PROVE  \E f : CutTurns(f, out, g, live, j)
<1> DEFINE D == CutSoFar
           n == Len(live)
           base == [at |-> g.start, out |-> out]
           m == j - 1
           F == [k \in j..n |-> [x \in D |-> PushPiece(x, live[k], g)]]
           h == CHOOSE f : IsCut(f, out, g, live, j)
<1>1. n \in Int /\ m \in Int /\ m <= n /\ j = m + 1 /\ base \in D /\ j \in Nat
  BY DEF CutSoFar, Rng
<1>2. F \in [j..n -> [D -> D]]
  <2>1. \A k \in j..n : live[k] \in Held
    OBVIOUS
  <2>2. ASSUME NEW k \in j..n, NEW x \in D PROVE PushPiece(x, live[k], g) \in D
    BY <2>1, PushPieceType
  <2> QED
    BY <2>2
<1>3. \A k \in j..n, x \in D : F[k][x] = PushPiece(x, live[k], g)
  OBVIOUS
<1> HIDE DEF F, D, base, n, m
<1>4. PICK f : IsCourse(f, m, n, D, base, j, F)
  BY <1>1, <1>2, Course
<1>5. f \in [m..n -> D] /\ f[m] = base /\ \A k \in j..n : f[k] = PushPiece(f[k-1], live[k], g)
  <2>1. f \in [m..n -> D] /\ f[m] = base /\ \A k \in j..n : f[k] = F[k][f[k-1]]
    BY <1>4 DEF IsCourse
  <2>2. \A k \in j..n : k - 1 \in m..n
    BY <1>1
  <2> QED
    BY <1>3, <2>1, <2>2
<1>6. IsCut(f, out, g, live, j)
  <2>1. f = [k \in m..n |-> IF k = m THEN base ELSE PushPiece(f[k-1], live[k], g)]
    BY <1>1, <1>5
  <2> QED
    BY <2>1 DEF IsCut, m, n, base
<1>7. IsCut(h, out, g, live, j)
  BY <1>6
<1> HIDE DEF h
<1>8. h = [k \in m..n |-> IF k = m THEN base ELSE PushPiece(h[k-1], live[k], g)]
  BY <1>7 DEF IsCut, m, n, base
<1>9. h[m] = base /\ \A k \in j..n : h[k] = PushPiece(h[k-1], live[k], g)
  <2>1. \A k \in m..n : h[k] = IF k = m THEN base ELSE PushPiece(h[k-1], live[k], g)
    BY <1>8
  <2>2. m \in m..n /\ \A k \in j..n : k \in m..n /\ k # m
    BY <1>1
  <2> QED
    BY <2>1, <2>2
<1>10. Cut(out, g, live, j) = LET end == h[n]
                              IN  IF end.at < g.end THEN Append(end.out, R(end.at, g.end))
                                  ELSE end.out
  BY CutChosen DEF h, n
<1> QED
  BY <1>9, <1>10 DEF n, m, base, CutTurns

\* After the RESENDs up to the k-th.
CutSwept(acc, k, out, g, live) ==
    /\ acc \in CutSoFar /\ InOrder(acc.out) /\ acc.at >= g.start
    /\ \A m \in 1..Len(acc.out) : acc.out[m].end <= acc.at /\ acc.out[m].end <= g.end
    /\ \A m \in 1..k : live[m].end <= acc.at \/ live[m].start >= g.end
    /\ \A u \in Int : Covers(acc.out, u)
                        <=> \/ Covers(out, u)
                            \/ g.start <= u /\ u < Least(acc.at, g.end) /\ ~Covers(live, u)

\* A step inside a gap keeps what the sweep has so far: the pieces no RESEND covers.
LEMMA CutStep ==
    ASSUME NEW out, NEW g \in Rng, NEW live \in Seq(Held), InOrder(live),
           NEW k \in 1..Len(live), NEW acc, CutSwept(acc, k - 1, out, g, live)
    PROVE  CutSwept(PushPiece(acc, live[k], g), k, out, g, live)
<1> DEFINE p == live[k]
           next == PushPiece(acc, p, g)
           e == R(acc.at, p.start)
           n == Len(live)
<1>1. /\ n \in Nat /\ k \in 1..n
      /\ \A m \in 1..n : live[m] \in Held /\ live[m].start \in Int /\ live[m].end \in Int
  BY HeldsAre
<1>2. /\ p \in Held /\ p.start \in Int /\ p.end \in Int /\ p.start < p.end
      /\ g.start \in Int /\ g.end \in Int
  BY <1>1 DEF InOrder, Rng
<1>3. /\ acc \in CutSoFar /\ acc.at \in Int /\ acc.out \in Seq(Rng) /\ InOrder(acc.out)
      /\ acc.at >= g.start
      /\ \A m \in 1..Len(acc.out) : acc.out[m].end <= acc.at /\ acc.out[m].end <= g.end
  BY DEF CutSwept, CutSoFar
<1>4. \A m \in 1..Len(acc.out) : acc.out[m].end \in Int
  BY <1>3, RngsAre
<1>5. \A m \in 1..k : m = k \/ m \in 1..k-1
  BY <1>1
<1>6. next \in CutSoFar
  BY <1>2, <1>3, PushPieceType
<1>7. CASE p.start >= g.end
  <2>1. next = acc
    BY <1>7 DEF PushPiece
  <2>2. \A m \in 1..k : live[m].end <= acc.at \/ live[m].start >= g.end
    BY <1>5, <1>7 DEF CutSwept
  <2>3. CutSwept(acc, k, out, g, live)
    BY <2>2 DEF CutSwept
  <2> QED
    BY <2>1, <2>3
<1>8. CASE ~(p.start >= g.end)
  <2> DEFINE at == Greatest(acc.at, p.end)
  <2>1. next.at = at
    BY <1>8 DEF PushPiece
  <2>2. at \in Int /\ at >= acc.at /\ at >= p.end /\ (at = acc.at \/ at = p.end)
    BY <1>2, <1>3 DEF Greatest
  <2> HIDE DEF at
  <2>3. \A m \in 1..k : live[m].end <= at \/ live[m].start >= g.end
    <3>1. ASSUME NEW m \in 1..k-1 PROVE live[m].end <= at \/ live[m].start >= g.end
      <4>1. live[m].end <= acc.at \/ live[m].start >= g.end
        BY DEF CutSwept
      <4>2. m \in 1..n
        BY <1>1
      <4> QED
        BY <1>1, <1>3, <2>2, <4>1, <4>2
    <3> QED
      BY <1>5, <2>2, <3>1
  \* Between at and the end of p, what p leaves is not covered.
  <2>4. ASSUME NEW u \in Int, acc.at <= u, u < g.end, u < at
        PROVE  Covers(live, u) <=> p.start <= u
    <3>1. u < p.end
      BY <1>3, <2>2, <2>4
    <3>2. ASSUME p.start <= u PROVE Covers(live, u)
      BY <1>1, <3>1, <3>2 DEF Covers, Within
    <3>3. ASSUME NEW m \in 1..n, Within(u, live[m]) PROVE p.start <= u
      <4>1. live[m].start <= u /\ u < live[m].end /\ live[m].start \in Int /\ live[m].end \in Int
        BY <1>1, <3>3 DEF Within
      <4>2. ~(m \in 1..k-1)
        <5>1. m \in 1..k-1 => live[m].end <= acc.at \/ live[m].start >= g.end
          BY DEF CutSwept
        <5> QED
          BY <1>2, <1>3, <2>4, <4>1, <5>1
      <4>3. CASE m = k
        BY <4>1, <4>3
      <4>4. CASE m > k
        <5>1. p.end <= live[m].start
          BY <1>1, <4>4 DEF InOrder
        <5> QED
          BY <1>2, <3>1, <4>1, <5>1
      <4> QED
        BY <1>1, <4>2, <4>3, <4>4
    <3> QED
      BY <3>2, <3>3 DEF Covers
  <2>5. \A u \in Int : Covers(acc.out, u)
                         <=> \/ Covers(out, u)
                             \/ g.start <= u /\ u < acc.at /\ u < g.end /\ ~Covers(live, u)
    BY <1>2, <1>3 DEF CutSwept, Least
  <2>6. CASE p.start > acc.at
    <3>1. next.out = Append(acc.out, e)
      BY <1>8, <2>6 DEF PushPiece
    <3>2. e \in Rng /\ e.start = acc.at /\ e.end = p.start /\ e.start < e.end
      BY <1>2, <1>3, <2>6 DEF R, Rng
    <3> HIDE DEF e, next
    <3>3. /\ Append(acc.out, e) \in Seq(Rng) /\ InOrder(Append(acc.out, e))
          /\ \A m \in 1..Len(Append(acc.out, e)) : Append(acc.out, e)[m].end <= e.end
          /\ \A u \in Int : Covers(Append(acc.out, e), u) <=> Covers(acc.out, u) \/ Within(u, e)
      BY <1>3, <3>2, BothHaveEnds, Pushed
    <3>4. \A m \in 1..Len(next.out) : next.out[m].end <= next.at /\ next.out[m].end <= g.end
      <4>1. \A m \in 1..Len(next.out) : next.out[m].end \in Int /\ next.out[m].end <= e.end
        BY <3>1, <3>3, RngsAre
      <4> QED
        BY <1>2, <1>8, <2>1, <2>2, <3>2, <4>1
    <3>5. \A u \in Int : Covers(next.out, u)
                           <=> \/ Covers(out, u)
                               \/ g.start <= u /\ u < Least(at, g.end) /\ ~Covers(live, u)
      <4> SUFFICES ASSUME NEW u \in Int
                   PROVE  Covers(next.out, u)
                           <=> \/ Covers(out, u)
                               \/ g.start <= u /\ u < Least(at, g.end) /\ ~Covers(live, u)
        OBVIOUS
      <4>1. Covers(next.out, u) <=> Covers(acc.out, u) \/ (acc.at <= u /\ u < p.start)
        BY <3>1, <3>2, <3>3 DEF Within
      <4>2. u < Least(at, g.end) <=> u < at /\ u < g.end
        BY <1>2, <2>2 DEF Least
      <4>3. CASE acc.at <= u /\ u < g.end /\ u < at
        <5>1. Covers(live, u) <=> p.start <= u
          BY <2>4, <4>3
        <5> QED
          BY <1>2, <1>3, <2>5, <4>1, <4>2, <4>3, <5>1
      <4>4. CASE ~(acc.at <= u /\ u < g.end /\ u < at)
        BY <1>2, <1>3, <1>8, <2>2, <2>5, <2>6, <4>1, <4>2, <4>4
      <4> QED
        BY <4>3, <4>4
    <3>6. CutSwept(next, k, out, g, live)
      BY <1>2, <1>3, <1>6, <2>1, <2>2, <2>3, <3>1, <3>3, <3>4, <3>5 DEF CutSwept, next
    <3> QED
      BY <3>6 DEF next
  <2>7. CASE ~(p.start > acc.at)
    <3>1. next.out = acc.out
      BY <1>8, <2>7 DEF PushPiece
    <3> HIDE DEF next
    <3>2. \A u \in Int : Covers(next.out, u)
                           <=> \/ Covers(out, u)
                               \/ g.start <= u /\ u < Least(at, g.end) /\ ~Covers(live, u)
      <4> SUFFICES ASSUME NEW u \in Int
                   PROVE  Covers(next.out, u)
                           <=> \/ Covers(out, u)
                               \/ g.start <= u /\ u < Least(at, g.end) /\ ~Covers(live, u)
        OBVIOUS
      <4>2. u < Least(at, g.end) <=> u < at /\ u < g.end
        BY <1>2, <2>2 DEF Least
      <4>3. CASE acc.at <= u /\ u < g.end /\ u < at
        <5>1. Covers(live, u)
          BY <1>2, <1>3, <2>4, <2>7, <4>3
        <5> QED
          BY <1>2, <1>3, <2>5, <3>1, <4>2, <4>3, <5>1
      <4>4. CASE ~(acc.at <= u /\ u < g.end /\ u < at)
        BY <1>2, <1>3, <2>2, <2>5, <3>1, <4>2, <4>4
      <4> QED
        BY <4>3, <4>4
    <3>3. \A m \in 1..Len(next.out) : next.out[m].end <= next.at /\ next.out[m].end <= g.end
      BY <1>3, <1>4, <2>1, <2>2, <3>1
    <3>4. next.at >= g.start
      BY <1>2, <1>3, <2>1, <2>2
    <3>5. CutSwept(next, k, out, g, live)
      BY <1>3, <1>6, <2>1, <2>3, <3>1, <3>2, <3>3, <3>4 DEF CutSwept, next
    <3> QED
      BY <3>5 DEF next
  <2> QED
    BY <2>6, <2>7
<1> QED
  BY <1>7, <1>8

\* What a gap is cut into: the units of it that no live RESEND covers.
LEMMA CutIs ==
    ASSUME NEW out \in Seq(Rng), InOrder(out), NEW g \in Rng, g.start < g.end,
           \A m \in 1..Len(out) : out[m].end <= g.start,
           NEW live \in Seq(Held), InOrder(live), NEW j \in 1..Len(live)+1,
           \A m \in 1..j-1 : live[m].end <= g.start
    PROVE  LET new == Cut(out, g, live, j)
           IN  /\ new \in Seq(Rng) /\ InOrder(new)
               /\ \A m \in 1..Len(new) : new[m].end <= g.end
               /\ \A u \in Int : Covers(new, u)
                                   <=> Covers(out, u) \/ (Within(u, g) /\ ~Covers(live, u))
<1> DEFINE n == Len(live)
           b == j - 1
<1>1. /\ n \in Nat /\ j \in Nat /\ b \in Int /\ n \in Int /\ b <= n /\ j = b + 1
      /\ \A m \in 1..n : live[m].start \in Int /\ live[m].end \in Int
  BY HeldsAre
<1>2. g.start \in Int /\ g.end \in Int
  BY DEF Rng
<1>3. PICK f : CutTurns(f, out, g, live, j)
  BY CutCourse
<1>3a. /\ f[b] = [at |-> g.start, out |-> out]
       /\ \A k \in j..n : f[k] = PushPiece(f[k-1], live[k], g)
       /\ Cut(out, g, live, j)
            = LET end == f[n]
              IN  IF end.at < g.end THEN Append(end.out, R(end.at, g.end)) ELSE end.out
  BY <1>3 DEF CutTurns
<1> DEFINE new == Cut(out, g, live, j)
           G == {k \in b..n : CutSwept(f[k], k, out, g, live)}
           end == f[n]
           e == R(end.at, g.end)
<1>4. b \in G
  <2>1. f[b].at = g.start /\ f[b].out = out /\ f[b] \in CutSoFar
    BY <1>2, <1>3a DEF CutSoFar
  <2>2. \A m \in 1..Len(out) : out[m].end <= g.end
    <3>1. \A m \in 1..Len(out) : out[m].end \in Int
      BY RngsAre
    <3> QED
      BY <1>2, <3>1
  <2>3. \A u \in Int : ~(g.start <= u /\ u < Least(g.start, g.end))
    BY <1>2 DEF Least
  <2>4. b \in b..n
    BY <1>1
  <2> HIDE DEF b
  <2>5. CutSwept(f[b], b, out, g, live)
    BY <1>2, <2>1, <2>2, <2>3 DEF CutSwept, b
  <2> QED
    BY <2>4, <2>5
<1>5. \A k \in j..n : k - 1 \in G => k \in G
  <2> SUFFICES ASSUME NEW k \in j..n, k - 1 \in G PROVE k \in G
    OBVIOUS
  <2>1. k \in 1..n /\ k \in b..n
    BY <1>1
  <2>2. CutSwept(f[k-1], k - 1, out, g, live)
    OBVIOUS
  <2>3. CutSwept(PushPiece(f[k-1], live[k], g), k, out, g, live)
    BY <2>1, <2>2, CutStep
  <2> QED
    BY <1>3a, <2>1, <2>3
<1>6. CutSwept(end, n, out, g, live)
  <2> HIDE DEF G, b
  <2>1. \A k \in b..n : k \in G
    BY <1>1, <1>4, <1>5, Along
  <2>2. n \in b..n
    BY <1>1
  <2> QED
    BY <2>1, <2>2 DEF G
<1>7. new = IF end.at < g.end THEN Append(end.out, e) ELSE end.out
  BY <1>3a
<1> HIDE DEF G, end, new
<1>8. /\ end.at \in Int /\ end.out \in Seq(Rng) /\ InOrder(end.out) /\ end.at >= g.start
      /\ \A m \in 1..Len(end.out) : end.out[m].end <= end.at /\ end.out[m].end <= g.end
      /\ \A m \in 1..n : live[m].end <= end.at \/ live[m].start >= g.end
      /\ \A u \in Int : Covers(end.out, u)
                          <=> \/ Covers(out, u)
                              \/ g.start <= u /\ u < Least(end.at, g.end) /\ ~Covers(live, u)
  BY <1>6 DEF CutSwept, CutSoFar
<1>9. CASE ~(end.at < g.end)
  <2>1. new = end.out
    BY <1>7, <1>9
  <2>2. \A u \in Int : u < Least(end.at, g.end) <=> u < g.end
    BY <1>2, <1>8, <1>9 DEF Least
  <2>3. \A u \in Int : Covers(new, u) <=> Covers(out, u) \/ (Within(u, g) /\ ~Covers(live, u))
    BY <1>8, <2>1, <2>2 DEF Within
  <2> QED
    BY <1>8, <2>1, <2>3 DEF new
<1>10. CASE end.at < g.end
  <2>1. e \in Rng /\ e.start = end.at /\ e.end = g.end
    BY <1>2, <1>8 DEF R, Rng
  <2> HIDE DEF e
  <2>2. /\ Append(end.out, e) \in Seq(Rng) /\ InOrder(Append(end.out, e))
        /\ \A m \in 1..Len(Append(end.out, e)) : Append(end.out, e)[m].end <= e.end
        /\ \A u \in Int : Covers(Append(end.out, e), u) <=> Covers(end.out, u) \/ Within(u, e)
    BY <1>8, <1>10, <2>1, BothHaveEnds, Pushed
  <2>3. \A u \in Int : end.at <= u /\ u < g.end => ~Covers(live, u)
    <3> SUFFICES ASSUME NEW u \in Int, end.at <= u, u < g.end, NEW m \in 1..n, Within(u, live[m])
                 PROVE  FALSE
      BY DEF Covers
    <3>1. live[m].start <= u /\ u < live[m].end /\ live[m].start \in Int /\ live[m].end \in Int
      BY <1>1 DEF Within
    <3> QED
      BY <1>2, <1>8, <3>1
  <2>4. new = Append(end.out, e)
    BY <1>7, <1>10
  <2>5. \A u \in Int : u < Least(end.at, g.end) <=> u < end.at
    BY <1>2, <1>8, <1>10 DEF Least
  <2>6. \A u \in Int : Covers(new, u) <=> Covers(out, u) \/ (Within(u, g) /\ ~Covers(live, u))
    BY <1>2, <1>8, <1>10, <2>1, <2>2, <2>3, <2>4, <2>5 DEF Within
  <2> QED
    BY <2>1, <2>2, <2>4, <2>6 DEF new
<1> QED
  BY <1>9, <1>10

-----------------------------------------------------------------------------
(* What they leave of the gaps. *)

UncoveredSoFar(live) == [j : 1..Len(live)+1, out : Seq(Rng)]

IsUncovered(f, gaps, live) ==
    f = [k \in 0..Len(gaps) |-> IF k = 0 THEN [j |-> 1, out |-> <<>>]
                                ELSE PushCut(f[k-1], gaps[k], live)]

\* Uncovered is read off a function that makes its sweep.
LEMMA UncoveredChosen ==
    ASSUME NEW gaps, NEW live
    PROVE  Uncovered(gaps, live) = (CHOOSE f : IsUncovered(f, gaps, live))[Len(gaps)].out
  BY Zenon DEF Uncovered, IsUncovered

\* Any course of the outer loop of any lists: its states need not be of a type for
\* what the sweep gives, so Cut's is told apart.
LEMMA CutType ==
    ASSUME NEW out \in Seq(Rng), NEW g \in Rng, NEW live \in Seq(Held), NEW j \in 1..Len(live)+1
    PROVE  Cut(out, g, live, j) \in Seq(Rng)
<1> DEFINE n == Len(live)
           b == j - 1
<1>1. n \in Int /\ j \in Nat /\ b \in Int /\ b <= n /\ j = b + 1 /\ n \in b..n
  OBVIOUS
<1>2. PICK f : CutTurns(f, out, g, live, j)
  BY CutCourse
<1>2a. /\ f[b] = [at |-> g.start, out |-> out]
       /\ \A k \in j..n : f[k] = PushPiece(f[k-1], live[k], g)
       /\ Cut(out, g, live, j)
            = LET end == f[n]
              IN  IF end.at < g.end THEN Append(end.out, R(end.at, g.end)) ELSE end.out
  BY <1>2 DEF CutTurns
<1> DEFINE G == {k \in b..n : f[k] \in CutSoFar}
<1>3. b \in G
  BY <1>1, <1>2a DEF CutSoFar, Rng
<1>4. \A k \in j..n : k - 1 \in G => k \in G
  <2>1. \A k \in j..n : live[k] \in Held /\ k \in b..n
    OBVIOUS
  <2> QED
    BY <1>2a, <2>1, PushPieceType
<1>5. f[n] \in CutSoFar
  <2> HIDE DEF G, b
  <2>1. \A k \in b..n : k \in G
    BY <1>1, <1>3, <1>4, Along
  <2> QED
    BY <1>1, <2>1 DEF G
<1>6. R(f[n].at, g.end) \in Rng /\ f[n].out \in Seq(Rng)
  BY <1>5 DEF R, Rng, CutSoFar
<1>7. Append(f[n].out, R(f[n].at, g.end)) \in Seq(Rng)
  BY <1>6, Appended
<1> QED
  BY <1>2a, <1>6, <1>7

\* A step of the second sweep of claim leaves an index and a list of ranges.
LEMMA PushCutType ==
    ASSUME NEW live \in Seq(Held), NEW x \in UncoveredSoFar(live), NEW g \in Rng
    PROVE  /\ PushCut(x, g, live) \in UncoveredSoFar(live)
           /\ LET j == Skip(live, x.j, g.start)
              IN  /\ j \in x.j..Len(live)+1
                  /\ \A m \in x.j..j-1 : live[m].end <= g.start
<1>1. Len(live) \in Nat /\ \A k \in 1..Len(live) : live[k].start \in Int /\ live[k].end \in Int
  BY HeldsAre
<1>2. /\ x.j \in 1..Len(live)+1 /\ x.out \in Seq(Rng) /\ g.start \in Int
      /\ x.j \in Int /\ x.j <= Len(live) + 1 /\ \A k \in x.j..Len(live) : live[k].end \in Int
  BY <1>1 DEF UncoveredSoFar, Rng
<1> DEFINE j == Skip(live, x.j, g.start)
<1>3. j \in x.j..Len(live)+1 /\ \A m \in x.j..j-1 : live[m].end <= g.start
  BY <1>1, <1>2, SkipIs
<1> HIDE DEF j
<1>4. j \in 1..Len(live)+1
  BY <1>1, <1>2, <1>3
<1>5. Cut(x.out, g, live, j) \in Seq(Rng)
  BY <1>2, <1>4, CutType
<1>6. PushCut(x, g, live) \in UncoveredSoFar(live)
  BY <1>4, <1>5 DEF PushCut, UncoveredSoFar, j
<1> QED
  BY <1>3, <1>6 DEF j

\* The second sweep of claim exists and goes gap by gap.
LEMMA UncoveredCourse ==
    ASSUME NEW gaps \in Seq(Rng), NEW live \in Seq(Held)
    PROVE  \E f : /\ f[0] = [j |-> 1, out |-> <<>>]
                  /\ \A k \in 1..Len(gaps) : f[k] = PushCut(f[k-1], gaps[k], live)
                  /\ Uncovered(gaps, live) = f[Len(gaps)].out
<1> DEFINE D == UncoveredSoFar(live)
           n == Len(gaps)
           base == [j |-> 1, out |-> <<>>]
           F == [k \in 1..n |-> [x \in D |-> PushCut(x, gaps[k], live)]]
           h == CHOOSE f : IsUncovered(f, gaps, live)
<1>1. n \in Int /\ 0 \in Int /\ 0 <= n /\ 1 = 0 + 1 /\ base \in D
  BY DEF UncoveredSoFar
<1>2. F \in [1..n -> [D -> D]]
  <2>1. \A k \in 1..n : gaps[k] \in Rng
    BY RngsAre
  <2>2. ASSUME NEW k \in 1..n, NEW x \in D PROVE PushCut(x, gaps[k], live) \in D
    BY <2>1, PushCutType
  <2> QED
    BY <2>2
<1>3. \A k \in 1..n, x \in D : F[k][x] = PushCut(x, gaps[k], live)
  OBVIOUS
<1> HIDE DEF F, D, base, n
<1>4. PICK f : IsCourse(f, 0, n, D, base, 1, F)
  BY <1>1, <1>2, Course
<1>5. f \in [0..n -> D] /\ f[0] = base /\ \A k \in 1..n : f[k] = PushCut(f[k-1], gaps[k], live)
  BY <1>1, <1>3, <1>4 DEF IsCourse
<1>6. IsUncovered(f, gaps, live)
  <2>1. f = [k \in 0..n |-> IF k = 0 THEN base ELSE PushCut(f[k-1], gaps[k], live)]
    BY <1>1, <1>5
  <2> QED
    BY <2>1 DEF IsUncovered, n, base
<1>7. IsUncovered(h, gaps, live)
  BY <1>6
<1> HIDE DEF h
<1>8. h = [k \in 0..n |-> IF k = 0 THEN base ELSE PushCut(h[k-1], gaps[k], live)]
  BY <1>7 DEF IsUncovered, n, base
<1>9. h[0] = base /\ \A k \in 1..n : h[k] = PushCut(h[k-1], gaps[k], live)
  <2>1. \A k \in 0..n : h[k] = IF k = 0 THEN base ELSE PushCut(h[k-1], gaps[k], live)
    BY <1>8
  <2>2. 0 \in 0..n /\ \A k \in 1..n : k \in 0..n /\ k # 0
    BY <1>1
  <2> QED
    BY <2>1, <2>2
<1>10. Uncovered(gaps, live) = h[n].out
  BY UncoveredChosen DEF h, n
<1> QED
  BY <1>9, <1>10 DEF n, base

\* After k gaps.
UncoveredSwept(acc, k, gaps, live) ==
    /\ acc \in UncoveredSoFar(live) /\ InOrder(acc.out)
    /\ \A i \in k+1..Len(gaps) :
          /\ \A m \in 1..acc.j-1 : live[m].end <= gaps[i].start
          /\ \A m \in 1..Len(acc.out) : acc.out[m].end <= gaps[i].start
    /\ \A u \in Int : Covers(acc.out, u)
                        <=> ~Covers(live, u) /\ \E i \in 1..k : Within(u, gaps[i])

\* A step keeps what the second sweep of claim has so far: what to ask for.
LEMMA UncoveredStep ==
    ASSUME NEW gaps \in Seq(Rng), InOrder(gaps), NEW live \in Seq(Held), InOrder(live),
           NEW k \in 1..Len(gaps), NEW acc, UncoveredSwept(acc, k - 1, gaps, live)
    PROVE  UncoveredSwept(PushCut(acc, gaps[k], live), k, gaps, live)
<1> DEFINE n == Len(gaps)
           g == gaps[k]
           j == Skip(live, acc.j, g.start)
           new == Cut(acc.out, g, live, j)
           next == PushCut(acc, g, live)
<1>1. /\ n \in Nat /\ k \in 1..n
      /\ \A i \in 1..n : gaps[i] \in Rng /\ gaps[i].start \in Int /\ gaps[i].end \in Int
  BY RngsAre
<1>2. /\ Len(live) \in Nat
      /\ \A m \in 1..Len(live) : live[m].start \in Int /\ live[m].end \in Int
  BY HeldsAre
<1>3. /\ acc \in UncoveredSoFar(live) /\ acc.j \in 1..Len(live)+1 /\ acc.out \in Seq(Rng)
      /\ InOrder(acc.out)
  BY DEF UncoveredSwept, UncoveredSoFar
<1>4. g \in Rng /\ g.start < g.end /\ g.start \in Int /\ g.end \in Int
  BY <1>1 DEF InOrder
<1>5. next \in UncoveredSoFar(live) /\ j \in acc.j..Len(live)+1
      /\ \A m \in acc.j..j-1 : live[m].end <= g.start
  BY <1>3, <1>4, PushCutType
<1>6. \A i \in k+1..n : i \in 1..n /\ k < i /\ g.end <= gaps[i].start
  BY <1>1 DEF InOrder
<1>7. k \in k-1+1..n /\ \A i \in 1..k : i = k \/ i \in 1..k-1
  BY <1>1
<1>8. /\ \A m \in 1..acc.j-1 : live[m].end <= g.start
      /\ \A m \in 1..Len(acc.out) : acc.out[m].end <= g.start
  BY <1>7 DEF UncoveredSwept
<1> HIDE DEF j
<1>9. j \in 1..Len(live)+1 /\ \A m \in 1..j-1 : live[m].end <= g.start
  <2>1. \A m \in 1..j-1 : m \in 1..acc.j-1 \/ m \in acc.j..j-1
    BY <1>3, <1>5
  <2>2. j \in 1..Len(live)+1
    BY <1>2, <1>3, <1>5
  <2> QED
    BY <1>5, <1>8, <2>1, <2>2
<1>10. /\ new \in Seq(Rng) /\ InOrder(new)
       /\ \A m \in 1..Len(new) : new[m].end <= g.end
       /\ \A u \in Int : Covers(new, u)
                           <=> Covers(acc.out, u) \/ (Within(u, g) /\ ~Covers(live, u))
  BY <1>3, <1>4, <1>8, <1>9, CutIs
<1>11. next.j = j /\ next.out = new
  BY DEF PushCut, j
<1> HIDE DEF new, next
<1>12. ASSUME NEW i \in k+1..n
       PROVE  /\ \A m \in 1..j-1 : live[m].end <= gaps[i].start
              /\ \A m \in 1..Len(new) : new[m].end <= gaps[i].start
  <2>1. g.end <= gaps[i].start /\ gaps[i].start \in Int
    BY <1>1, <1>6
  <2>2. \A m \in 1..j-1 : m \in 1..Len(live)
    BY <1>2, <1>9
  <2>3. \A m \in 1..Len(new) : new[m].end \in Int
    BY <1>10, RngsAre
  <2> QED
    <3>1. \A m \in 1..j-1 : live[m].end <= gaps[i].start
      BY <1>2, <1>4, <1>9, <2>1, <2>2
    <3>2. \A m \in 1..Len(new) : new[m].end <= gaps[i].start
      BY <1>4, <1>10, <2>1, <2>3
    <3> QED
      BY <3>1, <3>2
<1>13. ASSUME NEW u \in Int
       PROVE  Covers(new, u) <=> ~Covers(live, u) /\ \E i \in 1..k : Within(u, gaps[i])
  <2>1. (\E i \in 1..k : Within(u, gaps[i]))
           <=> Within(u, g) \/ \E i \in 1..k-1 : Within(u, gaps[i])
    <3>1. k \in 1..k /\ \A i \in 1..k-1 : i \in 1..k
      BY <1>1
    <3> QED
      BY <1>7, <3>1
  <2>2. Covers(acc.out, u) <=> ~Covers(live, u) /\ \E i \in 1..k-1 : Within(u, gaps[i])
    BY DEF UncoveredSwept
  <2>3. Covers(new, u) <=> Covers(acc.out, u) \/ (Within(u, g) /\ ~Covers(live, u))
    BY <1>10
  <2> HIDE DEF g
  <2> QED
    BY <2>1, <2>2, <2>3
<1>14. UncoveredSwept(next, k, gaps, live)
  BY <1>5, <1>10, <1>11, <1>12, <1>13 DEF UncoveredSwept
<1> QED
  BY <1>14 DEF next

\* claim asks for what no live RESEND covers of the gaps.
LEMMA UncoveredIs ==
    ASSUME NEW gaps \in Seq(Rng), InOrder(gaps), NEW live \in Seq(Held), InOrder(live)
    PROVE  LET out == Uncovered(gaps, live)
           IN  /\ out \in Seq(Rng) /\ InOrder(out)
               /\ \A u \in Int : Covers(out, u) <=> Covers(gaps, u) /\ ~Covers(live, u)
<1> DEFINE n == Len(gaps)
<1>1. PICK f : /\ f[0] = [j |-> 1, out |-> <<>>]
               /\ \A k \in 1..n : f[k] = PushCut(f[k-1], gaps[k], live)
               /\ Uncovered(gaps, live) = f[n].out
  BY UncoveredCourse, Zenon
<1> DEFINE G == {k \in 0..n : UncoveredSwept(f[k], k, gaps, live)}
<1>2. n \in Nat /\ Len(live) \in Nat
  OBVIOUS
<1>3. 0 \in G
  <2>1. f[0].j = 1 /\ f[0].out = <<>> /\ f[0] \in UncoveredSoFar(live)
    BY <1>1, <1>2 DEF UncoveredSoFar
  <2>2. InOrder(<<>>) /\ \A u : ~Covers(<<>>, u)
    BY DEF InOrder, Covers
  <2> QED
    BY <1>2, <2>1, <2>2 DEF UncoveredSwept
<1>4. \A k \in 1..n : k - 1 \in G => k \in G
  BY <1>1, <1>2, UncoveredStep
<1> HIDE DEF G
<1>5. n \in G
  BY <1>2, <1>3, <1>4, Upward
<1>6. UncoveredSwept(f[n], n, gaps, live)
  BY <1>5 DEF G
<1> QED
  BY <1>1, <1>6 DEF UncoveredSwept, UncoveredSoFar, Covers

-----------------------------------------------------------------------------
(* The gaps that have been suspects long enough. *)

IsLostEarly(f, gaps, suspects, window) ==
    f = [k \in 0..Len(gaps) |-> IF k = 0 THEN <<>>
                                ELSE PushLost(f[k-1], gaps[k], suspects, window)]

\* LostEarly is read off a function that makes its loop.
LEMMA LostEarlyChosen ==
    ASSUME NEW gaps, NEW suspects, NEW window
    PROVE  LostEarly(gaps, suspects, window)
             = (CHOOSE f : IsLostEarly(f, gaps, suspects, window))[Len(gaps)]
  BY Zenon DEF LostEarly, IsLostEarly

LostTurns(f, gaps, suspects, window) ==
    /\ f[0] = <<>>
    /\ \A k \in 1..Len(gaps) : f[k] = PushLost(f[k-1], gaps[k], suspects, window)
    /\ LostEarly(gaps, suspects, window) = f[Len(gaps)]

\* The loop of early detection exists and goes gap by gap.
LEMMA LostEarlyCourse ==
    ASSUME NEW gaps \in Seq(Rng), NEW suspects, NEW window
    PROVE  \E f : LostTurns(f, gaps, suspects, window)
<1> DEFINE D == Seq(Rng)
           n == Len(gaps)
           base == <<>>
           F == [k \in 1..n |-> [x \in D |-> PushLost(x, gaps[k], suspects, window)]]
           h == CHOOSE f : IsLostEarly(f, gaps, suspects, window)
<1>1. n \in Int /\ 0 \in Int /\ 0 <= n /\ 1 = 0 + 1 /\ base \in D
  OBVIOUS
<1>2. F \in [1..n -> [D -> D]]
  <2>1. \A k \in 1..n : gaps[k] \in Rng
    BY RngsAre
  <2>2. ASSUME NEW k \in 1..n, NEW x \in D PROVE PushLost(x, gaps[k], suspects, window) \in D
    BY <2>1, Appended DEF PushLost
  <2> QED
    BY <2>2
<1>3. \A k \in 1..n, x \in D : F[k][x] = PushLost(x, gaps[k], suspects, window)
  OBVIOUS
<1> HIDE DEF F, D, base, n
<1>4. PICK f : IsCourse(f, 0, n, D, base, 1, F)
  BY <1>1, <1>2, Course
<1>5. /\ f \in [0..n -> D] /\ f[0] = base
      /\ \A k \in 1..n : f[k] = PushLost(f[k-1], gaps[k], suspects, window)
  BY <1>1, <1>3, <1>4 DEF IsCourse
<1>6. IsLostEarly(f, gaps, suspects, window)
  <2>1. f = [k \in 0..n |-> IF k = 0 THEN base
                            ELSE PushLost(f[k-1], gaps[k], suspects, window)]
    BY <1>1, <1>5
  <2> QED
    BY <2>1 DEF IsLostEarly, n, base
<1>7. IsLostEarly(h, gaps, suspects, window)
  BY <1>6
<1> HIDE DEF h
<1>8. h = [k \in 0..n |-> IF k = 0 THEN base ELSE PushLost(h[k-1], gaps[k], suspects, window)]
  BY <1>7 DEF IsLostEarly, n, base
<1>9. h[0] = base /\ \A k \in 1..n : h[k] = PushLost(h[k-1], gaps[k], suspects, window)
  <2>1. \A k \in 0..n : h[k] = IF k = 0 THEN base
                               ELSE PushLost(h[k-1], gaps[k], suspects, window)
    BY <1>8
  <2>2. 0 \in 0..n /\ \A k \in 1..n : k \in 0..n /\ k # 0
    BY <1>1
  <2> QED
    BY <2>1, <2>2
<1>10. LostEarly(gaps, suspects, window) = h[n]
  BY LostEarlyChosen DEF h, n
<1> QED
  BY <1>9, <1>10 DEF n, base, LostTurns

\* After k gaps.
LostSwept(lost, k, gaps, suspects, window) ==
    /\ lost \in Seq(Rng) /\ InOrder(lost)
    /\ \A i \in k+1..Len(gaps) : \A m \in 1..Len(lost) : lost[m].end <= gaps[i].start
    /\ \A m \in 1..Len(lost) :
          \E i \in 1..k : lost[m] = gaps[i] /\ AgeOf(suspects, gaps[i]) >= window

\* A step keeps what early detection has so far: the gaps suspected for the window.
LEMMA LostStep ==
    ASSUME NEW gaps \in Seq(Rng), InOrder(gaps), NEW suspects, NEW window,
           NEW k \in 1..Len(gaps), NEW lost, LostSwept(lost, k - 1, gaps, suspects, window)
    PROVE  LostSwept(PushLost(lost, gaps[k], suspects, window), k, gaps, suspects, window)
<1> DEFINE n == Len(gaps)
           g == gaps[k]
           z == Append(lost, g)
<1>1. /\ n \in Nat /\ k \in 1..n
      /\ \A i \in 1..n : gaps[i] \in Rng /\ gaps[i].start \in Int /\ gaps[i].end \in Int
  BY RngsAre
<1>2. /\ lost \in Seq(Rng) /\ InOrder(lost) /\ Len(lost) \in Nat
      /\ \A m \in 1..Len(lost) : \E i \in 1..k-1 :
            lost[m] = gaps[i] /\ AgeOf(suspects, gaps[i]) >= window
  BY DEF LostSwept
<1>3. g \in Rng /\ g.start < g.end /\ g.start \in Int /\ g.end \in Int
  BY <1>1 DEF InOrder
<1>4. \A i \in k+1..n : i \in 1..n /\ i \in k-1+1..n /\ g.end <= gaps[i].start
  BY <1>1 DEF InOrder
<1>5. k \in k-1+1..n /\ k \in 1..k /\ \A i \in 1..k-1 : i \in 1..k
  BY <1>1
<1>6. CASE AgeOf(suspects, g) >= window
  <2>1. PushLost(lost, g, suspects, window) = z
    BY <1>6 DEF PushLost
  <2>2. \A m \in 1..Len(lost) : lost[m].end <= g.start
    BY <1>5 DEF LostSwept
  <2>3. z \in Seq(Rng) /\ InOrder(z) /\ \A m \in 1..Len(z) : z[m].end <= g.end
    BY <1>2, <1>3, <2>2, BothHaveEnds, Pushed
  <2>4. Len(z) = Len(lost) + 1 /\ (\A m \in 1..Len(lost) : z[m] = lost[m]) /\ z[Len(lost) + 1] = g
    BY <1>2, <1>3, Appended
  <2> HIDE DEF z
  <2>5. \A i \in k+1..n : \A m \in 1..Len(z) : z[m].end <= gaps[i].start
    <3>1. \A m \in 1..Len(z) : z[m].end \in Int
      BY <2>3, RngsAre
    <3> QED
      BY <1>1, <1>3, <1>4, <2>3, <3>1
  <2>6. \A m \in 1..Len(z) : \E i \in 1..k : z[m] = gaps[i] /\ AgeOf(suspects, gaps[i]) >= window
    <3>1. \A m \in 1..Len(z) : m \in 1..Len(lost) \/ m = Len(lost) + 1
      BY <1>2, <2>4
    <3> QED
      BY <1>2, <1>5, <1>6, <2>4, <3>1
  <2>7. LostSwept(z, k, gaps, suspects, window)
    BY <2>3, <2>5, <2>6 DEF LostSwept
  <2> QED
    BY <2>1, <2>7
<1>7. CASE ~(AgeOf(suspects, g) >= window)
  <2>1. PushLost(lost, g, suspects, window) = lost
    BY <1>7 DEF PushLost
  <2>2. \A i \in k+1..n : \A m \in 1..Len(lost) : lost[m].end <= gaps[i].start
    BY <1>4 DEF LostSwept
  <2>3. \A m \in 1..Len(lost) :
           \E i \in 1..k : lost[m] = gaps[i] /\ AgeOf(suspects, gaps[i]) >= window
    BY <1>2, <1>5
  <2>4. LostSwept(lost, k, gaps, suspects, window)
    BY <1>2, <2>2, <2>3 DEF LostSwept
  <2> QED
    BY <2>1, <2>4
<1> QED
  BY <1>6, <1>7

\* Early detection takes gaps that have been suspects for the window, in their order.
LEMMA LostEarlyIs ==
    ASSUME NEW gaps \in Seq(Rng), InOrder(gaps), NEW suspects, NEW window
    PROVE  LET lost == LostEarly(gaps, suspects, window)
           IN  /\ lost \in Seq(Rng) /\ InOrder(lost)
               /\ \A m \in 1..Len(lost) :
                     \E i \in 1..Len(gaps) : lost[m] = gaps[i] /\ AgeOf(suspects, gaps[i]) >= window
<1> DEFINE n == Len(gaps)
<1>0. PICK f : LostTurns(f, gaps, suspects, window)
  BY LostEarlyCourse
<1>1. /\ f[0] = <<>>
      /\ \A k \in 1..n : f[k] = PushLost(f[k-1], gaps[k], suspects, window)
      /\ LostEarly(gaps, suspects, window) = f[n]
  BY <1>0 DEF LostTurns
<1> DEFINE G == {k \in 0..n : LostSwept(f[k], k, gaps, suspects, window)}
<1>2. n \in Nat
  OBVIOUS
<1>3. 0 \in G
  <2>1. InOrder(<<>>)
    BY DEF InOrder
  <2>2. <<>> \in Seq(Rng) /\ Len(<<>>) = 0
    OBVIOUS
  <2>3. LostSwept(<<>>, 0, gaps, suspects, window)
    BY <2>1, <2>2 DEF LostSwept
  <2>4. 0 \in 0..n
    BY <1>2
  <2> QED
    BY <1>1, <2>3, <2>4
<1>4. \A k \in 1..n : k - 1 \in G => k \in G
  BY <1>1, <1>2, LostStep
<1> HIDE DEF G
<1>5. n \in G
  BY <1>2, <1>3, <1>4, Upward
<1>6. LostSwept(f[n], n, gaps, suspects, window)
  BY <1>5 DEF G
<1> QED
  BY <1>1, <1>6 DEF LostSwept

-----------------------------------------------------------------------------
(* RESENDs by their start. *)

Lower(rs, p) == {q \in Range(rs) : q.start < p.start}
Rank(rs, p)  == Cardinality(Lower(rs, p))

\* No two ranges of a list share a unit.
Disjoint(rs) ==
    /\ \A k \in 1..Len(rs) : rs[k].start < rs[k].end
    /\ \A j, k \in 1..Len(rs), u \in Int : Within(u, rs[j]) /\ Within(u, rs[k]) => j = k

\* The members of a list as a set.
LEMMA RangeIs ==
    ASSUME NEW S, NEW rs \in Seq(S)
    PROVE  Range(rs) = {rs[k] : k \in 1..Len(rs)}
<1>1. DOMAIN rs = 1..Len(rs)
  OBVIOUS
<1> QED
  BY <1>1 DEF Range

\* The ranks of disjoint ranges are the numbers from 0 on, each once.
LEMMA Ranks ==
    ASSUME NEW rs \in Seq(Held), Disjoint(rs)
    PROVE  /\ \A p, q \in Range(rs) : p.start < q.start => Rank(rs, p) < Rank(rs, q)
           /\ \A p, q \in Range(rs) : p.start = q.start => p = q
           /\ \A p \in Range(rs) : Rank(rs, p) \in 0..Len(rs)-1
           /\ \A r \in 0..Len(rs)-1 : \E p \in Range(rs) : Rank(rs, p) = r
<1> DEFINE n == Len(rs)
           S == Range(rs)
<1>1. /\ n \in Nat /\ S = {rs[k] : k \in 1..n}
      /\ \A k \in 1..n : rs[k] \in Held /\ rs[k].start \in Int /\ rs[k].end \in Int
  BY HeldsAre, RangeIs
<1>2. \A p \in S : p.start \in Int
  BY <1>1
<1>3. \A j, k \in 1..n : rs[j].start = rs[k].start => j = k
  <2> SUFFICES ASSUME NEW j \in 1..n, NEW k \in 1..n, rs[j].start = rs[k].start PROVE j = k
    OBVIOUS
  <2>1. Within(rs[j].start, rs[j]) /\ Within(rs[j].start, rs[k])
    BY <1>1 DEF Disjoint, Within
  <2> QED
    BY <1>1, <2>1 DEF Disjoint
<1>4. \A p, q \in S : p.start = q.start => p = q
  BY <1>1, <1>3
<1>5. IsFiniteSet(S) /\ Cardinality(S) = n
  <2> DEFINE f == [k \in 1..n |-> rs[k]]
  <2>1. f \in Bijection(1..n, S)
    <3>1. f \in [1..n -> S]
      BY <1>1
    <3>2. \A a, b \in 1..n : f[a] = f[b] => a = b
      BY <1>1, <1>3
    <3>3. \A p \in S : \E a \in 1..n : f[a] = p
      BY <1>1
    <3> QED
      BY <3>1, <3>2, <3>3 DEF Bijection, Injection, Surjection, IsInjective
  <2>2. ExistsBijection(1..n, S)
    BY <2>1 DEF ExistsBijection
  <2>3. IsFiniteSet(1..n) /\ Cardinality(1..n) = n
    <3>1. n \in Int /\ 1 \in Int /\ (1 > n => n = 0) /\ n - 1 + 1 = n
      BY <1>1
    <3> QED
      BY <3>1, FS_Interval
  <2> QED
    BY <2>2, <2>3, FS_Bijection
<1> HIDE DEF S, n
<1>6. \A p \in S : Lower(rs, p) \subseteq S /\ p \notin Lower(rs, p)
  BY <1>2 DEF Lower, S
<1>7. \A p, q \in S : p.start < q.start => Rank(rs, p) < Rank(rs, q)
  <2> SUFFICES ASSUME NEW p \in S, NEW q \in S, p.start < q.start
               PROVE  Rank(rs, p) < Rank(rs, q)
    OBVIOUS
  <2>1. Lower(rs, p) \subseteq Lower(rs, q) /\ p \in Lower(rs, q)
    BY <1>2 DEF Lower, S
  <2>2. IsFiniteSet(Lower(rs, q))
    BY <1>5, <1>6, FS_Subset
  <2>3. /\ Cardinality(Lower(rs, p)) \in Nat /\ Cardinality(Lower(rs, q)) \in Nat
        /\ Cardinality(Lower(rs, p)) <= Cardinality(Lower(rs, q))
        /\ Cardinality(Lower(rs, p)) # Cardinality(Lower(rs, q))
    BY <1>6, <2>1, <2>2, FS_Subset, FS_CardinalityType
  <2> QED
    BY <2>3 DEF Rank
<1>8. \A p \in S : Rank(rs, p) \in 0..n-1
  <2> SUFFICES ASSUME NEW p \in S PROVE Rank(rs, p) \in 0..n-1
    OBVIOUS
  <2>1. IsFiniteSet(Lower(rs, p)) /\ Cardinality(Lower(rs, p)) <= n /\ Cardinality(Lower(rs, p)) # n
    BY <1>5, <1>6, FS_Subset
  <2>2. Cardinality(Lower(rs, p)) \in Nat
    BY <2>1, FS_CardinalityType
  <2> QED
    BY <1>1, <2>1, <2>2 DEF Rank
<1>9. ASSUME NEW r \in 0..n-1 PROVE \E p \in S : Rank(rs, p) = r
  <2> DEFINE f == [p \in S |-> Rank(rs, p)]
  <2>1. f \in [S -> 0..n-1]
    BY <1>8
  <2>2. \A p, q \in S : f[p] = f[q] => p = q
    <3> SUFFICES ASSUME NEW p \in S, NEW q \in S, Rank(rs, p) = Rank(rs, q) PROVE p = q
      OBVIOUS
    <3>1. ~(p.start < q.start) /\ ~(q.start < p.start)
      BY <1>7, <1>8
    <3> QED
      BY <1>2, <1>4, <3>1
  <2>3. f \in Injection(S, 0..n-1)
    BY <2>1, <2>2 DEF Injection, IsInjective
  <2>4. IsFiniteSet(0..n-1) /\ Cardinality(0..n-1) = n
    <3>1. n - 1 \in Int /\ 0 \in Int /\ (0 > n - 1 => n = 0) /\ n - 1 - 0 + 1 = n
      BY <1>1
    <3> QED
      BY <3>1, FS_Interval
  <2> HIDE DEF f
  <2>5. f \in Surjection(S, 0..n-1)
    BY <1>5, <2>3, <2>4, FS_Injection
  <2> QED
    BY <2>5 DEF Surjection, f
<1> QED
  BY <1>4, <1>7, <1>8, <1>9 DEF S, n

\* The tracker's RESENDs in the order in which the next claim needs them.
LEMMA ByStartIs ==
    ASSUME NEW rs \in Seq(Held), Disjoint(rs)
    PROVE  LET z == ByStart(rs)
           IN  /\ z \in Seq(Held) /\ Len(z) = Len(rs) /\ InOrder(z)
               /\ \A k \in 1..Len(z) : \E i \in 1..Len(rs) : z[k] = rs[i]
               /\ \A i \in 1..Len(rs) : \E k \in 1..Len(z) : z[k] = rs[i]
<1> DEFINE n == Len(rs)
           S == Range(rs)
           z == ByStart(rs)
<1>1. /\ n \in Nat /\ S = {rs[k] : k \in 1..n} /\ DOMAIN rs = 1..n
      /\ \A k \in 1..n : rs[k] \in Held /\ rs[k].start \in Int /\ rs[k].end \in Int
  BY HeldsAre, RangeIs
<1>2. z = [k \in 1..n |-> CHOOSE p \in S : Rank(rs, p) = k - 1]
  BY <1>1 DEF ByStart, Rank, Lower
<1> HIDE DEF z
<1>3. \A k \in 1..n : z[k] \in S /\ Rank(rs, z[k]) = k - 1
  <2> SUFFICES ASSUME NEW k \in 1..n PROVE z[k] \in S /\ Rank(rs, z[k]) = k - 1
    OBVIOUS
  <2>1. k - 1 \in 0..n-1
    BY <1>1
  <2>2. \E p \in S : Rank(rs, p) = k - 1
    BY <2>1, Ranks
  <2>3. z[k] = CHOOSE p \in S : Rank(rs, p) = k - 1
    BY <1>2
  <2> QED
    BY <2>2, <2>3
<1>4. \A p \in S : p \in Held /\ p.start \in Int /\ p.end \in Int /\ p.start < p.end
  BY <1>1 DEF Disjoint
<1>5. z \in Seq(Held) /\ Len(z) = n
  <2>1. z \in [1..n -> Held]
    BY <1>2, <1>3, <1>4
  <2> QED
    BY <1>1, <2>1
<1>6. \A k \in 1..n : \E i \in 1..n : z[k] = rs[i]
  BY <1>1, <1>3
<1>7. \A p, q \in S : Rank(rs, p) = Rank(rs, q) => p = q
  <2> SUFFICES ASSUME NEW p \in S, NEW q \in S, Rank(rs, p) = Rank(rs, q) PROVE p = q
    OBVIOUS
  <2>1. ~(p.start < q.start) /\ ~(q.start < p.start) /\ (p.start = q.start => p = q)
    BY Ranks
  <2> QED
    BY <1>4, <2>1
<1>8. \A i \in 1..n : \E k \in 1..n : z[k] = rs[i]
  <2> SUFFICES ASSUME NEW i \in 1..n PROVE \E k \in 1..n : z[k] = rs[i]
    OBVIOUS
  <2> DEFINE k == Rank(rs, rs[i]) + 1
  <2>1. rs[i] \in S
    BY <1>1
  <2>2. Rank(rs, rs[i]) \in 0..n-1
    BY <2>1, Ranks
  <2>3. k \in 1..n /\ k - 1 = Rank(rs, rs[i])
    BY <1>1, <2>2
  <2> HIDE DEF k
  <2> QED
    BY <1>3, <1>7, <2>1, <2>3
<1>9. ASSUME NEW j \in 1..n, NEW k \in 1..n, j < k PROVE z[j].end <= z[k].start
  <2>1. z[j] \in S /\ z[k] \in S /\ Rank(rs, z[j]) < Rank(rs, z[k])
    BY <1>3, <1>9
  <2>2. z[j].start < z[k].start
    <3>1. ~(z[k].start < z[j].start) /\ z[j] # z[k]
      <4>1. Rank(rs, z[j]) \in 0..n-1 /\ Rank(rs, z[k]) \in 0..n-1
        BY <2>1, Ranks
      <4>2. z[k].start < z[j].start => Rank(rs, z[k]) < Rank(rs, z[j])
        BY <2>1, Ranks
      <4> QED
        BY <1>1, <2>1, <4>1, <4>2
    <3>2. z[j].start # z[k].start
      BY <2>1, <3>1, Ranks
    <3> QED
      BY <1>4, <2>1, <3>1, <3>2
  <2>3. PICK a \in 1..n, b \in 1..n : z[j] = rs[a] /\ z[k] = rs[b]
    BY <1>6
  <2>4. ~(Within(z[k].start, z[j]) /\ Within(z[k].start, z[k]))
    <3>1. a # b
      BY <1>4, <2>1, <2>2, <2>3
    <3> QED
      BY <1>1, <2>3, <3>1 DEF Disjoint
  <2> QED
    BY <1>4, <2>1, <2>2, <2>4 DEF Within
<1>10. InOrder(z)
  BY <1>3, <1>4, <1>5, <1>9 DEF InOrder
<1> QED
  BY <1>5, <1>6, <1>8, <1>10 DEF z

-----------------------------------------------------------------------------
(* claim. *)

\* The time left of the RESEND that asks for u; 0 if none does.
LeftIn(pending, u) ==
    LET held == {k \in DOMAIN pending : pending[k].start <= u /\ u < pending[k].end}
    IN  Max({0} \cup {pending[k].left : k \in held})

\* No unit is in two ranges of a list in order.
LEMMA InOrderApart ==
    ASSUME NEW S, HasEnds(S), NEW rs \in Seq(S), InOrder(rs)
    PROVE  Disjoint(rs)
<1>1. /\ Len(rs) \in Nat
      /\ \A k \in 1..Len(rs) : rs[k].start \in Int /\ rs[k].end \in Int /\ rs[k].start < rs[k].end
  BY ListIs DEF InOrder
<1>2. ASSUME NEW j \in 1..Len(rs), NEW k \in 1..Len(rs), j < k, NEW u \in Int,
             Within(u, rs[j]), Within(u, rs[k])
      PROVE  FALSE
  <2>1. rs[j].end <= rs[k].start
    BY <1>2 DEF InOrder
  <2> QED
    BY <1>1, <1>2, <2>1 DEF Within
<1>3. \A j, k \in 1..Len(rs) : j < k \/ k < j \/ j = k
  BY <1>1
<1> QED
  BY <1>1, <1>2, <1>3 DEF Disjoint

\* A unit's time left is that of the only RESEND that holds it.
LEMMA LeftInIs ==
    ASSUME NEW pending \in Seq(Held), InOrder(pending), NEW u \in Int
    PROVE  /\ \A k \in 1..Len(pending) : Within(u, pending[k]) => LeftIn(pending, u) = pending[k].left
           /\ ~Covers(pending, u) => LeftIn(pending, u) = 0
           /\ LeftIn(pending, u) \in Nat
<1> DEFINE held == {k \in DOMAIN pending : pending[k].start <= u /\ u < pending[k].end}
           S == {0} \cup {pending[k].left : k \in held}
<1>1. /\ Len(pending) \in Nat /\ DOMAIN pending = 1..Len(pending)
      /\ \A k \in 1..Len(pending) : pending[k].left \in Nat
  BY HeldsAre
<1>2. LeftIn(pending, u) = Max(S)
  BY DEF LeftIn
<1>3. \A k : k \in held <=> k \in 1..Len(pending) /\ Within(u, pending[k])
  BY <1>1 DEF Within
<1>4. ASSUME NEW k \in 1..Len(pending), Within(u, pending[k])
      PROVE  LeftIn(pending, u) = pending[k].left
  <2>1. held = {k}
    <3>1. \A j \in 1..Len(pending) : Within(u, pending[j]) => j = k
      BY <1>4, BothHaveEnds, InOrderApart DEF Disjoint
    <3> QED
      BY <1>3, <1>4, <3>1
  <2> HIDE DEF held
  <2>2. S = {0, pending[k].left}
    BY <2>1
  <2> HIDE DEF S
  <2>3. Max(S) = pending[k].left
    <3>1. S \subseteq Int /\ pending[k].left \in S /\ \A x \in S : x <= pending[k].left
      BY <1>1, <2>2
    <3> QED
      BY <3>1, MaxIs
  <2> QED
    BY <1>2, <2>3
<1>5. ASSUME ~Covers(pending, u) PROVE LeftIn(pending, u) = 0
  <2>1. held = {}
    BY <1>3, <1>5 DEF Covers
  <2> HIDE DEF held
  <2>2. S = {0}
    BY <2>1
  <2> HIDE DEF S
  <2>3. Max(S) = 0
    BY <2>2, MaxIs
  <2> QED
    BY <1>2, <2>3
<1> QED
  BY <1>1, <1>4, <1>5 DEF Covers

Trackers == [suspects : UNION {[S -> Nat] : S \in SUBSET Unit}, pending : Seq(Held),
             requested : BOOLEAN, wanted : SUBSET Unit, sent : SUBSET Unit, early : SUBSET Unit]

\* A tracker whose RESENDs ask for units below top.
TrackerOK(r, top) ==
    /\ r \in Trackers /\ InOrder(r.pending)
    /\ \A k \in 1..Len(r.pending) : r.pending[k].start >= 0 /\ r.pending[k].end <= top

\* The ranges of a transfer.
RangesOK(rs) == rs \in Seq(Rng) /\ InOrder(rs) /\ \A k \in 1..Len(rs) : rs[k].start >= 0

\* Ranges below top that have not arrived.
GapsOK(gaps, rs, top) ==
    /\ gaps \in Seq(Rng) /\ InOrder(gaps)
    /\ \A u \in Int : Covers(gaps, u) => 0 <= u /\ u < top /\ ~Covers(rs, u)

FreshOf(out, delay) ==
    [k \in DOMAIN out |-> [start |-> out[k].start, end |-> out[k].end, left |-> delay]]

\* A RESEND for each of the ranges to ask for.
LEMMA FreshIs ==
    ASSUME NEW out \in Seq(Rng), InOrder(out), NEW delay \in Nat
    PROVE  LET fresh == FreshOf(out, delay)
           IN  /\ fresh \in Seq(Held) /\ InOrder(fresh) /\ Len(fresh) = Len(out)
               /\ \A k \in 1..Len(fresh) : fresh[k].left = delay
               /\ \A u \in Int : Covers(fresh, u) <=> Covers(out, u)
<1> DEFINE n == Len(out)
           fresh == FreshOf(out, delay)
<1>1. /\ n \in Nat /\ DOMAIN out = 1..n
      /\ \A k \in 1..n : out[k].start \in Int /\ out[k].end \in Int
  BY BothHaveEnds, ListIs
<1>2. \A k \in 1..n : /\ fresh[k] \in Held /\ fresh[k].left = delay
                      /\ fresh[k].start = out[k].start /\ fresh[k].end = out[k].end
  BY <1>1 DEF FreshOf, Held
<1>3. fresh \in Seq(Held) /\ Len(fresh) = n
  <2>1. fresh \in [1..n -> Held]
    BY <1>1, <1>2 DEF FreshOf
  <2> QED
    BY <1>1, <2>1
<1> HIDE DEF fresh
<1>4. InOrder(fresh) /\ \A u \in Int : Covers(fresh, u) <=> Covers(out, u)
  BY <1>2, <1>3 DEF InOrder, Covers, Within
<1> QED
  BY <1>2, <1>3, <1>4 DEF fresh

\* One list after another, in which no unit is twice.
LEMMA Joined ==
    ASSUME NEW S, HasEnds(S), NEW a \in Seq(S), NEW b \in Seq(S), InOrder(a), InOrder(b),
           \A u \in Int : ~(Covers(a, u) /\ Covers(b, u))
    PROVE  LET z == a \o b
           IN  /\ z \in Seq(S) /\ Len(z) = Len(a) + Len(b) /\ Disjoint(z)
               /\ \A k \in 1..Len(a) : z[k] = a[k]
               /\ \A k \in 1..Len(b) : z[Len(a) + k] = b[k]
<1> DEFINE m == Len(a)
           n == Len(b)
           z == a \o b
<1>1. /\ m \in Nat /\ n \in Nat /\ z \in Seq(S) /\ Len(z) = m + n
      /\ \A k \in 1..m : z[k] = a[k]
      /\ \A k \in 1..n : z[m + k] = b[k]
  OBVIOUS
<1> HIDE DEF z
<1>2. \A k \in 1..m+n : k \in 1..m \/ \E i \in 1..n : k = m + i
  <2> SUFFICES ASSUME NEW k \in 1..m+n, ~(k \in 1..m) PROVE \E i \in 1..n : k = m + i
    OBVIOUS
  <2>1. k - m \in 1..n /\ k = m + (k - m)
    BY <1>1
  <2> QED
    BY <2>1
<1>3. Disjoint(a) /\ Disjoint(b)
  BY InOrderApart
<1>4. \A k \in 1..m+n : z[k].start < z[k].end
  BY <1>1, <1>2, <1>3 DEF Disjoint
<1>5. ASSUME NEW j \in 1..m+n, NEW k \in 1..m+n, NEW u \in Int, Within(u, z[j]), Within(u, z[k])
      PROVE  j = k
  <2>1. CASE j \in 1..m /\ k \in 1..m
    BY <1>1, <1>3, <1>5, <2>1 DEF Disjoint
  <2>2. CASE j \in 1..m /\ k \notin 1..m
    <3>1. PICK i \in 1..n : k = m + i
      BY <1>2, <2>2
    <3>2. Within(u, a[j]) /\ Within(u, b[i])
      BY <1>1, <1>5, <2>2, <3>1
    <3> QED
      BY <2>2, <3>2 DEF Covers
  <2>3. CASE j \notin 1..m /\ k \in 1..m
    <3>1. PICK i \in 1..n : j = m + i
      BY <1>2, <2>3
    <3>2. Within(u, a[k]) /\ Within(u, b[i])
      BY <1>1, <1>5, <2>3, <3>1
    <3> QED
      BY <2>3, <3>2 DEF Covers
  <2>4. CASE j \notin 1..m /\ k \notin 1..m
    <3>1. PICK i \in 1..n, h \in 1..n : j = m + i /\ k = m + h
      BY <1>2, <2>4
    <3>2. Within(u, b[i]) /\ Within(u, b[h])
      BY <1>1, <1>5, <3>1
    <3>3. i = h
      BY <1>3, <3>2 DEF Disjoint
    <3> QED
      BY <3>1, <3>3
  <2> QED
    BY <2>1, <2>2, <2>3, <2>4
<1> QED
  BY <1>1, <1>4, <1>5 DEF Disjoint, z

\* What claim makes of each field of the tracker.
LEMMA ClaimFields ==
    ASSUME NEW r \in Trackers, NEW rs, NEW gaps, NEW delay
    PROVE  LET c == Claim(r, rs, gaps, delay)
               live == Live(r.pending, Missing(rs, Size))
               out  == Uncovered(gaps, live)
           IN  /\ c.pending = ByStart(live \o FreshOf(out, delay))
               /\ c.suspects = r.suspects /\ c.early = r.early
               /\ c.requested \in BOOLEAN
               /\ c.wanted = r.wanted \cup Units(gaps) /\ c.sent = r.sent \cup Units(out)
               /\ c = [suspects |-> c.suspects, pending |-> c.pending, requested |-> c.requested,
                       wanted |-> c.wanted, sent |-> c.sent, early |-> c.early]
<1> DEFINE live == Live(r.pending, Missing(rs, Size))
           out  == Uncovered(gaps, live)
           new  == ByStart(live \o FreshOf(out, delay))
<1>1. Claim(r, rs, gaps, delay)
        = [r EXCEPT !.pending = new, !.requested = @ \/ out # <<>>,
                    !.wanted = @ \cup Units(gaps), !.sent = @ \cup Units(out)]
  BY Zenon DEF Claim, FreshOf
<1> HIDE DEF live, out, new
<1>2. LET c == Claim(r, rs, gaps, delay)
      IN  /\ c.pending = new
          /\ c.suspects = r.suspects /\ c.early = r.early
          /\ c.requested \in BOOLEAN
          /\ c.wanted = r.wanted \cup Units(gaps) /\ c.sent = r.sent \cup Units(out)
          /\ c = [suspects |-> c.suspects, pending |-> c.pending, requested |-> c.requested,
                  wanted |-> c.wanted, sent |-> c.sent, early |-> c.early]
  BY <1>1 DEF Trackers
<1> QED
  BY <1>2 DEF live, out, new

\* claim asks for the gaps but for what RESENDs that are not overdue cover; these
\* go on, as far as they are not repaired, and those have the delay left.
THEOREM ClaimIs ==
    ASSUME NEW rs, RangesOK(rs), NEW top \in Nat, top <= Size, NEW r, TrackerOK(r, top),
           NEW gaps, GapsOK(gaps, rs, top), NEW delay \in Nat
    PROVE  LET c == Claim(r, rs, gaps, delay)
               A == {u \in Units(gaps) : LeftIn(r.pending, u) = 0}
           IN  /\ TrackerOK(c, top) /\ c.suspects = r.suspects /\ c.early = r.early
               /\ Units(gaps) \subseteq Unit
               /\ c.wanted = r.wanted \cup Units(gaps) /\ c.sent = r.sent \cup A
               /\ \A u \in Unit : ~Covers(rs, u)
                    => LeftIn(c.pending, u) = IF u \in A THEN delay ELSE LeftIn(r.pending, u)
<1> DEFINE c == Claim(r, rs, gaps, delay)
           A == {u \in Units(gaps) : LeftIn(r.pending, u) = 0}
           pending == r.pending
           open  == Missing(rs, Size)
           live  == Live(pending, open)
           out   == Uncovered(gaps, live)
           fresh == FreshOf(out, delay)
           new   == ByStart(live \o fresh)
<1>0. Size \in Nat /\ Size > 0
  BY RangeAssumption
<1>1. /\ pending \in Seq(Held) /\ InOrder(pending) /\ Len(pending) \in Nat
      /\ \A k \in 1..Len(pending) : /\ pending[k].start >= 0 /\ pending[k].end <= top
                                    /\ pending[k].start \in Int /\ pending[k].end \in Int
                                    /\ pending[k].left \in Nat
  BY HeldsAre DEF TrackerOK, Trackers
<1>2. /\ open \in Seq(Rng) /\ InOrder(open)
      /\ \A u \in Int : Covers(open, u) <=> 0 <= u /\ u < Size /\ ~Covers(rs, u)
  BY <1>0, MissingIs DEF RangesOK
<1> HIDE DEF open
<1>3. /\ live \in Seq(Held) /\ InOrder(live)
      /\ \A m \in 1..Len(live) :
            \E j \in 1..Len(pending) : live[m] = pending[j] /\ pending[j].left # 0
      /\ \A j \in 1..Len(pending) : pending[j].left # 0 /\ Overlaps(open, pending[j])
                                      => \E m \in 1..Len(live) : live[m] = pending[j]
  BY <1>1, <1>2, LiveIs
<1>4. /\ c.pending = new /\ c.suspects = r.suspects /\ c.early = r.early
      /\ c.requested \in BOOLEAN
      /\ c.wanted = r.wanted \cup Units(gaps) /\ c.sent = r.sent \cup Units(out)
      /\ c = [suspects |-> c.suspects, pending |-> c.pending, requested |-> c.requested,
              wanted |-> c.wanted, sent |-> c.sent, early |-> c.early]
  <2>1. r \in Trackers
    BY DEF TrackerOK
  <2> QED
    BY <2>1, ClaimFields DEF open
<1> HIDE DEF c, live
<1>5. gaps \in Seq(Rng) /\ InOrder(gaps)
      /\ \A u \in Int : Covers(gaps, u) => 0 <= u /\ u < top /\ ~Covers(rs, u)
  BY DEF GapsOK
<1>6. /\ out \in Seq(Rng) /\ InOrder(out)
      /\ \A u \in Int : Covers(out, u) <=> Covers(gaps, u) /\ ~Covers(live, u)
  BY <1>3, <1>5, UncoveredIs
<1> HIDE DEF out
<1>7. /\ fresh \in Seq(Held) /\ InOrder(fresh) /\ Len(fresh) = Len(out)
      /\ \A k \in 1..Len(fresh) : fresh[k].left = delay
      /\ \A u \in Int : Covers(fresh, u) <=> Covers(out, u)
  BY <1>6, FreshIs
<1> HIDE DEF fresh
<1> DEFINE all == live \o fresh
<1>8. /\ all \in Seq(Held) /\ Len(all) = Len(live) + Len(fresh) /\ Disjoint(all)
      /\ \A k \in 1..Len(live) : all[k] = live[k]
      /\ \A k \in 1..Len(fresh) : all[Len(live) + k] = fresh[k]
  <2>1. \A u \in Int : ~(Covers(live, u) /\ Covers(fresh, u))
    BY <1>6, <1>7
  <2>2. live \in Seq(Held) /\ InOrder(live) /\ fresh \in Seq(Held) /\ InOrder(fresh) /\ HasEnds(Held)
    BY <1>3, <1>7, BothHaveEnds
  <2> QED
    BY <2>1, <2>2, Joined
<1>9. Len(live) \in Nat /\ Len(fresh) \in Nat
  BY <1>3, <1>7
<1> HIDE DEF all
<1>10. /\ new \in Seq(Held) /\ Len(new) = Len(all) /\ InOrder(new)
       /\ \A k \in 1..Len(new) : \E i \in 1..Len(all) : new[k] = all[i]
       /\ \A i \in 1..Len(all) : \E k \in 1..Len(new) : new[k] = all[i]
  BY <1>8, ByStartIs DEF all
<1> HIDE DEF new
<1>11. /\ \A k \in 1..Len(new) : \/ \E m \in 1..Len(live) : new[k] = live[m]
                                 \/ \E m \in 1..Len(fresh) : new[k] = fresh[m]
       /\ \A m \in 1..Len(live) : \E k \in 1..Len(new) : new[k] = live[m]
       /\ \A m \in 1..Len(fresh) : \E k \in 1..Len(new) : new[k] = fresh[m]
  <2>1. \A i \in 1..Len(all) : i \in 1..Len(live) \/ \E m \in 1..Len(fresh) : i = Len(live) + m
    <3> SUFFICES ASSUME NEW i \in 1..Len(all), i \notin 1..Len(live)
                 PROVE  \E m \in 1..Len(fresh) : i = Len(live) + m
      OBVIOUS
    <3>1. i - Len(live) \in 1..Len(fresh) /\ i = Len(live) + (i - Len(live))
      BY <1>8, <1>9
    <3> QED
      BY <3>1
  <2>2. /\ \A m \in 1..Len(live) : m \in 1..Len(all)
        /\ \A m \in 1..Len(fresh) : Len(live) + m \in 1..Len(all)
    BY <1>8, <1>9
  <2>3. ASSUME NEW k \in 1..Len(new)
        PROVE  \/ \E m \in 1..Len(live) : new[k] = live[m]
               \/ \E m \in 1..Len(fresh) : new[k] = fresh[m]
    <3>1. PICK i \in 1..Len(all) : new[k] = all[i]
      BY <1>10
    <3> QED
      BY <1>8, <2>1, <3>1
  <2>4. ASSUME NEW m \in 1..Len(live) PROVE \E k \in 1..Len(new) : new[k] = live[m]
    BY <1>8, <1>10, <2>2
  <2>5. ASSUME NEW m \in 1..Len(fresh) PROVE \E k \in 1..Len(new) : new[k] = fresh[m]
    <3>1. Len(live) + m \in 1..Len(all) /\ all[Len(live) + m] = fresh[m]
      BY <1>8, <2>2
    <3> QED
      BY <1>10, <3>1
  <2> QED
    BY <2>3, <2>4, <2>5
<1>12. Units(gaps) = {u \in Int : Covers(gaps, u)} /\ Units(out) = {u \in Int : Covers(out, u)}
  BY <1>5, <1>6, BothHaveEnds, UnitsAre
<1>13. Units(gaps) \subseteq Unit
  BY <1>0, <1>5, <1>12 DEF Unit
<1>14. ASSUME NEW u \in Unit, ~Covers(rs, u)
       PROVE  /\ Covers(live, u) <=> LeftIn(pending, u) # 0
              /\ \A m \in 1..Len(live) : Within(u, live[m]) => live[m].left = LeftIn(pending, u)
  <2>0. u \in Int /\ 0 <= u /\ u < Size
    BY <1>0 DEF Unit
  <2>1. \A m \in 1..Len(live) : Within(u, live[m])
           => live[m].left = LeftIn(pending, u) /\ LeftIn(pending, u) # 0
    <3> SUFFICES ASSUME NEW m \in 1..Len(live), Within(u, live[m])
                 PROVE  live[m].left = LeftIn(pending, u) /\ LeftIn(pending, u) # 0
      OBVIOUS
    <3>1. PICK j \in 1..Len(pending) : live[m] = pending[j] /\ pending[j].left # 0
      BY <1>3
    <3>2. LeftIn(pending, u) = pending[j].left
      BY <1>1, <2>0, <3>1, LeftInIs
    <3> QED
      BY <3>1, <3>2
  <2>2. ASSUME LeftIn(pending, u) # 0 PROVE Covers(live, u)
    <3>1. PICK j \in 1..Len(pending) : Within(u, pending[j])
      BY <1>1, <2>0, <2>2, LeftInIs DEF Covers
    <3>2. pending[j].left # 0
      BY <1>1, <2>0, <2>2, <3>1, LeftInIs
    <3>3. Overlaps(open, pending[j])
      BY <1>2, <1>14, <2>0, <3>1 DEF Overlaps
    <3> QED
      BY <1>3, <3>1, <3>2, <3>3 DEF Covers
  <2> QED
    BY <2>1, <2>2 DEF Covers
<1>15. Units(out) = A
  <2>1. ASSUME NEW u \in Units(gaps) PROVE u \in Units(out) <=> LeftIn(pending, u) = 0
    <3>1. u \in Unit /\ u \in Int /\ Covers(gaps, u) /\ ~Covers(rs, u)
      BY <1>5, <1>12, <1>13
    <3> QED
      BY <1>6, <1>12, <1>14, <3>1
  <2>2. Units(out) \subseteq Units(gaps)
    BY <1>6, <1>12
  <2> QED
    BY <2>1, <2>2
<1>16. ASSUME NEW u \in Unit, ~Covers(rs, u)
       PROVE  LeftIn(new, u) = IF u \in A THEN delay ELSE LeftIn(pending, u)
  <2>0. u \in Int
    BY <1>0 DEF Unit
  <2>1. CASE u \in A
    <3>1. Covers(fresh, u)
      BY <1>7, <1>12, <1>15, <2>1
    <3>2. PICK m \in 1..Len(fresh) : Within(u, fresh[m])
      BY <3>1 DEF Covers
    <3>3. PICK k \in 1..Len(new) : new[k] = fresh[m]
      BY <1>11
    <3>4. LeftIn(new, u) = new[k].left
      BY <1>10, <2>0, <3>2, <3>3, LeftInIs
    <3> QED
      BY <1>7, <2>1, <3>3, <3>4
  <2>2. CASE u \notin A /\ LeftIn(pending, u) # 0
    <3>1. PICK m \in 1..Len(live) : Within(u, live[m])
      BY <1>14, <1>16, <2>2 DEF Covers
    <3>2. PICK k \in 1..Len(new) : new[k] = live[m]
      BY <1>11
    <3>3. LeftIn(new, u) = new[k].left
      BY <1>10, <2>0, <3>1, <3>2, LeftInIs
    <3> QED
      BY <1>14, <1>16, <2>2, <3>1, <3>2, <3>3
  <2>3. CASE u \notin A /\ LeftIn(pending, u) = 0
    <3>1. ~Covers(live, u)
      BY <1>14, <1>16, <2>3
    <3>2. ~Covers(fresh, u)
      BY <1>7, <1>12, <1>15, <2>0, <2>3
    <3>3. ~Covers(new, u)
      <4> SUFFICES ASSUME NEW k \in 1..Len(new), Within(u, new[k]) PROVE FALSE
        BY DEF Covers
      <4> QED
        BY <1>11, <3>1, <3>2 DEF Covers
    <3>4. LeftIn(new, u) = 0
      BY <1>10, <2>0, <3>3, LeftInIs
    <3> QED
      BY <2>3, <3>4
  <2> QED
    BY <2>1, <2>2, <2>3
<1>17. \A k \in 1..Len(new) : new[k].start >= 0 /\ new[k].end <= top
  <2> SUFFICES ASSUME NEW k \in 1..Len(new) PROVE new[k].start >= 0 /\ new[k].end <= top
    OBVIOUS
  <2>1. ASSUME NEW m \in 1..Len(live), new[k] = live[m]
        PROVE  new[k].start >= 0 /\ new[k].end <= top
    BY <1>1, <1>3, <2>1
  <2>2. ASSUME NEW m \in 1..Len(fresh), new[k] = fresh[m]
        PROVE  new[k].start >= 0 /\ new[k].end <= top
    <3>1. fresh[m].start \in Int /\ fresh[m].end \in Int /\ fresh[m].start < fresh[m].end
      BY <1>7, HeldsAre DEF InOrder
    <3>2. /\ Within(fresh[m].start, fresh[m]) /\ Within(fresh[m].end - 1, fresh[m])
          /\ fresh[m].end - 1 \in Int
      BY <3>1 DEF Within
    <3>3. Covers(gaps, fresh[m].start) /\ Covers(gaps, fresh[m].end - 1)
      <4>1. Covers(fresh, fresh[m].start) /\ Covers(fresh, fresh[m].end - 1)
        BY <3>2 DEF Covers
      <4> QED
        BY <1>6, <1>7, <3>1, <3>2, <4>1
    <3> QED
      BY <1>5, <2>2, <3>1, <3>2, <3>3
  <2> QED
    BY <1>11, <2>1, <2>2
<1>18. TrackerOK(c, top)
  <2>1. /\ r.suspects \in UNION {[S -> Nat] : S \in SUBSET Unit} /\ r.early \in SUBSET Unit
        /\ r.wanted \in SUBSET Unit /\ r.sent \in SUBSET Unit
    BY DEF TrackerOK, Trackers
  <2>2. /\ c.suspects \in UNION {[S -> Nat] : S \in SUBSET Unit} /\ c.early \in SUBSET Unit
        /\ c.wanted \in SUBSET Unit /\ c.sent \in SUBSET Unit
        /\ c.pending \in Seq(Held) /\ c.requested \in BOOLEAN
    BY <1>4, <1>10, <1>13, <1>15, <2>1
  <2>3. c \in Trackers
    BY <1>4, <2>2 DEF Trackers
  <2> QED
    BY <1>4, <1>10, <1>17, <2>3 DEF TrackerOK
<1> QED
  BY <1>4, <1>13, <1>15, <1>16, <1>18 DEF c

-----------------------------------------------------------------------------
(* A payload comes. *)

\* No two ranges of a transfer touch.
Apart(rs) ==
    /\ \A k \in 1..Len(rs) : rs[k].start < rs[k].end
    /\ \A j, k \in 1..Len(rs) : j < k => rs[j].end < rs[k].start

\* The members of two lists put together.
LEMMA Concatenated ==
    ASSUME NEW S, NEW a \in Seq(S), NEW b \in Seq(S)
    PROVE  /\ a \o b \in Seq(S) /\ Len(a \o b) = Len(a) + Len(b)
           /\ \A k \in 1..Len(a) : (a \o b)[k] = a[k]
           /\ \A k \in 1..Len(b) : (a \o b)[Len(a) + k] = b[k]
  OBVIOUS

Splice(rs, i, j, m) == SubSeq(rs, 1, i-1) \o <<m>> \o SubSeq(rs, j, Len(rs))

IsSplice(z, S, rs, i, j, m) ==
    /\ z \in Seq(S) /\ Len(z) = i + (Len(rs) - j + 1)
    /\ \A k \in 1..i-1 : z[k] = rs[k]
    /\ z[i] = m
    /\ \A k \in j..Len(rs) : z[k - j + i + 1] = rs[k]

\* A stretch of a list replaced by one range.
LEMMA Spliced ==
    ASSUME NEW S, NEW rs \in Seq(S), NEW m \in S, NEW i \in 1..Len(rs)+1, NEW j \in i..Len(rs)+1
    PROVE  IsSplice(Splice(rs, i, j, m), S, rs, i, j, m)
<1> DEFINE n == Len(rs)
           a == SubSeq(rs, 1, i-1)
           c == SubSeq(rs, j, n)
           b == a \o <<m>>
<1>1. n \in Nat /\ i \in Nat /\ j \in Nat /\ i <= j /\ j <= n + 1 /\ 1 <= i
  OBVIOUS
<1>2. a \in Seq(S) /\ Len(a) = i - 1 /\ \A k \in 1..i-1 : a[k] = rs[k]
  BY <1>1
<1>3. c \in Seq(S) /\ Len(c) = n - j + 1 /\ \A k \in 1..n-j+1 : c[k] = rs[j + k - 1]
  BY <1>1
<1> HIDE DEF a, c
<1>4. b \in Seq(S) /\ Len(b) = i /\ (\A k \in 1..i-1 : b[k] = rs[k]) /\ b[i] = m
  <2>1. <<m>> \in Seq(S) /\ Len(<<m>>) = 1 /\ <<m>>[1] = m
    OBVIOUS
  <2>2. b \in Seq(S) /\ Len(b) = Len(a) + 1
    BY <1>2, <2>1
  <2>3. \A k \in 1..Len(a) : b[k] = a[k]
    BY <1>2, <2>1
  <2>4. b[Len(a) + 1] = m
    BY <1>2, <2>1
  <2> HIDE DEF b
  <2>5. Len(a) = i - 1 /\ Len(a) + 1 = i
    BY <1>1, <1>2
  <2> QED
    BY <1>2, <2>2, <2>3, <2>4, <2>5
<1> HIDE DEF b
<1>5. /\ b \o c \in Seq(S) /\ Len(b \o c) = i + (n - j + 1)
      /\ \A k \in 1..i : (b \o c)[k] = b[k]
      /\ \A k \in 1..n-j+1 : (b \o c)[i + k] = c[k]
  <2>1. b \in Seq(S) /\ c \in Seq(S)
    BY <1>3, <1>4
  <2>2. /\ b \o c \in Seq(S) /\ Len(b \o c) = Len(b) + Len(c)
        /\ \A k \in 1..Len(b) : (b \o c)[k] = b[k]
        /\ \A k \in 1..Len(c) : (b \o c)[Len(b) + k] = c[k]
    BY <2>1, Concatenated
  <2> QED
    BY <1>3, <1>4, <2>2
<1>6. \A k \in j..n : k - j + 1 \in 1..n-j+1 /\ i + (k - j + 1) = k - j + i + 1 /\ j + (k - j + 1) - 1 = k
  BY <1>1
<1>7. \A k \in j..n : (b \o c)[k - j + i + 1] = rs[k]
  <2> SUFFICES ASSUME NEW k \in j..n PROVE (b \o c)[k - j + i + 1] = rs[k]
    OBVIOUS
  <2> DEFINE x == k - j + 1
  <2>1. x \in 1..n-j+1 /\ i + x = k - j + i + 1 /\ j + x - 1 = k
    BY <1>6
  <2> HIDE DEF x
  <2>2. (b \o c)[i + x] = c[x] /\ c[x] = rs[j + x - 1]
    BY <1>3, <1>5, <2>1
  <2> QED
    BY <2>1, <2>2
<1>8. (\A k \in 1..i-1 : k \in 1..i) /\ i \in 1..i
  BY <1>1
<1>9. /\ b \o c \in Seq(S) /\ Len(b \o c) = i + (n - j + 1)
      /\ \A k \in 1..i-1 : (b \o c)[k] = rs[k]
      /\ (b \o c)[i] = m
      /\ \A k \in j..n : (b \o c)[k - j + i + 1] = rs[k]
  BY <1>4, <1>5, <1>7, <1>8
<1> QED
  BY <1>9 DEF a, b, c, Splice, IsSplice

\* Reassembly.add keeps the ranges apart and adds the payload's units.
THEOREM MergedIs ==
    ASSUME NEW rs \in Seq(Rng), Apart(rs), NEW p \in Rng, p.start < p.end
    PROVE  LET z == Merged(rs, p)
           IN  /\ z \in Seq(Rng) /\ Apart(z) /\ Len(z) > 0
               /\ \A u \in Int : Covers(z, u) <=> Covers(rs, u) \/ Within(u, p)
<1> DEFINE n == Len(rs)
           z == Merged(rs, p)
           P == {k \in 1..n+1 : k > n \/ ~Before(rs[k], p)}
           i == Min({k \in 1..n+1 : k > n \/ ~Before(rs[k], p)})
           j == Min({k \in i..n+1 : k > n \/ rs[k].start > p.end})
           Q == {k \in i..n+1 : k > n \/ rs[k].start > p.end}
           starts == {p.start} \cup {rs[k].start : k \in i..j-1}
           ends   == {p.end} \cup {rs[k].end : k \in i..j-1}
           a == Min(starts)
           b == Max(ends)
           m == R(a, b)
<1>1. /\ n \in Nat
      /\ \A k \in 1..n : rs[k] \in Rng /\ rs[k].start \in Int /\ rs[k].end \in Int
                         /\ rs[k].start < rs[k].end
  BY RngsAre DEF Apart
<1>2. p.start \in Int /\ p.end \in Int
  BY DEF Rng
<1>3. z = SubSeq(rs, 1, i-1) \o <<m>> \o SubSeq(rs, j, n)
  BY DEF Merged
<1>4. /\ i \in 1..n+1
      /\ \A k \in 1..i-1 : rs[k].end < p.start
      /\ i <= n => rs[i].end >= p.start
  <2>1. i = Min({k \in 1..n+1 : k \in P})
    <3>1. P = {k \in 1..n+1 : k \in P}
      OBVIOUS
    <3> QED
      BY <3>1
  <2>2. \A k \in 1..n+1 : k \in P <=> k > n \/ ~(rs[k].end < p.start)
    BY DEF Before
  <2>3. n + 1 \in P /\ 1 \in Int /\ n + 1 \in Int /\ 1 <= n + 1
    BY <1>1
  <2> HIDE DEF P, i
  <2>4. i \in 1..n+1 /\ i \in P /\ \A k \in 1..i-1 : k \notin P
    BY <2>1, <2>3, FirstIs
  <2>5. \A k \in 1..i-1 : k \in 1..n+1 /\ ~(k > n)
    BY <1>1, <2>4
  <2> QED
    BY <1>1, <1>2, <2>2, <2>4, <2>5
<1> HIDE DEF i
<1>5. /\ j \in i..n+1
      /\ \A k \in i..j-1 : rs[k].start <= p.end
      /\ j <= n => rs[j].start > p.end
  <2>1. j = Min({k \in i..n+1 : k \in Q})
    <3>1. Q = {k \in i..n+1 : k \in Q}
      OBVIOUS
    <3> QED
      BY <3>1
  <2>2. \A k \in i..n+1 : k \in Q <=> k > n \/ rs[k].start > p.end
    OBVIOUS
  <2>3. n + 1 \in Q /\ i \in Int /\ n + 1 \in Int /\ i <= n + 1
    BY <1>1, <1>4
  <2> HIDE DEF Q, j
  <2>4. j \in i..n+1 /\ j \in Q /\ \A k \in i..j-1 : k \notin Q
    BY <2>1, <2>3, FirstIs
  <2>5. \A k \in i..j-1 : k \in i..n+1 /\ k \in 1..n /\ ~(k > n)
    BY <1>1, <1>4, <2>4
  <2> QED
    BY <1>1, <1>2, <1>4, <2>2, <2>4, <2>5
<1> HIDE DEF j
<1>6. /\ \A h, k \in 1..n : h < k => rs[h].end < rs[k].start
      /\ i \in Nat /\ j \in Nat /\ i <= j /\ j <= n + 1 /\ 1 <= i
      /\ \A k \in i..j-1 : k \in 1..n
      /\ \A k \in 1..i-1 : k \in 1..n
      /\ \A k \in j..n : k \in 1..n
  BY <1>1, <1>4, <1>5 DEF Apart
\* What the payload becomes with the ranges it touches.
<1>7. /\ a \in Int /\ b \in Int /\ a <= p.start /\ p.end <= b
      /\ \A k \in i..j-1 : a <= rs[k].start /\ rs[k].end <= b
      /\ a < p.start => i < j /\ a = rs[i].start
      /\ b > p.end => i < j /\ b = rs[j-1].end
  <2>1. CASE i = j
    <3>1. starts = {p.start} /\ ends = {p.end} /\ \A k \in i..j-1 : FALSE
      BY <1>6, <2>1
    <3> HIDE DEF starts, ends
    <3>2. a = p.start /\ b = p.end
      <4>1. starts \subseteq Int /\ p.start \in starts /\ \A x \in starts : p.start <= x
        BY <1>2, <3>1
      <4>2. ends \subseteq Int /\ p.end \in ends /\ \A x \in ends : x <= p.end
        BY <1>2, <3>1
      <4> QED
        BY <4>1, <4>2, MinIs, MaxIs
    <3> QED
      BY <1>2, <3>1, <3>2
  <2>2. CASE i < j
    <3>1. /\ i \in i..j-1 /\ j - 1 \in i..j-1
          /\ \A k \in i..j-1 : rs[i].start <= rs[k].start /\ rs[k].end <= rs[j-1].end
      <4>1. i \in i..j-1 /\ j - 1 \in i..j-1 /\ i \in 1..n /\ j - 1 \in 1..n
        BY <1>6, <2>2
      <4>2. ASSUME NEW k \in i..j-1
            PROVE  rs[i].start <= rs[k].start /\ rs[k].end <= rs[j-1].end
        <5>1. k \in 1..n /\ (k = i \/ i < k) /\ (k = j - 1 \/ k < j - 1)
          BY <1>6
        <5>2. /\ rs[k].start \in Int /\ rs[k].end \in Int /\ rs[k].start < rs[k].end
              /\ rs[i].start \in Int /\ rs[i].end \in Int /\ rs[i].start < rs[i].end
              /\ rs[j-1].start \in Int /\ rs[j-1].end \in Int /\ rs[j-1].start < rs[j-1].end
          BY <1>1, <4>1, <5>1
        <5>3. i < k => rs[i].end < rs[k].start
          BY <1>6, <4>1, <5>1
        <5>4. k < j - 1 => rs[k].end < rs[j-1].start
          BY <1>6, <4>1, <5>1
        <5>5. rs[i].start <= rs[k].start
          BY <5>1, <5>2, <5>3
        <5>6. rs[k].end <= rs[j-1].end
          BY <5>1, <5>2, <5>4
        <5> QED
          BY <5>5, <5>6
      <4> QED
        BY <4>1, <4>2
    <3>2. rs[i].start \in Int /\ rs[j-1].end \in Int
      BY <1>1, <1>6, <3>1
    <3>3. a = Least(p.start, rs[i].start)
      <4>1. /\ starts \subseteq Int /\ Least(p.start, rs[i].start) \in starts
            /\ \A x \in starts : Least(p.start, rs[i].start) <= x
        <5>1. \A k \in i..j-1 : rs[k].start \in Int
          BY <1>1, <1>6
        <5> QED
          BY <1>2, <3>1, <3>2, <5>1 DEF Least
      <4> HIDE DEF starts
      <4> QED
        BY <4>1, MinIs
    <3>4. b = Greatest(p.end, rs[j-1].end)
      <4>1. /\ ends \subseteq Int /\ Greatest(p.end, rs[j-1].end) \in ends
            /\ \A x \in ends : x <= Greatest(p.end, rs[j-1].end)
        <5>1. \A k \in i..j-1 : rs[k].end \in Int
          BY <1>1, <1>6
        <5> QED
          BY <1>2, <3>1, <3>2, <5>1 DEF Greatest
      <4> HIDE DEF ends
      <4> QED
        BY <4>1, MaxIs
    <3> HIDE DEF a, b
    <3>5. \A k \in i..j-1 : rs[k].start \in Int /\ rs[k].end \in Int
      BY <1>1, <1>6
    <3> QED
      BY <1>2, <2>2, <3>1, <3>2, <3>3, <3>4, <3>5 DEF Least, Greatest
  <2>3. i = j \/ i < j
    BY <1>6
  <2> HIDE DEF a, b
  <2> QED
    BY <2>1, <2>2, <2>3
<1> HIDE DEF a, b
<1>8. m \in Rng /\ m.start = a /\ m.end = b /\ a < b
  BY <1>2, <1>7 DEF R, Rng
<1> HIDE DEF m
<1>9. /\ z \in Seq(Rng) /\ Len(z) = i + (n - j + 1)
      /\ \A k \in 1..i-1 : z[k] = rs[k]
      /\ z[i] = m
      /\ \A k \in j..n : z[k - j + i + 1] = rs[k]
  <2> HIDE DEF z
  <2>1. z = Splice(rs, i, j, m)
    BY <1>3 DEF Splice
  <2>2. i \in 1..Len(rs)+1 /\ j \in i..Len(rs)+1 /\ m \in Rng
    BY <1>4, <1>5, <1>8
  <2> DEFINE y == Splice(rs, i, j, m)
  <2>3. IsSplice(y, Rng, rs, i, j, m)
    BY <2>2, Spliced
  <2> HIDE DEF y
  <2>4. z = y
    BY <2>1 DEF y
  <2> QED
    BY <2>3, <2>4 DEF IsSplice
<1> HIDE DEF z
<1>10. \A k \in 1..Len(z) : \/ k \in 1..i-1
                            \/ k = i
                            \/ k > i /\ k + j - i - 1 \in j..n /\ z[k] = rs[k + j - i - 1]
  <2> SUFFICES ASSUME NEW k \in 1..Len(z), k > i
               PROVE  k + j - i - 1 \in j..n /\ z[k] = rs[k + j - i - 1]
    BY <1>6, <1>9
  <2>1. k + j - i - 1 \in j..n /\ (k + j - i - 1) - j + i + 1 = k
    BY <1>1, <1>6, <1>9
  <2>2. z[(k + j - i - 1) - j + i + 1] = rs[k + j - i - 1]
    BY <1>9, <2>1
  <2> QED
    BY <2>1, <2>2
<1>11. /\ \A k \in 1..i-1 : rs[k].end < a
       /\ \A k \in j..n : b < rs[k].start
  <2>1. ASSUME NEW k \in 1..i-1 PROVE rs[k].end < a
    <3>1. rs[k].end < p.start /\ k \in 1..n /\ rs[k].end \in Int
      BY <1>1, <1>4, <1>6
    <3>2. CASE a < p.start
      <4>1. i \in 1..n /\ k < i /\ a = rs[i].start
        BY <1>6, <1>7, <3>2
      <4> QED
        BY <1>6, <3>1, <4>1
    <3> QED
      BY <1>2, <1>7, <3>1, <3>2
  <2>2. ASSUME NEW k \in j..n PROVE b < rs[k].start
    <3>1. k \in 1..n /\ rs[k].start \in Int /\ j \in 1..n /\ rs[j].start \in Int /\ rs[j].end \in Int
          /\ rs[j].start < rs[j].end /\ rs[j].start > p.end
      BY <1>1, <1>5, <1>6
    <3>2. p.end < rs[k].start
      <4>1. CASE k = j
        BY <3>1, <4>1
      <4>2. CASE k # j
        <5>1. rs[j].end < rs[k].start
          BY <1>6, <3>1, <4>2
        <5> QED
          BY <1>2, <3>1, <5>1
      <4> QED
        BY <4>1, <4>2
    <3>3. CASE b > p.end
      <4>1. j - 1 \in 1..n /\ j - 1 < k /\ b = rs[j-1].end
        BY <1>6, <1>7, <3>3
      <4> QED
        BY <1>6, <3>1, <4>1
    <3> QED
      BY <1>2, <1>7, <3>1, <3>2, <3>3
  <2> QED
    BY <2>1, <2>2
<1>12. \A k \in 1..Len(z) : z[k].start < z[k].end
  BY <1>1, <1>6, <1>8, <1>9, <1>10
<1>13. ASSUME NEW h \in 1..Len(z), NEW k \in 1..Len(z), h < k
       PROVE  z[h].end < z[k].start
  <2>1. CASE k \in 1..i-1
    <3>1. h \in 1..i-1
      BY <1>6, <1>13, <2>1
    <3> QED
      BY <1>6, <1>9, <1>13, <2>1, <3>1
  <2>2. CASE k = i
    <3>1. h \in 1..i-1
      BY <1>13, <2>2
    <3> QED
      BY <1>8, <1>9, <1>11, <2>2, <3>1
  <2>3. CASE k > i /\ k + j - i - 1 \in j..n /\ z[k] = rs[k + j - i - 1]
    <3>1. CASE h \in 1..i-1
      <4>1. h < k + j - i - 1 /\ h \in 1..n /\ k + j - i - 1 \in 1..n
        BY <1>6, <2>3, <3>1
      <4> QED
        BY <1>6, <1>9, <2>3, <3>1, <4>1
    <3>2. CASE h = i
      BY <1>8, <1>9, <1>11, <2>3, <3>2
    <3>3. CASE h > i /\ h + j - i - 1 \in j..n /\ z[h] = rs[h + j - i - 1]
      <4>1. h + j - i - 1 < k + j - i - 1 /\ h + j - i - 1 \in 1..n /\ k + j - i - 1 \in 1..n
        BY <1>6, <1>13, <2>3, <3>3
      <4> QED
        BY <1>6, <2>3, <3>3, <4>1
    <3> QED
      BY <1>10, <3>1, <3>2, <3>3
  <2> QED
    BY <1>10, <2>1, <2>2, <2>3
<1>14. ASSUME NEW u \in Int, Covers(z, u) PROVE Covers(rs, u) \/ Within(u, p)
  <2>1. PICK k \in 1..Len(z) : Within(u, z[k])
    BY <1>14 DEF Covers
  <2>2. CASE k \in 1..i-1
    BY <1>6, <1>9, <2>1, <2>2 DEF Covers
  <2>3. CASE k > i /\ k + j - i - 1 \in j..n /\ z[k] = rs[k + j - i - 1]
    BY <1>6, <2>1, <2>3 DEF Covers
  <2>4. CASE k = i
    <3>1. a <= u /\ u < b
      BY <1>8, <1>9, <2>1, <2>4 DEF Within
    <3>2. CASE p.start <= u /\ u < p.end
      BY <3>2 DEF Within
    <3>3. CASE u < p.start
      <4>1. i < j /\ a = rs[i].start
        BY <1>2, <1>7, <3>1, <3>3
      <4>2. i \in 1..n /\ rs[i].end >= p.start /\ rs[i].end \in Int
        BY <1>1, <1>4, <1>6, <4>1
      <4>3. Within(u, rs[i])
        BY <1>2, <3>1, <3>3, <4>1, <4>2 DEF Within
      <4> QED
        BY <4>2, <4>3 DEF Covers
    <3>4. CASE p.end <= u
      <4>1. i < j /\ b = rs[j-1].end
        BY <1>2, <1>7, <3>1, <3>4
      <4>2. j - 1 \in 1..n /\ rs[j-1].start <= p.end /\ rs[j-1].start \in Int
        BY <1>1, <1>5, <1>6, <4>1
      <4>3. Within(u, rs[j-1])
        BY <1>2, <3>1, <3>4, <4>1, <4>2 DEF Within
      <4> QED
        BY <4>2, <4>3 DEF Covers
    <3> QED
      BY <1>2, <3>2, <3>3, <3>4
  <2> QED
    BY <1>10, <2>1, <2>2, <2>3, <2>4
<1>15. ASSUME NEW u \in Int, Covers(rs, u) \/ Within(u, p) PROVE Covers(z, u)
  <2>0. i \in 1..Len(z)
    BY <1>1, <1>6, <1>9
  <2>1. CASE Within(u, p)
    <3>1. Within(u, z[i])
      BY <1>2, <1>7, <1>8, <1>9, <2>1 DEF Within
    <3> QED
      BY <2>0, <3>1 DEF Covers
  <2>2. ASSUME NEW k \in 1..n, Within(u, rs[k]) PROVE Covers(z, u)
    <3>0. rs[k].start \in Int /\ rs[k].end \in Int
      BY <1>1
    <3>1. CASE k \in 1..i-1
      <4>1. k \in 1..Len(z)
        BY <1>6, <1>9, <3>1
      <4> QED
        BY <1>9, <2>2, <3>1, <4>1 DEF Covers
    <3>2. CASE k \in i..j-1
      <4>1. Within(u, z[i])
        BY <1>7, <1>8, <1>9, <2>2, <3>0, <3>2 DEF Within
      <4> QED
        BY <2>0, <4>1 DEF Covers
    <3>3. CASE k \in j..n
      <4>1. k - j + i + 1 \in 1..Len(z)
        BY <1>6, <1>9, <3>3
      <4> QED
        BY <1>9, <2>2, <3>3, <4>1 DEF Covers
    <3> QED
      BY <1>6, <3>1, <3>2, <3>3
  <2> QED
    BY <1>15, <2>1, <2>2 DEF Covers
<1>16. Len(z) > 0
  BY <1>1, <1>6, <1>9
<1> QED
  BY <1>9, <1>12, <1>13, <1>14, <1>15, <1>16 DEF Apart, z

IsCovered(f, rs, p) ==
    f = [k \in 0..Len(rs) |-> IF k = 0 THEN 0 ELSE f[k-1] + Overlap(rs[k], p)]

\* Fresh is read off a function that adds the overlaps up.
LEMMA FreshChosen ==
    ASSUME NEW rs, NEW p
    PROVE  Fresh(rs, p) = p.end - p.start - (CHOOSE f : IsCovered(f, rs, p))[Len(rs)]
  BY Zenon DEF Fresh, IsCovered

CoveredTurns(f, rs, p) ==
    /\ f[0] = 0
    /\ \A k \in 1..Len(rs) : f[k] = f[k-1] + Overlap(rs[k], p)
    /\ Fresh(rs, p) = p.end - p.start - f[Len(rs)]

\* The sum of the overlaps exists and goes range by range.
LEMMA FreshCourse ==
    ASSUME NEW rs \in Seq(Rng), NEW p \in Rng
    PROVE  \E f : CoveredTurns(f, rs, p)
<1> DEFINE D == Int
           n == Len(rs)
           base == 0
           F == [k \in 1..n |-> [x \in D |-> x + Overlap(rs[k], p)]]
           h == CHOOSE f : IsCovered(f, rs, p)
<1>1. n \in Int /\ 0 \in Int /\ 0 <= n /\ 1 = 0 + 1 /\ base \in D
  OBVIOUS
<1>2. F \in [1..n -> [D -> D]]
  <2>1. \A k \in 1..n : Overlap(rs[k], p) \in Int
    BY RngsAre DEF Overlap, Rng, Least, Greatest
  <2> QED
    BY <2>1
<1>3. \A k \in 1..n, x \in D : F[k][x] = x + Overlap(rs[k], p)
  OBVIOUS
<1> HIDE DEF F, D, base, n
<1>4. PICK f : IsCourse(f, 0, n, D, base, 1, F)
  BY <1>1, <1>2, Course
<1>5. f \in [0..n -> D] /\ f[0] = base /\ \A k \in 1..n : f[k] = f[k-1] + Overlap(rs[k], p)
  BY <1>1, <1>3, <1>4 DEF IsCourse
<1>6. IsCovered(f, rs, p)
  <2>1. f = [k \in 0..n |-> IF k = 0 THEN base ELSE f[k-1] + Overlap(rs[k], p)]
    BY <1>1, <1>5
  <2> QED
    BY <2>1 DEF IsCovered, n, base
<1>7. IsCovered(h, rs, p)
  BY <1>6
<1> HIDE DEF h
<1>8. h = [k \in 0..n |-> IF k = 0 THEN base ELSE h[k-1] + Overlap(rs[k], p)]
  BY <1>7 DEF IsCovered, n, base
<1>9. h[0] = base /\ \A k \in 1..n : h[k] = h[k-1] + Overlap(rs[k], p)
  <2>1. \A k \in 0..n : h[k] = IF k = 0 THEN base ELSE h[k-1] + Overlap(rs[k], p)
    BY <1>8
  <2>2. 0 \in 0..n /\ \A k \in 1..n : k \in 0..n /\ k # 0
    BY <1>1
  <2> QED
    BY <2>1, <2>2
<1>10. Fresh(rs, p) = p.end - p.start - h[n]
  BY FreshChosen DEF h, n
<1> QED
  BY <1>9, <1>10 DEF n, base, CoveredTurns

\* Reassembly.add counts the payload's units that had not arrived.
LEMMA FreshCounts ==
    ASSUME NEW rs \in Seq(Rng), InOrder(rs), NEW p \in Rng, p.start < p.end
    PROVE  LET new == {u \in p.start..p.end-1 : ~Covers(rs, u)}
           IN  IsFiniteSet(new) /\ Fresh(rs, p) = Cardinality(new)
<1> DEFINE n == Len(rs)
           P == p.start..p.end-1
           C(k) == {u \in P : \E m \in 1..k : Within(u, rs[m])}
           new == {u \in P : ~Covers(rs, u)}
<1>1. /\ n \in Nat
      /\ \A k \in 1..n : rs[k].start \in Int /\ rs[k].end \in Int /\ rs[k].start < rs[k].end
  BY RngsAre DEF InOrder
<1>2. p.start \in Int /\ p.end \in Int
  BY DEF Rng
<1>3. IsFiniteSet(P) /\ Cardinality(P) = p.end - p.start
  <2>1. /\ p.start \in Int /\ p.end - 1 \in Int /\ ~(p.start > p.end - 1)
        /\ p.end - 1 - p.start + 1 = p.end - p.start
    BY <1>2
  <2> QED
    BY <2>1, FS_Interval
<1>4. PICK f : CoveredTurns(f, rs, p)
  BY FreshCourse
<1> DEFINE G == {k \in 0..n : f[k] = Cardinality(C(k))}
<1>5. 0 \in G
  <2>1. C(0) = {}
    OBVIOUS
  <2>2. f[0] = Cardinality(C(0))
    BY <1>4, <2>1, FS_EmptySet DEF CoveredTurns
  <2>3. 0 \in 0..n
    BY <1>1
  <2> HIDE DEF C
  <2> QED
    BY <2>2, <2>3
<1>6. ASSUME NEW k \in 1..n, k - 1 \in G PROVE k \in G
  <2> DEFINE r == rs[k]
             a == Greatest(r.start, p.start)
             b == Least(r.end, p.end)
             I == a..b-1
  <2>1. r.start \in Int /\ r.end \in Int /\ a \in Int /\ b \in Int
    BY <1>1, <1>2 DEF Greatest, Least
  <2>2. \A u \in Int : u \in I <=> u \in P /\ Within(u, r)
    BY <1>1, <1>2 DEF Greatest, Least, Within
  <2>3. IsFiniteSet(I) /\ Cardinality(I) = Overlap(r, p)
    <3>1. IsFiniteSet(I) /\ Cardinality(I) = IF a > b - 1 THEN 0 ELSE b - 1 - a + 1
      <4>1. b - 1 \in Int
        BY <2>1
      <4> QED
        BY <2>1, <4>1, FS_Interval
    <3>2. Overlap(r, p) = Greatest(0, b - a)
      BY DEF Overlap
    <3> HIDE DEF a, b, I
    <3> QED
      BY <2>1, <3>1, <3>2 DEF Greatest
  <2>4. C(k) = C(k-1) \cup I
    <3>1. \A m : m \in 1..k <=> m \in 1..k-1 \/ m = k
      BY <1>1
    <3>2. \A u \in P : u \in Int
      BY <1>2
    <3>3. I \subseteq Int
      BY <2>1
    <3> HIDE DEF I, P
    <3> QED
      BY <2>2, <3>1, <3>2, <3>3
  <2>5. C(k-1) \cap I = {}
    <3> SUFFICES ASSUME NEW u \in I, NEW m \in 1..k-1, Within(u, rs[m]) PROVE FALSE
      OBVIOUS
    <3>1. u \in Int /\ m \in 1..n /\ k \in 1..n /\ m # k
      BY <1>1, <2>1
    <3>2. Within(u, rs[k])
      BY <2>2, <3>1
    <3> QED
      BY <3>1, <3>2, BothHaveEnds, InOrderApart DEF Disjoint
  <2>6. IsFiniteSet(C(k-1))
    BY <1>3, FS_Subset
  <2> HIDE DEF C, I
  <2>7. /\ Cardinality(C(k)) = Cardinality(C(k-1)) + Cardinality(I) - Cardinality(C(k-1) \cap I)
        /\ Cardinality(C(k-1) \cap I) = 0
    BY <2>3, <2>4, <2>5, <2>6, FS_Union, FS_EmptySet
  <2>8. Cardinality(C(k-1)) \in Nat /\ Cardinality(I) \in Nat
    BY <2>3, <2>6, FS_CardinalityType
  <2>9. f[k] = f[k-1] + Overlap(r, p) /\ f[k-1] = Cardinality(C(k-1))
    BY <1>4, <1>6 DEF CoveredTurns
  <2> QED
    BY <1>1, <2>3, <2>7, <2>8, <2>9
<1>7. f[n] = Cardinality(C(n))
  <2> HIDE DEF G
  <2>1. n \in G
    BY <1>1, <1>5, <1>6, Upward
  <2> QED
    BY <2>1 DEF G
<1>8. C(n) \subseteq P /\ new = P \ C(n) /\ P \cap C(n) = C(n)
  BY DEF Covers
<1> HIDE DEF C, P, new
<1>9. /\ IsFiniteSet(new) /\ Cardinality(new) = Cardinality(P) - Cardinality(C(n))
  <2>1. IsFiniteSet(P \ C(n)) /\ Cardinality(P \ C(n)) = Cardinality(P) - Cardinality(P \cap C(n))
    BY <1>3, FS_Difference
  <2> QED
    BY <1>8, <2>1
<1>10. Fresh(rs, p) = Cardinality(P) - Cardinality(C(n))
  BY <1>2, <1>3, <1>4, <1>7 DEF CoveredTurns
<1> QED
  BY <1>9, <1>10 DEF new, P

-----------------------------------------------------------------------------
(* The steps of a transfer, as far as the tracker is concerned. *)

\* What the assumption on the constants says of each.
LEMMA ConstantsAre ==
    /\ Size \in Nat /\ Size > 0 /\ Quarter \in Nat /\ Quarter > 0 /\ Srtt \in Nat
    /\ MaxSteps \in Nat /\ MaxSteps > 0 /\ MaxRanges \in Nat /\ ReorderPackets \in Nat
    /\ MaxRecoveries \in Nat /\ MaxRto \in Nat
    /\ \A d \in Delays : d \in Nat /\ d > 0
    /\ Delays # {}
    /\ Max(Drains) \in Nat
<1>1. PICK d \in Drains : \A e \in Drains : e <= d
  BY RangeAssumption
<1>2. Drains \subseteq Nat /\ d \in Nat
  BY RangeAssumption
<1>3. Drains \subseteq Int
  BY <1>2
<1>4. Max(Drains) = d
  BY <1>1, <1>3, MaxIs
<1> QED
  BY <1>2, <1>4, RangeAssumption

\* Ranges apart from each other are in order.
LEMMA ApartInOrder ==
    ASSUME NEW rs \in Seq(Rng), Apart(rs)
    PROVE  InOrder(rs)
<1>1. \A k \in 1..Len(rs) : rs[k].start \in Int /\ rs[k].end \in Int
  BY RngsAre
<1> QED
  BY <1>1 DEF Apart, InOrder

\* The frontier is where the last range ends.
LEMMA FrontierIs ==
    ASSUME NEW rs \in Seq(Rng), Apart(rs), Len(rs) > 0
    PROVE  /\ Frontier(rs) \in Int /\ Covers(rs, Frontier(rs) - 1)
           /\ \A u \in Int : Covers(rs, u) => u < Frontier(rs)
<1> DEFINE n == Len(rs)
<1>1. /\ n \in Nat /\ n \in 1..n
      /\ \A k \in 1..n : rs[k].start \in Int /\ rs[k].end \in Int /\ rs[k].start < rs[k].end
  BY RngsAre DEF Apart
<1>2. Frontier(rs) = rs[n].end
  <2>1. rs # <<>>
    OBVIOUS
  <2> QED
    BY <2>1 DEF Frontier, Last
<1>3. Within(rs[n].end - 1, rs[n])
  BY <1>1 DEF Within
<1>4. ASSUME NEW u \in Int, NEW k \in 1..n, Within(u, rs[k]) PROVE u < rs[n].end
  <2>1. k = n \/ rs[k].end < rs[n].start
    BY <1>1 DEF Apart
  <2> QED
    BY <1>1, <1>4, <2>1 DEF Within
<1> QED
  BY <1>1, <1>2, <1>3, <1>4 DEF Covers

\* The ranges of a transfer hold the units in gone, all of them below top.
HoldsOK(rs, gone, top) ==
    /\ rs \in Seq(Rng) /\ Apart(rs) /\ Len(rs) > 0 /\ gone \subseteq Unit
    /\ \A u \in Int : Covers(rs, u) <=> u \in gone
    /\ top \in Nat /\ top <= Size /\ \A u \in gone : u < top

\* What arrived is below the frontier, and the unit before the frontier is part of it.
LEMMA HoldsAre ==
    ASSUME NEW rs, NEW gone, NEW top, HoldsOK(rs, gone, top)
    PROVE  /\ RangesOK(rs) /\ Frontier(rs) \in Nat /\ Frontier(rs) > 0 /\ Frontier(rs) <= top
           /\ Frontier(rs) - 1 \in gone
           /\ \A u \in gone : u < Frontier(rs)
<1>1. /\ rs \in Seq(Rng) /\ Apart(rs) /\ Len(rs) > 0 /\ gone \subseteq Unit
      /\ \A u \in Int : Covers(rs, u) <=> u \in gone
      /\ top \in Nat /\ top <= Size /\ \A u \in gone : u < top
  BY DEF HoldsOK
<1>2. \A u \in gone : u \in Int /\ u >= 0
  BY <1>1, ConstantsAre DEF Unit
<1>3. InOrder(rs)
  BY <1>1, ApartInOrder
<1>4. \A k \in 1..Len(rs) : rs[k].start >= 0
  <2> SUFFICES ASSUME NEW k \in 1..Len(rs) PROVE rs[k].start >= 0
    OBVIOUS
  <2>1. rs[k].start \in Int /\ rs[k].end \in Int /\ rs[k].start < rs[k].end
    BY <1>1, RngsAre DEF Apart
  <2>2. Covers(rs, rs[k].start)
    BY <2>1 DEF Covers, Within
  <2> QED
    BY <1>1, <1>2, <2>1, <2>2
<1>5. /\ Frontier(rs) \in Int /\ Covers(rs, Frontier(rs) - 1)
      /\ \A u \in Int : Covers(rs, u) => u < Frontier(rs)
  BY <1>1, FrontierIs
<1>6. Frontier(rs) - 1 \in gone
  BY <1>1, <1>5
<1> QED
  BY <1>1, <1>2, <1>3, <1>4, <1>5, <1>6 DEF RangesOK

\* So far the step wanted r.wanted, and asked for what had no RESEND under way:
\* L is the time each unit's RESEND had left before.
Asked(r, L, gone, delay) ==
    /\ r.wanted \cap gone = {} /\ r.sent = {u \in r.wanted : L[u] = 0}
    /\ \A u \in Unit \ gone : LeftIn(r.pending, u) = IF u \in r.sent THEN delay ELSE L[u]

\* What one claim more adds is asked for by the same rule.
LEMMA ClaimAsks ==
    ASSUME NEW rs, NEW gone, NEW top, HoldsOK(rs, gone, top), NEW r, TrackerOK(r, top),
           NEW gaps, GapsOK(gaps, rs, top), NEW delay \in Delays, NEW L, Asked(r, L, gone, delay)
    PROVE  LET c == Claim(r, rs, gaps, delay)
           IN  /\ TrackerOK(c, top) /\ Asked(c, L, gone, delay)
               /\ c.suspects = r.suspects /\ c.early = r.early
               /\ c.sent \subseteq r.sent \cup Units(gaps)
<1> DEFINE c == Claim(r, rs, gaps, delay)
           A == {u \in Units(gaps) : LeftIn(r.pending, u) = 0}
<1>0. /\ RangesOK(rs) /\ top \in Nat /\ top <= Size /\ delay \in Nat /\ delay > 0
      /\ \A u \in Int : Covers(rs, u) <=> u \in gone
      /\ \A u \in Unit : u \in Int
  <2>1. RangesOK(rs)
    BY HoldsAre
  <2>2. top \in Nat /\ top <= Size /\ \A u \in Int : Covers(rs, u) <=> u \in gone
    BY DEF HoldsOK
  <2>3. delay \in Nat /\ delay > 0 /\ \A u \in Unit : u \in Int
    BY ConstantsAre DEF Unit
  <2> QED
    BY <2>1, <2>2, <2>3
<1>1. /\ TrackerOK(c, top) /\ c.suspects = r.suspects /\ c.early = r.early
      /\ Units(gaps) \subseteq Unit
      /\ c.wanted = r.wanted \cup Units(gaps) /\ c.sent = r.sent \cup A
      /\ \A u \in Unit : ~Covers(rs, u)
           => LeftIn(c.pending, u) = IF u \in A THEN delay ELSE LeftIn(r.pending, u)
  BY <1>0, ClaimIs
<1>2. \A u \in Units(gaps) : u \notin gone
  <2>1. Units(gaps) = {u \in Int : Covers(gaps, u)}
    BY BothHaveEnds, UnitsAre DEF GapsOK
  <2> QED
    BY <1>0, <2>1 DEF GapsOK
<1> HIDE DEF c
<1>3. /\ r.wanted \cap gone = {} /\ r.sent = {u \in r.wanted : L[u] = 0}
      /\ \A u \in Unit \ gone : LeftIn(r.pending, u) = IF u \in r.sent THEN delay ELSE L[u]
  BY DEF Asked
<1>4. \A u \in Units(gaps) : u \in A <=> u \notin r.sent /\ L[u] = 0
  BY <1>0, <1>1, <1>2, <1>3
<1>5. c.sent = {u \in c.wanted : L[u] = 0}
  BY <1>1, <1>3, <1>4
<1>6. \A u \in Unit \ gone : LeftIn(c.pending, u) = IF u \in c.sent THEN delay ELSE L[u]
  <2> SUFFICES ASSUME NEW u \in Unit \ gone
               PROVE  LeftIn(c.pending, u) = IF u \in c.sent THEN delay ELSE L[u]
    OBVIOUS
  <2>1. LeftIn(c.pending, u) = IF u \in A THEN delay ELSE LeftIn(r.pending, u)
    BY <1>0, <1>1
  <2>2. LeftIn(r.pending, u) = IF u \in r.sent THEN delay ELSE L[u]
    BY <1>3
  <2> HIDE DEF A
  <2> QED
    BY <1>1, <2>1, <2>2
<1> QED
  BY <1>1, <1>2, <1>3, <1>5, <1>6 DEF Asked, c

\* The age of a suspect, and of a gap that is none.
LEMMA AgeIs ==
    ASSUME NEW r \in Trackers, NEW s
    PROVE  /\ AgeOf(r.suspects, R(s, s)) \in Nat
           /\ s \in DOMAIN r.suspects => AgeOf(r.suspects, R(s, s)) = r.suspects[s]
           /\ s \notin DOMAIN r.suspects => AgeOf(r.suspects, R(s, s)) = 0
           /\ DOMAIN r.suspects \subseteq Unit
<1>1. PICK S \in SUBSET Unit : r.suspects \in [S -> Nat]
  BY DEF Trackers
<1> QED
  BY <1>1 DEF AgeOf, R

\* Early detection asks by the same rule.  It asks for units of gaps that have been
\* suspects for the window, and a gap it sees for the first time has the age 0.
LEMMA DetectAsks ==
    ASSUME NEW rs, NEW gone, NEW top, HoldsOK(rs, gone, top), NEW r, TrackerOK(r, top),
           NEW limit \in Nat, limit <= Frontier(rs), NEW window, NEW delay \in Delays,
           NEW L, Asked(r, L, gone, delay), r.sent = {}
    PROVE  LET d == Detect(r, rs, limit, window, delay)
           IN  /\ TrackerOK(d, top) /\ Asked(d, L, gone, delay) /\ d.early = d.sent
               /\ \A u \in d.early : \E s \in Unit :
                     /\ s <= u /\ \A v \in s..u : v \notin gone
                     /\ AgeOf(r.suspects, R(s, s)) >= window
               /\ \A s \in DOMAIN d.suspects :
                     /\ s \in Unit /\ s < Frontier(rs) /\ s \notin gone
                     /\ d.suspects[s] = AgeOf(r.suspects, R(s, s))
<1> DEFINE gaps == Missing(rs, limit)
           lost == LostEarly(gaps, r.suspects, window)
           aged == [s \in {gaps[k].start : k \in DOMAIN gaps} |-> AgeOf(r.suspects, R(s, s))]
           r1   == [r EXCEPT !.suspects = aged]
           next == Claim(r1, rs, lost, delay)
           d    == [next EXCEPT !.early = next.sent]
<1>1. Detect(r, rs, limit, window, delay) = d
  BY Zenon DEF Detect
<1>2. /\ rs \in Seq(Rng) /\ \A u \in Int : Covers(rs, u) <=> u \in gone
      /\ top \in Nat /\ top <= Size
  BY DEF HoldsOK
<1>3. /\ RangesOK(rs) /\ Frontier(rs) \in Nat /\ Frontier(rs) <= top
  BY HoldsAre
<1>4. /\ gaps \in Seq(Rng) /\ InOrder(gaps)
      /\ \A u \in Int : Covers(gaps, u) <=> 0 <= u /\ u < limit /\ u \notin gone
  <2>1. rs \in Seq(Rng) /\ InOrder(rs) /\ \A k \in 1..Len(rs) : rs[k].start >= 0
    BY <1>3 DEF RangesOK
  <2>2. /\ gaps \in Seq(Rng) /\ InOrder(gaps)
        /\ \A u \in Int : Covers(gaps, u) <=> 0 <= u /\ u < limit /\ ~Covers(rs, u)
    BY <2>1, MissingIs
  <2> QED
    BY <1>2, <2>2
<1> HIDE DEF gaps
<1>5. /\ lost \in Seq(Rng) /\ InOrder(lost)
      /\ \A m \in 1..Len(lost) : \E i \in 1..Len(gaps) :
            lost[m] = gaps[i] /\ AgeOf(r.suspects, gaps[i]) >= window
  BY <1>4, LostEarlyIs
<1> HIDE DEF lost
<1>6. /\ Len(gaps) \in Nat /\ DOMAIN gaps = 1..Len(gaps)
      /\ \A k \in 1..Len(gaps) : /\ gaps[k].start \in Int /\ gaps[k].end \in Int
                                 /\ gaps[k].start < gaps[k].end
  BY <1>4, BothHaveEnds, ListIs DEF InOrder
<1>7. \A k \in 1..Len(gaps), u \in Int : Within(u, gaps[k]) => 0 <= u /\ u < limit /\ u \notin gone
  BY <1>4 DEF Covers
<1>8. \A k \in 1..Len(gaps) : /\ gaps[k].start \in Unit /\ gaps[k].start < limit
                              /\ gaps[k].start \notin gone
  <2> SUFFICES ASSUME NEW k \in 1..Len(gaps)
               PROVE  /\ gaps[k].start \in Unit /\ gaps[k].start < limit
                      /\ gaps[k].start \notin gone
    OBVIOUS
  <2>1. Within(gaps[k].start, gaps[k])
    BY <1>6 DEF Within
  <2>2. 0 <= gaps[k].start /\ gaps[k].start < limit /\ gaps[k].start \notin gone
    BY <1>6, <1>7, <2>1
  <2> QED
    BY <1>2, <1>3, <1>6, <2>2, ConstantsAre DEF Unit
<1>9. /\ GapsOK(lost, rs, top)
      /\ \A u \in Int : Covers(lost, u) => \E i \in 1..Len(gaps) :
            Within(u, gaps[i]) /\ AgeOf(r.suspects, gaps[i]) >= window
  <2>1. \A u \in Int : Covers(lost, u) => \E i \in 1..Len(gaps) :
            Within(u, gaps[i]) /\ AgeOf(r.suspects, gaps[i]) >= window
    BY <1>5 DEF Covers
  <2>2. \A u \in Int : Covers(lost, u) => 0 <= u /\ u < top /\ ~Covers(rs, u)
    <3> SUFFICES ASSUME NEW u \in Int, Covers(lost, u) PROVE 0 <= u /\ u < top /\ ~Covers(rs, u)
      OBVIOUS
    <3>1. 0 <= u /\ u < limit /\ u \notin gone
      BY <1>7, <2>1
    <3> QED
      BY <1>2, <1>3, <3>1
  <2> QED
    BY <1>5, <2>1, <2>2 DEF GapsOK
<1>10. r \in Trackers
  BY DEF TrackerOK
<1>11. /\ aged \in UNION {[S -> Nat] : S \in SUBSET Unit}
       /\ \A s \in DOMAIN aged : /\ s \in Unit /\ s < limit /\ s \notin gone
                                 /\ aged[s] = AgeOf(r.suspects, R(s, s))
  <2> DEFINE S == {gaps[k].start : k \in DOMAIN gaps}
  <2>1. S \subseteq Unit /\ \A s \in S : s < limit /\ s \notin gone
    BY <1>6, <1>8
  <2>2. \A s \in S : AgeOf(r.suspects, R(s, s)) \in Nat
    BY <1>10, AgeIs
  <2> HIDE DEF S
  <2>3. aged = [s \in S |-> AgeOf(r.suspects, R(s, s))]
    BY DEF S
  <2>4. aged \in [S -> Nat]
    BY <2>2, <2>3
  <2>5. DOMAIN aged = S /\ \A s \in S : aged[s] = AgeOf(r.suspects, R(s, s))
    BY <2>3
  <2> HIDE DEF aged
  <2> QED
    BY <2>1, <2>4, <2>5
<1> HIDE DEF aged
<1>12. /\ r1.suspects = aged /\ r1.pending = r.pending /\ r1.wanted = r.wanted
       /\ r1.sent = {} /\ r1 \in Trackers
  BY <1>10, <1>11 DEF Trackers
<1> HIDE DEF r1
<1>13. TrackerOK(r1, top) /\ Asked(r1, L, gone, delay)
  BY <1>12 DEF TrackerOK, Asked
<1>14. /\ TrackerOK(next, top) /\ Asked(next, L, gone, delay)
       /\ next.suspects = aged /\ next.sent \subseteq Units(lost)
  BY <1>9, <1>12, <1>13, ClaimAsks
<1> HIDE DEF next
<1>15. /\ d.suspects = aged /\ d.pending = next.pending /\ d.wanted = next.wanted
       /\ d.sent = next.sent /\ d.early = next.sent /\ d \in Trackers
  BY <1>14 DEF TrackerOK, Trackers
<1> HIDE DEF d
<1>16. TrackerOK(d, top) /\ Asked(d, L, gone, delay)
  BY <1>14, <1>15 DEF TrackerOK, Asked
<1>17. ASSUME NEW u \in d.early
       PROVE  \E s \in Unit : /\ s <= u /\ \A v \in s..u : v \notin gone
                              /\ AgeOf(r.suspects, R(s, s)) >= window
  <2>1. Units(lost) = {x \in Int : Covers(lost, x)}
    BY <1>9, BothHaveEnds, UnitsAre DEF GapsOK
  <2>2. u \in Int /\ Covers(lost, u)
    BY <1>14, <1>15, <2>1
  <2>3. PICK i \in 1..Len(gaps) : Within(u, gaps[i]) /\ AgeOf(r.suspects, gaps[i]) >= window
    BY <1>9, <2>2
  <2> DEFINE s == gaps[i].start
  <2>4. AgeOf(r.suspects, R(s, s)) = AgeOf(r.suspects, gaps[i])
    BY DEF AgeOf, R
  <2>5. s \in Unit /\ s <= u /\ s \in Int
    BY <1>6, <1>8, <2>3 DEF Within
  <2>6. \A v \in s..u : v \notin gone
    <3> SUFFICES ASSUME NEW v \in s..u PROVE v \notin gone
      OBVIOUS
    <3>1. v \in Int /\ Within(v, gaps[i])
      BY <1>6, <2>2, <2>3 DEF Within
    <3> QED
      BY <1>7, <3>1
  <2> QED
    BY <2>3, <2>4, <2>5, <2>6
<1>18. \A s \in DOMAIN d.suspects : /\ s \in Unit /\ s < Frontier(rs) /\ s \notin gone
                                    /\ d.suspects[s] = AgeOf(r.suspects, R(s, s))
  <2>1. \A s \in Unit : s < limit => s < Frontier(rs)
    BY <1>3, ConstantsAre DEF Unit
  <2> QED
    BY <1>11, <1>15, <2>1
<1> QED
  BY <1>1, <1>15, <1>16, <1>17, <1>18

\* d is r after early detection, or after none.
Detected(d, r, gone, frontier, window) ==
    /\ \A u \in d.early : \E s \in Unit :
          /\ s <= u /\ \A v \in s..u : v \notin gone
          /\ AgeOf(r.suspects, R(s, s)) >= window
    /\ \A s \in DOMAIN d.suspects :
          \/ s \in DOMAIN r.suspects /\ d.suspects[s] = r.suspects[s]
          \/ s \in Unit /\ s < frontier /\ s \notin gone /\ d.suspects[s] = 0

\* Early detection, when it looks at all, asks by the same rule.
LEMMA DetectLossAsks ==
    ASSUME NEW tr, NEW gone, HoldsOK(tr.ranges, gone, tr.granted), tr.payload \in Nat,
           NEW r, TrackerOK(r, tr.granted), NEW window, NEW delay \in Delays,
           NEW L, Asked(r, L, gone, delay), r.sent = {}, r.early = {}
    PROVE  LET d == DetectLoss(tr, r, window, delay)
           IN  /\ TrackerOK(d, tr.granted) /\ Asked(d, L, gone, delay)
               /\ Detected(d, r, gone, Frontier(tr.ranges), window)
<1> DEFINE rs == tr.ranges
           frontier == Frontier(rs)
           limit == IF frontier < tr.granted THEN frontier - ReorderPackets * tr.payload ELSE frontier
<1>1. frontier \in Nat /\ tr.granted \in Nat
  BY HoldsAre DEF HoldsOK
<1>2. ReorderPackets * tr.payload \in Nat
  BY ConstantsAre
<1> DEFINE k == ReorderPackets * tr.payload
<1>3. limit \in Int /\ limit <= frontier
  <2>1. limit = IF frontier < tr.granted THEN frontier - k ELSE frontier
    OBVIOUS
  <2> HIDE DEF k, limit, frontier
  <2> QED
    BY <1>1, <1>2, <2>1 DEF k
<1>4. DetectLoss(tr, r, window, delay)
        = IF limit <= 0 THEN r ELSE Detect(r, rs, limit, window, delay)
  BY Zenon DEF DetectLoss
<1> HIDE DEF limit
<1>5. CASE limit <= 0
  <2>1. DetectLoss(tr, r, window, delay) = r
    BY <1>4, <1>5
  <2>2. Detected(r, r, gone, frontier, window)
    BY DEF Detected
  <2> QED
    BY <2>1, <2>2
<1>6. CASE ~(limit <= 0)
  <2>1. limit \in Nat
    BY <1>3, <1>6
  <2> DEFINE d == Detect(r, rs, limit, window, delay)
  <2>2. /\ TrackerOK(d, tr.granted) /\ Asked(d, L, gone, delay)
        /\ \A u \in d.early : \E s \in Unit :
              /\ s <= u /\ \A v \in s..u : v \notin gone
              /\ AgeOf(r.suspects, R(s, s)) >= window
        /\ \A s \in DOMAIN d.suspects :
              /\ s \in Unit /\ s < frontier /\ s \notin gone
              /\ d.suspects[s] = AgeOf(r.suspects, R(s, s))
    BY <1>3, <2>1, DetectAsks
  <2> HIDE DEF d, frontier
  <2>3. r \in Trackers
    BY DEF TrackerOK
  <2>4. Detected(d, r, gone, frontier, window)
    BY <2>2, <2>3, AgeIs DEF Detected
  <2>5. DetectLoss(tr, r, window, delay) = d
    BY <1>4, <1>6 DEF d
  <2> QED
    BY <2>2, <2>4, <2>5 DEF frontier
<1> QED
  BY <1>5, <1>6

\* A list of one range.
LEMMA OneRange ==
    ASSUME NEW e \in Rng, e.start < e.end
    PROVE  /\ <<e>> \in Seq(Rng) /\ InOrder(<<e>>)
           /\ \A u : Covers(<<e>>, u) <=> Within(u, e)
  BY DEF InOrder, Covers

\* The tail probe asks by the same rule.
LEMMA ProbeAsks ==
    ASSUME NEW tr, NEW gone, HoldsOK(tr.ranges, gone, tr.granted), tr.payload \in Nat \ {0},
           NEW r, TrackerOK(r, tr.granted), NEW drain, NEW delay \in Delays,
           NEW L, Asked(r, L, gone, delay)
    PROVE  LET p == Probe(tr, r, drain, delay)
           IN  /\ TrackerOK(p.repair, tr.granted) /\ Asked(p.repair, L, gone, delay)
               /\ p.repair.suspects = r.suspects /\ p.repair.early = r.early
               /\ p.t = tr \/ p.t = [tr EXCEPT !.probed = TRUE]
<1> DEFINE rs == tr.ranges
           frontier == Frontier(rs)
           last == R(Greatest(frontier, tr.granted - tr.payload), tr.granted)
           c == Claim(r, rs, <<last>>, delay)
           p == Probe(tr, r, drain, delay)
<1>1. /\ frontier \in Nat /\ tr.granted \in Nat /\ gone \subseteq Unit
      /\ \A u \in gone : u < frontier
      /\ \A u \in Int : Covers(rs, u) <=> u \in gone
  BY HoldsAre DEF HoldsOK
<1>2. \/ p = [t |-> tr, repair |-> r]
      \/ frontier < tr.granted /\ p = [t |-> [tr EXCEPT !.probed = TRUE], repair |-> c]
  BY Zenon DEF Probe
<1>3. CASE p = [t |-> tr, repair |-> r]
  BY <1>3
<1>4. CASE frontier < tr.granted /\ p = [t |-> [tr EXCEPT !.probed = TRUE], repair |-> c]
  <2>1. /\ last \in Rng /\ last.start < last.end /\ last.end = tr.granted
        /\ last.start >= frontier /\ last.start \in Int
    <3> DEFINE f == Frontier(rs)
    <3> HIDE DEF f
    <3>1. f \in Nat /\ f < tr.granted
      BY <1>1, <1>4 DEF f
    <3>2. last = R(Greatest(f, tr.granted - tr.payload), tr.granted)
      BY DEF f
    <3>3. /\ Greatest(f, tr.granted - tr.payload) \in Int
          /\ Greatest(f, tr.granted - tr.payload) >= f
          /\ Greatest(f, tr.granted - tr.payload) < tr.granted
      BY <1>1, <3>1 DEF Greatest
    <3> QED
      BY <1>1, <3>2, <3>3 DEF R, Rng, f
  <2> HIDE DEF last, frontier
  <2>2. GapsOK(<<last>>, rs, tr.granted)
    <3>1. <<last>> \in Seq(Rng) /\ InOrder(<<last>>)
          /\ \A u \in Int : Covers(<<last>>, u) <=> Within(u, last)
      BY <2>1, OneRange
    <3>2. \A u \in Int : Within(u, last) => 0 <= u /\ u < tr.granted /\ ~Covers(rs, u)
      BY <1>1, <2>1 DEF Within
    <3> QED
      BY <3>1, <3>2 DEF GapsOK
  <2>3. /\ TrackerOK(c, tr.granted) /\ Asked(c, L, gone, delay)
        /\ c.suspects = r.suspects /\ c.early = r.early
    BY <2>2, ClaimAsks
  <2> HIDE DEF c, p
  <2>4. p.repair = c /\ p.t = [tr EXCEPT !.probed = TRUE]
    BY <1>4
  <2> QED
    BY <2>3, <2>4 DEF p
<1> QED
  BY <1>2, <1>3, <1>4

\* The first ranges of a list.
LEMMA Prefix ==
    ASSUME NEW rs \in Seq(Rng), InOrder(rs), NEW n \in 0..Len(rs)
    PROVE  /\ SubSeq(rs, 1, n) \in Seq(Rng) /\ InOrder(SubSeq(rs, 1, n))
           /\ \A u \in Int : Covers(SubSeq(rs, 1, n), u) => Covers(rs, u)
<1> DEFINE z == SubSeq(rs, 1, n)
<1>1. /\ z \in Seq(Rng) /\ Len(z) = n /\ Len(rs) \in Nat
      /\ \A k \in 1..n : z[k] = rs[k] /\ k \in 1..Len(rs)
  OBVIOUS
<1> HIDE DEF z
<1>2. InOrder(z) /\ \A u \in Int : Covers(z, u) => Covers(rs, u)
  BY <1>1 DEF InOrder, Covers
<1> QED
  BY <1>1, <1>2 DEF z

\* A list with one more range at its end, or none.
LEMMA OneMore ==
    ASSUME NEW rs \in Seq(Rng), NEW e
    PROVE  rs \o <<>> = rs /\ (e \in Rng => rs \o <<e>> = Append(rs, e))
  OBVIOUS

\* What stall recovery asks for is missing.
LEMMA LostIs ==
    ASSUME NEW tr, NEW gone, HoldsOK(tr.ranges, gone, tr.granted), tr.payload \in Nat \ {0}
    PROVE  GapsOK(Lost(tr), tr.ranges, tr.granted)
<1> DEFINE rs == tr.ranges
           frontier == Frontier(rs)
           top == tr.granted
           gaps  == Missing(rs, Least(frontier, top))
           first == R(frontier, Least(top, frontier + tr.payload))
           last  == R(Greatest(first.end, top - tr.payload), top)
           a == SubSeq(gaps, 1, Least(Len(gaps), MaxRanges))
           b == a \o (IF frontier < top THEN <<first>> ELSE <<>>)
           c == b \o (IF frontier < top /\ last.start < last.end THEN <<last>> ELSE <<>>)
<1>1. /\ frontier \in Nat /\ top \in Nat /\ frontier <= top
      /\ \A u \in gone : u < frontier
      /\ \A u \in Int : Covers(rs, u) <=> u \in gone
  BY HoldsAre DEF HoldsOK
<1>2. RangesOK(rs)
  BY HoldsAre
<1>3. Lost(tr) = c
  BY Zenon DEF Lost
<1> HIDE DEF frontier
<1>4. Least(frontier, top) = frontier
  BY <1>1 DEF Least
<1>5. /\ gaps \in Seq(Rng) /\ InOrder(gaps)
      /\ \A u \in Int : Covers(gaps, u) <=> 0 <= u /\ u < frontier /\ ~Covers(rs, u)
  BY <1>1, <1>2, <1>4, MissingIs DEF RangesOK
<1> HIDE DEF gaps
<1>6. Least(Len(gaps), MaxRanges) \in 0..Len(gaps)
  BY <1>5, ConstantsAre DEF Least
<1>7. /\ a \in Seq(Rng) /\ InOrder(a)
      /\ \A u \in Int : Covers(a, u) => 0 <= u /\ u < frontier /\ ~Covers(rs, u)
  BY <1>5, <1>6, Prefix
<1> HIDE DEF a
<1>8. /\ Len(a) \in Nat
      /\ \A k \in 1..Len(a) : a[k].start \in Int /\ a[k].end \in Int /\ a[k].start < a[k].end
  BY <1>7, RngsAre DEF InOrder
<1>9. \A k \in 1..Len(a) : a[k].end <= frontier
  <2> SUFFICES ASSUME NEW k \in 1..Len(a) PROVE a[k].end <= frontier
    OBVIOUS
  <2>1. a[k].end - 1 \in Int /\ Covers(a, a[k].end - 1)
    BY <1>8 DEF Covers, Within
  <2> QED
    BY <1>1, <1>7, <1>8, <2>1
<1>10. CASE ~(frontier < top)
  <2>1. b = a \o <<>> /\ c = b \o <<>>
    BY <1>10
  <2>2. c = a
    BY <1>7, <2>1, OneMore
  <2> HIDE DEF c, b
  <2>3. GapsOK(a, rs, top)
    BY <1>1, <1>7 DEF GapsOK
  <2> QED
    BY <1>3, <2>2, <2>3
<1>11. CASE frontier < top
  <2>1. /\ first \in Rng /\ first.start = frontier /\ first.start < first.end /\ first.end <= top
        /\ first.start \in Int /\ first.end \in Int
    BY <1>1, <1>11 DEF R, Rng, Least
  <2> HIDE DEF first
  <2>2. b = Append(a, first)
    BY <1>7, <1>11, <2>1, OneMore
  <2>3. /\ b \in Seq(Rng) /\ InOrder(b)
        /\ \A k \in 1..Len(b) : b[k].end <= first.end
        /\ \A u \in Int : Covers(b, u) <=> Covers(a, u) \/ Within(u, first)
    <3>1. \A k \in 1..Len(a) : a[k].end <= first.start
      BY <1>9, <2>1
    <3> HIDE DEF b
    <3>2. /\ Append(a, first) \in Seq(Rng) /\ InOrder(Append(a, first))
          /\ \A k \in 1..Len(Append(a, first)) : Append(a, first)[k].end <= first.end
          /\ \A u \in Int : Covers(Append(a, first), u) <=> Covers(a, u) \/ Within(u, first)
      BY <1>7, <2>1, <3>1, BothHaveEnds, Pushed
    <3> QED
      BY <2>2, <3>2
  <2> HIDE DEF b
  <2>4. \A u \in Int : Covers(b, u) => 0 <= u /\ u < top /\ ~Covers(rs, u)
    BY <1>1, <1>7, <2>1, <2>3 DEF Within
  <2>5. CASE ~(last.start < last.end)
    <3>1. c = b
      <4>1. c = b \o <<>>
        BY <2>5
      <4> QED
        BY <2>3, <4>1, OneMore
    <3> HIDE DEF c
    <3> QED
      BY <1>3, <2>3, <2>4, <3>1 DEF GapsOK
  <2>6. CASE last.start < last.end
    <3>1. /\ last \in Rng /\ last.start >= first.end /\ last.end = top
          /\ last.start \in Int /\ last.end \in Int
      BY <1>1, <2>1 DEF R, Rng, Greatest
    <3>2. c = b \o <<last>>
      BY <1>11, <2>6
    <3> HIDE DEF last, c
    <3>3. c = Append(b, last)
      BY <2>3, <3>1, <3>2, OneMore
    <3>4. \A k \in 1..Len(b) : b[k].end <= last.start
      <4>1. \A k \in 1..Len(b) : b[k].end \in Int
        BY <2>3, RngsAre
      <4> QED
        BY <2>1, <2>3, <3>1, <4>1
    <3>5. /\ c \in Seq(Rng) /\ InOrder(c)
          /\ \A u \in Int : Covers(c, u) <=> Covers(b, u) \/ Within(u, last)
      BY <2>3, <2>6, <3>1, <3>3, <3>4, BothHaveEnds, Pushed
    <3>6. \A u \in Int : Covers(c, u) => 0 <= u /\ u < top /\ ~Covers(rs, u)
      BY <1>1, <2>1, <2>4, <3>1, <3>5 DEF Within
    <3> QED
      BY <1>3, <3>5, <3>6 DEF GapsOK
  <2> QED
    BY <2>5, <2>6
<1> QED
  BY <1>10, <1>11

\* p is r and tr after stall recovery.
Recovered(p, tr, r) ==
    /\ p.repair.suspects = r.suspects /\ p.repair.early = r.early
    /\ \/ p.t = [tr EXCEPT !.over = "failed"]
       \/ /\ tr.recoveries # MaxRecoveries
          /\ p.t = [tr EXCEPT !.recoveries = @ + 1, !.quiet = 0]

\* Stall recovery asks by the same rule, or gives up.
LEMMA RecoverAsks ==
    ASSUME NEW tr, NEW gone, HoldsOK(tr.ranges, gone, tr.granted), tr.payload \in Nat \ {0},
           NEW r, TrackerOK(r, tr.granted), NEW delay \in Delays, NEW L, Asked(r, L, gone, delay)
    PROVE  LET p == Recover(tr, r, delay)
           IN  /\ TrackerOK(p.repair, tr.granted) /\ Asked(p.repair, L, gone, delay)
               /\ Recovered(p, tr, r)
<1> DEFINE c == Claim(r, tr.ranges, Lost(tr), delay)
           p == Recover(tr, r, delay)
<1>1. /\ TrackerOK(c, tr.granted) /\ Asked(c, L, gone, delay)
      /\ c.suspects = r.suspects /\ c.early = r.early
  BY LostIs, ClaimAsks
<1>2. \/ p = [t |-> [tr EXCEPT !.over = "failed"], repair |-> r]
      \/ /\ tr.recoveries # MaxRecoveries
         /\ p = [t |-> [tr EXCEPT !.recoveries = @ + 1, !.quiet = 0], repair |-> c]
  BY Zenon DEF Recover
<1> HIDE DEF c, p
<1>3. CASE p = [t |-> [tr EXCEPT !.over = "failed"], repair |-> r]
  <2>1. p.repair = r /\ p.t = [tr EXCEPT !.over = "failed"]
    BY <1>3
  <2> QED
    BY <2>1 DEF p, Recovered
<1>4. CASE /\ tr.recoveries # MaxRecoveries
           /\ p = [t |-> [tr EXCEPT !.recoveries = @ + 1, !.quiet = 0], repair |-> c]
  <2>1. p.repair = c /\ p.t = [tr EXCEPT !.recoveries = @ + 1, !.quiet = 0]
    BY <1>4
  <2> QED
    BY <1>1, <1>4, <2>1 DEF p, Recovered
<1> QED
  BY <1>2, <1>3, <1>4

-----------------------------------------------------------------------------
(* The fields of what a step begins with. *)

\* At the start of a step nothing is wanted or asked for; RESENDs stay.
LEMMA QuietIs ==
    ASSUME NEW r, NEW top, TrackerOK(r, top)
    PROVE  LET q == Quiet(r)
           IN  /\ TrackerOK(q, top) /\ q.pending = r.pending /\ q.suspects = r.suspects
               /\ q.requested = r.requested
               /\ q.wanted = {} /\ q.sent = {} /\ q.early = {}
<1> DEFINE q == Quiet(r)
<1>1. r \in Trackers
  BY DEF TrackerOK
<1>2. q = [r EXCEPT !.wanted = {}, !.sent = {}, !.early = {}]
  BY DEF Quiet
<1> HIDE DEF q
<1>3. /\ q.pending = r.pending /\ q.suspects = r.suspects /\ q.requested = r.requested
      /\ q.wanted = {} /\ q.sent = {} /\ q.early = {} /\ q \in Trackers
  BY <1>1, <1>2 DEF Trackers
<1>4. TrackerOK(q, top)
  BY <1>3 DEF TrackerOK
<1> QED
  BY <1>3, <1>4 DEF q

\* The lesser and the greater of two naturals.
LEMMA LeastNat == \A a, b \in Nat : Least(a, b) \in Nat /\ Greatest(a, b) \in Nat
  BY DEF Least, Greatest

\* The greatest window, and multiples of a quarter round trip.
LEMMA WindowsAre ==
    /\ MaxWindow \in Nat
    /\ \A n \in Nat : Quarter * n \in Nat
<1>1. \A n \in Nat : Quarter * n \in Nat
  BY ConstantsAre
<1>2. Quarter * MaxSteps \in Nat
  BY <1>1, ConstantsAre
<1>3. Greatest(Quarter, Srtt) \in Nat
  BY ConstantsAre, LeastNat
<1>4. MaxWindow \in Nat
  BY <1>2, <1>3, LeastNat DEF MaxWindow
<1> QED
  BY <1>1, <1>4

\* The RESENDs a tick later.
AgedPending(pending) ==
    [k \in DOMAIN pending |-> [pending[k] EXCEPT !.left = Greatest(0, pending[k].left - 1)]]
AgedSuspects(suspects) == [s \in DOMAIN suspects |-> Least(MaxWindow, suspects[s] + 1)]

\* A tick takes one from the time of every RESEND that has any left.
LEMMA AgedPendingIs ==
    ASSUME NEW pending \in Seq(Held), InOrder(pending), NEW top,
           \A k \in 1..Len(pending) : pending[k].start >= 0 /\ pending[k].end <= top
    PROVE  LET z == AgedPending(pending)
           IN  /\ z \in Seq(Held) /\ InOrder(z)
               /\ \A k \in 1..Len(z) : z[k].start >= 0 /\ z[k].end <= top
               /\ \A u \in Int : LeftIn(z, u)
                    = IF LeftIn(pending, u) = 0 THEN 0 ELSE LeftIn(pending, u) - 1
<1> DEFINE n == Len(pending)
           z == AgedPending(pending)
<1>1. /\ n \in Nat /\ DOMAIN pending = 1..n
      /\ \A k \in 1..n : /\ pending[k] \in Held /\ pending[k].left \in Nat
                         /\ pending[k].start \in Int /\ pending[k].end \in Int
  BY HeldsAre
<1>2. z = [k \in 1..n |-> [pending[k] EXCEPT !.left = Greatest(0, pending[k].left - 1)]]
  BY <1>1 DEF AgedPending
<1> HIDE DEF z
<1>3. \A k \in 1..n : Greatest(0, pending[k].left - 1)
                        = IF pending[k].left = 0 THEN 0 ELSE pending[k].left - 1
  BY <1>1 DEF Greatest
<1>4. \A k \in 1..n : /\ z[k] \in Held /\ z[k].start = pending[k].start
                      /\ z[k].end = pending[k].end
                      /\ z[k].left = IF pending[k].left = 0 THEN 0 ELSE pending[k].left - 1
  <2> SUFFICES ASSUME NEW k \in 1..n
               PROVE  /\ z[k] \in Held /\ z[k].start = pending[k].start
                      /\ z[k].end = pending[k].end
                      /\ z[k].left = IF pending[k].left = 0 THEN 0 ELSE pending[k].left - 1
    OBVIOUS
  <2> DEFINE g == Greatest(0, pending[k].left - 1)
  <2>1. g \in Nat /\ g = IF pending[k].left = 0 THEN 0 ELSE pending[k].left - 1
    BY <1>1, <1>3
  <2>2. z[k] = [pending[k] EXCEPT !.left = g]
    BY <1>2
  <2> HIDE DEF g
  <2> QED
    BY <1>1, <2>1, <2>2 DEF Held
<1>5. z \in Seq(Held) /\ Len(z) = n
  <2>1. DOMAIN z = 1..n /\ z = [k \in 1..n |-> z[k]]
    BY <1>2
  <2>2. z \in [1..n -> Held]
    BY <1>4, <2>1
  <2> QED
    BY <1>1, <2>2
<1>6. InOrder(z) /\ \A k \in 1..Len(z) : z[k].start >= 0 /\ z[k].end <= top
  BY <1>4, <1>5 DEF InOrder
<1>7. \A u \in Int : LeftIn(z, u) = IF LeftIn(pending, u) = 0 THEN 0 ELSE LeftIn(pending, u) - 1
  <2> SUFFICES ASSUME NEW u \in Int
               PROVE  LeftIn(z, u) = IF LeftIn(pending, u) = 0 THEN 0 ELSE LeftIn(pending, u) - 1
    OBVIOUS
  <2>1. /\ \A k \in 1..n : Within(u, pending[k]) => LeftIn(pending, u) = pending[k].left
        /\ ~Covers(pending, u) => LeftIn(pending, u) = 0
    BY LeftInIs
  <2>2. /\ \A k \in 1..n : Within(u, z[k]) => LeftIn(z, u) = z[k].left
        /\ ~Covers(z, u) => LeftIn(z, u) = 0
    BY <1>5, <1>6, LeftInIs
  <2>3. \A k \in 1..n : Within(u, z[k]) <=> Within(u, pending[k])
    BY <1>4 DEF Within
  <2>4. CASE Covers(pending, u)
    <3>1. PICK k \in 1..n : Within(u, pending[k])
      BY <2>4 DEF Covers
    <3> QED
      BY <1>4, <2>1, <2>2, <2>3, <3>1
  <2>5. CASE ~Covers(pending, u)
    <3>1. ~Covers(z, u)
      BY <1>5, <2>3, <2>5 DEF Covers
    <3> QED
      BY <2>1, <2>2, <2>5, <3>1
  <2> QED
    BY <2>4, <2>5
<1> QED
  BY <1>5, <1>6, <1>7 DEF z

\* A tick is felt by every RESEND and every suspect.
LEMMA OlderIs ==
    ASSUME NEW r, NEW top, TrackerOK(r, top)
    PROVE  LET q == Older(r)
           IN  /\ TrackerOK(q, top) /\ q.wanted = {} /\ q.sent = {} /\ q.early = {}
               /\ DOMAIN q.suspects = DOMAIN r.suspects
               /\ \A s \in DOMAIN r.suspects : /\ r.suspects[s] \in Nat
                                               /\ q.suspects[s] = Least(MaxWindow, r.suspects[s] + 1)
               /\ \A u \in Unit : LeftIn(q.pending, u)
                    = IF LeftIn(r.pending, u) = 0 THEN 0 ELSE LeftIn(r.pending, u) - 1
<1> DEFINE b == Quiet(r)
           q == Older(r)
<1>1. /\ TrackerOK(b, top) /\ b.pending = r.pending /\ b.suspects = r.suspects
      /\ b.wanted = {} /\ b.sent = {} /\ b.early = {}
  BY QuietIs
<1>2. q = [b EXCEPT !.pending = AgedPending(r.pending), !.suspects = AgedSuspects(r.suspects)]
  BY Zenon DEF Older, AgedPending, AgedSuspects
<1> HIDE DEF b, q
<1>3. b \in Trackers /\ r \in Trackers
  BY <1>1 DEF TrackerOK
<1>4. /\ q.pending = AgedPending(r.pending) /\ q.suspects = AgedSuspects(r.suspects)
      /\ q.wanted = {} /\ q.sent = {} /\ q.early = {} /\ q.requested \in BOOLEAN
      /\ q = [suspects |-> q.suspects, pending |-> q.pending, requested |-> q.requested,
              wanted |-> {}, sent |-> {}, early |-> {}]
  BY <1>1, <1>2, <1>3 DEF Trackers
<1>5. PICK S \in SUBSET Unit : r.suspects \in [S -> Nat]
  BY <1>3 DEF Trackers
<1>6. DOMAIN r.suspects = S /\ \A s \in S : r.suspects[s] \in Nat
  BY <1>5
<1>7. /\ DOMAIN q.suspects = DOMAIN r.suspects
      /\ \A s \in DOMAIN r.suspects : q.suspects[s] = Least(MaxWindow, r.suspects[s] + 1)
  BY <1>4 DEF AgedSuspects
<1>8. \A s \in S : Least(MaxWindow, r.suspects[s] + 1) \in Nat
  BY <1>6, WindowsAre DEF Least
<1>9. q.suspects \in [S -> Nat]
  BY <1>4, <1>6, <1>8 DEF AgedSuspects
<1>10. /\ r.pending \in Seq(Held) /\ InOrder(r.pending)
       /\ \A k \in 1..Len(r.pending) : r.pending[k].start >= 0 /\ r.pending[k].end <= top
  BY <1>3 DEF TrackerOK, Trackers
<1>11. /\ q.pending \in Seq(Held) /\ InOrder(q.pending)
       /\ \A k \in 1..Len(q.pending) : q.pending[k].start >= 0 /\ q.pending[k].end <= top
       /\ \A u \in Int : LeftIn(q.pending, u)
                    = IF LeftIn(r.pending, u) = 0 THEN 0 ELSE LeftIn(r.pending, u) - 1
  BY <1>4, <1>10, AgedPendingIs
<1>12. q \in Trackers
  <2>1. q.suspects \in UNION {[X -> Nat] : X \in SUBSET Unit}
    BY <1>9
  <2> QED
    BY <1>4, <1>11, <2>1 DEF Trackers
<1>13. TrackerOK(q, top)
  BY <1>11, <1>12 DEF TrackerOK
<1>14. \A u \in Unit : u \in Int
  BY ConstantsAre DEF Unit
<1> QED
  BY <1>4, <1>6, <1>7, <1>11, <1>13, <1>14 DEF q

-----------------------------------------------------------------------------
(* The inductive invariant. *)

Transfers == [ranges : Seq(Rng), received : Nat, payload : Nat \ {0}, granted : Nat, quiet : Nat,
              recoveries : Nat, probed : BOOLEAN, over : {"no", "done", "failed"}]

\* A transfer whose ranges hold the units in gone, each counted once.
TransferOK(tr, gone) ==
    /\ tr \in Transfers /\ HoldsOK(tr.ranges, gone, tr.granted)
    /\ tr.received = Cardinality(gone) /\ tr.recoveries <= MaxRecoveries

IInv ==
    /\ TransferOK(t, arrived) /\ TrackerOK(repair, t.granted) /\ steps \in 1..MaxSteps
    /\ t.over = "done" <=> arrived = Unit

\* Everything has arrived when as much has been counted as there is.
LEMMA AllArrived ==
    ASSUME NEW gone, gone \subseteq Unit
    PROVE  IsFiniteSet(gone) /\ Cardinality(gone) \in Nat /\ (Cardinality(gone) = Size <=> gone = Unit)
<1>1. Size \in Int /\ 0 \in Int /\ Size - 1 \in Int
  BY ConstantsAre
<1>2. IsFiniteSet(Unit) /\ Cardinality(Unit) = Size
  <2>1. /\ IsFiniteSet(0..Size-1)
        /\ Cardinality(0..Size-1) = IF 0 > Size - 1 THEN 0 ELSE Size - 1 - 0 + 1
    BY <1>1, FS_Interval
  <2> QED
    BY <2>1, ConstantsAre DEF Unit
<1>3. /\ IsFiniteSet(gone) /\ Cardinality(gone) <= Size
      /\ Cardinality(gone) = Size => gone = Unit
  BY <1>2, FS_Subset
<1> QED
  BY <1>2, <1>3, FS_CardinalityType

\* The transfer after the payload from a to b, as Receive has it.
NextOf(a, b) ==
    LET p     == R(a, b)
        fresh == Fresh(t.ranges, p)
        tr    == [t EXCEPT !.ranges = Merged(@, p), !.received = @ + fresh,
                           !.payload = Greatest(@, b - a)]
    IN  IF fresh > 0 THEN [tr EXCEPT !.quiet = 0, !.recoveries = 0, !.probed = FALSE] ELSE tr

\* What a payload adds is there and counted.
LEMMA NextIs ==
    ASSUME TransferOK(t, arrived), NEW a \in Unit, NEW b \in 1..t.granted, a < b
    PROVE  /\ TransferOK(NextOf(a, b), arrived \cup (a..b-1))
           /\ NextOf(a, b).granted = t.granted /\ NextOf(a, b).over = t.over
<1> DEFINE p == R(a, b)
           fresh == Fresh(t.ranges, p)
           rs == Merged(t.ranges, p)
           g == Greatest(t.payload, b - a)
           new == {u \in p.start..p.end-1 : ~Covers(t.ranges, u)}
           gone == arrived \cup (a..b-1)
           next == NextOf(a, b)
<1>1. /\ t \in Transfers /\ t.received = Cardinality(arrived) /\ t.recoveries <= MaxRecoveries
      /\ t.ranges \in Seq(Rng) /\ Apart(t.ranges) /\ Len(t.ranges) > 0 /\ arrived \subseteq Unit
      /\ \A u \in Int : Covers(t.ranges, u) <=> u \in arrived
      /\ t.granted \in Nat /\ t.granted <= Size /\ \A u \in arrived : u < t.granted
  BY DEF TransferOK, HoldsOK
<1>2. /\ a \in Int /\ a >= 0 /\ b \in Int /\ b <= t.granted /\ b <= Size
      /\ p \in Rng /\ p.start = a /\ p.end = b
  BY <1>1, ConstantsAre DEF Unit, R, Rng
<1>3. InOrder(t.ranges)
  BY <1>1, ApartInOrder
<1>4. IsFiniteSet(new) /\ fresh = Cardinality(new)
  BY <1>1, <1>2, <1>3, FreshCounts
<1>5. fresh \in Nat
  BY <1>4, FS_CardinalityType
<1>6. /\ rs \in Seq(Rng) /\ Apart(rs) /\ Len(rs) > 0
      /\ \A u \in Int : Covers(rs, u) <=> Covers(t.ranges, u) \/ Within(u, p)
  BY <1>1, <1>2, MergedIs
<1>7. \A u : u \in new <=> u \in a..b-1 /\ u \notin arrived
  BY <1>1, <1>2
<1>8. gone = arrived \cup new /\ arrived \cap new = {}
  BY <1>7
<1> HIDE DEF p, fresh, rs, new
<1>9. gone \subseteq Unit /\ \A u \in gone : u < t.granted
  <2>1. \A u \in a..b-1 : u \in Unit /\ u < t.granted
    BY <1>1, <1>2, ConstantsAre DEF Unit
  <2> QED
    BY <1>1, <2>1
<1>10. \A u \in Int : Covers(rs, u) <=> u \in gone
  BY <1>1, <1>2, <1>6 DEF Within
<1>11. Cardinality(gone) = t.received + fresh
  <2>1. IsFiniteSet(arrived) /\ Cardinality(arrived) \in Nat
    BY <1>1, AllArrived
  <2>2. Cardinality(arrived \cup new)
          = Cardinality(arrived) + Cardinality(new) - Cardinality(arrived \cap new)
    BY <1>4, <2>1, FS_Union
  <2> HIDE DEF gone
  <2>3. Cardinality(arrived \cap new) = 0
    BY <1>8, FS_EmptySet
  <2> QED
    BY <1>1, <1>4, <1>5, <1>8, <2>1, <2>2, <2>3
<1>12. HoldsOK(rs, gone, t.granted)
  <2> HIDE DEF gone
  <2> QED
    BY <1>1, <1>6, <1>9, <1>10 DEF HoldsOK
<1>13. g \in Nat \ {0}
  BY <1>1, <1>2 DEF Transfers, Greatest
<1>14. next \in {[[t EXCEPT !.ranges = rs, !.received = t.received + fresh, !.payload = g]
                      EXCEPT !.quiet = 0, !.recoveries = 0, !.probed = FALSE],
                 [t EXCEPT !.ranges = rs, !.received = t.received + fresh, !.payload = g]}
  BY DEF NextOf, p, fresh, rs
<1> HIDE DEF g, gone, next
<1>15. /\ next \in Transfers /\ next.ranges = rs /\ next.received = t.received + fresh
       /\ next.granted = t.granted /\ next.over = t.over
       /\ next.recoveries = 0 \/ next.recoveries = t.recoveries
  <2>1. /\ t.received \in Nat /\ t.received + fresh \in Nat
    BY <1>1, <1>5 DEF Transfers
  <2> DEFINE sum == t.received + fresh
             one == [t EXCEPT !.ranges = rs, !.received = sum, !.payload = g]
  <2>2. next \in {[one EXCEPT !.quiet = 0, !.recoveries = 0, !.probed = FALSE], one}
    BY <1>14
  <2>3. sum \in Nat /\ sum = t.received + fresh
    BY <2>1
  <2> HIDE DEF sum
  <2>4. /\ one \in Transfers /\ one.ranges = rs /\ one.received = sum
        /\ one.granted = t.granted /\ one.over = t.over /\ one.recoveries = t.recoveries
    BY <1>1, <1>6, <1>13, <2>3 DEF Transfers
  <2> HIDE DEF one
  <2>5. CASE next = one
    BY <1>6, <2>3, <2>4, <2>5
  <2>6. CASE next = [one EXCEPT !.quiet = 0, !.recoveries = 0, !.probed = FALSE]
    <3>1. next \in Transfers
      BY <2>4, <2>6 DEF Transfers
    <3>2. /\ next.ranges = rs /\ next.received = sum /\ next.granted = t.granted
          /\ next.over = t.over /\ next.recoveries = 0
      BY <2>4, <2>6 DEF Transfers
    <3> QED
      BY <2>3, <3>1, <3>2
  <2> QED
    BY <2>2, <2>5, <2>6
<1>16. next.recoveries <= MaxRecoveries
  BY <1>1, <1>15, ConstantsAre DEF Transfers
<1>17. TransferOK(next, gone)
  BY <1>11, <1>12, <1>15, <1>16 DEF TransferOK
<1> QED
  BY <1>15, <1>17 DEF next, gone

\* The window to wait: at least one tick, and it never shrinks.
LEMMA WindowIs ==
    ASSUME steps \in 1..MaxSteps, steps' \in 1..MaxSteps, steps <= steps'
    PROVE  /\ ReorderWindow \in Nat \ {0} /\ ReorderWindow' \in Nat \ {0}
           /\ ReorderWindow <= ReorderWindow'
<1>1. /\ Quarter * steps \in Nat \ {0} /\ Quarter * steps' \in Nat \ {0}
      /\ Quarter * steps <= Quarter * steps'
  <2>1. ASSUME NEW q \in Nat, q > 0, NEW m \in Nat, m > 0
        PROVE  q * m \in Nat \ {0}
    BY <2>1
  <2>2. ASSUME NEW q \in Nat, NEW m \in Nat, NEW n \in Nat, m <= n
        PROVE  q * m <= q * n
    <3>1. n - m \in Nat /\ q * (n - m) \in Nat /\ q * m \in Nat
      BY <2>2
    <3>2. q * n = q * m + q * (n - m)
      BY <2>2
    <3> QED
      BY <2>2, <3>1, <3>2
  <2>3. /\ Quarter \in Nat /\ Quarter > 0 /\ steps \in Nat /\ steps > 0
        /\ steps' \in Nat /\ steps' > 0
    BY ConstantsAre
  <2> QED
    BY <2>1, <2>2, <2>3
<1>2. Greatest(Quarter, Srtt) \in Nat \ {0}
  BY ConstantsAre DEF Greatest
<1> QED
  BY <1>1, <1>2 DEF ReorderWindow, Least

-----------------------------------------------------------------------------
(* The steps. *)

\* The time each unit's RESEND has left, for the units that stay missing.
LeftKept == [u \in Unit |-> IF u \in arrived' THEN 0 ELSE LeftIn(repair.pending, u)]

\* A step that asks for nothing asks by the rule.
LEMMA QuietAsks ==
    ASSUME NEW top, TrackerOK(repair, top), NEW delay, NEW gone, gone = arrived',
           NEW frontier, NEW window
    PROVE  /\ Asked(Quiet(repair), LeftKept, gone, delay)
           /\ Detected(Quiet(repair), Quiet(repair), gone, frontier, window)
<1> DEFINE q == Quiet(repair)
<1>1. q.pending = repair.pending /\ q.wanted = {} /\ q.sent = {} /\ q.early = {}
  BY QuietIs
<1> HIDE DEF q
<1>2. \A u \in Unit \ gone : LeftKept[u] = LeftIn(q.pending, u)
  BY <1>1 DEF LeftKept
<1>3. Asked(q, LeftKept, gone, delay)
  BY <1>1, <1>2 DEF Asked
<1>4. Detected(q, q, gone, frontier, window)
  BY <1>1 DEF Detected
<1> QED
  BY <1>3, <1>4 DEF q

\* A spurious repair never shortens the window.
LEMMA StepsGrow ==
    ASSUME steps \in 1..MaxSteps, NoteSpurious \/ UNCHANGED <<steps, calm>>
    PROVE  steps' \in 1..MaxSteps /\ steps <= steps'
  BY ConstantsAre DEF NoteSpurious, Least

\* The payload counts as data beyond what is below it.
Passes(a) ==
    /\ a \in Unit
    /\ passed' = [u \in Unit |-> IF passed[u] = 0 /\ u < a THEN 1 ELSE passed[u]]
    /\ \A v \in arrived' \ arrived, u \in Unit \ arrived' : u < v => u < a

\* What a DATA packet does.
LEMMA ReceiveIs ==
    ASSUME IInv, Receive
    PROVE  /\ IInv' /\ arrived \subseteq arrived' /\ steps <= steps'
           /\ \E delay \in Delays : Asked(repair', LeftKept, arrived', delay)
           /\ Detected(repair', Quiet(repair), arrived', Frontier(t'.ranges), ReorderWindow')
           /\ \E a : Passes(a)
<1>1. PICK a \in Unit, b \in 1..t.granted :
        LET p     == R(a, b)
            fresh == Fresh(t.ranges, p)
            next  == NextOf(a, b)
        IN  /\ t.over = "no" /\ a < b /\ b - a <= MaxPayload
            /\ arrived' = arrived \cup (a..b-1)
            /\ passed' = [u \in Unit |-> IF passed[u] = 0 /\ u < a THEN 1 ELSE passed[u]]
            /\ UNCHANGED clock
            /\ IF fresh < b - a /\ repair.requested THEN NoteSpurious ELSE UNCHANGED <<steps, calm>>
            /\ IF next.received = Size
               THEN t' = [next EXCEPT !.over = "done"] /\ repair' = Quiet(repair)
               ELSE /\ t' = next
                    /\ \/ repair' = Quiet(repair)
                       \/ \E delay \in Delays :
                             repair' = DetectLoss(next, Quiet(repair), ReorderWindow', delay)
  BY Zenon DEF Receive, NextOf
<1> DEFINE next == NextOf(a, b)
           q == Quiet(repair)
           gone == arrived \cup (a..b-1)
<1>2. /\ TransferOK(t, arrived) /\ TrackerOK(repair, t.granted) /\ steps \in 1..MaxSteps
      /\ t.over = "no" /\ a < b /\ arrived' = gone
      /\ NoteSpurious \/ UNCHANGED <<steps, calm>>
  BY <1>1 DEF IInv
<1>3. /\ TransferOK(next, gone) /\ next.granted = t.granted /\ next.over = "no"
  BY <1>2, NextIs
<1>4. steps' \in 1..MaxSteps /\ steps <= steps'
  BY <1>2, StepsGrow
<1>5. \E c : Passes(c)
  <2>1. a \in Int /\ b \in Int
    BY <1>2, ConstantsAre DEF Unit, TransferOK, Transfers
  <2>2. \A v \in a..b-1 : \A u \in Unit : u < v /\ u \notin a..b-1 => u < a
    BY <2>1, ConstantsAre DEF Unit
  <2>3. Passes(a)
    BY <1>1, <1>2, <2>2 DEF Passes
  <2> QED
    BY <2>3
<1>6. /\ next \in Transfers /\ HoldsOK(next.ranges, gone, next.granted)
      /\ next.received = Cardinality(gone) /\ gone \subseteq Unit
      /\ next.payload \in Nat
  BY <1>3 DEF TransferOK, Transfers, HoldsOK
<1>7. next.received = Size <=> gone = Unit
  BY <1>6, AllArrived
<1>8. PICK any \in Delays : TRUE
  BY ConstantsAre
<1>9. /\ TrackerOK(q, t.granted) /\ q.sent = {} /\ q.early = {}
  BY <1>2, QuietIs
<1>10. \A delay : /\ Asked(q, LeftKept, gone, delay)
                  /\ Detected(q, q, gone, Frontier(t'.ranges), ReorderWindow')
  BY <1>2, QuietAsks
<1>11. /\ IF next.received = Size
          THEN t' = [next EXCEPT !.over = "done"] /\ repair' = q
          ELSE /\ t' = next
               /\ \/ repair' = q
                  \/ \E delay \in Delays : repair' = DetectLoss(next, q, ReorderWindow', delay)
  BY <1>1
<1> HIDE DEF next, q, gone
<1>12. CASE next.received = Size
  <2>1. t' = [next EXCEPT !.over = "done"] /\ repair' = q
    BY <1>11, <1>12
  <2>2. /\ t' \in Transfers /\ t'.ranges = next.ranges /\ t'.granted = next.granted
        /\ t'.received = next.received /\ t'.recoveries = next.recoveries /\ t'.over = "done"
    BY <1>6, <2>1 DEF Transfers
  <2>3. TransferOK(t', gone)
    BY <1>3, <2>2 DEF TransferOK
  <2>4. TrackerOK(repair', t'.granted)
    BY <1>3, <1>9, <2>1, <2>2
  <2>5. IInv'
    BY <1>2, <1>4, <1>7, <1>12, <2>2, <2>3, <2>4 DEF IInv
  <2>6. Asked(repair', LeftKept, arrived', any)
    BY <1>2, <1>10, <2>1
  <2>7. Detected(repair', q, arrived', Frontier(t'.ranges), ReorderWindow')
    BY <1>2, <1>10, <2>1
  <2> QED
    BY <1>2, <1>4, <1>5, <1>8, <2>5, <2>6, <2>7 DEF gone, q
<1>13. CASE next.received # Size
  <2>1. /\ t' = next
        /\ \/ repair' = q
           \/ \E delay \in Delays : repair' = DetectLoss(next, q, ReorderWindow', delay)
    BY <1>11, <1>13
  <2>2. /\ TrackerOK(repair', next.granted)
        /\ \E delay \in Delays : Asked(repair', LeftKept, gone, delay)
        /\ Detected(repair', q, gone, Frontier(next.ranges), ReorderWindow')
    <3>1. CASE repair' = q
      BY <1>3, <1>8, <1>9, <1>10, <2>1, <3>1
    <3>2. CASE \E delay \in Delays : repair' = DetectLoss(next, q, ReorderWindow', delay)
      <4>1. PICK delay \in Delays : repair' = DetectLoss(next, q, ReorderWindow', delay)
        BY <3>2
      <4>2. TrackerOK(q, next.granted) /\ Asked(q, LeftKept, gone, delay)
        BY <1>3, <1>9, <1>10
      <4>3. /\ TrackerOK(DetectLoss(next, q, ReorderWindow', delay), next.granted)
            /\ Asked(DetectLoss(next, q, ReorderWindow', delay), LeftKept, gone, delay)
            /\ Detected(DetectLoss(next, q, ReorderWindow', delay), q, gone,
                        Frontier(next.ranges), ReorderWindow')
        BY <1>6, <1>9, <4>2, DetectLossAsks
      <4> QED
        BY <4>1, <4>3
    <3> QED
      BY <2>1, <3>1, <3>2
  <2>3. IInv'
    BY <1>2, <1>3, <1>4, <1>7, <1>13, <2>1, <2>2 DEF IInv
  <2> QED
    BY <1>2, <1>4, <1>5, <2>1, <2>2, <2>3 DEF gone, q
<1> QED
  BY <1>12, <1>13

\* The time each unit's RESEND has left a tick later.
LeftOlder ==
    [u \in Unit |-> IF u \in arrived \/ LeftIn(repair.pending, u) = 0 THEN 0
                    ELSE LeftIn(repair.pending, u) - 1]

\* What a timer makes of the transfer: no range and no count changes.
StillOK(tr) ==
    /\ TransferOK(tr, arrived) /\ tr.granted = t.granted /\ tr.ranges = t.ranges
    /\ tr.over \in {"no", "failed"}

\* No timer changes the ranges, the counts or the grant of a transfer.
LEMMA Still ==
    ASSUME NEW tr, StillOK(tr)
    PROVE  /\ HoldsOK(tr.ranges, arrived, tr.granted) /\ tr.payload \in Nat \ {0}
           /\ \A q \in Nat : StillOK([tr EXCEPT !.quiet = q])
           /\ StillOK([tr EXCEPT !.probed = TRUE]) /\ StillOK([tr EXCEPT !.over = "failed"])
           /\ tr.recoveries # MaxRecoveries
                => StillOK([tr EXCEPT !.recoveries = @ + 1, !.quiet = 0])
<1>1. /\ tr \in Transfers /\ tr.granted = t.granted /\ tr.ranges = t.ranges
      /\ tr.over \in {"no", "failed"} /\ HoldsOK(tr.ranges, arrived, tr.granted)
      /\ tr.received = Cardinality(arrived) /\ tr.recoveries <= MaxRecoveries
      /\ tr.recoveries \in Nat
  BY DEF StillOK, TransferOK, Transfers
<1>2. ASSUME NEW x \in Transfers, x.granted = tr.granted, x.ranges = tr.ranges,
             x.received = tr.received, x.recoveries <= MaxRecoveries, x.over \in {"no", "failed"}
      PROVE  StillOK(x)
  BY <1>1, <1>2 DEF StillOK, TransferOK
<1>3. \A q \in Nat : StillOK([tr EXCEPT !.quiet = q])
  <2> SUFFICES ASSUME NEW q \in Nat PROVE StillOK([tr EXCEPT !.quiet = q])
    OBVIOUS
  <2> DEFINE x == [tr EXCEPT !.quiet = q]
  <2>1. /\ x \in Transfers /\ x.granted = tr.granted /\ x.ranges = tr.ranges
        /\ x.received = tr.received /\ x.recoveries = tr.recoveries /\ x.over = tr.over
    BY <1>1 DEF Transfers
  <2> HIDE DEF x
  <2>2. StillOK(x)
    BY <1>1, <1>2, <2>1
  <2> QED
    BY <2>2 DEF x
<1>4. StillOK([tr EXCEPT !.probed = TRUE])
  <2> DEFINE x == [tr EXCEPT !.probed = TRUE]
  <2>1. /\ x \in Transfers /\ x.granted = tr.granted /\ x.ranges = tr.ranges
        /\ x.received = tr.received /\ x.recoveries = tr.recoveries /\ x.over = tr.over
    BY <1>1 DEF Transfers
  <2> HIDE DEF x
  <2>2. StillOK(x)
    BY <1>1, <1>2, <2>1
  <2> QED
    BY <2>2 DEF x
<1>5. StillOK([tr EXCEPT !.over = "failed"])
  <2> DEFINE x == [tr EXCEPT !.over = "failed"]
  <2>1. /\ x \in Transfers /\ x.granted = tr.granted /\ x.ranges = tr.ranges
        /\ x.received = tr.received /\ x.recoveries = tr.recoveries /\ x.over = "failed"
    BY <1>1 DEF Transfers
  <2> HIDE DEF x
  <2>2. StillOK(x)
    BY <1>1, <1>2, <2>1
  <2> QED
    BY <2>2 DEF x
<1>6. ASSUME tr.recoveries # MaxRecoveries
      PROVE  StillOK([tr EXCEPT !.recoveries = @ + 1, !.quiet = 0])
  <2> DEFINE n == tr.recoveries + 1
             x == [tr EXCEPT !.recoveries = n, !.quiet = 0]
  <2>1. n \in Nat /\ n <= MaxRecoveries
    BY <1>1, <1>6, ConstantsAre
  <2> HIDE DEF n
  <2>2. /\ x \in Transfers /\ x.granted = tr.granted /\ x.ranges = tr.ranges
        /\ x.received = tr.received /\ x.recoveries = n /\ x.over = tr.over
    BY <1>1, <2>1 DEF Transfers
  <2> HIDE DEF x
  <2>3. StillOK(x)
    BY <1>1, <1>2, <2>1, <2>2
  <2> QED
    BY <2>3 DEF x, n
<1> QED
  BY <1>1, <1>3, <1>4, <1>5, <1>6 DEF Transfers

\* A tick's aging asks for nothing.
LEMMA OlderAsks ==
    ASSUME NEW top, TrackerOK(repair, top), NEW delay
    PROVE  /\ TrackerOK(Older(repair), top) /\ Asked(Older(repair), LeftOlder, arrived, delay)
           /\ Older(repair).sent = {} /\ Older(repair).early = {}
<1> DEFINE q == Older(repair)
<1>1. /\ TrackerOK(q, top) /\ q.wanted = {} /\ q.sent = {} /\ q.early = {}
      /\ \A u \in Unit : LeftIn(q.pending, u)
            = IF LeftIn(repair.pending, u) = 0 THEN 0 ELSE LeftIn(repair.pending, u) - 1
  BY OlderIs
<1> HIDE DEF q
<1>2. \A u \in Unit \ arrived : LeftOlder[u] = LeftIn(q.pending, u)
  BY <1>1 DEF LeftOlder
<1>3. Asked(q, LeftOlder, arrived, delay)
  BY <1>1, <1>2 DEF Asked
<1> QED
  BY <1>1, <1>3 DEF q

\* What a tick does.
LEMMA TickIs ==
    ASSUME IInv, Tick
    PROVE  /\ IInv' /\ arrived' = arrived /\ steps' = steps
           /\ \E delay \in Delays : Asked(repair', LeftOlder, arrived, delay)
           /\ Detected(repair', Older(repair), arrived, Frontier(t.ranges), ReorderWindow)
           /\ passed' = [u \in Unit |-> IF passed[u] = 0 THEN 0
                                        ELSE Least(MaxWindow + 1, passed[u] + 1)]
<1>1. PICK delay \in Delays, drain \in Drains :
        LET aged     == [t EXCEPT !.quiet = Least(Greatest(MaxRto, 2 * Srtt) + Max(Drains), @ + 1)]
            detected == DetectLoss(aged, Older(repair), ReorderWindow, delay)
            probed   == Probe(aged, detected, drain, delay)
            after    == IF Waiting(t) THEN [t |-> [t EXCEPT !.quiet = 0], repair |-> detected]
                        ELSE IF aged.quiet >= Timeout(aged, drain)
                        THEN Recover(probed.t, probed.repair, delay)
                        ELSE probed
        IN  /\ t.over = "no" /\ t' = after.t /\ repair' = after.repair
            /\ calm' = Least(Srtt, calm + 1) /\ clock' = 1 - clock
            /\ passed' = [u \in Unit |-> IF passed[u] = 0 THEN 0
                                         ELSE Least(MaxWindow + 1, passed[u] + 1)]
            /\ UNCHANGED <<steps, arrived>>
  BY Zenon DEF Tick
<1> DEFINE n == Least(Greatest(MaxRto, 2 * Srtt) + Max(Drains), t.quiet + 1)
           aged == [t EXCEPT !.quiet = n]
           q == Older(repair)
           detected == DetectLoss(aged, q, ReorderWindow, delay)
           probed == Probe(aged, detected, drain, delay)
           recovered == Recover(probed.t, probed.repair, delay)
<1>2. /\ TransferOK(t, arrived) /\ TrackerOK(repair, t.granted) /\ steps \in 1..MaxSteps
      /\ t.over = "no" /\ arrived # Unit /\ steps' = steps /\ arrived' = arrived
  BY <1>1 DEF IInv
<1>3. n \in Nat
  <2>1. t.quiet + 1 \in Nat
    BY <1>2 DEF TransferOK, Transfers
  <2>2. Greatest(MaxRto, 2 * Srtt) + Max(Drains) \in Nat
    BY ConstantsAre DEF Greatest
  <2> QED
    BY <2>1, <2>2, LeastNat
<1>4. \/ t' = [t EXCEPT !.quiet = 0] /\ repair' = detected
      \/ t' = recovered.t /\ repair' = recovered.repair
      \/ t' = probed.t /\ repair' = probed.repair
  <2>1. LET after == IF Waiting(t) THEN [t |-> [t EXCEPT !.quiet = 0], repair |-> detected]
                     ELSE IF aged.quiet >= Timeout(aged, drain) THEN recovered
                     ELSE probed
        IN  t' = after.t /\ repair' = after.repair
    BY <1>1
  <2> HIDE DEF aged, detected, probed, recovered
  <2> QED
    BY <2>1
<1> HIDE DEF n
<1>5. StillOK(t)
  BY <1>2 DEF StillOK
<1>6. StillOK(aged) /\ aged.granted = t.granted /\ aged.ranges = t.ranges
  <2>1. StillOK(aged)
    BY <1>3, <1>5, Still
  <2> QED
    BY <2>1 DEF StillOK
<1> HIDE DEF aged
<1>7. HoldsOK(aged.ranges, arrived, aged.granted) /\ aged.payload \in Nat \ {0}
  BY <1>6, Still
<1>8. /\ TrackerOK(q, aged.granted) /\ Asked(q, LeftOlder, arrived, delay)
      /\ q.sent = {} /\ q.early = {}
  BY <1>2, <1>6, OlderAsks
<1> HIDE DEF q
<1>9. /\ TrackerOK(detected, aged.granted) /\ Asked(detected, LeftOlder, arrived, delay)
      /\ Detected(detected, q, arrived, Frontier(aged.ranges), ReorderWindow)
  BY <1>7, <1>8, DetectLossAsks
<1> HIDE DEF detected
<1>10. /\ TrackerOK(probed.repair, aged.granted) /\ Asked(probed.repair, LeftOlder, arrived, delay)
       /\ probed.repair.suspects = detected.suspects /\ probed.repair.early = detected.early
       /\ probed.t = aged \/ probed.t = [aged EXCEPT !.probed = TRUE]
  BY <1>7, <1>9, ProbeAsks
<1>11. StillOK(probed.t) /\ probed.t.granted = t.granted
  <2>1. StillOK(probed.t)
    BY <1>6, <1>10, Still
  <2> QED
    BY <2>1 DEF StillOK
<1> HIDE DEF probed
<1>12. HoldsOK(probed.t.ranges, arrived, probed.t.granted) /\ probed.t.payload \in Nat \ {0}
  BY <1>11, Still
<1>13. /\ TrackerOK(recovered.repair, probed.t.granted)
       /\ Asked(recovered.repair, LeftOlder, arrived, delay)
       /\ recovered.repair.suspects = probed.repair.suspects
       /\ recovered.repair.early = probed.repair.early
       /\ \/ recovered.t = [probed.t EXCEPT !.over = "failed"]
          \/ /\ probed.t.recoveries # MaxRecoveries
             /\ recovered.t = [probed.t EXCEPT !.recoveries = @ + 1, !.quiet = 0]
  <2>1. TrackerOK(probed.repair, probed.t.granted)
    BY <1>6, <1>10, <1>11
  <2>2. /\ TrackerOK(recovered.repair, probed.t.granted)
        /\ Asked(recovered.repair, LeftOlder, arrived, delay)
        /\ Recovered(recovered, probed.t, probed.repair)
    BY <1>10, <1>12, <2>1, RecoverAsks
  <2> HIDE DEF recovered
  <2> QED
    BY <2>2 DEF Recovered
<1>14. StillOK(recovered.t)
  BY <1>11, <1>13, Still
<1> HIDE DEF recovered
<1>15. StillOK([t EXCEPT !.quiet = 0])
  <2>1. 0 \in Nat
    OBVIOUS
  <2> QED
    BY <1>5, <2>1, Still
<1>16. /\ StillOK(t') /\ TrackerOK(repair', t.granted) /\ Asked(repair', LeftOlder, arrived, delay)
       /\ repair'.suspects = detected.suspects /\ repair'.early = detected.early
  BY <1>4, <1>6, <1>9, <1>10, <1>11, <1>13, <1>14, <1>15
<1>17. Detected(repair', q, arrived, Frontier(t.ranges), ReorderWindow)
  BY <1>6, <1>9, <1>16 DEF Detected
<1>18. IInv'
  <2>1. TransferOK(t', arrived) /\ t'.granted = t.granted /\ t'.over # "done"
    BY <1>16 DEF StillOK
  <2>2. TransferOK(t', arrived')
    BY <1>2, <2>1
  <2> QED
    BY <1>2, <1>16, <2>1, <2>2 DEF IInv
<1> QED
  BY <1>1, <1>2, <1>16, <1>17, <1>18 DEF q

\* The first datagram of a transfer leaves its ranges, its count and its tracker right.
LEMMA InitIs == Init => IInv
<1> SUFFICES ASSUME Init PROVE IInv
  OBVIOUS
<1>1. PICK a \in Unit, b \in 1..Size :
    /\ a < b /\ b - a <= MaxPayload
    /\ t \in [ranges : {<<R(a, b)>>}, received : {b - a}, payload : {b - a}, granted : b..Size,
              quiet : {0}, recoveries : {0}, probed : {FALSE},
              over : {IF b - a = Size THEN "done" ELSE "no"}]
    /\ repair = [suspects |-> <<>>, pending |-> <<>>, requested |-> FALSE,
                 wanted |-> {}, sent |-> {}, early |-> {}]
    /\ steps = 1 /\ calm = Srtt /\ clock = 0
    /\ arrived = a..b-1 /\ passed = [u \in Unit |-> IF u < a THEN 1 ELSE 0]
  BY DEF Init
<1> DEFINE e == R(a, b)
<1>2. a \in Int /\ a >= 0 /\ b \in Int /\ b <= Size /\ a < b /\ Size \in Nat /\ b - a \in Nat \ {0}
  BY <1>1, ConstantsAre DEF Unit
<1>3. e \in Rng /\ e.start = a /\ e.end = b
  BY <1>2 DEF R, Rng
<1>4. /\ t.ranges = <<e>> /\ t.received = b - a /\ t.payload = b - a /\ t.granted \in b..Size
      /\ t.quiet = 0 /\ t.recoveries = 0 /\ t.probed = FALSE
      /\ t.over = IF b - a = Size THEN "done" ELSE "no"
      /\ t = [ranges |-> t.ranges, received |-> t.received, payload |-> t.payload,
              granted |-> t.granted, quiet |-> t.quiet, recoveries |-> t.recoveries,
              probed |-> t.probed, over |-> t.over]
  BY <1>1
<1> HIDE DEF e
<1>5. arrived \subseteq Unit /\ \A u : u \in arrived <=> u \in Int /\ a <= u /\ u < b
  BY <1>1, <1>2 DEF Unit
<1>6. Cardinality(arrived) = b - a
  <2>1. Cardinality(a..b-1) = IF a > b - 1 THEN 0 ELSE b - 1 - a + 1
    BY <1>2, FS_Interval
  <2> QED
    BY <1>1, <1>2, <2>1
<1>7. /\ <<e>> \in Seq(Rng) /\ Len(<<e>>) = 1 /\ \A u : Covers(<<e>>, u) <=> Within(u, e)
  BY <1>2, <1>3, OneRange
<1>8. Apart(<<e>>)
  BY <1>2, <1>3 DEF Apart
<1>9. \A u \in Int : Covers(<<e>>, u) <=> u \in arrived
  BY <1>3, <1>5, <1>7 DEF Within
<1>10. t.granted \in Nat /\ t.granted <= Size /\ \A u \in arrived : u < t.granted
  BY <1>2, <1>4, <1>5
<1>11. HoldsOK(t.ranges, arrived, t.granted)
  BY <1>4, <1>5, <1>7, <1>8, <1>9, <1>10 DEF HoldsOK
<1>12. t.ranges \in Seq(Rng) /\ t.over \in {"no", "failed", "done"}
  BY <1>4, <1>7
<1>13. t \in Transfers
  <2>1. /\ t.ranges \in Seq(Rng) /\ t.received \in Nat /\ t.payload \in Nat \ {0}
        /\ t.granted \in Nat /\ t.quiet \in Nat /\ t.recoveries \in Nat
        /\ t.probed \in BOOLEAN /\ t.over \in {"no", "done", "failed"}
    <3>1. t.received = b - a /\ t.payload = b - a /\ t.quiet = 0 /\ t.recoveries = 0
      BY <1>4
    <3>2. t.received \in Nat /\ t.payload \in Nat \ {0} /\ t.quiet \in Nat /\ t.recoveries \in Nat
      BY <1>2, <3>1
    <3>3. t.probed = FALSE
      BY <1>4
    <3> QED
      BY <1>10, <1>12, <3>2, <3>3
  <2>2. t = [ranges |-> t.ranges, received |-> t.received, payload |-> t.payload,
             granted |-> t.granted, quiet |-> t.quiet, recoveries |-> t.recoveries,
             probed |-> t.probed, over |-> t.over]
    BY <1>4
  <2> QED
    BY <2>1, <2>2 DEF Transfers
<1>14. TransferOK(t, arrived)
  BY <1>4, <1>6, <1>11, <1>13, ConstantsAre DEF TransferOK
<1>15. TrackerOK(repair, t.granted)
  <2>1. /\ repair.suspects = <<>> /\ repair.pending = <<>> /\ repair.requested = FALSE
        /\ repair.wanted = {} /\ repair.sent = {} /\ repair.early = {}
        /\ repair = [suspects |-> repair.suspects, pending |-> repair.pending,
                     requested |-> repair.requested, wanted |-> repair.wanted,
                     sent |-> repair.sent, early |-> repair.early]
    BY <1>1
  <2>2. repair.suspects \in [{} -> Nat]
    BY <2>1
  <2>3. repair.suspects \in UNION {[S -> Nat] : S \in SUBSET Unit}
    BY <2>2
  <2>4. repair.pending \in Seq(Held) /\ Len(repair.pending) = 0
    BY <2>1
  <2>5. repair \in Trackers
    BY <2>1, <2>3, <2>4 DEF Trackers
  <2>6. InOrder(repair.pending)
    BY <2>4 DEF InOrder
  <2> QED
    BY <2>4, <2>5, <2>6 DEF TrackerOK
<1>16. t.over = "done" <=> arrived = Unit
  <2>1. b - a = Size <=> arrived = Unit
    BY <1>5, <1>6, AllArrived
  <2> QED
    BY <1>4, <2>1
<1>17. steps \in 1..MaxSteps
  BY <1>1, ConstantsAre
<1> QED
  BY <1>14, <1>15, <1>16, <1>17 DEF IInv

\* A larger grant leaves ranges and RESENDs below it.
LEMMA GrantMoreIs == ASSUME IInv, GrantMore PROVE IInv'
<1>1. PICK g \in t.granted+1..Size : t' = [t EXCEPT !.granted = g]
  BY DEF GrantMore
<1>2. /\ t \in Transfers /\ HoldsOK(t.ranges, arrived, t.granted)
      /\ t.received = Cardinality(arrived) /\ t.recoveries <= MaxRecoveries
      /\ TrackerOK(repair, t.granted) /\ steps \in 1..MaxSteps
      /\ t.over = "done" <=> arrived = Unit
      /\ repair' = repair /\ steps' = steps /\ arrived' = arrived
  BY DEF IInv, TransferOK, GrantMore
<1>3. g \in Nat /\ t.granted \in Nat /\ t.granted < g /\ g <= Size
  BY <1>2, ConstantsAre DEF Transfers
<1>4. /\ t' \in Transfers /\ t'.granted = g /\ t'.ranges = t.ranges /\ t'.received = t.received
      /\ t'.recoveries = t.recoveries /\ t'.over = t.over
  BY <1>1, <1>2, <1>3 DEF Transfers
<1>5. \A u \in Unit : u \in Int
  BY ConstantsAre DEF Unit
<1>6. HoldsOK(t.ranges, arrived, g)
  BY <1>2, <1>3, <1>5 DEF HoldsOK
<1>7. TrackerOK(repair, g)
  <2>1. /\ repair \in Trackers /\ InOrder(repair.pending)
        /\ \A k \in 1..Len(repair.pending) :
              repair.pending[k].start >= 0 /\ repair.pending[k].end <= t.granted
    BY <1>2 DEF TrackerOK
  <2>2. \A k \in 1..Len(repair.pending) : repair.pending[k].end \in Int
    BY <2>1, HeldsAre DEF Trackers
  <2>3. \A k \in 1..Len(repair.pending) : repair.pending[k].end <= g
    BY <1>3, <2>1, <2>2
  <2> QED
    BY <2>1, <2>3 DEF TrackerOK
<1>8. TransferOK(t', arrived)
  BY <1>2, <1>4, <1>6 DEF TransferOK
<1>9. TrackerOK(repair', t'.granted) /\ TransferOK(t', arrived')
  BY <1>2, <1>4, <1>7, <1>8
<1> QED
  BY <1>2, <1>4, <1>9 DEF IInv

\* The inductive invariant holds: every step keeps the ranges, the count and the tracker
\* right.
THEOREM RangeInvariant == Spec => []IInv
<1>1. IInv /\ [Next]_vars => IInv'
  <2> SUFFICES ASSUME IInv, [Next]_vars PROVE IInv'
    OBVIOUS
  <2>1. CASE Receive
    BY <2>1, ReceiveIs
  <2>2. CASE GrantMore
    BY <2>2, GrantMoreIs
  <2>3. CASE Tick
    BY <2>3, TickIs
  <2>4. CASE UNCHANGED vars
    BY <2>4 DEF vars, IInv, TransferOK, TrackerOK
  <2> QED
    BY <2>1, <2>2, <2>3, <2>4 DEF Next
<1> QED
  BY InitIs, <1>1, PTL DEF Spec

-----------------------------------------------------------------------------
(* The theorems. *)

\* The range list of a transfer is what arrived and its count is right, and pending
\* RESENDs are in order and below the grant: Reassembly and RepairTracker never
\* leave the lists that the sweeps of missing and claim rely on.
THEOREM Typed == Spec => []TypeOK
<1>1. IInv => TypeOK
  <2> SUFFICES ASSUME IInv PROVE TypeOK
    OBVIOUS
  <2>1. /\ t \in Transfers /\ HoldsOK(t.ranges, arrived, t.granted)
        /\ t.received = Cardinality(arrived) /\ t.recoveries <= MaxRecoveries
        /\ TrackerOK(repair, t.granted) /\ steps \in 1..MaxSteps
        /\ t.over = "done" <=> arrived = Unit
    BY DEF IInv, TransferOK
  <2>2. /\ t.ranges \in Seq(Rng) /\ Apart(t.ranges) /\ Len(t.ranges) > 0 /\ arrived \subseteq Unit
        /\ \A u \in Int : Covers(t.ranges, u) <=> u \in arrived
        /\ t.granted \in Nat /\ t.granted <= Size
    BY <2>1 DEF HoldsOK
  <2>3. \A u \in Unit : u \in Int
    BY ConstantsAre DEF Unit
  <2>4. Units(t.ranges) = arrived
    <3>1. Units(t.ranges) = {u \in Int : Covers(t.ranges, u)}
      BY <2>2, BothHaveEnds, UnitsAre
    <3> QED
      BY <2>2, <2>3, <3>1
  <2>5. \A k \in 1..Len(t.ranges)-1 : t.ranges[k].end < t.ranges[k+1].start
    <3> SUFFICES ASSUME NEW k \in 1..Len(t.ranges)-1
                 PROVE  t.ranges[k].end < t.ranges[k+1].start
      OBVIOUS
    <3>1. k \in 1..Len(t.ranges) /\ k + 1 \in 1..Len(t.ranges) /\ k < k + 1
      BY <2>2
    <3> QED
      BY <2>2, <3>1 DEF Apart
  <2>6. t.granted \in Frontier(t.ranges)..Size /\ t.recoveries \in 0..MaxRecoveries
    <3>1. Frontier(t.ranges) \in Nat /\ Frontier(t.ranges) <= t.granted
      BY <2>1, HoldsAre
    <3> QED
      BY <2>1, <2>2, <3>1, ConstantsAre DEF Transfers
  <2>7. /\ repair \in Trackers /\ InOrder(repair.pending)
        /\ \A k \in 1..Len(repair.pending) :
              repair.pending[k].start >= 0 /\ repair.pending[k].end <= t.granted
    BY <2>1 DEF TrackerOK
  <2>8. DOMAIN repair.suspects \subseteq Unit /\ repair.pending \in Seq(Held)
    BY <2>7, AgeIs DEF Trackers
  <2>9. Units(repair.pending) \subseteq 0..t.granted-1
    <3>1. Units(repair.pending) = {u \in Int : Covers(repair.pending, u)}
      BY <2>8, BothHaveEnds, UnitsAre
    <3>2. \A k \in 1..Len(repair.pending) :
             repair.pending[k].start \in Int /\ repair.pending[k].end \in Int
      BY <2>8, HeldsAre
    <3>3. \A u \in Int : Covers(repair.pending, u) => u \in 0..t.granted-1
      BY <2>2, <2>7, <3>2 DEF Covers, Within
    <3> QED
      BY <3>1, <3>3
  <2>10. Sorted(repair.pending)
    <3> SUFFICES ASSUME NEW k \in 1..Len(repair.pending)-1
                 PROVE  repair.pending[k].end <= repair.pending[k+1].start
      BY DEF Sorted
    <3>1. /\ k \in 1..Len(repair.pending) /\ k + 1 \in 1..Len(repair.pending) /\ k < k + 1
      BY <2>8, HeldsAre
    <3> QED
      BY <2>7, <3>1 DEF InOrder
  <2> QED
    BY <2>1, <2>4, <2>5, <2>6, <2>8, <2>9, <2>10 DEF TypeOK
<1> QED
  BY <1>1, RangeInvariant, PTL

\* What LeftOf says of a unit that has not arrived.
LEMMA LeftOfIs == \A u : LeftOf(u) = IF u \in arrived THEN 0 ELSE LeftIn(repair.pending, u)
  BY DEF LeftOf, LeftIn

\* claim, early detection, the tail probe and stall recovery keep the promise byte by
\* byte: a unit that any of them wants is asked for when it has no RESEND under way,
\* and never while it has one, whatever mixture of timers and packets came before.
THEOREM KeepsPromiseHolds == Spec => KeepsPromise
<1> DEFINE Due == [u \in Unit |-> LeftOf(u)]
<1>1. Init => Abstract!PromiseInit
  <2> SUFFICES ASSUME Init PROVE Abstract!PromiseInit
    OBVIOUS
  <2>1. arrived \subseteq Unit
    BY InitIs DEF IInv, TransferOK, HoldsOK
  <2>2. repair.pending = <<>> /\ repair.wanted = {} /\ repair.sent = {}
    BY DEF Init
  <2>3. \A u \in Unit : LeftOf(u) = 0
    <3> SUFFICES ASSUME NEW u \in Unit PROVE LeftOf(u) = 0
      OBVIOUS
    <3>1. /\ repair.pending \in Seq(Held) /\ InOrder(repair.pending)
          /\ ~Covers(repair.pending, u) /\ u \in Int
      BY <2>2, ConstantsAre DEF InOrder, Covers, Unit
    <3>2. LeftIn(repair.pending, u) = 0
      BY <3>1, LeftInIs
    <3> QED
      BY <3>2, LeftOfIs
  <2>4. [u \in Unit |-> LeftOf(u)] = [u \in Unit |-> 0]
    BY <2>3
  <2> QED
    BY <2>1, <2>2, <2>4 DEF Abstract!PromiseInit, Unit, Abstract!Unit
<1>2. ASSUME IInv, IInv', NEW delay \in Delays, NEW L, Asked(repair', L, arrived', delay),
             \A u \in arrived' : u \in Unit => L[u] = 0
      PROVE  /\ repair'.wanted \in SUBSET (Unit \ arrived')
             /\ repair'.sent = {u \in repair'.wanted : L[u] = 0}
             /\ Due' = [u \in Unit |-> IF u \in repair'.sent THEN delay ELSE L[u]]
  <2>1. /\ repair'.wanted \cap arrived' = {} /\ repair'.sent = {u \in repair'.wanted : L[u] = 0}
        /\ \A u \in Unit \ arrived' :
              LeftIn(repair'.pending, u) = IF u \in repair'.sent THEN delay ELSE L[u]
    BY <1>2 DEF Asked
  <2>2. repair'.wanted \subseteq Unit
    BY <1>2 DEF IInv, TrackerOK, Trackers
  <2>3. \A u : LeftOf(u)' = IF u \in arrived' THEN 0 ELSE LeftIn(repair'.pending, u)
    BY DEF LeftOf, LeftIn
  <2>4. \A u \in Unit : LeftOf(u)' = IF u \in repair'.sent THEN delay ELSE L[u]
    BY <1>2, <2>1, <2>3
  <2> QED
    BY <2>1, <2>2, <2>4
<1>3. ASSUME IInv, Receive PROVE Abstract!Arrival
  <2>1. /\ IInv' /\ arrived \subseteq arrived'
        /\ \E delay \in Delays : Asked(repair', LeftKept, arrived', delay)
    BY <1>3, ReceiveIs
  <2>2. PICK delay \in Delays : Asked(repair', LeftKept, arrived', delay)
    BY <2>1
  <2>3. \A u \in arrived' : u \in Unit => LeftKept[u] = 0
    BY DEF LeftKept
  <2>4. /\ repair'.wanted \in SUBSET (Unit \ arrived')
        /\ repair'.sent = {u \in repair'.wanted : LeftKept[u] = 0}
        /\ Due' = [u \in Unit |-> IF u \in repair'.sent THEN delay ELSE LeftKept[u]]
    BY <1>2, <1>3, <2>1, <2>2, <2>3
  <2>5. LeftKept = [u \in Unit |-> IF u \in arrived' THEN 0 ELSE Due[u]]
    <3>1. \A u \in Unit : (IF u \in arrived' THEN 0 ELSE LeftIn(repair.pending, u))
                            = IF u \in arrived' THEN 0 ELSE LeftOf(u)
      BY <2>1, LeftOfIs
    <3> QED
      BY <3>1 DEF LeftKept
  <2>6. arrived' \in SUBSET Unit
    BY <2>1 DEF IInv, TransferOK, HoldsOK
  <2> QED
    BY <2>1, <2>4, <2>5, <2>6
    DEF Abstract!Arrival, Abstract!Ask, Unit, Abstract!Unit
<1>4. ASSUME IInv, Tick PROVE Abstract!Time
  <2>1. /\ IInv' /\ arrived' = arrived
        /\ \E delay \in Delays : Asked(repair', LeftOlder, arrived, delay)
    BY <1>4, TickIs
  <2>2. PICK delay \in Delays : Asked(repair', LeftOlder, arrived', delay)
    BY <2>1
  <2>3. \A u \in arrived' : u \in Unit => LeftOlder[u] = 0
    BY <2>1 DEF LeftOlder
  <2>4. /\ repair'.wanted \in SUBSET (Unit \ arrived')
        /\ repair'.sent = {u \in repair'.wanted : LeftOlder[u] = 0}
        /\ Due' = [u \in Unit |-> IF u \in repair'.sent THEN delay ELSE LeftOlder[u]]
    BY <1>2, <1>4, <2>1, <2>2, <2>3
  <2>5. LeftOlder = [u \in Unit |-> IF Due[u] = 0 THEN 0 ELSE Due[u] - 1]
    <3>1. \A u \in Unit : (IF u \in arrived \/ LeftIn(repair.pending, u) = 0 THEN 0
                           ELSE LeftIn(repair.pending, u) - 1)
                            = IF LeftOf(u) = 0 THEN 0 ELSE LeftOf(u) - 1
      BY LeftOfIs
    <3> QED
      BY <3>1 DEF LeftOlder
  <2> QED
    BY <2>1, <2>4, <2>5 DEF Abstract!Time, Abstract!Ask, Unit, Abstract!Unit
<1>5. ASSUME GrantMore \/ UNCHANGED vars PROVE UNCHANGED Abstract!promiseVars
  <2>1. repair' = repair /\ arrived' = arrived
    BY <1>5 DEF GrantMore, vars
  <2>2. \A u : LeftOf(u)' = LeftOf(u)
    BY <2>1 DEF LeftOf
  <2>3. [u \in Unit |-> LeftOf(u)]' = [u \in Unit |-> LeftOf(u)]
    BY <2>2
  <2> QED
    BY <2>1, <2>3 DEF Abstract!promiseVars
<1>6. IInv /\ [Next]_vars => [Abstract!Arrival \/ Abstract!Time]_(Abstract!promiseVars)
  BY <1>3, <1>4, <1>5 DEF Next
<1> QED
  BY <1>1, <1>6, RangeInvariant, PTL DEF Spec, KeepsPromise, Abstract!Promise

-----------------------------------------------------------------------------
(* Patience. *)

\* P, the time since data beyond each missing unit came, is more than the age of
\* any suspect that the unit has been missing with.
Waited(P, gone, ages) ==
    /\ P \in [Unit -> Nat]
    /\ \A u \in Unit \ gone : (\E v \in gone : u < v) => P[u] >= 1
    /\ \A s \in DOMAIN ages :
          /\ \E v \in gone : s < v
          /\ \A u \in Unit : s <= u /\ (\A v \in s..u : v \notin gone) => P[u] > ages[s]

\* Early detection keeps that, and asks only for what has waited for the window.
LEMMA DetectedWaits ==
    ASSUME NEW r \in Trackers, NEW d \in Trackers, NEW gone, gone \subseteq Unit,
           NEW frontier \in Nat, frontier - 1 \in gone, NEW window \in Nat \ {0},
           Detected(d, r, gone, frontier, window), NEW P, Waited(P, gone, r.suspects)
    PROVE  Waited(P, gone, d.suspects) /\ \A u \in d.early : P[u] > window
<1>1. \A u \in Unit : u \in Nat
  BY ConstantsAre DEF Unit
<1>2. /\ P \in [Unit -> Nat]
      /\ \A u \in Unit \ gone : (\E v \in gone : u < v) => P[u] >= 1
      /\ \A s \in DOMAIN r.suspects :
            /\ \E v \in gone : s < v
            /\ \A u \in Unit : s <= u /\ (\A v \in s..u : v \notin gone) => P[u] > r.suspects[s]
  BY DEF Waited
<1>3. ASSUME NEW s \in DOMAIN d.suspects
      PROVE  /\ \E v \in gone : s < v
             /\ \A u \in Unit : s <= u /\ (\A v \in s..u : v \notin gone) => P[u] > d.suspects[s]
  <2>1. CASE s \in DOMAIN r.suspects /\ d.suspects[s] = r.suspects[s]
    BY <1>2, <2>1
  <2>2. CASE s \in Unit /\ s < frontier /\ s \notin gone /\ d.suspects[s] = 0
    <3>1. frontier - 1 \in Nat /\ s \in Nat /\ s < frontier - 1
      BY <1>1, <2>2
    <3>2. ASSUME NEW u \in Unit, s <= u, \A v \in s..u : v \notin gone
          PROVE  P[u] > d.suspects[s]
      <4>1. u \in Nat /\ u \in s..u /\ u \notin gone
        BY <1>1, <2>2, <3>2
      <4>2. u < frontier - 1
        BY <3>1, <3>2, <4>1
      <4>3. P[u] >= 1
        BY <1>2, <4>1, <4>2
      <4>4. P[u] \in Nat
        BY <1>2
      <4> QED
        BY <2>2, <4>3, <4>4
    <3> QED
      BY <3>1, <3>2
  <2> QED
    BY <2>1, <2>2 DEF Detected
<1>4. Waited(P, gone, d.suspects)
  BY <1>2, <1>3 DEF Waited
<1>5. ASSUME NEW u \in d.early PROVE P[u] > window
  <2>1. u \in Unit
    BY DEF Trackers
  <2>2. PICK s \in Unit : /\ s <= u /\ \A v \in s..u : v \notin gone
                          /\ AgeOf(r.suspects, R(s, s)) >= window
    BY DEF Detected
  <2>3. /\ AgeOf(r.suspects, R(s, s)) \in Nat
        /\ s \in DOMAIN r.suspects => AgeOf(r.suspects, R(s, s)) = r.suspects[s]
        /\ s \notin DOMAIN r.suspects => AgeOf(r.suspects, R(s, s)) = 0
    BY AgeIs
  <2>4. s \in DOMAIN r.suspects /\ r.suspects[s] >= window /\ r.suspects[s] \in Nat
    BY <2>2, <2>3
  <2>5. P[u] > r.suspects[s] /\ P[u] \in Nat
    BY <1>2, <2>1, <2>2, <2>4
  <2> QED
    BY <2>4, <2>5
<1> QED
  BY <1>4, <1>5

PInv == /\ Waited(passed, arrived, repair.suspects)
        /\ \A u \in repair.early : passed[u] > ReorderWindow

\* At first only what is below the first payload has data beyond it.
LEMMA InitWaits == Init => PInv
<1> SUFFICES ASSUME Init PROVE PInv
  OBVIOUS
<1>1. PICK a \in Unit, b \in 1..Size :
        /\ arrived = a..b-1 /\ passed = [u \in Unit |-> IF u < a THEN 1 ELSE 0]
  BY DEF Init
<1>2. repair.suspects = <<>>
  BY DEF Init
<1>3. DOMAIN repair.suspects = {}
  BY <1>2
<1>4. a \in Int /\ b \in Int /\ \A u \in Unit : u \in Int
  BY ConstantsAre DEF Unit
<1>5. passed \in [Unit -> Nat]
  BY <1>1
<1>6. ASSUME NEW u \in Unit \ arrived, NEW v \in arrived, u < v PROVE passed[u] >= 1
  <2>1. v \in Int /\ v < b /\ u \in Int /\ u < a
    BY <1>1, <1>4, <1>6
  <2> QED
    BY <1>1, <2>1
<1>7. repair.early = {}
  BY DEF Init
<1> QED
  BY <1>3, <1>5, <1>6, <1>7 DEF PInv, Waited

\* A packet makes no unit wait less, and those below it have data beyond them.
LEMMA ReceiveWaits ==
    ASSUME IInv, PInv, Receive
    PROVE  PInv' /\ \A u \in repair'.early : passed'[u] > ReorderWindow
<1>1. /\ IInv' /\ arrived \subseteq arrived' /\ steps <= steps'
      /\ Detected(repair', Quiet(repair), arrived', Frontier(t'.ranges), ReorderWindow')
      /\ \E a : Passes(a)
  BY ReceiveIs
<1>2. PICK a : Passes(a)
  BY <1>1
<1>3. /\ a \in Unit /\ passed' = [u \in Unit |-> IF passed[u] = 0 /\ u < a THEN 1 ELSE passed[u]]
      /\ \A v \in arrived' \ arrived, u \in Unit \ arrived' : u < v => u < a
  BY <1>2 DEF Passes
<1>4. /\ passed \in [Unit -> Nat]
      /\ \A u \in Unit \ arrived : (\E v \in arrived : u < v) => passed[u] >= 1
      /\ \A s \in DOMAIN repair.suspects :
            /\ \E v \in arrived : s < v
            /\ \A u \in Unit : s <= u /\ (\A v \in s..u : v \notin arrived)
                                 => passed[u] > repair.suspects[s]
  BY DEF PInv, Waited
<1>5. \A u \in Unit : passed'[u] \in Nat /\ passed'[u] >= passed[u] /\ passed[u] \in Nat
  BY <1>3, <1>4
<1>6. passed' \in [Unit -> Nat]
  BY <1>3, <1>4
<1>7. \A u \in Unit \ arrived' : (\E v \in arrived' : u < v) => passed'[u] >= 1
  <2> SUFFICES ASSUME NEW u \in Unit \ arrived', NEW v \in arrived', u < v
               PROVE  passed'[u] >= 1
    OBVIOUS
  <2>1. CASE v \in arrived
    <3>1. passed[u] >= 1
      BY <1>1, <1>4, <2>1
    <3> QED
      BY <1>5, <3>1
  <2>2. CASE v \notin arrived
    <3>1. u < a
      BY <1>3, <2>2
    <3>2. passed'[u] = IF passed[u] = 0 THEN 1 ELSE passed[u]
      BY <1>3, <3>1
    <3> QED
      BY <1>5, <3>2
  <2> QED
    BY <2>1, <2>2
<1>8. TrackerOK(repair, t.granted) /\ TrackerOK(repair', t'.granted) /\ steps \in 1..MaxSteps
      /\ steps' \in 1..MaxSteps /\ HoldsOK(t'.ranges, arrived', t'.granted)
  BY <1>1 DEF IInv, TransferOK
<1>9. /\ repair \in Trackers /\ Quiet(repair) \in Trackers /\ repair' \in Trackers
      /\ Quiet(repair).suspects = repair.suspects
  BY <1>8, QuietIs DEF TrackerOK
<1>10. Waited(passed', arrived', Quiet(repair).suspects)
  <2>1. ASSUME NEW s \in DOMAIN repair.suspects, NEW u \in Unit, s <= u,
               \A v \in s..u : v \notin arrived'
        PROVE  passed'[u] > repair.suspects[s]
    <3>1. passed[u] > repair.suspects[s]
      BY <1>1, <1>4, <2>1
    <3>2. repair.suspects[s] \in Int
      BY <1>9, AgeIs
    <3> QED
      BY <1>5, <3>1, <3>2
  <2>2. \A s \in DOMAIN repair.suspects : \E v \in arrived' : s < v
    BY <1>1, <1>4
  <2> QED
    BY <1>6, <1>7, <1>9, <2>1, <2>2 DEF Waited
<1>11. /\ Frontier(t'.ranges) \in Nat /\ Frontier(t'.ranges) - 1 \in arrived'
       /\ arrived' \subseteq Unit
  BY <1>8, HoldsAre DEF HoldsOK
<1>12. /\ ReorderWindow \in Nat \ {0} /\ ReorderWindow' \in Nat \ {0}
       /\ ReorderWindow <= ReorderWindow'
  BY <1>1, <1>8, WindowIs
<1>13. /\ Waited(passed', arrived', repair'.suspects)
       /\ \A u \in repair'.early : passed'[u] > ReorderWindow'
  BY <1>1, <1>9, <1>10, <1>11, <1>12, DetectedWaits
<1>14. \A u \in repair'.early : passed'[u] > ReorderWindow
  <2>1. \A u \in repair'.early : u \in Unit
    BY <1>9 DEF Trackers
  <2> QED
    BY <1>5, <1>12, <1>13, <2>1
<1> QED
  BY <1>13, <1>14 DEF PInv

\* A tick adds one to what each unit has waited and to the age of each suspect.
LEMMA TickWaits ==
    ASSUME IInv, PInv, Tick
    PROVE  PInv' /\ \A u \in repair'.early : passed'[u] > ReorderWindow
<1>1. /\ IInv' /\ arrived' = arrived /\ steps' = steps
      /\ Detected(repair', Older(repair), arrived, Frontier(t.ranges), ReorderWindow)
      /\ passed' = [u \in Unit |-> IF passed[u] = 0 THEN 0 ELSE Least(MaxWindow + 1, passed[u] + 1)]
  BY TickIs
<1>2. /\ passed \in [Unit -> Nat]
      /\ \A u \in Unit \ arrived : (\E v \in arrived : u < v) => passed[u] >= 1
      /\ \A s \in DOMAIN repair.suspects :
            /\ \E v \in arrived : s < v
            /\ \A u \in Unit : s <= u /\ (\A v \in s..u : v \notin arrived)
                                 => passed[u] > repair.suspects[s]
  BY DEF PInv, Waited
<1>3. MaxWindow \in Nat
  BY WindowsAre
<1>4. \A u \in Unit : /\ passed[u] \in Nat /\ passed'[u] \in Nat
                      /\ passed[u] >= 1 => passed'[u] >= 1
  BY <1>1, <1>2, <1>3 DEF Least
<1>5. passed' \in [Unit -> Nat]
  BY <1>1, <1>4
<1>6. /\ TrackerOK(repair, t.granted) /\ TrackerOK(repair', t'.granted) /\ steps \in 1..MaxSteps
      /\ HoldsOK(t.ranges, arrived, t.granted)
  BY <1>1 DEF IInv, TransferOK
<1>7. /\ TrackerOK(Older(repair), t.granted)
      /\ DOMAIN Older(repair).suspects = DOMAIN repair.suspects
      /\ \A s \in DOMAIN repair.suspects :
            /\ repair.suspects[s] \in Nat
            /\ Older(repair).suspects[s] = Least(MaxWindow, repair.suspects[s] + 1)
  BY <1>6, OlderIs
<1>8. Waited(passed', arrived, Older(repair).suspects)
  <2>1. ASSUME NEW s \in DOMAIN repair.suspects, NEW u \in Unit, s <= u,
               \A v \in s..u : v \notin arrived
        PROVE  passed'[u] > Older(repair).suspects[s]
    <3>1. passed[u] > repair.suspects[s] /\ passed[u] \in Nat /\ repair.suspects[s] \in Nat
      BY <1>2, <1>4, <1>7, <2>1
    <3>2. passed'[u] = Least(MaxWindow + 1, passed[u] + 1)
      BY <1>1, <3>1
    <3> QED
      BY <1>3, <1>7, <3>1, <3>2 DEF Least
  <2>2. \A u \in Unit \ arrived : (\E v \in arrived : u < v) => passed'[u] >= 1
    BY <1>2, <1>4
  <2> QED
    BY <1>2, <1>5, <1>7, <2>1, <2>2 DEF Waited
<1>9. Older(repair) \in Trackers /\ repair' \in Trackers
  BY <1>6, <1>7 DEF TrackerOK
<1>10. /\ Frontier(t.ranges) \in Nat /\ Frontier(t.ranges) - 1 \in arrived
       /\ arrived \subseteq Unit
  BY <1>6, HoldsAre DEF HoldsOK
<1>11. ReorderWindow \in Nat \ {0}
  BY <1>1, <1>6, WindowIs, ConstantsAre
<1>12. /\ Waited(passed', arrived, repair'.suspects)
       /\ \A u \in repair'.early : passed'[u] > ReorderWindow
  BY <1>1, <1>8, <1>9, <1>10, <1>11, DetectedWaits
<1>13. ReorderWindow' = ReorderWindow
  BY <1>1 DEF ReorderWindow
<1> QED
  BY <1>1, <1>12, <1>13 DEF PInv

\* Early detection asks for no unit before data beyond it has been there for the
\* window: a suspect that is split, moved or repaired in part passes no time on to a
\* unit that has not waited for it.
THEOREM PatientHolds == Spec => Patient
<1>1. IInv /\ PInv /\ [Next]_vars => PInv'
  <2> SUFFICES ASSUME IInv, PInv, [Next]_vars PROVE PInv'
    OBVIOUS
  <2>1. CASE GrantMore \/ UNCHANGED vars
    BY <2>1 DEF GrantMore, vars, PInv, ReorderWindow
  <2> QED
    BY <2>1, ReceiveWaits, TickWaits DEF Next
<1>2. Spec => []PInv
  BY <1>1, InitWaits, RangeInvariant, PTL DEF Spec
<1>3. IInv /\ PInv /\ [Next]_vars => [\A u \in repair'.early : passed'[u] > ReorderWindow]_vars
  <2> SUFFICES ASSUME IInv, PInv, [Next]_vars, vars' # vars
               PROVE  \A u \in repair'.early : passed'[u] > ReorderWindow
    OBVIOUS
  <2>1. CASE GrantMore
    BY <2>1 DEF GrantMore, PInv
  <2> QED
    BY <2>1, ReceiveWaits, TickWaits DEF Next
<1> QED
  BY <1>2, <1>3, RangeInvariant, PTL DEF Spec, Patient
=============================================================================
