---------------------------- MODULE Counting_proofs ----------------------------
(***************************************************************************)
(* Induction over the naturals, functions defined by recursion over them,  *)
(* and the facts about First and Place that the proofs of the components   *)
(* use.                                                                    *)
(***************************************************************************)
EXTENDS Counting, FiniteSetTheorems, TLAPS

(* Some numbers have a least one among them. *)
LEMMA Least ==
  ASSUME NEW T \in SUBSET Nat, T # {}
  PROVE  \E x \in T : \A y \in T : x <= y
<1> DEFINE R == OpToRel(<, Nat)
<1>1. IsWellFoundedOn(R, Nat)
  BY NatLessThanWellFounded
<1>2. \A a, b \in Nat : a < b => <<a, b>> \in R
  BY DEF OpToRel
<1> HIDE DEF R
<1>3. PICK x \in T : \A y \in T : ~(<<y, x>> \in R)
  BY <1>1, WFMin
<1>4. ASSUME NEW y \in T PROVE x <= y
  <2>1. x \in Nat /\ y \in Nat /\ ~(y < x)
    BY <1>2, <1>3
  <2> QED  BY <2>1
<1> QED  BY <1>4

(* Induction over the naturals, about the set of those that have it. *)
LEMMA Induction ==
  ASSUME NEW S, 0 \in S, \A n \in Nat : n \in S => n + 1 \in S
  PROVE  Nat \subseteq S
<1> SUFFICES ASSUME Nat \ S # {} PROVE FALSE
  OBVIOUS
<1>1. PICK x \in Nat \ S : \A y \in Nat \ S : x <= y
  BY Least
<1>2. x # 0 /\ x - 1 \in Nat /\ ~(x <= x - 1)
  BY <1>1
<1>3. x - 1 \in S
  BY <1>1, <1>2
<1>4. x - 1 + 1 = x
  BY <1>1
<1> QED  BY <1>1, <1>2, <1>3, <1>4

(* What N steps make of a first value, and that they stay in a set. *)
IsRun(f, base, step, N) == f[0] = base /\ \A n \in 1..N : f[n] = step[n][f[n - 1]]
StaysIn(D, step, N) == \A n \in 1..N : \A d \in D : step[n][d] \in D

(* A function is defined by its first value and by what each step makes of *)
(* the value before.                                                       *)
LEMMA Recursion ==
  ASSUME NEW D, NEW base \in D, NEW step, NEW N \in Nat, StaysIn(D, step, N)
  PROVE  \E f \in [0..N -> D] : IsRun(f, base, step, N)
<1> USE DEF IsRun, StaysIn
<1> DEFINE Built(n) ==
      \E f \in [0..n -> D] : f[0] = base /\ \A m \in 1..n : f[m] = step[m][f[m - 1]]
<1> DEFINE S == {n \in Nat : n <= N => Built(n)}
<1>1. 0 \in S
  <2> DEFINE f == [m \in 0..0 |-> base]
  <2>1. f \in [0..0 -> D] /\ f[0] = base
    OBVIOUS
  <2>2. 1..0 = {}
    OBVIOUS
  <2> HIDE DEF f
  <2> QED  BY <2>1, <2>2
<1>2. ASSUME NEW n \in Nat, n \in S PROVE n + 1 \in S
  <2> SUFFICES ASSUME n + 1 <= N PROVE Built(n + 1)
    OBVIOUS
  <2>1. Built(n)
    BY <1>2
  <2>2. PICK f \in [0..n -> D] : f[0] = base /\ \A m \in 1..n : f[m] = step[m][f[m - 1]]
    BY <2>1
  <2> DEFINE g == [m \in 0..(n + 1) |-> IF m <= n THEN f[m] ELSE step[n + 1][f[n]]]
  <2>3. n + 1 \in 1..N /\ f[n] \in D
    BY <2>2
  <2>4. step[n + 1][f[n]] \in D
    BY <2>3
  <2>5. g \in [0..(n + 1) -> D]
    BY <2>2, <2>4
  <2>6. g[0] = base
    BY <2>2
  <2>7. ASSUME NEW m \in 1..(n + 1) PROVE g[m] = step[m][g[m - 1]]
    <3>1. CASE m = n + 1
      <4>1. m - 1 = n /\ n \in 0..(n + 1) /\ ~(n + 1 <= n) /\ n + 1 \in 0..(n + 1)
        BY <3>1
      <4> QED  BY <3>1, <4>1
    <3>2. CASE m # n + 1
      <4>1. m \in 1..n /\ m \in 0..(n + 1) /\ m <= n /\ m - 1 \in 0..(n + 1) /\ m - 1 <= n
        BY <3>2
      <4> QED  BY <2>2, <4>1
    <3> QED  BY <3>1, <3>2
  <2> HIDE DEF g
  <2> QED  BY <2>5, <2>6, <2>7
<1> HIDE DEF S
<1>3. Nat \subseteq S
  BY <1>1, <1>2, Induction
<1> QED  BY <1>3 DEF S

(* An interval from 1 has one end. *)
LEMMA IntervalEnd ==
  ASSUME NEW a \in Nat, NEW b \in Nat, 1..a = 1..b PROVE a = b
<1>1. CASE a < b
  <2>1. b \in 1..b /\ b \notin 1..a
    BY <1>1
  <2> QED  BY <2>1
<1>2. CASE b < a
  <2>1. a \in 1..a /\ a \notin 1..b
    BY <1>2
  <2> QED  BY <2>1
<1> QED  BY <1>1, <1>2

-----------------------------------------------------------------------------
(* The first position is one of them and before all others. *)
LEMMA FirstIsLeast ==
  ASSUME NEW T \in SUBSET Nat, T # {}
  PROVE  First(T) \in T /\ \A m \in T : First(T) <= m
BY Least DEF First

(* There is no other. *)
LEMMA FirstIs ==
  ASSUME NEW T \in SUBSET Nat, NEW n \in T, \A m \in T : n <= m
  PROVE  First(T) = n
<1>1. First(T) \in T /\ First(T) <= n
  BY FirstIsLeast
<1>2. n <= First(T) /\ First(T) \in Nat /\ n \in Nat
  BY <1>1
<1> QED  BY <1>1, <1>2

(* The positions up to one are finitely many. *)
LEMMA PlaceType ==
  ASSUME NEW T \in SUBSET Nat, NEW n \in Nat
  PROVE  IsFiniteSet({m \in T : m <= n}) /\ Place(n, T) \in Nat
<1>1. IsFiniteSet({m \in T : m <= n})
  <2>1. {m \in T : m <= n} \in SUBSET Nat /\ \A m \in {k \in T : k <= n} : m <= n
    OBVIOUS
  <2> QED  BY <2>1, FS_BoundedSetOfNaturals
<1> QED  BY <1>1, FS_CardinalityType DEF Place

(* No positive position stands up to 0. *)
LEMMA PlaceZero ==
  ASSUME NEW T \in SUBSET (Nat \ {0}) PROVE Place(0, T) = 0
<1>1. \A m \in T : m \in Nat /\ m # 0 /\ ~(m <= 0)
  OBVIOUS
<1>2. {m \in T : m <= 0} = {}
  BY <1>1
<1> QED  BY <1>2, FS_EmptySet DEF Place

(* One more position is counted if it is one of them. *)
LEMMA PlaceNext ==
  ASSUME NEW T \in SUBSET Nat, NEW n \in Nat
  PROVE  Place(n + 1, T) = IF n + 1 \in T THEN Place(n, T) + 1 ELSE Place(n, T)
<1> DEFINE L == {m \in T : m <= n}
<1>1. IsFiniteSet(L) /\ n + 1 \notin L
  BY PlaceType
<1>0. \A m \in T : m \in Nat /\ (m <= n + 1 <=> m <= n \/ m = n + 1)
  OBVIOUS
<1>2. CASE n + 1 \in T
  <2>1. {m \in T : m <= n + 1} = L \cup {n + 1}
    BY <1>0, <1>2
  <2>2. Cardinality(L \cup {n + 1}) = Cardinality(L) + 1
    <3> HIDE DEF L
    <3> QED  BY <1>1, FS_AddElement
  <2> QED  BY <1>2, <2>1, <2>2 DEF Place
<1>3. CASE n + 1 \notin T
  <2>1. {m \in T : m <= n + 1} = L
    BY <1>0, <1>3
  <2> QED  BY <1>3, <2>1 DEF Place
<1> QED  BY <1>2, <1>3

(* Further on, at least as many are counted. *)
LEMMA PlaceGrows ==
  ASSUME NEW T \in SUBSET Nat, NEW m \in Nat, NEW n \in Nat, m <= n
  PROVE  Place(m, T) <= Place(n, T)
<1>0. \A k \in T : k <= m => k <= n
  OBVIOUS
<1>1. {k \in T : k <= m} \subseteq {k \in T : k <= n}
  BY <1>0
<1>2. IsFiniteSet({k \in T : k <= n})
  BY PlaceType
<1> QED  BY <1>1, <1>2, FS_Subset DEF Place

(* One of them has more up to it than any position before it. *)
LEMMA PlaceOfLater ==
  ASSUME NEW T \in SUBSET Nat, NEW m \in Nat, NEW n \in T, m < n
  PROVE  Place(m, T) < Place(n, T)
<1>1. n - 1 \in Nat /\ m <= n - 1 /\ n - 1 + 1 = n
  OBVIOUS
<1>2. Place(n, T) = Place(n - 1, T) + 1
  BY <1>1, PlaceNext
<1>3. Place(m, T) <= Place(n - 1, T)
  BY <1>1, PlaceGrows
<1>4. Place(m, T) \in Nat /\ Place(n - 1, T) \in Nat
  BY <1>1, PlaceType
<1> QED  BY <1>2, <1>3, <1>4

(* Two of them do not have the same place. *)
LEMMA PlaceIsUnique ==
  ASSUME NEW T \in SUBSET Nat, NEW m \in T, NEW n \in T, Place(m, T) = Place(n, T)
  PROVE  m = n
<1>1. m \in Nat /\ n \in Nat /\ Place(m, T) \in Nat
  BY PlaceType
<1>2. CASE m < n
  BY <1>1, <1>2, PlaceOfLater
<1>3. CASE n < m
  BY <1>1, <1>3, PlaceOfLater
<1> QED  BY <1>1, <1>2, <1>3

(* Each place up to a position's is the place of one of them. *)
LEMMA PlaceIsTaken ==
  ASSUME NEW T \in SUBSET (Nat \ {0}), NEW n \in Nat, NEW c \in 1..Place(n, T)
  PROVE  \E j \in T : j <= n /\ Place(j, T) = c
<1> DEFINE U == {m \in Nat : m <= n /\ Place(m, T) >= c}
<1>1. n \in U /\ U \in SUBSET Nat
  <2>1. Place(n, T) \in Nat
    BY PlaceType
  <2> QED  BY <2>1
<1>2. PICK j \in U : \A m \in U : j <= m
  BY <1>1, Least
<1>3. j \in Nat /\ j <= n /\ Place(j, T) >= c
  BY <1>2
<1>4. j # 0
  BY <1>3, PlaceZero
<1>5. j - 1 \in Nat /\ j - 1 + 1 = j /\ j - 1 <= n /\ ~(j <= j - 1)
  BY <1>3, <1>4
<1>6. Place(j - 1, T) \in Nat /\ Place(j, T) \in Nat
  BY <1>3, <1>5, PlaceType
<1>7. Place(j - 1, T) < c
  BY <1>2, <1>5, <1>6
<1>8. Place(j, T) = IF j \in T THEN Place(j - 1, T) + 1 ELSE Place(j - 1, T)
  BY <1>5, PlaceNext
<1>9. j \in T /\ Place(j, T) = c
  BY <1>3, <1>6, <1>7, <1>8
<1> QED  BY <1>3, <1>9

(* Past the last of them all are counted. *)
LEMMA PlaceOfAll ==
  ASSUME NEW T \in SUBSET Nat, NEW n \in Nat, \A m \in T : m <= n
  PROVE  IsFiniteSet(T) /\ Place(n, T) = Cardinality(T)
<1>1. {m \in T : m <= n} = T
  OBVIOUS
<1> QED  BY <1>1, PlaceType DEF Place

-----------------------------------------------------------------------------
(* The last position up to one is the one that no other passes. *)
LEMMA LatestIs ==
  ASSUME NEW T \in SUBSET Nat, NEW n \in Nat, NEW m \in T, m <= n,
         \A k \in T : k <= n => k <= m
  PROVE  Latest(n, T) = m
<1>1. \E l \in T : l <= n /\ \A k \in T : k <= n => k <= l
  OBVIOUS
<1>2. Latest(n, T) \in T /\ Latest(n, T) <= n /\ \A k \in T : k <= n => k <= Latest(n, T)
  BY <1>1 DEF Latest
<1>3. Latest(n, T) <= m /\ m <= Latest(n, T) /\ Latest(n, T) \in Nat /\ m \in Nat
  BY <1>2
<1> QED  BY <1>3

(* There is one if there is any position up to there. *)
LEMMA LatestExists ==
  ASSUME NEW T \in SUBSET Nat, NEW n \in Nat, NEW j \in T, j <= n
  PROVE  /\ Latest(n, T) \in T /\ Latest(n, T) <= n
         /\ \A k \in T : k <= n => k <= Latest(n, T)
<1> DEFINE U == {n - k : k \in {m \in T : m <= n}}
<1>1. U \in SUBSET Nat /\ n - j \in U
  OBVIOUS
<1>2. PICK x \in U : \A y \in U : x <= y
  BY <1>1, Least
<1>3. PICK l \in T : l <= n /\ x = n - l
  BY <1>2
<1>4. ASSUME NEW k \in T, k <= n PROVE k <= l
  <2>1. n - k \in U
    BY <1>4
  <2>2. n - l <= n - k /\ k \in Nat /\ l \in Nat
    BY <1>2, <1>3, <2>1
  <2> QED  BY <2>2
<1>5. Latest(n, T) = l
  BY <1>3, <1>4, LatestIs
<1> QED  BY <1>3, <1>4, <1>5

(* One position further on it is that one, or still the same. *)
LEMMA LatestNext ==
  ASSUME NEW T \in SUBSET Nat, NEW n \in Nat
  PROVE  /\ n + 1 \in T => Latest(n + 1, T) = n + 1
         /\ n + 1 \notin T /\ (\E j \in T : j <= n) => Latest(n + 1, T) = Latest(n, T)
<1>1. n + 1 \in Nat
  OBVIOUS
<1>2. ASSUME n + 1 \in T PROVE Latest(n + 1, T) = n + 1
  <2>1. n + 1 <= n + 1
    OBVIOUS
  <2> QED  BY <1>1, <1>2, <2>1, LatestIs
<1>3. ASSUME n + 1 \notin T, NEW j \in T, j <= n PROVE Latest(n + 1, T) = Latest(n, T)
  <2>1. /\ Latest(n, T) \in T /\ Latest(n, T) <= n
        /\ \A k \in T : k <= n => k <= Latest(n, T)
    BY <1>3, LatestExists
  <2>2. \A k \in T : k <= n + 1 => k <= n
    BY <1>3
  <2>3. Latest(n, T) <= n + 1
    <3>1. \A k \in Nat : k <= n => k <= n + 1
      OBVIOUS
    <3> QED  BY <2>1, <3>1
  <2>4. \A k \in T : k <= n + 1 => k <= Latest(n, T)
    BY <2>1, <2>2
  <2> QED  BY <1>1, <2>1, <2>3, <2>4, LatestIs
<1> QED  BY <1>2, <1>3
=============================================================================
