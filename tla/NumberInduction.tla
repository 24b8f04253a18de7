-------------------------- MODULE NumberInduction --------------------------
(***************************************************************************)
(* Induction over numbers, said of sets of numbers, and functions defined  *)
(* by recursion over numbers: for the walks of the code, which are         *)
(* recursive functions of the number of turns.                             *)
(***************************************************************************)
EXTENDS Integers, WellFoundedInduction, FiniteSetTheorems, TLAPS

\* A non-empty set of numbers has a least one.
LEMMA HasLeast ==
    ASSUME NEW S \in SUBSET Nat, S # {}
    PROVE  \E x \in S : \A y \in S : x <= y
<1>1. PICK x \in S : \A y \in S : ~ (<<y, x>> \in OpToRel(<, Nat))
  BY WFMin, NatLessThanWellFounded
<1>2. \A y \in S : ~ (y < x)
  BY <1>1 DEF OpToRel
<1> QED
  BY <1>2

\* A set with 0 that has the successor of each of its numbers has them all.
LEMMA AllNumbers ==
    ASSUME NEW S \in SUBSET Nat, 0 \in S, \A n \in S : n + 1 \in S
    PROVE  S = Nat
<1>1. SUFFICES ASSUME Nat \ S # {} PROVE FALSE
  OBVIOUS
<1>2. PICK x \in Nat \ S : \A y \in Nat \ S : x <= y
  <2>1. Nat \ S \in SUBSET Nat
    OBVIOUS
  <2> QED
    BY <1>1, <2>1, HasLeast
<1>3. x # 0 /\ x - 1 \in Nat /\ x - 1 < x /\ (x - 1) + 1 = x
  BY <1>2
<1>4. x - 1 \in S
  BY <1>2, <1>3
<1> QED
  BY <1>2, <1>3, <1>4

\* The turns of a walk, from a on: step tells where it comes to from where.
Walks(f, a, step) ==
    \A n \in Nat : f[n] = IF n = 0 THEN a ELSE step[f[n - 1]]

\* The same of the first m turns.
WalksTo(g, a, step, m) ==
    \A n \in 0 .. m : g[n] = IF n = 0 THEN a ELSE step[g[n - 1]]

\* There is a walk of any number of turns.
LEMMA WalkUpTo ==
    ASSUME NEW D, NEW a \in D, NEW step \in [D -> D], NEW k \in Nat
    PROVE  \E g \in [0 .. k -> D] : WalksTo(g, a, step, k)
<1> DEFINE Runs(g, m) == WalksTo(g, a, step, m)
           S == {m \in Nat : \E g \in [0 .. m -> D] : Runs(g, m)}
<1>1. 0 \in S
  <2> DEFINE g == [n \in 0 .. 0 |-> a]
  <2>1. g \in [0 .. 0 -> D] /\ Runs(g, 0)
    BY DEF WalksTo
  <2> QED
    BY <2>1
<1>2. ASSUME NEW m \in S PROVE m + 1 \in S
  <2>1. PICK g \in [0 .. m -> D] : Runs(g, m)
    OBVIOUS
  <2> DEFINE h == [n \in 0 .. (m + 1) |-> IF n = m + 1 THEN step[g[m]] ELSE g[n]]
  <2>2. h \in [0 .. (m + 1) -> D]
    OBVIOUS
  <2>3. ASSUME NEW n \in 0 .. (m + 1)
        PROVE  h[n] = IF n = 0 THEN a ELSE step[h[n - 1]]
    <3>1. CASE n = m + 1
      <4>1. h[n] = step[g[m]] /\ n # 0 /\ n - 1 = m /\ h[m] = g[m]
        BY <3>1
      <4> QED
        BY <4>1
    <3>2. CASE n # m + 1
      <4>1. n \in 0 .. m /\ (n # 0 => n - 1 \in 0 .. m)
        BY <3>2
      <4>2. h[n] = g[n] /\ (n # 0 => h[n - 1] = g[n - 1])
        BY <4>1
      <4>3. g[n] = IF n = 0 THEN a ELSE step[g[n - 1]]
        BY <2>1, <4>1 DEF WalksTo
      <4> HIDE DEF h, Runs
      <4> QED
        BY <4>2, <4>3
    <3> QED
      BY <3>1, <3>2
  <2> HIDE DEF h
  <2>4. Runs(h, m + 1)
    BY <2>3 DEF WalksTo
  <2> HIDE DEF Runs
  <2> QED
    BY <2>2, <2>4
<1> HIDE DEF S
<1>3. S \in SUBSET Nat
  BY DEF S
<1>4. k \in S
  BY <1>1, <1>2, <1>3, AllNumbers
<1> QED
  BY <1>4 DEF S

\* There is the function of the number of turns.
LEMMA WalkExists ==
    ASSUME NEW D, NEW a \in D, NEW step \in [D -> D]
    PROVE  \E f \in [Nat -> D] : Walks(f, a, step)
<1>1. ASSUME NEW k \in Nat
      PROVE  \E g \in [0 .. k -> D] : WalksTo(g, a, step, k)
  BY WalkUpTo
<1> DEFINE G(k) == CHOOSE g \in [0 .. k -> D] : WalksTo(g, a, step, k)
<1>2. \A k \in Nat : G(k) \in [0 .. k -> D] /\ WalksTo(G(k), a, step, k)
  BY <1>1
<1> HIDE DEF G
<1>3. ASSUME NEW k \in Nat
      PROVE  G(k + 1)[k] = G(k)[k]
  <2> DEFINE S == {n \in Nat : n <= k => G(k + 1)[n] = G(k)[n]}
  <2>1. 0 \in S
    BY <1>2 DEF WalksTo
  <2>2. ASSUME NEW n \in S PROVE n + 1 \in S
    <3>1. CASE n + 1 <= k
      <4>1. n \in Nat /\ n + 1 \in 0 .. k /\ n + 1 \in 0 .. (k + 1) /\ n + 1 # 0
            /\ (n + 1) - 1 = n /\ n <= k
        BY <3>1
      <4>2. G(k + 1)[n + 1] = step[G(k + 1)[n]] /\ G(k)[n + 1] = step[G(k)[n]]
        BY <1>2, <4>1 DEF WalksTo
      <4>3. G(k + 1)[n] = G(k)[n]
        BY <4>1
      <4> QED
        BY <4>1, <4>2, <4>3
    <3>2. CASE ~ (n + 1 <= k)
      BY <3>2
    <3> QED
      BY <3>1, <3>2
  <2> HIDE DEF S
  <2>3. S = Nat
    BY <2>1, <2>2, AllNumbers DEF S
  <2> QED
    BY <2>3 DEF S
<1> DEFINE f == [n \in Nat |-> G(n)[n]]
<1>4. f \in [Nat -> D]
  BY <1>2
<1>5. ASSUME NEW n \in Nat
      PROVE  f[n] = IF n = 0 THEN a ELSE step[f[n - 1]]
  <2>1. CASE n = 0
    BY <1>2, <2>1 DEF WalksTo
  <2>2. CASE n # 0
    <3>1. n - 1 \in Nat /\ (n - 1) + 1 = n /\ n \in 0 .. n
      BY <2>2
    <3>2. G(n)[n] = step[G(n)[n - 1]]
      BY <1>2, <2>2, <3>1 DEF WalksTo
    <3>3. G(n)[n - 1] = G(n - 1)[n - 1]
      BY <1>3, <3>1
    <3> QED
      BY <2>2, <3>1, <3>2, <3>3
  <2> QED
    BY <2>1, <2>2
<1> HIDE DEF f
<1> QED
  BY <1>4, <1>5 DEF Walks

\* What starts like the walk and goes on like it from where it has come is one.
LEMMA WalkIs ==
    ASSUME NEW D, NEW a \in D, NEW step \in [D -> D], NEW g, g[0] = a,
           \A n \in Nat : g[n] \in D => g[n + 1] = step[g[n]]
    PROVE  Walks(g, a, step) /\ \A n \in Nat : g[n] \in D
<1> DEFINE S == {n \in Nat : g[n] \in D}
<1>1. 0 \in S
  OBVIOUS
<1>2. ASSUME NEW n \in S PROVE n + 1 \in S
  OBVIOUS
<1> HIDE DEF S
<1>3. S = Nat
  BY <1>1, <1>2, AllNumbers DEF S
<1>4. \A n \in Nat : g[n] \in D
  BY <1>3 DEF S
<1>5. ASSUME NEW n \in Nat, n # 0
      PROVE  g[n] = step[g[n - 1]]
  <2>1. n - 1 \in Nat /\ (n - 1) + 1 = n
    BY <1>5
  <2> QED
    BY <1>4, <2>1
<1> QED
  BY <1>4, <1>5 DEF Walks

\* The first m turns of a loop whose n-th turn is step[n].
TurnsTo(g, a, step, m) ==
    \A n \in 0 .. m : g[n] = IF n = 0 THEN a ELSE step[n][g[n - 1]]

\* There is the function of the number of turns.
LEMMA TurnsExist ==
    ASSUME NEW D, NEW a \in D, NEW m \in Nat, NEW step \in [1 .. m -> [D -> D]]
    PROVE  \E g \in [0 .. m -> D] : TurnsTo(g, a, step, m)
<1> DEFINE Runs(g, j) == TurnsTo(g, a, step, j)
           S == {j \in Nat : j <= m => \E g \in [0 .. j -> D] : Runs(g, j)}
<1>1. 0 \in S
  <2> DEFINE g == [n \in 0 .. 0 |-> a]
  <2>1. g \in [0 .. 0 -> D] /\ Runs(g, 0)
    BY DEF TurnsTo
  <2> QED
    BY <2>1
<1>2. ASSUME NEW j \in S PROVE j + 1 \in S
  <2>1. SUFFICES ASSUME j + 1 <= m
                 PROVE  \E g \in [0 .. (j + 1) -> D] : Runs(g, j + 1)
    OBVIOUS
  <2>2. j \in Nat /\ j <= m /\ j + 1 \in 1 .. m
    BY <2>1
  <2>3. PICK g \in [0 .. j -> D] : Runs(g, j)
    BY <2>2
  <2> DEFINE h == [n \in 0 .. (j + 1) |-> IF n = j + 1 THEN step[j + 1][g[j]] ELSE g[n]]
  <2>4. h \in [0 .. (j + 1) -> D]
    <3>1. step[j + 1][g[j]] \in D
      BY <2>2, <2>3
    <3>2. \A n \in 0 .. (j + 1) : n # j + 1 => n \in 0 .. j
      BY <2>2
    <3> QED
      BY <3>1, <3>2
  <2>5. ASSUME NEW n \in 0 .. (j + 1)
        PROVE  h[n] = IF n = 0 THEN a ELSE step[n][h[n - 1]]
    <3>1. CASE n = j + 1
      <4>1. h[n] = step[j + 1][g[j]] /\ n # 0 /\ n - 1 = j /\ h[j] = g[j]
        BY <2>2, <3>1
      <4> QED
        BY <3>1, <4>1
    <3>2. CASE n # j + 1
      <4>1. n \in 0 .. j /\ (n # 0 => n - 1 \in 0 .. j)
        BY <2>2, <3>2
      <4>2. h[n] = g[n] /\ (n # 0 => h[n - 1] = g[n - 1])
        BY <2>2, <4>1
      <4>3. g[n] = IF n = 0 THEN a ELSE step[n][g[n - 1]]
        BY <2>3, <4>1 DEF TurnsTo
      <4> HIDE DEF h, Runs
      <4> QED
        BY <4>2, <4>3
    <3> QED
      BY <3>1, <3>2
  <2> HIDE DEF h
  <2>6. Runs(h, j + 1)
    BY <2>5 DEF TurnsTo
  <2> HIDE DEF Runs
  <2> QED
    BY <2>4, <2>6
<1> HIDE DEF S
<1>3. S = Nat
  <2>1. S \in SUBSET Nat
    BY DEF S
  <2> QED
    BY <1>1, <1>2, <2>1, AllNumbers
<1> QED
  BY <1>3 DEF S

\* What holds before the first turn and is kept by each holds after the last.
LEMMA UpThrough ==
    ASSUME NEW m \in Nat, NEW S \in SUBSET Nat, 0 \in S,
           \A n \in 1 .. m : n - 1 \in S => n \in S
    PROVE  \A n \in 0 .. m : n \in S
<1> DEFINE T == {n \in Nat : n <= m => n \in S}
<1>1. 0 \in T
  OBVIOUS
<1>2. ASSUME NEW n \in T PROVE n + 1 \in T
  <2>1. SUFFICES ASSUME n + 1 <= m PROVE n + 1 \in S
    OBVIOUS
  <2>2. n + 1 \in 1 .. m /\ (n + 1) - 1 = n /\ n \in S
    BY <2>1
  <2> QED
    BY <2>2
<1> HIDE DEF T
<1>3. T = Nat
  <2>1. T \in SUBSET Nat
    BY DEF T
  <2> QED
    BY <1>1, <1>2, <2>1, AllNumbers
<1> QED
  BY <1>3 DEF T

----------------------------------------------------------------------------
(***************************************************************************)
(* Recursion along pointers: a rank takes the place of the number.         *)
(***************************************************************************)

\* What holds of an element if it holds of all of lower rank holds of all.
LEMMA RankInduction ==
    ASSUME NEW X, NEW rank \in [X -> Nat], NEW S,
           \A x \in X : (\A y \in X : rank[y] < rank[x] => y \in S) => x \in S
    PROVE  \A x \in X : x \in S
<1> DEFINE T == {i \in Nat : \A x \in X : rank[x] < i => x \in S}
<1>1. 0 \in T
  OBVIOUS
<1>2. ASSUME NEW i \in T PROVE i + 1 \in T
  <2>1. ASSUME NEW x \in X, rank[x] < i + 1 PROVE x \in S
    <3>1. \A y \in X : rank[y] < rank[x] => rank[y] < i
      BY <2>1
    <3>2. \A y \in X : rank[y] < rank[x] => y \in S
      BY <3>1
    <3> QED
      BY <3>2
  <2> QED
    BY <2>1
<1> HIDE DEF T
<1>3. T = Nat
  <2>1. T \in SUBSET Nat
    BY DEF T
  <2> QED
    BY <1>1, <1>2, <2>1, AllNumbers
<1>4. ASSUME NEW x \in X PROVE x \in S
  <2>1. rank[x] + 1 \in T /\ rank[x] < rank[x] + 1
    BY <1>3
  <2> QED
    BY <2>1 DEF T
<1> QED
  BY <1>4

\* step asks a function only about elements of lower rank.
LooksDown(X, V, rank, step) ==
    \A x \in X, f \in [X -> V], g \in [X -> V] :
        (\A y \in X : rank[y] < rank[x] => f[y] = g[y]) => step[x][f] = step[x][g]

\* f is the function that step describes.
Recursive(f, X, step) == \A x \in X : f[x] = step[x][f]

\* Then there is one.
LEMMA RecursionExists ==
    ASSUME NEW X, NEW V, V # {}, NEW rank \in [X -> Nat],
           NEW step \in [X -> [[X -> V] -> V]], LooksDown(X, V, rank, step)
    PROVE  \E f \in [X -> V] : Recursive(f, X, step)
<1> DEFINE D == [X -> V]
           turn == [f \in D |-> [x \in X |-> step[x][f]]]
<1>1. PICK a \in V : TRUE
  OBVIOUS
<1> DEFINE start == [x \in X |-> a]
<1>2. start \in D
  OBVIOUS
<1>3. turn \in [D -> D] /\ \A f \in D, x \in X : turn[f][x] = step[x][f]
  OBVIOUS
<1> HIDE DEF start, turn
<1>4. PICK F \in [Nat -> D] : Walks(F, start, turn)
  <2> HIDE DEF D
  <2> QED
    BY <1>2, <1>3, WalkExists
<1>5. ASSUME NEW i \in Nat PROVE F[i + 1] = turn[F[i]] /\ F[i] \in D
  <2>1. i + 1 \in Nat /\ i + 1 # 0 /\ (i + 1) - 1 = i
    OBVIOUS
  <2> QED
    BY <1>4, <2>1 DEF Walks
<1> HIDE DEF D
<1>6. \A i \in Nat, x \in X : F[i + 1][x] = step[x][F[i]]
  BY <1>3, <1>5
<1>7. ASSUME NEW f \in D, NEW g \in D, NEW x \in X,
             \A y \in X : rank[y] < rank[x] => f[y] = g[y]
      PROVE  step[x][f] = step[x][g]
  BY <1>7 DEF LooksDown, D
<1> DEFINE Stable(i) == \A x \in X : rank[x] < i => F[i + 1][x] = F[i][x]
           T == {i \in Nat : Stable(i)}
<1>8. 0 \in T
  OBVIOUS
<1>9. ASSUME NEW i \in T PROVE i + 1 \in T
  <2>1. ASSUME NEW x \in X, rank[x] < i + 1 PROVE F[(i + 1) + 1][x] = F[i + 1][x]
    <3>1. i \in Nat /\ i + 1 \in Nat
      OBVIOUS
    <3>2. \A y \in X : rank[y] < rank[x] => F[i + 1][y] = F[i][y]
      BY <2>1
    <3>3. F[(i + 1) + 1][x] = step[x][F[i + 1]] /\ F[i + 1][x] = step[x][F[i]]
      BY <1>6, <3>1
    <3>4. F[i + 1] \in D /\ F[i] \in D
      BY <1>5, <3>1
    <3> QED
      BY <1>7, <3>2, <3>3, <3>4
  <2> QED
    BY <2>1
<1>10. \A i \in Nat : Stable(i)
  <2> HIDE DEF Stable
  <2> HIDE DEF T
  <2>1. T \in SUBSET Nat
    BY DEF T
  <2>2. T = Nat
    BY <1>8, <1>9, <2>1, AllNumbers
  <2> QED
    BY <2>2 DEF T
<1>11. ASSUME NEW x \in X, NEW j \in Nat PROVE F[rank[x] + 1 + j][x] = F[rank[x] + 1][x]
  <2> DEFINE U == {i \in Nat : F[rank[x] + 1 + i][x] = F[rank[x] + 1][x]}
  <2>1. 0 \in U
    OBVIOUS
  <2>2. ASSUME NEW i \in U PROVE i + 1 \in U
    <3> DEFINE n == rank[x] + 1 + i
    <3>1. n \in Nat /\ rank[x] < n /\ rank[x] + 1 + (i + 1) = n + 1
      OBVIOUS
    <3>2. F[n + 1][x] = F[n][x]
      BY <1>10, <3>1
    <3> QED
      BY <3>1, <3>2
  <2> HIDE DEF U
  <2>3. U = Nat
    <3>1. U \in SUBSET Nat
      BY DEF U
    <3> QED
      BY <2>1, <2>2, <3>1, AllNumbers
  <2> QED
    BY <2>3 DEF U
<1> DEFINE h == [x \in X |-> F[rank[x] + 1][x]]
<1>12. h \in D
  <2>1. \A x \in X : rank[x] + 1 \in Nat
    OBVIOUS
  <2> QED
    BY <1>5, <2>1 DEF D
<1>13. ASSUME NEW x \in X PROVE h[x] = step[x][h]
  <2>1. rank[x] \in Nat
    OBVIOUS
  <2>2. h[x] = step[x][F[rank[x]]]
    BY <1>6, <2>1
  <2>3. ASSUME NEW y \in X, rank[y] < rank[x] PROVE F[rank[x]][y] = h[y]
    <3>1. rank[x] - (rank[y] + 1) \in Nat
          /\ rank[x] = rank[y] + 1 + (rank[x] - (rank[y] + 1))
      BY <2>3
    <3> QED
      BY <1>11, <3>1
  <2> HIDE DEF h
  <2>4. step[x][F[rank[x]]] = step[x][h]
    BY <1>5, <1>7, <1>12, <2>1, <2>3
  <2> QED
    BY <2>2, <2>4
<1> QED
  BY <1>12, <1>13 DEF D, Recursive

----------------------------------------------------------------------------
(***************************************************************************)
(* Powers of two: the provers know nothing of ^, but 2 ^ n is how many     *)
(* subsets a set of n has.                                                 *)
(***************************************************************************)

\* The powers of two, as numbers of subsets: 2 ^ n is that of 1 .. n.
LEMMA PowerCounts ==
    ASSUME NEW n \in Nat
    PROVE  /\ IsFiniteSet(SUBSET (1 .. n)) /\ Cardinality(SUBSET (1 .. n)) = 2 ^ n
           /\ Cardinality(SUBSET (1 .. n)) \in Nat \ {0}
<1>1. IsFiniteSet(1 .. n) /\ Cardinality(1 .. n) = n
  <2>1. IsFiniteSet(1 .. n) /\ Cardinality(1 .. n) = IF 1 > n THEN 0 ELSE n - 1 + 1
    BY FS_Interval
  <2>2. (IF 1 > n THEN 0 ELSE n - 1 + 1) = n
    OBVIOUS
  <2> QED
    BY <2>1, <2>2
<1>2. IsFiniteSet(SUBSET (1 .. n)) /\ Cardinality(SUBSET (1 .. n)) = 2 ^ Cardinality(1 .. n)
  BY <1>1, FS_SUBSET
<1>3. Cardinality(SUBSET (1 .. n)) = 2 ^ n
  BY <1>1, <1>2
<1>4. {} \in SUBSET (1 .. n)
  OBVIOUS
<1>5. Cardinality(SUBSET (1 .. n)) \in Nat /\ Cardinality(SUBSET (1 .. n)) # 0
  <2>1. SUBSET (1 .. n) # {}
    BY <1>4
  <2> QED
    BY <1>2, <2>1, FS_CardinalityType, FS_EmptySet
<1> QED
  BY <1>2, <1>3, <1>5

\* One bit more, twice as many.
LEMMA PowerDoubles ==
    ASSUME NEW n \in Nat
    PROVE  2 ^ (n + 1) = 2 ^ n + 2 ^ n
<1> DEFINE A == SUBSET (1 .. n)
           B == SUBSET (1 .. (n + 1))
           C == {T \cup {n + 1} : T \in A}
<1>1. IsFiniteSet(A) /\ Cardinality(A) = 2 ^ n /\ Cardinality(A) \in Nat
  BY PowerCounts
<1>2. Cardinality(B) = 2 ^ (n + 1)
  <2>1. n + 1 \in Nat
    OBVIOUS
  <2> HIDE DEF B
  <2> QED
    BY <2>1, PowerCounts DEF B
<1>3. B = A \cup C
  <2>1. ASSUME NEW T \in B PROVE T \in A \cup C
    <3>1. CASE n + 1 \in T
      <4>1. T \ {n + 1} \in A
        OBVIOUS
      <4>2. T = (T \ {n + 1}) \cup {n + 1}
        BY <3>1
      <4> QED
        BY <4>1, <4>2
    <3>2. CASE n + 1 \notin T
      <4>1. \A x \in 1 .. (n + 1) : x # n + 1 => x \in 1 .. n
        OBVIOUS
      <4>2. T \in A
        BY <3>2, <4>1
      <4> QED
        BY <4>2
    <3> QED
      BY <3>1, <3>2
  <2>2. ASSUME NEW T \in A PROVE T \in B /\ T \cup {n + 1} \in B
    <3>1. \A x \in 1 .. n : x \in 1 .. (n + 1)
      OBVIOUS
    <3>2. n + 1 \in 1 .. (n + 1)
      OBVIOUS
    <3> QED
      BY <3>1, <3>2
  <2>3. \A T \in C : T \in B
    BY <2>2
  <2>4. \A T \in A : T \in B
    BY <2>2
  <2> HIDE DEF A, B, C
  <2> QED
    BY <2>1, <2>3, <2>4
<1>4. A \cap C = {}
  <2>1. n + 1 \notin 1 .. n
    OBVIOUS
  <2> QED
    BY <2>1
<1>5. ExistsBijection(A, C)
  <2> DEFINE f == [T \in A |-> T \cup {n + 1}]
  <2>1. f \in [A -> C]
    OBVIOUS
  <2>2. \A S, T \in A : f[S] = f[T] => S = T
    <3>1. n + 1 \notin 1 .. n
      OBVIOUS
    <3>2. SUFFICES ASSUME NEW S \in A, NEW T \in A, f[S] = f[T] PROVE S = T
      OBVIOUS
    <3>3. S \cup {n + 1} = T \cup {n + 1}
      BY <3>2
    <3> QED
      BY <3>1, <3>3
  <2>3. \A c \in C : \E T \in A : f[T] = c
    OBVIOUS
  <2> HIDE DEF A, C, f
  <2>4. f \in Bijection(A, C)
    BY <2>1, <2>2, <2>3 DEF Bijection, Injection, Surjection, IsInjective
  <2> QED
    BY <2>4 DEF ExistsBijection
<1> HIDE DEF A, B, C
<1>6. IsFiniteSet(C) /\ Cardinality(C) = Cardinality(A)
  BY <1>1, <1>5, FS_Bijection
<1>7. Cardinality(A \cup C) = Cardinality(A) + Cardinality(C) - Cardinality(A \cap C)
  BY <1>1, <1>6, FS_Union
<1>8. Cardinality(A \cap C) = 0
  BY <1>4, FS_EmptySet
<1>9. Cardinality(B) = Cardinality(A) + Cardinality(A)
  BY <1>1, <1>3, <1>6, <1>7, <1>8
<1> QED
  BY <1>1, <1>2, <1>9

\* Powers of two are positive numbers.
LEMMA PowerType ==
    ASSUME NEW n \in Nat
    PROVE  2 ^ n \in Nat \ {0}
BY PowerCounts
=============================================================================
