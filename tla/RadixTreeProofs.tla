-------------------------- MODULE RadixTreeProofs ---------------------------
(***************************************************************************)
(* Theorems about RadixTree, for any finite set of nodes and any number of *)
(* bits of a key: the pointers agree, every key is where its bits say, the *)
(* search finds the best fit, and the tree implements SizeIndex.           *)
(***************************************************************************)
EXTENDS RadixTree, NumberInduction

----------------------------------------------------------------------------
(***************************************************************************)
(* The bits of a key from the top.                                         *)
(***************************************************************************)

\* The first d bits of a key: what the way to depth d has asked about.
Top(k, d) == k \div 2 ^ (KeyBits - d)

Depths == 0 .. KeyBits

\* The bit that says where to go from depth d - 1 to depth d.
BitAt(k, d) == BitSet(k, KeyBits - d)

\* A quotient is the one number that leaves less than the divisor.
LEMMA Quotient ==
    ASSUME NEW k \in Nat, NEW P \in Nat \ {0}
    PROVE  /\ k \div P \in Nat
           /\ (k \div P) * P <= k /\ k < (k \div P) * P + P
OBVIOUS

\* Halving a quotient drops its last bit.
LEMMA Halves ==
    ASSUME NEW k \in Nat, NEW P \in Nat \ {0}
    PROVE  /\ (k \div P) % 2 \in {0, 1} /\ k \div (P + P) \in Nat
           /\ k \div P = 2 * (k \div (P + P)) + ((k \div P) % 2)
<1> DEFINE q == k \div P
           h == q \div 2
           b == q % 2
           c == k \div (P + P)
<1>1. q \in Nat /\ q * P <= k /\ k < q * P + P
  BY Quotient
<1>2. P + P \in Nat \ {0}
  OBVIOUS
<1>3. c \in Nat /\ c * (P + P) <= k /\ k < c * (P + P) + (P + P)
  BY <1>2, Quotient
<1> HIDE DEF q, c
<1>4. h \in Nat /\ b \in {0, 1} /\ q = 2 * h + b
  BY <1>1
<1> HIDE DEF h, b
<1>5. q * P = h * (P + P) + b * P
  BY <1>4
<1>6. b * P \in {0, P}
  BY <1>4
<1>7. h * (P + P) <= k /\ k < h * (P + P) + (P + P)
  BY <1>1, <1>4, <1>5, <1>6
<1>8. c = h
  <2>1. CASE c < h
    <3>1. (c + 1) * (P + P) <= h * (P + P)
      BY <2>1, <1>2, <1>3, <1>4
    <3>2. (c + 1) * (P + P) = c * (P + P) + (P + P)
      BY <1>2, <1>3
    <3> QED
      BY <3>1, <3>2, <1>3, <1>4, <1>7
  <2>2. CASE h < c
    <3>1. (h + 1) * (P + P) <= c * (P + P)
      BY <2>2, <1>2, <1>3, <1>4
    <3>2. (h + 1) * (P + P) = h * (P + P) + (P + P)
      BY <1>2, <1>4
    <3> QED
      BY <3>1, <3>2, <1>3, <1>4, <1>7
  <2> QED
    BY <2>1, <2>2, <1>3, <1>4
<1> QED
  BY <1>3, <1>4, <1>8 DEF q, c, b

\* The first bits are the ones before and one more.
LEMMA OneMoreBit ==
    ASSUME NEW k \in Nat, NEW d \in 1 .. KeyBits
    PROVE  /\ Top(k, d) \in Nat /\ Top(k, d - 1) \in Nat /\ BitAt(k, d) \in {0, 1}
           /\ Top(k, d) = 2 * Top(k, d - 1) + BitAt(k, d)
<1> DEFINE a == KeyBits - d
           P == 2 ^ a
<1>1. a \in Nat /\ KeyBits - (d - 1) = a + 1
  BY BitsAssumption
<1>2. P \in Nat \ {0} /\ 2 ^ (a + 1) = P + P
  BY <1>1, PowerType, PowerDoubles
<1>3. 2 ^ (KeyBits - (d - 1)) = P + P
  BY <1>1, <1>2
<1>4. Top(k, d) = k \div P /\ Top(k, d - 1) = k \div (P + P) /\ BitAt(k, d) = (k \div P) % 2
  BY <1>3 DEF Top, BitAt, BitSet
<1> HIDE DEF P
<1> QED
  BY <1>2, <1>4, Halves, Quotient

\* All bits are the key.
LEMMA AllBits == ASSUME NEW k \in Nat PROVE Top(k, KeyBits) = k
<1> DEFINE z == KeyBits - KeyBits
<1>1. z = 0
  BY BitsAssumption
<1> HIDE DEF z
<1>2. 2 ^ z = 2 ^ 0
  BY <1>1
<1>4. 2 ^ 0 = 1
  OBVIOUS
<1>3. k \div 1 = k
  OBVIOUS
<1> QED
  BY <1>2, <1>3, <1>4 DEF Top, z

\* No bits are nothing.
LEMMA NoBits == ASSUME NEW k \in Keys PROVE k \in Nat /\ Top(k, 0) = 0
<1> DEFINE P == 2 ^ KeyBits
<1>1. P \in Nat \ {0} /\ KeyBits - 0 = KeyBits
  BY BitsAssumption, PowerType
<1>2. Top(k, 0) = k \div P /\ k \in 0 .. (P - 1)
  BY <1>1 DEF Top, Keys
<1> HIDE DEF P
<1>3. k \in Nat /\ k < P
  BY <1>1, <1>2
<1>4. k \div P = 0
  BY <1>1, <1>3
<1> QED
  BY <1>2, <1>3, <1>4

\* Depths of the tree as numbers.
LEMMA TopType ==
    ASSUME NEW k \in Nat, NEW d \in Depths
    PROVE  Top(k, d) \in Nat
<1>1. KeyBits - d \in Nat
  BY BitsAssumption DEF Depths
<1>2. 2 ^ (KeyBits - d) \in Nat \ {0}
  BY <1>1, PowerType
<1> QED
  BY <1>2, Quotient DEF Top

\* Of two keys the one with the smaller first bits is the smaller one.
LEMMA TopOrder ==
    ASSUME NEW a \in Nat, NEW b \in Nat, NEW d \in Depths, Top(a, d) < Top(b, d)
    PROVE  a < b
<1> DEFINE P == 2 ^ (KeyBits - d)
<1>1. KeyBits - d \in Nat
  BY BitsAssumption DEF Depths
<1>2. P \in Nat \ {0}
  BY <1>1, PowerType
<1>3. Top(a, d) = a \div P /\ Top(b, d) = b \div P
  BY DEF Top
<1> HIDE DEF P
<1>4. a \div P \in Nat /\ a < (a \div P) * P + P /\ b \div P \in Nat /\ (b \div P) * P <= b
  BY <1>2, Quotient
<1>5. (a \div P + 1) * P <= (b \div P) * P
  BY <1>2, <1>3, <1>4
<1>6. (a \div P + 1) * P = (a \div P) * P + P
  BY <1>2, <1>4
<1>7. (a \div P) * P \in Nat /\ (b \div P) * P \in Nat
  BY <1>2, <1>4
<1> QED
  BY <1>2, <1>4, <1>5, <1>6, <1>7

\* A number is its half and its last bit.
LEMMA SameHalves ==
    \A x, y \in Nat, b, c \in {0, 1} : 2 * x + b = 2 * y + c => x = y /\ b = c
OBVIOUS

\* Keys with the same first bits have the same last one of these.
LEMMA SharedBit ==
    ASSUME NEW a \in Nat, NEW b \in Nat, NEW d \in 1 .. KeyBits, Top(a, d) = Top(b, d)
    PROVE  Top(a, d - 1) = Top(b, d - 1) /\ BitAt(a, d) = BitAt(b, d)
<1> DEFINE x == Top(a, d - 1)
           y == Top(b, d - 1)
           p == BitAt(a, d)
           q == BitAt(b, d)
<1>1. x \in Nat /\ p \in {0, 1} /\ Top(a, d) = 2 * x + p
  BY OneMoreBit
<1>2. y \in Nat /\ q \in {0, 1} /\ Top(b, d) = 2 * y + q
  BY OneMoreBit
<1> HIDE DEF x, y, p, q
<1>3. 2 * x + p = 2 * y + q
  BY <1>1, <1>2
<1>4. x = y /\ p = q
  BY <1>1, <1>2, <1>3, SameHalves
<1> QED
  BY <1>4 DEF x, y, p, q

\* Two keys share the bits down to depth d.
Share(a, b, d) == \A e \in 0 .. d : Top(a, e) = Top(b, e)

\* They do if they share the last of them.
LEMMA SharesAll ==
    ASSUME NEW a \in Nat, NEW b \in Nat, NEW d \in Depths, Top(a, d) = Top(b, d)
    PROVE  /\ Share(a, b, d)
           /\ \A e \in 1 .. d : BitAt(a, e) = BitAt(b, e)
<1> DEFINE T == {n \in Nat : n <= d => Top(a, d - n) = Top(b, d - n)}
<1>1. d \in Nat /\ d <= KeyBits /\ KeyBits \in Nat
  BY BitsAssumption DEF Depths
<1>2. 0 \in T
  <2>1. d - 0 = d
    BY <1>1
  <2> QED
    BY <2>1
<1>3. ASSUME NEW n \in T PROVE n + 1 \in T
  <2>1. SUFFICES ASSUME n + 1 <= d
                 PROVE  Top(a, d - (n + 1)) = Top(b, d - (n + 1))
    OBVIOUS
  <2>2. n \in Nat /\ d - n \in 1 .. KeyBits /\ (d - n) - 1 = d - (n + 1) /\ n <= d
    BY <1>1, <2>1
  <2>3. Top(a, d - n) = Top(b, d - n)
    BY <2>2
  <2> DEFINE e == d - n
  <2>4. e \in 1 .. KeyBits /\ Top(a, e) = Top(b, e) /\ e - 1 = d - (n + 1)
    BY <2>2, <2>3
  <2> HIDE DEF e
  <2>5. Top(a, e - 1) = Top(b, e - 1)
    BY <2>4, SharedBit
  <2> QED
    BY <2>4, <2>5
<1> HIDE DEF T
<1>4. T = Nat
  <2>1. T \in SUBSET Nat
    BY DEF T
  <2> QED
    BY <1>2, <1>3, <2>1, AllNumbers
<1>5. ASSUME NEW e \in 0 .. d PROVE Top(a, e) = Top(b, e)
  <2>1. d - e \in Nat /\ d - e <= d /\ d - (d - e) = e
    BY <1>1
  <2>2. d - e \in T
    BY <1>4, <2>1
  <2> QED
    BY <2>1, <2>2 DEF T
<1>6. ASSUME NEW e \in 1 .. d PROVE BitAt(a, e) = BitAt(b, e)
  <2>1. e \in 1 .. KeyBits /\ e \in 0 .. d
    BY <1>1
  <2>2. Top(a, e) = Top(b, e)
    BY <1>5, <2>1
  <2> QED
    BY <2>1, <2>2, SharedBit
<1> QED
  BY <1>5, <1>6 DEF Share

----------------------------------------------------------------------------
(***************************************************************************)
(* The invariant, said of one pointer at a time.                           *)
(***************************************************************************)

Trees == [at     : [Slots -> Pointer],
          slot   : [Nodes -> Slots \cup {NOSLOT}],
          parent : [Nodes -> Pointer],
          next   : [Nodes -> Pointer],
          prev   : [Nodes -> Pointer],
          key    : [Nodes -> Keys]]

\* The nodes that are in a ring, and those of them that are in the tree.
In(t)    == {n \in Nodes : t.next[n] # NULL}
Prims(t) == {n \in Nodes : t.slot[n] # NOSLOT}

\* A primary and its slot name each other, and the slot its parent; the others
\* have no links.
Linked(t) ==
    /\ \A n \in Prims(t) : t.at[t.slot[n]] = n /\ t.parent[n] = t.slot[n][1]
    /\ \A s \in Slots : t.at[s] # NULL => t.slot[t.at[s]] = s
    /\ \A n \in Nodes \ Prims(t) :
          t.parent[n] = NULL /\ \A i \in {0, 1} : t.at[<<n, i>>] = NULL

\* n is one below its parent, with whose key its own agrees so far, on the side
\* its next bit says, and has the larger key; the node x may have the same.
Under(t, K, depth, x, n) ==
    LET p == t.slot[n][1] IN
    /\ depth[n] = depth[p] + 1
    /\ Top(K[n], depth[p]) = Top(K[p], depth[p])
    /\ BitAt(K[n], depth[n]) = t.slot[n][2]
    /\ K[p] < K[n] \/ (n = x /\ K[p] = K[n])

\* Every node is where the bits of its key say.
Placed(t, K, depth, x) ==
    \A n \in Prims(t) : IF t.slot[n] = ROOT THEN depth[n] = 0
                        ELSE Under(t, K, depth, x, n)

\* A set of nodes that next does not leave.
Closed(t, S) == \A n \in S : t.next[n] \in S

\* The nodes of one key are one ring.
Rings(t) ==
    /\ \A n \in In(t) : /\ t.next[n] \in In(t) /\ t.prev[n] \in In(t)
                        /\ t.prev[t.next[n]] = n /\ t.next[t.prev[n]] = n
                        /\ t.key[t.next[n]] = t.key[n]
    /\ \A S \in SUBSET In(t) : Closed(t, S) =>
          \A n \in S, m \in In(t) : t.key[m] = t.key[n] => m \in S

\* One of them, and only one, is in the tree.
Headed(t) ==
    /\ Prims(t) \subseteq In(t)
    /\ \A n \in In(t) : \E p \in Prims(t) : t.key[p] = t.key[n]

Shape(t) == \E depth \in [Nodes -> Depths] : Placed(t, t.key, depth, NULL)

Good(t) == t \in Trees /\ Linked(t) /\ Shape(t) /\ Rings(t) /\ Headed(t)

IInv == Good(tree)

\* The values of slots.
LEMMA SlotsAre ==
    /\ ROOT \in Slots /\ ROOT # NOSLOT /\ NOSLOT \notin Slots
    /\ ROOT[1] = NULL /\ NOSLOT[1] = NULL /\ NOSLOT[2] = 1 /\ ROOT[2] = 0
    /\ \A n \in Nodes, i \in {0, 1} :
          /\ <<n, i>> \in Slots /\ <<n, i>> # ROOT /\ <<n, i>> # NOSLOT
          /\ <<n, i>>[1] = n /\ <<n, i>>[2] = i /\ n # NULL
    /\ \A s \in Slots : s # ROOT =>
          s[1] \in Nodes /\ s[2] \in {0, 1} /\ s = <<s[1], s[2]>> /\ s[1] # NULL
<1>1. \A n \in Nodes : n # NULL
  BY NodesAssumption
<1> QED
  BY <1>1 DEF Slots, ROOT, NOSLOT

\* What a slot holds is a primary that has it for its slot.
LEMMA Held ==
    ASSUME NEW t \in Trees, Linked(t), NEW s \in Slots, t.at[s] # NULL
    PROVE  /\ t.at[s] \in Prims(t) /\ t.at[s] \in Nodes /\ t.slot[t.at[s]] = s
           /\ s # ROOT => s[1] \in Prims(t)
<1>1. t.at[s] \in Nodes
  BY DEF Trees, Pointer
<1>2. t.slot[t.at[s]] = s
  BY DEF Linked
<1>3. t.at[s] \in Prims(t)
  BY <1>1, <1>2, SlotsAre DEF Prims
<1>4. ASSUME s # ROOT PROVE s[1] \in Prims(t)
  <2>1. s[1] \in Nodes /\ s[2] \in {0, 1} /\ s = <<s[1], s[2]>>
    BY <1>4, SlotsAre
  <2>2. SUFFICES ASSUME s[1] \in Nodes \ Prims(t) PROVE FALSE
    BY <2>1
  <2>3. t.at[<<s[1], s[2]>>] = NULL
    BY <2>1, <2>2 DEF Linked
  <2> QED
    BY <2>1, <2>3
<1> QED
  BY <1>1, <1>2, <1>3, <1>4

\* A child as the code names it.
LEMMA ChildIs ==
    ASSUME NEW t \in Trees, Linked(t), NEW n \in Nodes, NEW i \in {0, 1},
           Child(t, n, i) # NULL
    PROVE  /\ Child(t, n, i) \in Prims(t) /\ Child(t, n, i) \in Nodes
           /\ t.slot[Child(t, n, i)] = <<n, i>> /\ n \in Prims(t)
BY SlotsAre, Held DEF Child

\* A primary that is not the root is the child of another.
LEMMA ParentIs ==
    ASSUME NEW t \in Trees, Linked(t), NEW n \in Prims(t), t.slot[n] # ROOT
    PROVE  /\ t.slot[n] \in Slots /\ t.slot[n][1] \in Prims(t) /\ t.slot[n][1] \in Nodes
           /\ t.slot[n][2] \in {0, 1} /\ t.slot[n] = <<t.slot[n][1], t.slot[n][2]>>
           /\ Child(t, t.slot[n][1], t.slot[n][2]) = n
<1>1. n \in Nodes /\ t.slot[n] \in Slots /\ n # NULL
  BY NodesAssumption DEF Prims, Trees
<1>2. t.at[t.slot[n]] = n
  BY DEF Linked
<1>3. t.slot[n][1] \in Prims(t)
  BY <1>1, <1>2, Held
<1> QED
  BY <1>1, <1>2, <1>3, SlotsAre DEF Child

----------------------------------------------------------------------------
(***************************************************************************)
(* Ways down.                                                              *)
(***************************************************************************)

\* The path of a key, one bit at a time.
LEMMA PathIs ==
    ASSUME NEW t \in Trees, NEW k \in Nat
    PROVE  /\ Path(t, k)[0] = t.at[ROOT]
           /\ \A i \in 1 .. KeyBits :
                 Path(t, k)[i] = IF Path(t, k)[i - 1] = NULL THEN NULL
                                 ELSE Child(t, Path(t, k)[i - 1], BitAt(k, i))
           /\ \A i \in Depths : Path(t, k)[i] \in Pointer
<1> DEFINE Go(x, i) == IF x = NULL THEN NULL ELSE Child(t, x, BitAt(k, i))
           E(f) == [i \in 0 .. KeyBits |->
                       IF i = 0 THEN t.at[ROOT] ELSE Go(f[i - 1], i)]
           step == [i \in 1 .. KeyBits |-> [x \in Pointer |-> Go(x, i)]]
           g == CHOOSE f : f = E(f)
<1>1. Path(t, k) = g
  BY DEF Path, BitAt
<1>2. KeyBits \in Nat /\ t.at[ROOT] \in Pointer
  BY BitsAssumption, SlotsAre DEF Trees
<1>3. \A i \in 1 .. KeyBits, x \in Pointer : Go(x, i) \in Pointer
  <2>1. SUFFICES ASSUME NEW i \in 1 .. KeyBits, NEW x \in Pointer, x # NULL
                 PROVE  Child(t, x, BitAt(k, i)) \in Pointer
    BY DEF Pointer
  <2>2. BitAt(k, i) \in {0, 1} /\ x \in Nodes
    BY <2>1, OneMoreBit DEF Pointer
  <2>3. <<x, BitAt(k, i)>> \in Slots
    BY <2>2, SlotsAre
  <2> QED
    BY <2>3 DEF Child, Trees
<1>4. step \in [1 .. KeyBits -> [Pointer -> Pointer]]
  BY <1>3
<1> HIDE DEF Go
<1>5. PICK f \in [0 .. KeyBits -> Pointer] : TurnsTo(f, t.at[ROOT], step, KeyBits)
  <2> HIDE DEF step
  <2> QED
    BY <1>2, <1>4, TurnsExist
<1>6. f = E(f)
  <2>1. ASSUME NEW i \in 0 .. KeyBits PROVE f[i] = E(f)[i]
    <3>1. CASE i = 0
      BY <1>5, <3>1 DEF TurnsTo
    <3>2. CASE i # 0
      <4>1. i \in 1 .. KeyBits /\ i - 1 \in 0 .. KeyBits
        BY <1>2, <3>2
      <4>2. f[i] = step[i][f[i - 1]]
        BY <1>5, <3>2 DEF TurnsTo
      <4> QED
        BY <3>2, <4>1, <4>2
    <3> QED
      BY <3>1, <3>2
  <2> QED
    BY <2>1
<1> HIDE DEF E
<1>7. g = E(g)
  BY <1>6
<1> HIDE DEF g
<1>8. g[0] = t.at[ROOT]
  <2>1. 0 \in 0 .. KeyBits
    BY <1>2
  <2> QED
    BY <1>7, <2>1 DEF E
<1>9. ASSUME NEW i \in 1 .. KeyBits PROVE g[i] = Go(g[i - 1], i)
  <2>1. i \in 0 .. KeyBits /\ i # 0
    BY <1>2
  <2> QED
    BY <1>7, <2>1 DEF E
<1>10. ASSUME NEW i \in Depths PROVE g[i] \in Pointer
  <2> DEFINE S == {n \in Nat : g[n] \in Pointer}
  <2>1. 0 \in S
    BY <1>2, <1>8
  <2>2. ASSUME NEW n \in 1 .. KeyBits, n - 1 \in S PROVE n \in S
    BY <1>2, <1>3, <1>9, <2>2
  <2>3. S \in SUBSET Nat
    OBVIOUS
  <2> HIDE DEF S
  <2>4. \A n \in 0 .. KeyBits : n \in S
    BY <1>2, <2>1, <2>2, <2>3, UpThrough
  <2> QED
    BY <2>4 DEF S, Depths
<1> QED
  BY <1>1, <1>8, <1>9, <1>10 DEF Go

\* A tree with its depths.
Deep(t, depth) ==
    /\ t \in Trees /\ Linked(t) /\ depth \in [Nodes -> Depths]
    /\ Placed(t, t.key, depth, NULL)

\* What the parent of a primary has to do with it.
LEMMA UnderIs ==
    ASSUME NEW t, NEW depth, Deep(t, depth), NEW m \in Prims(t), t.slot[m] # ROOT,
           NEW p, p = t.slot[m][1]
    PROVE  /\ p \in Prims(t) /\ p \in Nodes /\ depth[p] \in Depths /\ depth[m] = depth[p] + 1
           /\ depth[m] \in 1 .. KeyBits /\ depth[m] - 1 = depth[p] /\ t.slot[m][2] \in {0, 1}
           /\ Top(t.key[m], depth[p]) = Top(t.key[p], depth[p])
           /\ BitAt(t.key[m], depth[m]) = t.slot[m][2]
           /\ Child(t, p, t.slot[m][2]) = m
           /\ t.key[p] < t.key[m] /\ t.key[p] \in Nat /\ t.key[m] \in Nat
<1>1. p \in Prims(t) /\ p \in Nodes /\ t.slot[m][2] \in {0, 1} /\ Child(t, p, t.slot[m][2]) = m
  BY ParentIs DEF Deep
<1>2. Under(t, t.key, depth, NULL, m)
  BY DEF Deep, Placed
<1>3. m \in Nodes /\ m # NULL
  BY NodesAssumption DEF Prims
<1>4. depth[p] \in Depths /\ depth[m] \in Depths /\ t.key[p] \in Keys /\ t.key[m] \in Keys
  BY <1>1, <1>3 DEF Deep, Trees
<1>5. t.key[p] \in Nat /\ t.key[m] \in Nat
  BY <1>4, NoBits
<1>6. depth[m] = depth[p] + 1 /\ t.key[p] < t.key[m]
      /\ Top(t.key[m], depth[p]) = Top(t.key[p], depth[p])
      /\ BitAt(t.key[m], depth[m]) = t.slot[m][2]
  BY <1>2, <1>3 DEF Under
<1>7. depth[m] \in 1 .. KeyBits /\ depth[m] - 1 = depth[p]
  BY <1>4, <1>6, BitsAssumption DEF Depths
<1> QED
  BY <1>1, <1>4, <1>5, <1>6, <1>7

\* What a child has to do with its parent.
LEMMA ChildUnder ==
    ASSUME NEW t, NEW depth, Deep(t, depth), NEW n \in Nodes, NEW j \in {0, 1},
           NEW x, x = Child(t, n, j), x # NULL
    PROVE  /\ x \in Prims(t) /\ x \in Nodes /\ n \in Prims(t)
           /\ t.slot[x] = <<n, j>> /\ t.slot[x] # ROOT
           /\ depth[n] \in Depths /\ depth[x] \in 1 .. KeyBits
           /\ depth[x] = depth[n] + 1 /\ depth[x] - 1 = depth[n]
           /\ Top(t.key[x], depth[n]) = Top(t.key[n], depth[n])
           /\ BitAt(t.key[x], depth[x]) = j
           /\ t.key[n] < t.key[x] /\ t.key[n] \in Nat /\ t.key[x] \in Nat
<1> DEFINE s == <<n, j>>
<1>1. s # ROOT /\ s[1] = n /\ s[2] = j
  BY SlotsAre
<1>2. x \in Prims(t) /\ x \in Nodes /\ n \in Prims(t) /\ t.slot[x] = s
  BY ChildIs DEF Deep
<1> HIDE DEF s
<1>3. t.slot[x] # ROOT /\ n = t.slot[x][1] /\ j = t.slot[x][2]
  BY <1>1, <1>2
<1>4. /\ depth[n] \in Depths /\ depth[x] \in 1 .. KeyBits
      /\ depth[x] = depth[n] + 1 /\ depth[x] - 1 = depth[n]
      /\ Top(t.key[x], depth[n]) = Top(t.key[n], depth[n])
      /\ BitAt(t.key[x], depth[x]) = t.slot[x][2]
      /\ t.key[n] < t.key[x] /\ t.key[n] \in Nat /\ t.key[x] \in Nat
  BY <1>2, <1>3, UnderIs
<1> QED
  BY <1>2, <1>3, <1>4 DEF s

\* The path of k comes to m by ever larger keys that agree with it so far.
OnPath(t, depth, m, k) ==
    /\ Path(t, k)[depth[m]] = m
    /\ \A e \in 0 .. (depth[m] - 1) :
          /\ Path(t, k)[e] \in Prims(t) /\ depth[Path(t, k)[e]] = e
          /\ Top(t.key[Path(t, k)[e]], e) = Top(k, e)
          /\ t.key[Path(t, k)[e]] < t.key[m]

\* So do the paths of all keys that start as the key of m does.
LEMMA ComesBy ==
    ASSUME NEW t, NEW depth, Deep(t, depth), NEW m \in Prims(t), NEW k \in Nat,
           Top(k, depth[m]) = Top(t.key[m], depth[m])
    PROVE  OnPath(t, depth, m, k)
<1> DEFINE Comes(x) == Top(k, depth[x]) = Top(t.key[x], depth[x]) => OnPath(t, depth, x, k)
           S == {d \in Nat : \A x \in Prims(t) : depth[x] = d => Comes(x)}
<1>0. t \in Trees /\ \A x \in Prims(t) : x \in Nodes /\ depth[x] \in Depths /\ t.key[x] \in Nat
  <2>1. \A x \in Prims(t) : x \in Nodes
    BY DEF Prims
  <2>2. \A x \in Nodes : t.key[x] \in Keys
    BY DEF Deep, Trees
  <2> QED
    BY <2>1, <2>2, NoBits DEF Deep
<1>1. 0 \in S
  <2>1. SUFFICES ASSUME NEW x \in Prims(t), depth[x] = 0 PROVE OnPath(t, depth, x, k)
    OBVIOUS
  <2>2. t.slot[x] = ROOT
    <3>1. SUFFICES ASSUME t.slot[x] # ROOT PROVE FALSE
      OBVIOUS
    <3>2. depth[x] \in 1 .. KeyBits
      BY <3>1, UnderIs
    <3> QED
      BY <2>1, <3>2
  <2>3. t.at[ROOT] = x
    BY <2>2 DEF Deep, Linked
  <2>4. Path(t, k)[0] = x
    BY <1>0, <2>3, PathIs
  <2>5. 0 .. (depth[x] - 1) = {}
    BY <2>1
  <2> QED
    BY <2>1, <2>4, <2>5 DEF OnPath
<1>2. ASSUME NEW d \in 1 .. KeyBits, d - 1 \in S PROVE d \in S
  <2>1. SUFFICES ASSUME NEW x \in Prims(t), depth[x] = d,
                        Top(k, d) = Top(t.key[x], d)
                 PROVE  OnPath(t, depth, x, k)
    OBVIOUS
  <2>2. t.slot[x] # ROOT
    <3>1. SUFFICES ASSUME t.slot[x] = ROOT PROVE FALSE
      OBVIOUS
    <3>2. depth[x] = 0
      BY <3>1 DEF Deep, Placed
    <3> QED
      BY <2>1, <3>2
  <2> DEFINE p == t.slot[x][1]
  <2>3. /\ p \in Prims(t) /\ depth[p] = d - 1 /\ t.key[p] < t.key[x]
        /\ Top(t.key[x], d - 1) = Top(t.key[p], d - 1)
        /\ BitAt(t.key[x], d) = t.slot[x][2] /\ Child(t, p, t.slot[x][2]) = x
    BY <2>1, <2>2, UnderIs
  <2> HIDE DEF p
  <2>4. Top(k, d - 1) = Top(t.key[x], d - 1) /\ BitAt(k, d) = BitAt(t.key[x], d)
    BY <1>0, <2>1, SharedBit
  <2>5. OnPath(t, depth, p, k)
    <3>1. Comes(p)
      BY <1>2, <2>3
    <3> QED
      BY <2>3, <2>4, <3>1
  <2>6. Path(t, k)[d - 1] = p
    BY <2>3, <2>5 DEF OnPath
  <2>7. Path(t, k)[d] = x
    <3>1. p # NULL
      BY <1>0, <2>3, NodesAssumption
    <3>2. Path(t, k)[d] = Child(t, p, BitAt(k, d))
      BY <1>0, <2>6, <3>1, PathIs
    <3> QED
      BY <2>3, <2>4, <3>2
  <2>8. ASSUME NEW e \in 0 .. (d - 1)
        PROVE  /\ Path(t, k)[e] \in Prims(t) /\ depth[Path(t, k)[e]] = e
               /\ Top(t.key[Path(t, k)[e]], e) = Top(k, e)
               /\ t.key[Path(t, k)[e]] < t.key[x]
    <3>1. CASE e = d - 1
      BY <2>3, <2>4, <2>6, <3>1
    <3>2. CASE e # d - 1
      <4>1. e \in 0 .. (depth[p] - 1)
        BY <2>3, <3>2
      <4>2. /\ Path(t, k)[e] \in Prims(t) /\ depth[Path(t, k)[e]] = e
            /\ Top(t.key[Path(t, k)[e]], e) = Top(k, e)
            /\ t.key[Path(t, k)[e]] < t.key[p]
        BY <2>5, <4>1 DEF OnPath
      <4>3. t.key[Path(t, k)[e]] \in Nat /\ t.key[p] \in Nat /\ t.key[x] \in Nat
        BY <1>0, <2>3, <4>2
      <4> QED
        BY <2>3, <4>2, <4>3
    <3> QED
      BY <3>1, <3>2
  <2> QED
    BY <2>1, <2>7, <2>8 DEF OnPath
<1> HIDE DEF S
<1>3. \A d \in 0 .. KeyBits : d \in S
  <2>1. S \in SUBSET Nat /\ KeyBits \in Nat
    BY BitsAssumption DEF S
  <2> QED
    BY <1>1, <1>2, <2>1, UpThrough
<1>4. depth[m] \in S
  BY <1>0, <1>3 DEF Depths
<1>5. Comes(m)
  BY <1>4 DEF S
<1> QED
  BY <1>5

\* No two primaries have the same key.
LEMMA OnePrimary ==
    ASSUME NEW t, NEW depth, Deep(t, depth), NEW m \in Prims(t), NEW n \in Prims(t),
           t.key[m] = t.key[n]
    PROVE  m = n
<1> DEFINE k == t.key[m]
<1>1. \A x \in Prims(t) : x \in Nodes /\ depth[x] \in Depths /\ t.key[x] \in Nat
  <2>1. \A x \in Prims(t) : x \in Nodes
    BY DEF Prims
  <2>2. \A x \in Nodes : t.key[x] \in Keys
    BY DEF Deep, Trees
  <2> QED
    BY <2>1, <2>2, NoBits DEF Deep
<1>2. OnPath(t, depth, m, k) /\ OnPath(t, depth, n, k)
  BY <1>1, ComesBy
<1> HIDE DEF k
<1>3. ~ (depth[m] < depth[n])
  <2>1. SUFFICES ASSUME depth[m] < depth[n] PROVE FALSE
    OBVIOUS
  <2>2. depth[m] \in 0 .. (depth[n] - 1)
    BY <1>1, <2>1 DEF Depths
  <2>3. t.key[m] < t.key[n]
    BY <1>2, <2>2 DEF OnPath
  <2> QED
    BY <1>1, <2>3
<1>4. ~ (depth[n] < depth[m])
  <2>1. SUFFICES ASSUME depth[n] < depth[m] PROVE FALSE
    OBVIOUS
  <2>2. depth[n] \in 0 .. (depth[m] - 1)
    BY <1>1, <2>1 DEF Depths
  <2>3. t.key[n] < t.key[m]
    BY <1>2, <2>2 DEF OnPath
  <2> QED
    BY <1>1, <2>3
<1>5. depth[m] = depth[n]
  BY <1>1, <1>3, <1>4 DEF Depths
<1> QED
  BY <1>2, <1>5 DEF OnPath

----------------------------------------------------------------------------
(***************************************************************************)
(* The search for the best fit.                                            *)
(***************************************************************************)

\* One bit more tells two keys apart or leaves them together.
LEMMA NextBit ==
    ASSUME NEW a \in Nat, NEW b \in Nat, NEW d \in 1 .. KeyBits
    PROVE  /\ BitAt(a, d) \in {0, 1} /\ BitAt(b, d) \in {0, 1}
           /\ Top(a, d - 1) < Top(b, d - 1) => Top(a, d) < Top(b, d)
           /\ Top(a, d - 1) = Top(b, d - 1) =>
                 /\ BitAt(a, d) = BitAt(b, d) => Top(a, d) = Top(b, d)
                 /\ BitAt(a, d) = 0 /\ BitAt(b, d) = 1 => Top(a, d) < Top(b, d)
<1> DEFINE x == Top(a, d - 1)
           y == Top(b, d - 1)
           p == BitAt(a, d)
           q == BitAt(b, d)
<1>1. x \in Nat /\ p \in {0, 1} /\ Top(a, d) = 2 * x + p
  BY OneMoreBit
<1>2. y \in Nat /\ q \in {0, 1} /\ Top(b, d) = 2 * y + q
  BY OneMoreBit
<1> HIDE DEF x, y, p, q
<1>3. x < y => 2 * x + p < 2 * y + q
  BY <1>1, <1>2
<1>4. x = y => (p = q => 2 * x + p = 2 * y + q) /\ (p = 0 /\ q = 1 => 2 * x + p < 2 * y + q)
  BY <1>1, <1>2
<1> QED
  BY <1>1, <1>2, <1>3, <1>4 DEF x, y, p, q

\* A turn of the search, at depth i.
GEQTurn(t, key, w, i) ==
    IF w.node = NULL \/ t.key[w.node] = key THEN w
    ELSE [node    |-> Child(t, w.node, BitAt(key, i)),
          found   |-> IF t.key[w.node] > key
                         /\ (w.found = NULL \/ t.key[w.node] < t.key[w.found])
                      THEN w.node ELSE w.found,
          gt_tree |-> IF BitAt(key, i) = 0 /\ Child(t, w.node, 1) # NULL
                      THEN Child(t, w.node, 1) ELSE w.gt_tree]

GEQStart(t) == [node |-> t.at[ROOT], found |-> NULL, gt_tree |-> NULL]

GEQEnd(t, key, end) ==
    IF end.node # NULL /\ t.key[end.node] = key THEN end.node
    ELSE IF end.found # NULL THEN end.found
    ELSE end.gt_tree

\* way is what the search knows after each turn.
Searches(t, key, way) ==
    /\ way[0] = GEQStart(t)
    /\ \A i \in 1 .. KeyBits : way[i] = GEQTurn(t, key, way[i - 1], i)

\* The search as its turns.
LEMMA SearchIs ==
    ASSUME NEW t \in Trees, NEW k \in Nat
    PROVE  \E way : Searches(t, k, way) /\ radixTreeFindGEQ(t, k) = GEQEnd(t, k, way[KeyBits])
<1> DEFINE Turn(w, i) == GEQTurn(t, k, w, i)
           D == [node : Pointer, found : Pointer, gt_tree : Pointer]
           E(f) == [i \in 0 .. KeyBits |->
                       IF i = 0 THEN GEQStart(t) ELSE Turn(f[i - 1], i)]
           step == [i \in 1 .. KeyBits |-> [w \in D |-> Turn(w, i)]]
           g == CHOOSE f : f = E(f)
<1>1. radixTreeFindGEQ(t, k) = GEQEnd(t, k, g[KeyBits])
  BY DEF radixTreeFindGEQ, BitAt, GEQTurn, GEQStart, GEQEnd
<1>2. KeyBits \in Nat /\ GEQStart(t) \in D
  BY BitsAssumption, SlotsAre DEF Trees, GEQStart, Pointer
<1>3. ASSUME NEW i \in 1 .. KeyBits, NEW w \in D PROVE Turn(w, i) \in D
  <2>1. CASE w.node = NULL \/ t.key[w.node] = k
    BY <2>1 DEF GEQTurn
  <2>2. CASE ~ (w.node = NULL \/ t.key[w.node] = k)
    <3>1. BitAt(k, i) \in {0, 1} /\ w.node \in Nodes
      BY <2>2, OneMoreBit DEF Pointer
    <3>2. Child(t, w.node, BitAt(k, i)) \in Pointer /\ Child(t, w.node, 1) \in Pointer
      BY <3>1, SlotsAre DEF Child, Trees
    <3>3. w.node \in Pointer /\ w.found \in Pointer /\ w.gt_tree \in Pointer
      OBVIOUS
    <3> QED
      BY <2>2, <3>2, <3>3 DEF GEQTurn
  <2> QED
    BY <2>1, <2>2
<1>4. step \in [1 .. KeyBits -> [D -> D]]
  BY <1>3
<1> HIDE DEF Turn, D
<1>5. PICK f \in [0 .. KeyBits -> D] : TurnsTo(f, GEQStart(t), step, KeyBits)
  <2> HIDE DEF step
  <2> QED
    BY <1>2, <1>4, TurnsExist
<1>6. f = E(f)
  <2>1. ASSUME NEW i \in 0 .. KeyBits PROVE f[i] = E(f)[i]
    <3>1. CASE i = 0
      BY <1>5, <3>1 DEF TurnsTo
    <3>2. CASE i # 0
      <4>1. i \in 1 .. KeyBits /\ i - 1 \in 0 .. KeyBits
        BY <1>2, <3>2
      <4>2. f[i] = step[i][f[i - 1]]
        BY <1>5, <3>2 DEF TurnsTo
      <4> QED
        BY <3>2, <4>1, <4>2
    <3> QED
      BY <3>1, <3>2
  <2> QED
    BY <2>1
<1> HIDE DEF E
<1>7. g = E(g)
  BY <1>6
<1> HIDE DEF g
<1>8. g[0] = GEQStart(t)
  <2>1. 0 \in 0 .. KeyBits
    BY <1>2
  <2> QED
    BY <1>7, <2>1 DEF E
<1>9. ASSUME NEW i \in 1 .. KeyBits PROVE g[i] = Turn(g[i - 1], i)
  <2>1. i \in 0 .. KeyBits /\ i # 0
    BY <1>2
  <2> QED
    BY <1>7, <2>1 DEF E
<1>10. Searches(t, k, g)
  BY <1>8, <1>9 DEF Searches, Turn
<1> QED
  BY <1>1, <1>10

\* The key the search wants is that of its node.
Hit(t, k, w) == w.node # NULL /\ t.key[w.node] = k

\* m is in the subtree of the node of the search, or right of the way, where
\* gt_tree is the best there is.
Below(t, depth, k, w, i, m) ==
    /\ Path(t, t.key[m])[i] = w.node /\ depth[m] >= i
    /\ Top(t.key[m], i) = Top(k, i)

Right(t, k, w, i, m) ==
    /\ w.gt_tree # NULL /\ t.key[w.gt_tree] <= t.key[m]
    /\ Top(k, i) < Top(t.key[m], i)

\* What the search knows after i turns.
SearchOK(t, depth, k, w, i) ==
    /\ w.node # NULL => w.node \in Prims(t)
    /\ w.found # NULL => w.found \in Prims(t) /\ t.key[w.found] > k
    /\ w.gt_tree # NULL => w.gt_tree \in Prims(t) /\ t.key[w.gt_tree] > k
    /\ ~ Hit(t, k, w) =>
          /\ w.node # NULL => depth[w.node] = i /\ Top(t.key[w.node], i) = Top(k, i)
          /\ \A m \in Prims(t) : t.key[m] >= k =>
                IF w.found # NULL THEN t.key[w.found] <= t.key[m]
                ELSE Below(t, depth, k, w, i, m) \/ Right(t, k, w, i, m)

\* Depths and keys of primaries.
LEMMA PrimsAre ==
    ASSUME NEW t, NEW depth, Deep(t, depth), NEW x \in Prims(t)
    PROVE  x \in Nodes /\ x # NULL /\ depth[x] \in Depths /\ t.key[x] \in Keys /\ t.key[x] \in Nat
<1>1. x \in Nodes
  BY DEF Prims
<1>2. t.key[x] \in Keys /\ depth[x] \in Depths
  BY <1>1 DEF Deep, Trees
<1> QED
  BY <1>1, <1>2, NoBits, NodesAssumption

\* Where the path of a key is above the node of that key, it is at a primary of
\* a key that is not larger.
LEMMA OnTheWay ==
    ASSUME NEW t, NEW depth, Deep(t, depth), NEW m \in Prims(t), NEW i \in Nat, i <= depth[m]
    PROVE  LET c == Path(t, t.key[m])[i]
           IN  /\ c \in Prims(t) /\ depth[c] = i /\ c # NULL
               /\ Top(t.key[c], i) = Top(t.key[m], i)
               /\ t.key[c] <= t.key[m] /\ (i < depth[m] => t.key[c] < t.key[m])
               /\ i = depth[m] => c = m
<1> DEFINE c == Path(t, t.key[m])[i]
<1>1. t.key[m] \in Nat /\ depth[m] \in Nat
  BY PrimsAre DEF Depths
<1>2. OnPath(t, depth, m, t.key[m])
  BY <1>1, ComesBy
<1>3. CASE i = depth[m]
  <2>1. c = m
    BY <1>2, <1>3 DEF OnPath
  <2>2. m # NULL
    BY PrimsAre
  <2> HIDE DEF c
  <2>3. \/ c = m /\ i = depth[m]
    BY <2>1, <1>3
  <2> QED
    BY <1>1, <2>2, <2>3 DEF c
<1>4. CASE i # depth[m]
  <2>1. i \in 0 .. (depth[m] - 1) /\ i < depth[m]
    BY <1>1, <1>4
  <2>2. /\ c \in Prims(t) /\ depth[c] = i /\ Top(t.key[c], i) = Top(t.key[m], i)
        /\ t.key[c] < t.key[m]
    BY <1>2, <2>1 DEF OnPath
  <2> HIDE DEF c
  <2>3. c # NULL /\ t.key[c] \in Nat
    BY <2>2, PrimsAre
  <2> QED
    BY <1>1, <1>4, <2>1, <2>2, <2>3 DEF c
<1> QED
  BY <1>3, <1>4

\* The search starts at the root.
LEMMA SearchStarts ==
    ASSUME NEW t, NEW depth, Deep(t, depth), NEW k \in Nat, k \in Keys
    PROVE  SearchOK(t, depth, k, GEQStart(t), 0)
<1> DEFINE w == GEQStart(t)
<1>1. w.node = t.at[ROOT] /\ w.found = NULL /\ w.gt_tree = NULL
  BY DEF GEQStart
<1>2. t \in Trees
  BY DEF Deep
<1> HIDE DEF w
<1>3. ASSUME w.node # NULL
      PROVE  /\ w.node \in Prims(t) /\ depth[w.node] = 0 /\ t.key[w.node] \in Keys
  <2>1. w.node \in Prims(t) /\ t.slot[w.node] = ROOT
    BY <1>1, <1>2, <1>3, Held, SlotsAre DEF Deep
  <2> QED
    BY <2>1, PrimsAre DEF Deep, Placed
<1>4. ASSUME NEW m \in Prims(t), t.key[m] >= k
      PROVE  Below(t, depth, k, w, 0, m)
  <2>1. depth[m] \in Nat /\ t.key[m] \in Keys /\ t.key[m] \in Nat
    BY PrimsAre DEF Depths
  <2>2. Path(t, t.key[m])[0] = w.node
    BY <1>1, <1>2, <2>1, PathIs
  <2>3. Top(t.key[m], 0) = Top(k, 0)
    BY <2>1, NoBits
  <2> QED
    BY <2>1, <2>2, <2>3 DEF Below
<1>5. w.node # NULL => Top(t.key[w.node], 0) = Top(k, 0)
  BY <1>3, NoBits
<1> QED
  BY <1>1, <1>3, <1>4, <1>5 DEF SearchOK, w

\* A turn of the search at a node of another key.
LEMMA SearchGoesOn ==
    ASSUME NEW t, NEW depth, Deep(t, depth), NEW k \in Nat, NEW i \in 1 .. KeyBits,
           NEW w, SearchOK(t, depth, k, w, i - 1), w.node # NULL, t.key[w.node] # k
    PROVE  SearchOK(t, depth, k, GEQTurn(t, k, w, i), i)
<1> DEFINE c == w.node
           v == GEQTurn(t, k, w, i)
           b == BitAt(k, i)
           down == Child(t, c, b)
           right == Child(t, c, 1)
<1>0. t \in Trees /\ Linked(t) /\ i - 1 \in Nat /\ i \in Nat /\ (i - 1) + 1 = i /\ i - 1 \in Depths
  BY BitsAssumption DEF Deep, Depths
<1>1. /\ c \in Prims(t) /\ c \in Nodes /\ t.key[c] \in Nat
      /\ depth[c] = i - 1 /\ Top(t.key[c], i - 1) = Top(k, i - 1)
      /\ b \in {0, 1}
  <2>1. c \in Prims(t) /\ depth[c] = i - 1 /\ Top(t.key[c], i - 1) = Top(k, i - 1)
    BY DEF SearchOK, Hit
  <2>2. b \in {0, 1}
    BY OneMoreBit
  <2> HIDE DEF c, b
  <2> QED
    BY <2>1, <2>2, PrimsAre
<1>2. /\ v.node = down
      /\ v.found = IF t.key[c] > k /\ (w.found = NULL \/ t.key[c] < t.key[w.found])
                   THEN c ELSE w.found
      /\ v.gt_tree = IF b = 0 /\ right # NULL THEN right ELSE w.gt_tree
  BY DEF GEQTurn
<1>3. /\ w.found # NULL => w.found \in Prims(t) /\ t.key[w.found] > k /\ t.key[w.found] \in Nat
      /\ w.gt_tree # NULL => w.gt_tree \in Prims(t) /\ t.key[w.gt_tree] > k
      /\ \A m \in Prims(t) : t.key[m] >= k =>
            IF w.found # NULL THEN t.key[w.found] <= t.key[m]
            ELSE Below(t, depth, k, w, i - 1, m) \/ Right(t, k, w, i - 1, m)
  BY PrimsAre DEF SearchOK, Hit
<1>4. ASSUME NEW j \in {0, 1}, Child(t, c, j) # NULL
      PROVE  /\ Child(t, c, j) \in Prims(t) /\ depth[Child(t, c, j)] = i
             /\ t.key[Child(t, c, j)] \in Nat
             /\ Top(t.key[Child(t, c, j)], i - 1) = Top(k, i - 1)
             /\ BitAt(t.key[Child(t, c, j)], i) = j
  <2> DEFINE x == Child(t, c, j)
  <2>1. x # NULL /\ x = Child(t, c, j)
    BY <1>4
  <2> HIDE DEF x, c
  <2>2. /\ x \in Prims(t) /\ depth[x] = depth[c] + 1
        /\ Top(t.key[x], depth[c]) = Top(t.key[c], depth[c])
        /\ BitAt(t.key[x], depth[x]) = j /\ t.key[x] \in Nat
    BY <1>1, <2>1, ChildUnder
  <2>3. depth[x] = i
    BY <1>0, <1>1, <2>2
  <2> QED
    BY <1>1, <2>2, <2>3 DEF x
<1>5. ASSUME NEW m \in Prims(t), t.key[m] >= k, Below(t, depth, k, w, i - 1, m)
      PROVE  t.key[c] <= t.key[m] /\ (m # c => t.key[c] < t.key[m] /\ depth[m] >= i)
  <2>1. depth[m] \in Nat /\ i - 1 <= depth[m] /\ Path(t, t.key[m])[i - 1] = c
        /\ t.key[m] \in Nat
    BY <1>0, <1>5, PrimsAre DEF Below, Depths
  <2> HIDE DEF c
  <2>2. t.key[c] <= t.key[m] /\ (i - 1 < depth[m] => t.key[c] < t.key[m])
        /\ (i - 1 = depth[m] => c = m)
    BY <1>0, <2>1, OnTheWay
  <2> QED
    BY <1>0, <2>1, <2>2
<1> HIDE DEF c, b, v, down, right
<1>6. v.node # NULL => /\ v.node \in Prims(t) /\ depth[v.node] = i
                       /\ Top(t.key[v.node], i) = Top(k, i)
  <2>1. SUFFICES ASSUME down # NULL
                 PROVE  down \in Prims(t) /\ depth[down] = i /\ Top(t.key[down], i) = Top(k, i)
    BY <1>2
  <2>2. /\ down \in Prims(t) /\ depth[down] = i /\ t.key[down] \in Nat
        /\ Top(t.key[down], i - 1) = Top(k, i - 1) /\ BitAt(t.key[down], i) = b
    BY <1>1, <1>4, <2>1 DEF down
  <2>3. Top(t.key[down], i) = Top(k, i)
    BY <2>2, NextBit DEF b
  <2> QED
    BY <2>2, <2>3
<1>7. v.found # NULL => v.found \in Prims(t) /\ t.key[v.found] > k
  BY <1>1, <1>2, <1>3
<1>8. b = 0 /\ right # NULL =>
        /\ right \in Prims(t) /\ t.key[right] \in Nat /\ t.key[right] > k
        /\ Top(t.key[right], i - 1) = Top(k, i - 1)
  <2>1. SUFFICES ASSUME b = 0, right # NULL
                 PROVE  /\ right \in Prims(t) /\ t.key[right] \in Nat /\ t.key[right] > k
                        /\ Top(t.key[right], i - 1) = Top(k, i - 1)
    OBVIOUS
  <2>2. /\ right \in Prims(t) /\ t.key[right] \in Nat /\ BitAt(t.key[right], i) = 1
        /\ Top(t.key[right], i - 1) = Top(k, i - 1)
    BY <1>4, <2>1 DEF right
  <2>3. Top(k, i) < Top(t.key[right], i)
    BY <2>1, <2>2, NextBit DEF b
  <2>4. i \in Depths
    BY <1>0 DEF Depths
  <2>5. k < t.key[right]
    BY <2>2, <2>3, <2>4, TopOrder
  <2> QED
    BY <2>2, <2>5
<1>9. v.gt_tree # NULL => v.gt_tree \in Prims(t) /\ t.key[v.gt_tree] > k
  BY <1>2, <1>3, <1>8
<1>10. ASSUME NEW m \in Prims(t), t.key[m] >= k
       PROVE  IF v.found # NULL THEN t.key[v.found] <= t.key[m]
              ELSE Below(t, depth, k, v, i, m) \/ Right(t, k, v, i, m)
  <2>0. t.key[m] \in Nat /\ depth[m] \in Depths /\ c # NULL /\ i \in Depths
    BY <1>0, <1>1, PrimsAre, NodesAssumption DEF Depths
  <2>1. CASE w.found # NULL
    <3>1. t.key[w.found] <= t.key[m] /\ t.key[w.found] \in Nat
      BY <1>3, <1>10, <2>1
    <3> QED
      BY <1>1, <1>2, <2>0, <2>1, <3>1
  <2>2. CASE w.found = NULL /\ t.key[c] > k
    <3>1. v.found = c
      BY <1>2, <2>2
    <3>2. CASE Below(t, depth, k, w, i - 1, m)
      BY <1>5, <1>10, <2>0, <3>1, <3>2
    <3>3. CASE Right(t, k, w, i - 1, m)
      <4>1. Top(t.key[c], i - 1) < Top(t.key[m], i - 1)
        BY <1>1, <3>3 DEF Right
      <4>2. t.key[c] < t.key[m]
        BY <1>0, <1>1, <2>0, <4>1, TopOrder
      <4> QED
        BY <1>1, <2>0, <3>1, <4>2
    <3> QED
      BY <1>3, <1>10, <2>2, <3>2, <3>3
  <2>3. CASE w.found = NULL /\ ~ (t.key[c] > k)
    <3>1. v.found = NULL /\ t.key[c] < k
      BY <1>1, <1>2, <2>3 DEF c
    <3>2. CASE Below(t, depth, k, w, i - 1, m)
      <4> DEFINE x == Path(t, t.key[m])[i]
      <4>1. m # c
        BY <1>1, <1>10, <2>0, <3>1
      <4>2. depth[m] >= i /\ Top(t.key[m], i - 1) = Top(k, i - 1)
            /\ Path(t, t.key[m])[i - 1] = c
        BY <1>5, <1>10, <3>2, <4>1 DEF Below, c
      <4>3. x = Child(t, c, BitAt(t.key[m], i))
        BY <1>0, <2>0, <4>2, PathIs
      <4>4. x # NULL /\ t.key[x] <= t.key[m] /\ x \in Prims(t)
        <5>1. i <= depth[m]
          BY <1>0, <2>0, <4>2 DEF Depths
        <5> QED
          BY <1>0, <5>1, OnTheWay
      <4> HIDE DEF x
      <4>5. /\ BitAt(t.key[m], i) \in {0, 1}
            /\ BitAt(t.key[m], i) = b => Top(t.key[m], i) = Top(k, i)
            /\ b = 0 /\ BitAt(t.key[m], i) = 1 => Top(k, i) < Top(t.key[m], i)
            /\ b = 1 /\ BitAt(t.key[m], i) = 0 => Top(t.key[m], i) < Top(k, i)
        BY <2>0, <4>2, NextBit DEF b
      <4>6. CASE BitAt(t.key[m], i) = b
        <5>1. x = v.node
          BY <1>2, <4>3, <4>6 DEF down
        <5>2. Below(t, depth, k, v, i, m)
          BY <4>2, <4>5, <4>6, <5>1 DEF Below, x
        <5> QED
          BY <3>1, <5>2
      <4>7. CASE b = 0 /\ BitAt(t.key[m], i) = 1
        <5>1. x = right /\ v.gt_tree = right
          BY <1>2, <4>3, <4>4, <4>7 DEF right
        <5>2. Right(t, k, v, i, m)
          BY <4>4, <4>5, <4>7, <5>1 DEF Right
        <5> QED
          BY <3>1, <5>2
      <4>8. CASE b = 1 /\ BitAt(t.key[m], i) = 0
        <5>1. t.key[m] < k
          BY <2>0, <4>5, <4>8, TopOrder
        <5> QED
          BY <1>10, <2>0, <5>1
      <4> QED
        BY <1>1, <4>5, <4>6, <4>7, <4>8
    <3>3. CASE Right(t, k, w, i - 1, m)
      <4>1. Top(k, i - 1) < Top(t.key[m], i - 1) /\ w.gt_tree # NULL
            /\ t.key[w.gt_tree] <= t.key[m]
        BY <3>3 DEF Right
      <4>2. Top(k, i) < Top(t.key[m], i)
        BY <2>0, <4>1, NextBit
      <4>3. CASE b = 0 /\ right # NULL
        <5>1. Top(t.key[right], i - 1) < Top(t.key[m], i - 1) /\ t.key[right] \in Nat
          BY <1>8, <4>1, <4>3
        <5>2. t.key[right] < t.key[m]
          BY <1>0, <2>0, <5>1, TopOrder
        <5>3. Right(t, k, v, i, m)
          BY <1>2, <2>0, <4>2, <4>3, <5>1, <5>2 DEF Right
        <5> QED
          BY <3>1, <5>3
      <4>4. CASE ~ (b = 0 /\ right # NULL)
        <5>1. v.gt_tree = w.gt_tree
          BY <1>2, <4>4
        <5>2. Right(t, k, v, i, m)
          BY <4>1, <4>2, <5>1 DEF Right
        <5> QED
          BY <3>1, <5>2
      <4> QED
        BY <4>3, <4>4
    <3> QED
      BY <1>3, <1>10, <2>3, <3>2, <3>3
  <2> QED
    BY <2>1, <2>2, <2>3
<1> QED
  BY <1>6, <1>7, <1>9, <1>10 DEF SearchOK, v

\* A search that has come to an end stays there.
LEMMA SearchStays ==
    ASSUME NEW t, NEW depth, Deep(t, depth), NEW k \in Nat, NEW i \in 1 .. KeyBits,
           NEW w, SearchOK(t, depth, k, w, i - 1), w.node = NULL \/ t.key[w.node] = k
    PROVE  SearchOK(t, depth, k, GEQTurn(t, k, w, i), i)
<1>1. GEQTurn(t, k, w, i) = w
  BY DEF GEQTurn
<1>2. SUFFICES SearchOK(t, depth, k, w, i)
  BY <1>1
<1>3. CASE w.node # NULL
  BY <1>3 DEF SearchOK, Hit
<1>4. CASE w.node = NULL
  <2>1. ASSUME NEW m \in Prims(t), t.key[m] >= k, w.found = NULL
        PROVE  Right(t, k, w, i, m)
    <3>0. t.key[m] \in Nat /\ depth[m] \in Nat /\ i - 1 \in Nat
      BY PrimsAre DEF Depths
    <3>1. ~ Below(t, depth, k, w, i - 1, m)
      <4>1. SUFFICES ASSUME Below(t, depth, k, w, i - 1, m) PROVE FALSE
        OBVIOUS
      <4>2. i - 1 <= depth[m] /\ Path(t, t.key[m])[i - 1] = NULL
        BY <1>4, <3>0, <4>1 DEF Below
      <4> QED
        BY <3>0, <4>2, OnTheWay
    <3>2. Right(t, k, w, i - 1, m)
      BY <1>4, <2>1, <3>1 DEF SearchOK, Hit
    <3>3. Top(k, i) < Top(t.key[m], i)
      BY <3>0, <3>2, NextBit DEF Right
    <3> QED
      BY <3>2, <3>3 DEF Right
  <2> QED
    BY <1>4, <2>1 DEF SearchOK, Hit
<1> QED
  BY <1>3, <1>4

\* The search finds a primary of the least key that is not below k.
BestFit(t, k, found) ==
    /\ found # NULL => found \in Prims(t) /\ t.key[found] >= k
    /\ \A m \in Prims(t) : t.key[m] >= k => found # NULL /\ t.key[found] <= t.key[m]

\* For every key of the tree.
LEMMA FindsBest ==
    ASSUME NEW t, NEW depth, Deep(t, depth), NEW k \in Keys
    PROVE  BestFit(t, k, radixTreeFindGEQ(t, k))
<1>0. t \in Trees /\ k \in Nat /\ KeyBits \in Nat
  BY NoBits, BitsAssumption DEF Deep
<1>1. PICK way : Searches(t, k, way) /\ radixTreeFindGEQ(t, k) = GEQEnd(t, k, way[KeyBits])
  BY <1>0, SearchIs
<1> DEFINE S == {i \in Nat : SearchOK(t, depth, k, way[i], i)}
<1>2. 0 \in S
  BY <1>0, <1>1, SearchStarts DEF Searches
<1>3. ASSUME NEW i \in 1 .. KeyBits, i - 1 \in S PROVE i \in S
  <2>1. SearchOK(t, depth, k, way[i - 1], i - 1)
    BY <1>3
  <2>2. way[i] = GEQTurn(t, k, way[i - 1], i)
    BY <1>1 DEF Searches
  <2>3. SearchOK(t, depth, k, GEQTurn(t, k, way[i - 1], i), i)
    BY <1>0, <2>1, SearchGoesOn, SearchStays
  <2>4. i \in Nat
    OBVIOUS
  <2> QED
    BY <2>2, <2>3, <2>4
<1> HIDE DEF S
<1>4. KeyBits \in S
  <2>1. S \in SUBSET Nat /\ KeyBits \in 0 .. KeyBits
    BY <1>0 DEF S
  <2>2. \A n \in 0 .. KeyBits : n \in S
    BY <1>0, <1>2, <1>3, <2>1, UpThrough
  <2> QED
    BY <2>1, <2>2
<1> DEFINE w == way[KeyBits]
<1>5. SearchOK(t, depth, k, w, KeyBits)
  BY <1>4 DEF S
<1>6. radixTreeFindGEQ(t, k) = GEQEnd(t, k, w)
  BY <1>1
<1> HIDE DEF w
<1>7. \A m \in Prims(t) : t.key[m] \in Nat /\ depth[m] \in Depths
  BY PrimsAre
<1>8. CASE Hit(t, k, w)
  <2>1. GEQEnd(t, k, w) = w.node
    BY <1>8 DEF GEQEnd, Hit
  <2> QED
    BY <1>0, <1>5, <1>6, <1>7, <1>8, <2>1 DEF Hit, SearchOK, BestFit
<1>9. CASE ~ Hit(t, k, w)
  <2>1. w.node = NULL
    <3>1. SUFFICES ASSUME w.node # NULL PROVE FALSE
      OBVIOUS
    <3>2. w.node \in Prims(t) /\ Top(t.key[w.node], KeyBits) = Top(k, KeyBits)
      BY <1>5, <1>9, <3>1 DEF SearchOK
    <3>3. t.key[w.node] = k
      BY <1>0, <1>7, <3>2, AllBits
    <3> QED
      BY <1>9, <3>1, <3>3 DEF Hit
  <2>2. \A m \in Prims(t) : ~ Below(t, depth, k, w, KeyBits, m)
    <3>1. SUFFICES ASSUME NEW m \in Prims(t), Below(t, depth, k, w, KeyBits, m) PROVE FALSE
      OBVIOUS
    <3>2. KeyBits <= depth[m] /\ Path(t, t.key[m])[KeyBits] = NULL
      BY <1>0, <1>7, <2>1, <3>1 DEF Below, Depths
    <3> QED
      BY <1>0, <3>2, OnTheWay
  <2>3. GEQEnd(t, k, w) = IF w.found # NULL THEN w.found ELSE w.gt_tree
    BY <1>9 DEF GEQEnd, Hit
  <2>4. \A m \in Prims(t) : t.key[m] >= k =>
           IF w.found # NULL THEN t.key[w.found] <= t.key[m]
           ELSE w.gt_tree # NULL /\ t.key[w.gt_tree] <= t.key[m]
    BY <1>5, <1>9, <2>2 DEF SearchOK, Right
  <2>5. /\ w.found # NULL => w.found \in Prims(t) /\ t.key[w.found] >= k
        /\ w.gt_tree # NULL => w.gt_tree \in Prims(t) /\ t.key[w.gt_tree] >= k
    BY <1>0, <1>5, <1>7 DEF SearchOK
  <2> QED
    BY <1>6, <2>3, <2>4, <2>5 DEF BestFit
<1> QED
  BY <1>8, <1>9

----------------------------------------------------------------------------
(***************************************************************************)
(* The nodes of the tree are those in a ring.                              *)
(***************************************************************************)

\* One turn of the walk along child and next pointers.
Grow(t, R) ==
    R \cup UNION {Children(t, n) \cup ({t.next[n]} \ {NULL}) : n \in R}

\* Pointers do not leave S.
Sealed(t, S) ==
    \A n \in S : /\ \A i \in {0, 1} : Child(t, n, i) # NULL => Child(t, n, i) \in S
                 /\ t.next[n] # NULL => t.next[n] \in S

\* A set that is sealed does not grow, and nothing grows out of it.
LEMMA SealedGrow ==
    ASSUME NEW t, NEW S, NEW R, R \subseteq S, Sealed(t, S)
    PROVE  Grow(t, R) \subseteq S
<1>1. ASSUME NEW n \in R
      PROVE  Children(t, n) \subseteq S /\ {t.next[n]} \ {NULL} \subseteq S
  BY <1>1 DEF Sealed, Children
<1> QED
  BY <1>1 DEF Grow

\* What does not grow is sealed.
LEMMA GrownSealed ==
    ASSUME NEW t, NEW R, Grow(t, R) = R
    PROVE  Sealed(t, R)
<1>1. ASSUME NEW n \in R, NEW x \in Children(t, n) \cup ({t.next[n]} \ {NULL})
      PROVE  x \in R
  <2>1. x \in Grow(t, R)
    BY <1>1 DEF Grow
  <2> QED
    BY <2>1
<1>2. ASSUME NEW n \in R, NEW i \in {0, 1}, Child(t, n, i) # NULL
      PROVE  Child(t, n, i) \in R
  <2>1. Child(t, n, i) \in Children(t, n)
    BY <1>2 DEF Children
  <2> QED
    BY <1>1, <2>1
<1>3. ASSUME NEW n \in R, t.next[n] # NULL PROVE t.next[n] \in R
  BY <1>1, <1>3
<1> QED
  BY <1>2, <1>3 DEF Sealed

\* Members is the least sealed set with the root.
LEMMA MembersAre ==
    ASSUME NEW t \in Trees
    PROVE  /\ Members(t) \subseteq Nodes /\ Sealed(t, Members(t))
           /\ t.at[ROOT] # NULL => t.at[ROOT] \in Members(t)
           /\ \A S \in SUBSET Nodes : /\ Sealed(t, S)
                                      /\ t.at[ROOT] # NULL => t.at[ROOT] \in S
                                      => Members(t) \subseteq S
<1> DEFINE N == Cardinality(Nodes)
           a == {t.at[ROOT]} \ {NULL}
           D == SUBSET Nodes
           E(f) == [i \in 0 .. N |-> IF i = 0 THEN a ELSE Grow(t, f[i - 1])]
           step == [i \in 1 .. N |-> [R \in D |-> Grow(t, R)]]
           g == CHOOSE f : f = E(f)
<1>1. Members(t) = g[N]
  BY DEF Members, Grow
<1>2. N \in Nat /\ IsFiniteSet(Nodes)
  BY NodesAssumption, FS_CardinalityType
<1>3. a \in D
  BY SlotsAre DEF Trees, Pointer
<1>4. Sealed(t, Nodes)
  <2>1. ASSUME NEW n \in Nodes, NEW i \in {0, 1} PROVE Child(t, n, i) \in Pointer
    BY SlotsAre DEF Child, Trees
  <2>2. \A n \in Nodes : t.next[n] \in Pointer
    BY DEF Trees
  <2> QED
    BY <2>1, <2>2 DEF Sealed, Pointer
<1>5. ASSUME NEW R \in D PROVE Grow(t, R) \in D
  BY <1>4, SealedGrow
<1>6. step \in [1 .. N -> [D -> D]]
  BY <1>5
<1> HIDE DEF N, a
<1>7. PICK f \in [0 .. N -> D] : TurnsTo(f, a, step, N)
  <2> HIDE DEF step, D
  <2> QED
    BY <1>2, <1>3, <1>6, TurnsExist
<1>8. f = E(f)
  <2>1. ASSUME NEW i \in 0 .. N PROVE f[i] = E(f)[i]
    <3>1. CASE i = 0
      BY <1>7, <3>1 DEF TurnsTo
    <3>2. CASE i # 0
      <4>1. i \in 1 .. N /\ i - 1 \in 0 .. N
        BY <1>2, <3>2
      <4>2. f[i] = step[i][f[i - 1]]
        BY <1>7, <3>2 DEF TurnsTo
      <4> QED
        BY <3>2, <4>1, <4>2
    <3> QED
      BY <3>1, <3>2
  <2> QED
    BY <2>1
<1> HIDE DEF E
<1>9. g = E(g)
  BY <1>8
<1> HIDE DEF g
<1>10. g[0] = a
  <2>1. 0 \in 0 .. N
    BY <1>2
  <2> QED
    BY <1>9, <2>1 DEF E
<1>11. ASSUME NEW i \in 1 .. N PROVE g[i] = Grow(t, g[i - 1])
  <2>1. i \in 0 .. N /\ i # 0
    BY <1>2
  <2> QED
    BY <1>9, <2>1 DEF E
<1>12. ASSUME NEW S \in SUBSET Nodes, Sealed(t, S), a \subseteq S
       PROVE  \A i \in 0 .. N : g[i] \subseteq S
  <2> DEFINE T == {i \in Nat : g[i] \subseteq S}
  <2>1. 0 \in T
    BY <1>10, <1>12
  <2>2. ASSUME NEW i \in 1 .. N, i - 1 \in T PROVE i \in T
    <3>1. g[i - 1] \subseteq S /\ i \in Nat
      BY <2>2
    <3>2. Grow(t, g[i - 1]) \subseteq S
      BY <1>12, <3>1, SealedGrow
    <3> QED
      BY <1>11, <3>1, <3>2
  <2>3. T \in SUBSET Nat
    OBVIOUS
  <2> HIDE DEF T
  <2>4. \A i \in 0 .. N : i \in T
    BY <1>2, <2>1, <2>2, <2>3, UpThrough
  <2> QED
    BY <2>4 DEF T
<1>13. \A i \in 0 .. N : g[i] \subseteq Nodes
  BY <1>3, <1>4, <1>12
<1>14. a \subseteq g[N]
  <2> DEFINE T == {i \in Nat : a \subseteq g[i]}
  <2>1. 0 \in T
    BY <1>10
  <2>2. ASSUME NEW i \in 1 .. N, i - 1 \in T PROVE i \in T
    <3>1. a \subseteq g[i - 1] /\ i \in Nat
      BY <2>2
    <3> QED
      BY <1>11, <3>1 DEF Grow
  <2>3. T \in SUBSET Nat
    OBVIOUS
  <2> HIDE DEF T
  <2>4. \A i \in 0 .. N : i \in T
    BY <1>2, <2>1, <2>2, <2>3, UpThrough
  <2>5. N \in 0 .. N
    BY <1>2
  <2> QED
    BY <2>4, <2>5 DEF T
<1>15. Grow(t, g[N]) = g[N]
  <2> DEFINE Done(i) == Grow(t, g[i]) = g[i]
             T == {i \in Nat : Done(i) \/ Cardinality(g[i]) >= i}
  <2>0. \A i \in 0 .. N : IsFiniteSet(g[i]) /\ Cardinality(g[i]) \in Nat
    BY <1>2, <1>13, FS_Subset, FS_CardinalityType
  <2>1. 0 \in T
    <3>1. 0 \in 0 .. N
      BY <1>2
    <3>2. Cardinality(g[0]) \in Nat
      BY <2>0, <3>1
    <3> HIDE DEF Done
    <3> QED
      BY <3>2
  <2>2. ASSUME NEW i \in 1 .. N, i - 1 \in T PROVE i \in T
    <3>1. i - 1 \in 0 .. N /\ i \in 0 .. N /\ i \in Nat /\ g[i] = Grow(t, g[i - 1])
      BY <1>2, <1>11
    <3>2. CASE Done(i - 1)
      BY <3>1, <3>2
    <3>3. CASE ~ Done(i - 1)
      <4>1. g[i - 1] \subseteq g[i] /\ g[i - 1] # g[i]
        BY <3>1, <3>3 DEF Grow
      <4>2. IsFiniteSet(g[i]) /\ Cardinality(g[i]) \in Nat /\ Cardinality(g[i - 1]) \in Nat
        BY <2>0, <3>1
      <4>3. Cardinality(g[i - 1]) < Cardinality(g[i])
        BY <4>1, <4>2, FS_Subset
      <4>4. Cardinality(g[i - 1]) >= i - 1
        BY <2>2, <3>3
      <4>5. Cardinality(g[i]) >= i
        BY <3>1, <4>2, <4>3, <4>4
      <4> HIDE DEF Done
      <4> QED
        BY <3>1, <4>5
    <3> QED
      BY <3>2, <3>3
  <2>3. T \in SUBSET Nat
    OBVIOUS
  <2>4. N \in T
    <3>1. N \in 0 .. N
      BY <1>2
    <3> HIDE DEF T
    <3>2. \A i \in 0 .. N : i \in T
      BY <1>2, <2>1, <2>2, <2>3, UpThrough
    <3> QED
      BY <3>1, <3>2
  <2>5. CASE Done(N)
    BY <2>5
  <2>6. CASE ~ Done(N)
    <3>1. Cardinality(g[N]) >= N /\ g[N] \subseteq Nodes
      BY <1>2, <1>13, <2>4, <2>6
    <3>2. g[N] = Nodes
      <4>1. SUFFICES ASSUME g[N] # Nodes PROVE FALSE
        OBVIOUS
      <4>2. N \in 0 .. N
        BY <1>2
      <4> DEFINE R == g[N]
      <4>3. R \in SUBSET Nodes /\ R # Nodes /\ Cardinality(R) \in Nat /\ Cardinality(R) >= N
        BY <2>0, <3>1, <4>1, <4>2
      <4> HIDE DEF R
      <4>4. Cardinality(R) < Cardinality(Nodes)
        BY <1>2, <4>3, FS_Subset DEF N
      <4>5. Cardinality(Nodes) = N
        BY DEF N
      <4> QED
        BY <1>2, <4>3, <4>4, <4>5
    <3>3. Grow(t, Nodes) \subseteq Nodes /\ Nodes \subseteq Grow(t, Nodes)
      BY <1>4, SealedGrow DEF Grow
    <3> QED
      BY <3>2, <3>3
  <2> QED
    BY <2>5, <2>6
<1>16. N \in 0 .. N
  BY <1>2
<1>17. Members(t) \subseteq Nodes /\ Sealed(t, Members(t))
  BY <1>1, <1>13, <1>15, <1>16, GrownSealed
<1>18. t.at[ROOT] # NULL => t.at[ROOT] \in Members(t)
  BY <1>1, <1>14 DEF a
<1>19. ASSUME NEW S \in SUBSET Nodes, Sealed(t, S), t.at[ROOT] # NULL => t.at[ROOT] \in S
       PROVE  Members(t) \subseteq S
  <2>1. a \subseteq S
    BY <1>19 DEF a
  <2> QED
    BY <1>1, <1>12, <1>16, <1>19, <2>1
<1> QED
  BY <1>17, <1>18, <1>19

\* They are the nodes in a ring.
LEMMA MembersIn ==
    ASSUME NEW t, Good(t)
    PROVE  Members(t) = In(t)
<1>1. PICK depth \in [Nodes -> Depths] : Placed(t, t.key, depth, NULL)
  BY DEF Good, Shape
<1>2. Deep(t, depth) /\ t \in Trees /\ Linked(t)
  BY <1>1 DEF Deep, Good
<1>3. Members(t) \subseteq In(t)
  <2>1. In(t) \in SUBSET Nodes /\ Prims(t) \subseteq In(t)
    BY DEF In, Good, Headed
  <2>2. t.at[ROOT] # NULL => t.at[ROOT] \in In(t)
    BY <1>2, <2>1, Held, SlotsAre
  <2>3. ASSUME NEW n \in In(t), NEW i \in {0, 1}, Child(t, n, i) # NULL
        PROVE  Child(t, n, i) \in In(t)
    BY <1>2, <2>1, <2>3, ChildIs
  <2>4. \A n \in In(t) : t.next[n] \in In(t)
    BY DEF Good, Rings
  <2>5. Sealed(t, In(t))
    BY <2>3, <2>4 DEF Sealed
  <2> QED
    BY <1>2, <2>1, <2>2, <2>5, MembersAre
<1>4. Prims(t) \subseteq Members(t)
  <2> DEFINE T == {d \in Nat : \A m \in Prims(t) : depth[m] = d => m \in Members(t)}
  <2>1. ASSUME NEW m \in Prims(t), t.slot[m] = ROOT PROVE m \in Members(t)
    <3>1. t.at[ROOT] = m /\ m # NULL
      BY <1>2, <2>1, PrimsAre DEF Linked
    <3> QED
      BY <1>2, <3>1, MembersAre
  <2>2. 0 \in T
    <3>1. ASSUME NEW m \in Prims(t), depth[m] = 0 PROVE t.slot[m] = ROOT
      <4>1. SUFFICES ASSUME t.slot[m] # ROOT PROVE FALSE
        OBVIOUS
      <4>2. depth[m] \in 1 .. KeyBits
        BY <1>2, <4>1, UnderIs
      <4> QED
        BY <3>1, <4>2
    <3> QED
      BY <2>1, <3>1
  <2>3. ASSUME NEW d \in 1 .. KeyBits, d - 1 \in T PROVE d \in T
    <3>1. SUFFICES ASSUME NEW m \in Prims(t), depth[m] = d PROVE m \in Members(t)
      OBVIOUS
    <3>2. CASE t.slot[m] = ROOT
      BY <2>1, <3>2
    <3>3. CASE t.slot[m] # ROOT
      <4> DEFINE p == t.slot[m][1]
                 i == t.slot[m][2]
      <4>1. p \in Prims(t) /\ depth[p] = d - 1 /\ Child(t, p, i) = m /\ i \in {0, 1}
        BY <1>2, <3>1, <3>3, UnderIs
      <4> HIDE DEF p, i
      <4>2. p \in Members(t)
        BY <2>3, <4>1
      <4>3. m # NULL
        BY <1>2, PrimsAre
      <4> QED
        BY <1>2, <4>1, <4>2, <4>3, MembersAre DEF Sealed
    <3> QED
      BY <3>2, <3>3
  <2>4. T \in SUBSET Nat /\ KeyBits \in Nat
    BY BitsAssumption
  <2> HIDE DEF T
  <2>5. \A d \in 0 .. KeyBits : d \in T
    BY <2>2, <2>3, <2>4, UpThrough
  <2>6. ASSUME NEW m \in Prims(t) PROVE m \in Members(t)
    <3>1. depth[m] \in 0 .. KeyBits
      BY <1>2, PrimsAre DEF Depths
    <3> QED
      BY <2>5, <3>1 DEF T
  <2> QED
    BY <2>6
<1>5. ASSUME NEW n \in In(t) PROVE n \in Members(t)
  <2> DEFINE S == Members(t)
  <2>1. PICK p \in Prims(t) : t.key[p] = t.key[n]
    BY DEF Good, Headed
  <2>2. S \in SUBSET In(t)
    BY <1>3
  <2>3. Closed(t, S)
    <3>1. ASSUME NEW x \in S PROVE t.next[x] \in S
      <4>1. t.next[x] # NULL
        BY <2>2 DEF In
      <4> QED
        BY <1>2, <4>1, MembersAre DEF Sealed
    <3> QED
      BY <3>1 DEF Closed
  <2>4. p \in S
    BY <1>4, <2>1
  <2> HIDE DEF S
  <2>5. n \in S
    BY <2>1, <2>2, <2>3, <2>4 DEF Good, Rings
  <2> QED
    BY <2>5 DEF S
<1> QED
  BY <1>3, <1>5

----------------------------------------------------------------------------
(***************************************************************************)
(* Rings that lose a node and rings that gain one.                         *)
(***************************************************************************)

\* u has the rings of t without n.
RingLess(t, u, n) ==
    /\ u.next[n] = NULL
    /\ \A m \in Nodes : m # n =>
          /\ u.key[m] = t.key[m]
          /\ u.next[m] = IF t.next[m] = n THEN t.next[n] ELSE t.next[m]
    /\ \A m \in In(t) : m # n =>
          u.prev[m] = IF t.prev[m] = n THEN t.prev[n] ELSE t.prev[m]

\* The others of the ring of n stay one ring.
LEMMA RingsLess ==
    ASSUME NEW t, NEW u, Rings(t), NEW n \in In(t), RingLess(t, u, n)
    PROVE  In(u) = In(t) \ {n} /\ Rings(u)
<1>1. n \in Nodes /\ n # NULL /\ \A m \in In(t) : m \in Nodes /\ m # NULL
  BY NodesAssumption DEF In
<1>2. \A m \in In(t) : /\ t.next[m] \in In(t) /\ t.prev[m] \in In(t)
                       /\ t.prev[t.next[m]] = m /\ t.next[t.prev[m]] = m
                       /\ t.key[t.next[m]] = t.key[m]
  BY DEF Rings
<1>3. /\ \A m \in Nodes : m # n =>
            /\ u.key[m] = t.key[m]
            /\ u.next[m] = IF t.next[m] = n THEN t.next[n] ELSE t.next[m]
      /\ \A m \in In(t) : m # n =>
            u.prev[m] = IF t.prev[m] = n THEN t.prev[n] ELSE t.prev[m]
  BY DEF RingLess
<1>4. In(u) = In(t) \ {n}
  <2>1. n \notin In(u)
    BY DEF RingLess, In
  <2>2. ASSUME NEW m \in Nodes, m # n PROVE m \in In(u) <=> m \in In(t)
    <3>1. t.next[n] # NULL
      BY DEF In
    <3> QED
      BY <1>1, <1>3, <2>2, <3>1 DEF In
  <2>3. \A m \in In(u) : m \in Nodes
    BY DEF In
  <2> QED
    BY <1>1, <2>1, <2>2, <2>3
<1>5. ASSUME NEW m \in In(u)
      PROVE  /\ u.next[m] \in In(u) /\ u.prev[m] \in In(u)
             /\ u.prev[u.next[m]] = m /\ u.next[u.prev[m]] = m
             /\ u.key[u.next[m]] = u.key[m]
  <2>1. m \in In(t) /\ m # n /\ m \in Nodes
    BY <1>1, <1>4
  <2>2. u.next[m] = IF t.next[m] = n THEN t.next[n] ELSE t.next[m]
    BY <1>3, <2>1
  <2>3. u.prev[m] = IF t.prev[m] = n THEN t.prev[n] ELSE t.prev[m]
    BY <1>3, <2>1
  <2>4. u.next[m] \in In(u) /\ u.prev[u.next[m]] = m /\ u.key[u.next[m]] = u.key[m]
    <3>1. CASE t.next[m] = n
      <4>1. t.next[n] # n /\ t.next[n] \in In(t) /\ t.prev[t.next[n]] = n /\ t.prev[n] = m
        BY <1>2, <2>1, <3>1
      <4>2. t.key[t.next[n]] = t.key[m]
        BY <1>2, <2>1, <3>1
      <4> QED
        BY <1>1, <1>3, <1>4, <2>1, <2>2, <3>1, <4>1, <4>2
    <3>2. CASE t.next[m] # n
      <4>1. t.next[m] \in In(t) /\ t.prev[t.next[m]] = m /\ t.key[t.next[m]] = t.key[m]
        BY <1>2, <2>1
      <4> QED
        BY <1>1, <1>3, <1>4, <2>1, <2>2, <3>2, <4>1
    <3> QED
      BY <3>1, <3>2
  <2>5. u.prev[m] \in In(u) /\ u.next[u.prev[m]] = m
    <3>1. CASE t.prev[m] = n
      <4>1. t.prev[n] # n /\ t.prev[n] \in In(t) /\ t.next[t.prev[n]] = n /\ t.next[n] = m
        BY <1>2, <2>1, <3>1
      <4> QED
        BY <1>1, <1>3, <1>4, <2>1, <2>3, <3>1, <4>1
    <3>2. CASE t.prev[m] # n
      <4>1. t.prev[m] \in In(t) /\ t.next[t.prev[m]] = m
        BY <1>2, <2>1
      <4> QED
        BY <1>1, <1>3, <1>4, <2>1, <2>3, <3>2, <4>1
    <3> QED
      BY <3>1, <3>2
  <2> QED
    BY <2>4, <2>5
<1>6. ASSUME NEW S \in SUBSET In(u), Closed(u, S), NEW x \in S, NEW m \in In(u),
             u.key[m] = u.key[x]
      PROVE  m \in S
  <2> DEFINE W == IF t.prev[n] \in S THEN S \cup {n} ELSE S
  <2>0. \A y \in S : y \in In(t) /\ y # n /\ y \in Nodes /\ u.next[y] \in S
    BY <1>1, <1>4, <1>6 DEF Closed
  <2>1. W \in SUBSET In(t) /\ x \in W /\ (m \in W => m \in S)
    BY <1>4, <2>0
  <2>2. Closed(t, W)
    <3>1. CASE t.prev[n] \in S
      <4>1. t.next[n] \in S
        BY <1>2, <1>3, <2>0, <3>1
      <4>2. \A y \in S : t.next[y] \in S \cup {n}
        BY <1>3, <2>0
      <4> QED
        BY <3>1, <4>1, <4>2 DEF Closed
    <3>2. CASE t.prev[n] \notin S
      <4>1. \A y \in S : t.next[y] # n
        BY <1>2, <2>0, <3>2
      <4>2. \A y \in S : t.next[y] \in S
        BY <1>3, <2>0, <4>1
      <4> QED
        BY <3>2, <4>2 DEF Closed
    <3> QED
      BY <3>1, <3>2
  <2>3. m \in In(t) /\ t.key[m] = t.key[x]
    BY <1>1, <1>3, <1>4, <1>6, <2>0
  <2> HIDE DEF W
  <2>4. m \in W
    BY <2>1, <2>2, <2>3 DEF Rings
  <2> QED
    BY <2>1, <2>4
<1> QED
  BY <1>4, <1>5, <1>6 DEF Rings

\* u has the rings of t, and n in the one before h, or alone.
RingMore(t, u, n, h) ==
    /\ \A m \in Nodes : m # n => u.key[m] = t.key[m]
    /\ u.next[n] = h /\ u.prev[n] = IF h = n THEN n ELSE t.prev[h]
    /\ \A m \in Nodes : m # n =>
          /\ u.next[m] = IF h # n /\ m = t.prev[h] THEN n ELSE t.next[m]
          /\ u.prev[m] = IF m = h THEN n ELSE t.prev[m]

\* A node alone is a new ring if its key is new.
LEMMA RingsNew ==
    ASSUME NEW t, NEW u, Rings(t), NEW n \in Nodes, n \notin In(t), RingMore(t, u, n, n),
           \A m \in In(t) : t.key[m] # u.key[n]
    PROVE  In(u) = In(t) \cup {n} /\ Rings(u)
<1>1. n # NULL /\ \A m \in In(t) : m \in Nodes /\ m # n
  BY NodesAssumption DEF In
<1>2. \A m \in In(t) : /\ t.next[m] \in In(t) /\ t.prev[m] \in In(t)
                       /\ t.prev[t.next[m]] = m /\ t.next[t.prev[m]] = m
                       /\ t.key[t.next[m]] = t.key[m]
  BY DEF Rings
<1>3. \A m \in Nodes : m # n =>
         u.key[m] = t.key[m] /\ u.next[m] = t.next[m] /\ u.prev[m] = t.prev[m]
  BY DEF RingMore
<1>4. u.next[n] = n /\ u.prev[n] = n
  BY DEF RingMore
<1>5. In(u) = In(t) \cup {n}
  BY <1>1, <1>3, <1>4 DEF In
<1>6. ASSUME NEW m \in In(u)
      PROVE  /\ u.next[m] \in In(u) /\ u.prev[m] \in In(u)
             /\ u.prev[u.next[m]] = m /\ u.next[u.prev[m]] = m
             /\ u.key[u.next[m]] = u.key[m]
  <2>1. CASE m = n
    BY <1>4, <1>5, <2>1
  <2>2. CASE m # n
    BY <1>1, <1>2, <1>3, <1>5, <2>2
  <2> QED
    BY <2>1, <2>2
<1>7. ASSUME NEW S \in SUBSET In(u), Closed(u, S), NEW x \in S, NEW m \in In(u),
             u.key[m] = u.key[x]
      PROVE  m \in S
  <2>1. CASE x = n
    BY <1>1, <1>3, <1>5, <1>7, <2>1
  <2>2. CASE x # n
    <3> DEFINE W == S \ {n}
    <3>1. W \in SUBSET In(t) /\ x \in W /\ x \in In(t)
      BY <1>5, <2>2
    <3>2. Closed(t, W)
      BY <1>1, <1>2, <1>3, <1>7, <3>1 DEF Closed
    <3>3. m # n /\ m \in In(t)
      BY <1>1, <1>3, <1>5, <1>7, <3>1
    <3>4. t.key[m] = t.key[x]
      BY <1>1, <1>3, <1>7, <3>1, <3>3
    <3>5. W \subseteq S
      OBVIOUS
    <3> HIDE DEF W
    <3>6. m \in W
      BY <3>1, <3>2, <3>3, <3>4 DEF Rings
    <3> QED
      BY <3>5, <3>6
  <2> QED
    BY <2>1, <2>2
<1> QED
  BY <1>5, <1>6, <1>7 DEF Rings

\* A node of the same key may go before any node of a ring.
LEMMA RingsMore ==
    ASSUME NEW t, NEW u, Rings(t), NEW n \in Nodes, n \notin In(t), NEW h \in In(t),
           RingMore(t, u, n, h), u.key[n] = t.key[h]
    PROVE  In(u) = In(t) \cup {n} /\ Rings(u)
<1> DEFINE l == t.prev[h]
<1>1. n # NULL /\ h # n /\ \A m \in In(t) : m \in Nodes /\ m # n /\ m # NULL
  BY NodesAssumption DEF In
<1>2. \A m \in In(t) : /\ t.next[m] \in In(t) /\ t.prev[m] \in In(t)
                       /\ t.prev[t.next[m]] = m /\ t.next[t.prev[m]] = m
                       /\ t.key[t.next[m]] = t.key[m]
  BY DEF Rings
<1>3. l \in In(t) /\ t.next[l] = h /\ t.key[l] = t.key[h]
  BY <1>2
<1>4. u.next[n] = h /\ u.prev[n] = l /\ u.next[l] = n /\ u.prev[h] = n
  BY <1>1, <1>3 DEF RingMore
<1>5. \A m \in Nodes : m # n => u.key[m] = t.key[m]
  BY DEF RingMore
<1>6. \A m \in Nodes : m # n /\ m # l => u.next[m] = t.next[m]
  BY DEF RingMore
<1>7. \A m \in Nodes : m # n /\ m # h => u.prev[m] = t.prev[m]
  BY DEF RingMore
<1> HIDE DEF l
<1>8. In(u) = In(t) \cup {n}
  BY <1>1, <1>3, <1>4, <1>6 DEF In
<1>9. ASSUME NEW m \in In(u)
      PROVE  /\ u.next[m] \in In(u) /\ u.prev[m] \in In(u)
             /\ u.prev[u.next[m]] = m /\ u.next[u.prev[m]] = m
             /\ u.key[u.next[m]] = u.key[m]
  <2>0. u.key[l] = t.key[h] /\ u.key[h] = t.key[h] /\ h \in In(u) /\ l \in In(u) /\ n \in In(u)
    BY <1>1, <1>3, <1>5, <1>8
  <2>1. CASE m = n
    BY <1>4, <2>0, <2>1
  <2>2. CASE m # n
    <3>0. m \in In(t) /\ m \in Nodes
      BY <1>1, <1>8, <2>2
    <3>1. u.next[m] \in In(u) /\ u.prev[u.next[m]] = m /\ u.key[u.next[m]] = u.key[m]
      <4>1. CASE m = l
        BY <1>4, <2>0, <4>1
      <4>2. CASE m # l
        <5>1. u.next[m] = t.next[m] /\ t.next[m] \in In(t) /\ t.prev[t.next[m]] = m
              /\ t.key[t.next[m]] = t.key[m]
          BY <1>2, <1>6, <2>2, <3>0, <4>2
        <5>2. t.next[m] # h
          BY <1>2, <1>3, <3>0, <4>2, <5>1 DEF l
        <5> QED
          BY <1>1, <1>5, <1>7, <1>8, <2>2, <3>0, <5>1, <5>2
      <4> QED
        BY <4>1, <4>2
    <3>2. u.prev[m] \in In(u) /\ u.next[u.prev[m]] = m
      <4>1. CASE m = h
        BY <1>4, <2>0, <4>1
      <4>2. CASE m # h
        <5>1. u.prev[m] = t.prev[m] /\ t.prev[m] \in In(t) /\ t.next[t.prev[m]] = m
          BY <1>2, <1>7, <2>2, <3>0, <4>2
        <5>2. t.prev[m] # l
          BY <1>3, <4>2, <5>1
        <5> QED
          BY <1>1, <1>6, <1>8, <5>1, <5>2
      <4> QED
        BY <4>1, <4>2
    <3> QED
      BY <3>1, <3>2
  <2> QED
    BY <2>1, <2>2
<1>10. ASSUME NEW S \in SUBSET In(u), Closed(u, S), NEW x \in S, NEW m \in In(u),
              u.key[m] = u.key[x]
       PROVE  m \in S
  <2> DEFINE W == S \ {n}
             y == IF x = n THEN h ELSE x
             z == IF m = n THEN l ELSE m
  <2>1. \A a \in S : u.next[a] \in S
    BY <1>10 DEF Closed
  <2>2. y \in W /\ u.key[y] = u.key[x]
    BY <1>1, <1>4, <1>5, <1>10, <2>1
  <2>3. z \in In(t) /\ u.key[z] = u.key[m]
    BY <1>1, <1>3, <1>5, <1>8
  <2>4. W \in SUBSET In(t)
    BY <1>8
  <2>5. Closed(t, W)
    <3>1. ASSUME NEW a \in W PROVE t.next[a] \in W
      <4>1. CASE a = l
        BY <1>1, <1>3, <1>4, <2>1, <4>1
      <4>2. CASE a # l
        <5>1. t.next[a] = u.next[a] /\ t.next[a] \in In(t)
          BY <1>1, <1>2, <1>6, <2>4, <4>2
        <5> QED
          BY <1>1, <2>1, <5>1
      <4> QED
        BY <4>1, <4>2
    <3> QED
      BY <3>1 DEF Closed
  <2>6. t.key[z] = t.key[y] /\ z \in In(t) /\ y \in W
    BY <1>1, <1>5, <1>10, <2>2, <2>3, <2>4
  <2>7. W \subseteq S
    OBVIOUS
  <2>8. m = n /\ l \in S => m \in S
    BY <1>4, <2>1
  <2> HIDE DEF W, y
  <2>9. z \in W
    BY <2>4, <2>5, <2>6 DEF Rings
  <2> QED
    BY <2>7, <2>8, <2>9
<1> QED
  BY <1>8, <1>9, <1>10 DEF Rings

----------------------------------------------------------------------------
(***************************************************************************)
(* A node that takes the place of another.                                 *)
(***************************************************************************)

\* In u the node r is where c is in t, and c has no links.
Replaced(t, u, c, r) ==
    /\ u.slot[r] = t.slot[c] /\ u.slot[c] = NOSLOT
    /\ u.parent[r] = t.parent[c] /\ u.parent[c] = NULL
    /\ \A m \in Nodes \ {c, r} :
          IF m \in Children(t, c)
          THEN u.slot[m] = <<r, t.slot[m][2]>> /\ u.parent[m] = r
          ELSE u.slot[m] = t.slot[m] /\ u.parent[m] = t.parent[m]
    /\ u.at[t.slot[c]] = r
    /\ \A i \in {0, 1} : u.at[<<r, i>>] = t.at[<<c, i>>] /\ u.at[<<c, i>>] = NULL
    /\ \A s \in Slots : s # t.slot[c] /\ s[1] # r /\ s[1] # c => u.at[s] = t.at[s]

\* Pointers agree after it.
LEMMA ReplacedLinked ==
    ASSUME NEW t \in Trees, NEW u \in Trees, Linked(t), NEW c \in Prims(t),
           NEW r \in Nodes \ Prims(t), Replaced(t, u, c, r), t.slot[c][1] # c
    PROVE  Linked(u) /\ Prims(u) = (Prims(t) \ {c}) \cup {r}
<1> DEFINE p == t.slot[c]
           kids == Children(t, c)
<1>0. c \in Nodes /\ c # r /\ p \in Slots /\ p # NOSLOT /\ t.at[p] = c
      /\ \A m \in Nodes : m # NULL
  BY NodesAssumption, SlotsAre DEF Prims, Trees, Linked
<1>1. p[1] # r /\ p[1] # c
  <2>1. CASE p = ROOT
    BY <1>0, <2>1, SlotsAre
  <2>2. CASE p # ROOT
    <3>1. p[1] \in Prims(t)
      BY <1>0, <2>2, Held
    <3> QED
      BY <3>1
  <2> QED
    BY <2>1, <2>2
<1>2. /\ u.slot[r] = p /\ u.slot[c] = NOSLOT /\ u.at[p] = r
      /\ u.parent[r] = t.parent[c] /\ u.parent[c] = NULL
      /\ \A i \in {0, 1} : u.at[<<r, i>>] = t.at[<<c, i>>] /\ u.at[<<c, i>>] = NULL
  BY DEF Replaced
<1>3. \A m \in Nodes : m # c /\ m # r /\ m \in kids =>
         u.slot[m] = <<r, t.slot[m][2]>> /\ u.parent[m] = r
  BY DEF Replaced
<1>4. \A m \in Nodes : m # c /\ m # r /\ m \notin kids =>
         u.slot[m] = t.slot[m] /\ u.parent[m] = t.parent[m]
  BY DEF Replaced
<1>5. \A s \in Slots : s # p /\ s[1] # r /\ s[1] # c => u.at[s] = t.at[s]
  BY DEF Replaced
<1>6. ASSUME NEW m \in kids
      PROVE  /\ m \in Nodes /\ m \in Prims(t) /\ m # c /\ m # r
             /\ t.slot[m][2] \in {0, 1} /\ t.slot[m] = <<c, t.slot[m][2]>>
             /\ t.at[<<c, t.slot[m][2]>>] = m
  <2>1. PICK i \in {0, 1} : m = Child(t, c, i) /\ m # NULL
    BY DEF Children
  <2>2. m \in Prims(t) /\ m \in Nodes /\ t.slot[m] = <<c, i>> /\ <<c, i>>[2] = i /\ <<c, i>>[1] = c
    BY <1>0, <2>1, ChildIs, SlotsAre
  <2>3. m # c
    BY <1>1, <2>2
  <2> QED
    BY <2>1, <2>2, <2>3 DEF Child
<1>7. ASSUME NEW i \in {0, 1}, t.at[<<c, i>>] # NULL
      PROVE  /\ t.at[<<c, i>>] \in kids /\ t.slot[t.at[<<c, i>>]] = <<c, i>>
  <2>1. t.at[<<c, i>>] \in kids
    BY <1>7 DEF Children, Child
  <2>2. <<c, i>> \in Slots
    BY <1>0, SlotsAre
  <2> QED
    BY <1>7, <2>1, <2>2 DEF Linked
<1>8. Prims(u) = (Prims(t) \ {c}) \cup {r}
  <2>1. ASSUME NEW m \in Nodes, m # c, m # r PROVE m \in Prims(u) <=> m \in Prims(t)
    <3>1. CASE m \in kids
      <4>1. u.slot[m] = <<r, t.slot[m][2]>>
        BY <1>3, <2>1, <3>1
      <4> QED
        BY <1>6, <3>1, <4>1, SlotsAre DEF Prims
    <3>2. CASE m \notin kids
      BY <1>4, <2>1, <3>2 DEF Prims
    <3> QED
      BY <3>1, <3>2
  <2>2. c \notin Prims(u) /\ r \in Prims(u)
    BY <1>0, <1>2 DEF Prims
  <2>3. (\A m \in Prims(u) : m \in Nodes) /\ (\A m \in Prims(t) : m \in Nodes)
    BY DEF Prims
  <2> QED
    BY <2>1, <2>2, <2>3
<1> HIDE DEF p, kids
<1>9. ASSUME NEW m \in Prims(u) PROVE u.at[u.slot[m]] = m /\ u.parent[m] = u.slot[m][1]
  <2>0. m \in Nodes
    BY DEF Prims
  <2>1. CASE m = r
    BY <1>2, <2>1 DEF Linked, p
  <2>2. CASE m # r /\ m \in kids
    <3> DEFINE i == t.slot[m][2]
    <3>1. u.slot[m] = <<r, i>> /\ u.parent[m] = r /\ i \in {0, 1} /\ t.at[<<c, i>>] = m
      BY <1>3, <1>6, <2>0, <2>2
    <3>2. <<r, i>>[1] = r
      OBVIOUS
    <3> HIDE DEF i
    <3> QED
      BY <1>2, <3>1, <3>2
  <2>3. CASE m # r /\ m \notin kids
    <3>1. m # c /\ m \in Prims(t)
      BY <1>8, <2>3
    <3>2. u.slot[m] = t.slot[m] /\ u.parent[m] = t.parent[m]
      BY <1>4, <2>0, <2>3, <3>1
    <3> DEFINE s == t.slot[m]
    <3>3. t.at[s] = m /\ t.parent[m] = s[1]
      BY <3>1 DEF Linked
    <3>4. s \in Slots
      BY <2>0, <3>1 DEF Prims, Trees
    <3>5. s # p
      BY <1>0, <3>1, <3>3
    <3>6. s[1] # c
      <4>1. SUFFICES ASSUME s[1] = c PROVE FALSE
        OBVIOUS
      <4>2. s # ROOT
        BY <1>0, <4>1, SlotsAre
      <4>3. s[2] \in {0, 1} /\ s = <<c, s[2]>>
        BY <3>4, <4>1, <4>2, SlotsAre
      <4>4. t.at[<<c, s[2]>>] # NULL
        BY <1>0, <2>0, <3>3, <4>3
      <4> QED
        BY <1>7, <2>3, <3>3, <4>3, <4>4
    <3>7. s[1] # r
      <4>1. SUFFICES ASSUME s[1] = r PROVE FALSE
        OBVIOUS
      <4>2. s # ROOT /\ t.at[s] # NULL
        BY <1>0, <2>0, <3>3, <4>1, SlotsAre
      <4> QED
        BY <3>4, <4>1, <4>2, Held
    <3>8. u.at[s] = t.at[s]
      BY <1>5, <3>4, <3>5, <3>6, <3>7
    <3> QED
      BY <3>2, <3>3, <3>8
  <2> QED
    BY <2>1, <2>2, <2>3
<1>10. ASSUME NEW s \in Slots, u.at[s] # NULL PROVE u.slot[u.at[s]] = s
  <2>1. CASE s = p
    BY <1>2, <2>1
  <2>2. CASE s # p /\ s[1] = c
    <3>1. s # ROOT
      BY <1>0, <2>2, SlotsAre
    <3>2. s[2] \in {0, 1} /\ s = <<c, s[2]>>
      BY <2>2, <3>1, SlotsAre
    <3> QED
      BY <1>2, <1>10, <3>2
  <2>3. CASE s # p /\ s[1] = r
    <3>1. s # ROOT
      BY <1>0, <2>3, SlotsAre
    <3> DEFINE i == s[2]
    <3>2. i \in {0, 1} /\ s = <<r, i>>
      BY <2>3, <3>1, SlotsAre
    <3> HIDE DEF i
    <3>3. u.at[s] = t.at[<<c, i>>]
      BY <1>2, <3>2
    <3> DEFINE m == t.at[<<c, i>>]
               q == <<c, i>>
    <3>4. m \in kids /\ t.slot[m] = q
      BY <1>7, <1>10, <3>2, <3>3
    <3>5. q[2] = i
      OBVIOUS
    <3> HIDE DEF m, q
    <3>6. u.slot[m] = <<r, i>>
      BY <1>3, <1>6, <3>4, <3>5
    <3> QED
      BY <3>2, <3>3, <3>6 DEF m
  <2>4. CASE s # p /\ s[1] # c /\ s[1] # r
    <3>1. u.at[s] = t.at[s] /\ t.at[s] # NULL
      BY <1>5, <1>10, <2>4
    <3> DEFINE m == t.at[s]
    <3>2. m \in Prims(t) /\ m \in Nodes /\ t.slot[m] = s
      BY <3>1, Held
    <3> HIDE DEF m
    <3>3. m # c /\ m # r
      BY <2>4, <3>2 DEF p
    <3>4. m \notin kids
      <4>1. SUFFICES ASSUME m \in kids PROVE FALSE
        OBVIOUS
      <4> DEFINE i == t.slot[m][2]
      <4>2. s = <<c, i>> /\ i \in {0, 1}
        BY <1>6, <3>2, <4>1
      <4> HIDE DEF i
      <4> QED
        BY <1>0, <2>4, <4>2, SlotsAre
    <3>5. u.slot[m] = t.slot[m]
      BY <1>4, <3>2, <3>3, <3>4
    <3> QED
      BY <3>1, <3>2, <3>5 DEF m
  <2> QED
    BY <2>1, <2>2, <2>3, <2>4
<1>11. ASSUME NEW m \in Nodes \ Prims(u)
       PROVE  u.parent[m] = NULL /\ \A i \in {0, 1} : u.at[<<m, i>>] = NULL
  <2>1. CASE m = c
    BY <1>2, <2>1
  <2>2. CASE m # c
    <3>1. m # r /\ m \in Nodes \ Prims(t)
      BY <1>8, <2>2
    <3>2. m \notin kids
      BY <1>6, <3>1
    <3>3. u.parent[m] = NULL
      BY <1>4, <2>2, <3>1, <3>2 DEF Linked
    <3>4. ASSUME NEW i \in {0, 1} PROVE u.at[<<m, i>>] = NULL
      <4> DEFINE s == <<m, i>>
      <4>1. s \in Slots /\ s[1] = m /\ t.at[s] = NULL
        BY <3>1, SlotsAre DEF Linked
      <4> HIDE DEF s
      <4>2. s # p
        BY <1>0, <4>1
      <4>3. u.at[s] = t.at[s]
        BY <1>5, <2>2, <3>1, <4>1, <4>2
      <4> QED
        BY <4>1, <4>3 DEF s
    <3> QED
      BY <3>3, <3>4
  <2> QED
    BY <2>1, <2>2
<1> QED
  BY <1>8, <1>9, <1>10, <1>11 DEF Linked

\* A node r fits in the place of c: the way there is its way as well, and its
\* key is between those above and the one of c.
Fits(t, depth, c, r) ==
    /\ Top(t.key[r], depth[c]) = Top(t.key[c], depth[c]) /\ t.key[r] <= t.key[c]
    /\ t.slot[c] # ROOT => t.key[t.slot[c][1]] < t.key[r]

\* r gets the depth of c.
Inherits(depth, new, c, r) ==
    /\ new \in [Nodes -> Depths] /\ new[r] = depth[c]
    /\ \A m \in Nodes : m # r => new[m] = depth[m]

\* Keys stay where their bits say.
LEMMA ReplacedDeep ==
    ASSUME NEW t, NEW depth, Deep(t, depth), NEW u \in Trees, NEW c \in Prims(t),
           NEW r \in Nodes \ Prims(t), Replaced(t, u, c, r), Fits(t, depth, c, r),
           \A m \in Prims(u) : u.key[m] = t.key[m],
           NEW new, Inherits(depth, new, c, r)
    PROVE  Deep(u, new) /\ Prims(u) = (Prims(t) \ {c}) \cup {r}
<1>0. t \in Trees /\ Linked(t) /\ depth \in [Nodes -> Depths] /\ c \in Nodes /\ c # r
  BY DEF Deep, Prims
<1>1. t.slot[c][1] # c
  <2>1. CASE t.slot[c] = ROOT
    BY <1>0, <2>1, SlotsAre
  <2>2. CASE t.slot[c] # ROOT
    <3> DEFINE p == t.slot[c][1]
    <3>1. depth[c] = depth[p] + 1 /\ depth[p] \in Depths
      BY <2>2, UnderIs
    <3>2. depth[p] \in Nat
      BY <3>1 DEF Depths
    <3> HIDE DEF p
    <3>3. p # c
      BY <3>1, <3>2
    <3> QED
      BY <3>3 DEF p
  <2> QED
    BY <2>1, <2>2
<1>2. Linked(u) /\ Prims(u) = (Prims(t) \ {c}) \cup {r}
  BY <1>0, <1>1, ReplacedLinked
<1>3. new \in [Nodes -> Depths] /\ new[r] = depth[c] /\ \A m \in Nodes : m # r => new[m] = depth[m]
  BY DEF Inherits
<1>4. \A m \in Nodes : t.key[m] \in Nat
  <2>1. \A m \in Nodes : t.key[m] \in Keys
    BY <1>0 DEF Trees
  <2> QED
    BY <2>1, NoBits
<1>5. ASSUME NEW m \in Prims(u), u.slot[m] # ROOT
      PROVE  Under(u, u.key, new, NULL, m)
  <2>0. m \in Nodes /\ m # NULL /\ u.key[m] = t.key[m]
    BY NodesAssumption DEF Prims
  <2>1. CASE m = r
    <3> DEFINE s == t.slot[c]
               p == s[1]
    <3>1. u.slot[m] = s /\ s # ROOT
      BY <1>5, <2>1 DEF Replaced
    <3>2. /\ p \in Prims(t) /\ p \in Nodes /\ depth[c] = depth[p] + 1
          /\ depth[c] \in 1 .. KeyBits /\ depth[c] - 1 = depth[p]
          /\ Top(t.key[c], depth[p]) = Top(t.key[p], depth[p])
          /\ BitAt(t.key[c], depth[c]) = s[2]
      BY <3>1, UnderIs
    <3>3. p # c /\ p # r
      BY <1>1, <3>2
    <3>4. new[p] = depth[p] /\ u.key[p] = t.key[p]
      BY <1>2, <1>3, <3>2, <3>3
    <3>5. Top(t.key[r], depth[c]) = Top(t.key[c], depth[c]) /\ t.key[p] < t.key[r]
      BY <3>1 DEF Fits
    <3> HIDE DEF s
    <3>6. t.key[r] \in Nat /\ t.key[c] \in Nat
      BY <1>0, <1>4
    <3>7. Top(t.key[r], depth[p]) = Top(t.key[c], depth[p])
          /\ BitAt(t.key[r], depth[c]) = BitAt(t.key[c], depth[c])
      BY <3>2, <3>5, <3>6, SharedBit
    <3>8. u.slot[m][1] = p /\ u.slot[m][2] = s[2] /\ u.key[m] = t.key[r] /\ new[m] = depth[c]
      BY <1>3, <2>0, <2>1, <3>1
    <3> HIDE DEF p
    <3> QED
      BY <3>2, <3>4, <3>5, <3>7, <3>8 DEF Under
  <2>2. CASE m # r /\ m \in Children(t, c)
    <3>0. m # c /\ m \in Prims(t)
      BY <1>2, <2>2
    <3>1. PICK j \in {0, 1} : m = Child(t, c, j)
      BY <2>2 DEF Children
    <3>2. /\ t.slot[m] = <<c, j>> /\ depth[c] \in Depths /\ depth[m] \in 1 .. KeyBits
          /\ depth[m] = depth[c] + 1 /\ depth[m] - 1 = depth[c]
          /\ Top(t.key[m], depth[c]) = Top(t.key[c], depth[c])
          /\ BitAt(t.key[m], depth[m]) = j /\ t.key[c] < t.key[m]
      BY <1>0, <2>0, <3>1, ChildUnder
    <3>3. u.slot[m] = <<r, t.slot[m][2]>>
      BY <2>0, <2>2, <3>0 DEF Replaced
    <3>4. u.slot[m][1] = r /\ u.slot[m][2] = j
      BY <3>2, <3>3
    <3>5. u.key[r] = t.key[r] /\ new[m] = depth[m] /\ new[r] = depth[c]
      BY <1>2, <1>3, <2>0, <2>2
    <3>6. t.key[r] < t.key[m] /\ Top(t.key[m], depth[c]) = Top(t.key[r], depth[c])
      <4>1. t.key[r] \in Nat /\ t.key[c] \in Nat /\ t.key[m] \in Nat
        BY <1>0, <1>4, <2>0
      <4> QED
        BY <3>2, <4>1 DEF Fits
    <3> QED
      BY <2>0, <3>2, <3>4, <3>5, <3>6 DEF Under
  <2>3. CASE m # r /\ m \notin Children(t, c)
    <3>0. m # c /\ m \in Prims(t)
      BY <1>2, <2>3
    <3>1. u.slot[m] = t.slot[m] /\ t.slot[m] # ROOT
      BY <1>5, <2>0, <2>3, <3>0 DEF Replaced
    <3> DEFINE p == t.slot[m][1]
               j == t.slot[m][2]
    <3>2. /\ p \in Prims(t) /\ p \in Nodes /\ depth[m] = depth[p] + 1
          /\ Top(t.key[m], depth[p]) = Top(t.key[p], depth[p])
          /\ BitAt(t.key[m], depth[m]) = j
          /\ t.key[p] < t.key[m] /\ Child(t, p, j) = m /\ j \in {0, 1}
      BY <3>0, <3>1, UnderIs
    <3>3. u.slot[m][1] = p /\ u.slot[m][2] = j
      BY <3>1
    <3> HIDE DEF p, j
    <3>4. p # c /\ p # r
      BY <2>0, <2>3, <3>2 DEF Children
    <3>5. u.key[p] = t.key[p] /\ new[p] = depth[p] /\ new[m] = depth[m]
      BY <1>2, <1>3, <2>0, <2>3, <3>2, <3>4
    <3> QED
      BY <2>0, <3>2, <3>3, <3>5 DEF Under
  <2> QED
    BY <2>1, <2>2, <2>3
<1>6. ASSUME NEW m \in Prims(u), u.slot[m] = ROOT PROVE new[m] = 0
  <2>0. m \in Nodes
    BY DEF Prims
  <2>1. CASE m = r
    <3>1. t.slot[c] = ROOT
      BY <1>6, <2>1 DEF Replaced
    <3> QED
      BY <1>3, <2>1, <3>1 DEF Deep, Placed
  <2>2. CASE m # r
    <3>1. m # c /\ m \in Prims(t)
      BY <1>2, <2>2
    <3>2. m \notin Children(t, c)
      <4>1. SUFFICES ASSUME m \in Children(t, c) PROVE FALSE
        OBVIOUS
      <4>2. u.slot[m] = <<r, t.slot[m][2]>>
        BY <2>0, <2>2, <3>1, <4>1 DEF Replaced
      <4>3. u.slot[m][1] = r /\ r # NULL
        BY <4>2, NodesAssumption
      <4> QED
        BY <1>6, <4>3, SlotsAre
    <3>3. t.slot[m] = ROOT
      BY <1>6, <2>0, <2>2, <3>1, <3>2 DEF Replaced
    <3>4. depth[m] = 0
      BY <3>1, <3>3 DEF Deep, Placed
    <3> QED
      BY <1>3, <2>0, <2>2, <3>4
  <2> QED
    BY <2>1, <2>2
<1>7. Placed(u, u.key, new, NULL)
  BY <1>5, <1>6 DEF Placed
<1> QED
  BY <1>2, <1>3, <1>7 DEF Deep

----------------------------------------------------------------------------
(***************************************************************************)
(* A node that sinks below its smaller child.                              *)
(***************************************************************************)

\* In u the child c of n, on side i, has the place of n in t, and n its.
Swapped(t, u, n, c, i) ==
    /\ u.slot[n] = <<c, i>> /\ u.slot[c] = t.slot[n]
    /\ u.parent[n] = c /\ u.parent[c] = t.parent[n]
    /\ \A m \in Nodes \ {n, c} :
          IF m = Child(t, n, 1 - i)
          THEN u.slot[m] = <<c, 1 - i>> /\ u.parent[m] = c
          ELSE IF m \in Children(t, c)
          THEN u.slot[m] = <<n, t.slot[m][2]>> /\ u.parent[m] = n
          ELSE u.slot[m] = t.slot[m] /\ u.parent[m] = t.parent[m]
    /\ u.at[t.slot[n]] = c /\ u.at[<<c, i>>] = n
    /\ u.at[<<c, 1 - i>>] = Child(t, n, 1 - i)
    /\ \A j \in {0, 1} : u.at[<<n, j>>] = Child(t, c, j)
    /\ \A s \in Slots : s # t.slot[n] /\ s[1] # n /\ s[1] # c => u.at[s] = t.at[s]

\* One bit and the other.
LEMMA OtherBit ==
    \A i \in {0, 1} : 1 - i \in {0, 1} /\ 1 - i # i /\ \A j \in {0, 1} : j = i \/ j = 1 - i
OBVIOUS

\* Who was whose child, for the pointers of the two and of their children.
LEMMA Kin ==
    ASSUME NEW t \in Trees, Linked(t), NEW n \in Nodes, NEW i \in {0, 1},
           NEW c, c = Child(t, n, i), c # NULL
    PROVE  /\ n \in Prims(t) /\ c \in Prims(t) /\ c \in Nodes /\ t.slot[c] = <<n, i>>
           /\ \A m \in Nodes : m = Child(t, n, 1 - i) =>
                 m \in Prims(t) /\ t.slot[m] = <<n, 1 - i>> /\ m # c
           /\ \A m \in Nodes, j \in {0, 1} : m = Child(t, c, j) =>
                 /\ m \in Prims(t) /\ t.slot[m] = <<c, j>> /\ m \in Children(t, c)
                 /\ t.slot[m][2] = j
           /\ \A m \in Children(t, c) : m \in Nodes /\ \E j \in {0, 1} : m = Child(t, c, j)
<1>0. \A m \in Nodes : m # NULL
  BY NodesAssumption
<1>1. n \in Prims(t) /\ c \in Prims(t) /\ c \in Nodes /\ t.slot[c] = <<n, i>>
  BY ChildIs
<1>2. ASSUME NEW m \in Nodes, m = Child(t, n, 1 - i)
      PROVE  m \in Prims(t) /\ t.slot[m] = <<n, 1 - i>> /\ m # c
  <2> DEFINE o == 1 - i
  <2>1. o \in {0, 1} /\ o # i
    BY OtherBit
  <2>2. m = Child(t, n, o)
    BY <1>2
  <2> HIDE DEF o
  <2>3. m \in Prims(t) /\ t.slot[m] = <<n, o>>
    BY <1>0, <2>1, <2>2, ChildIs
  <2>4. <<n, o>>[2] = o /\ <<n, i>>[2] = i
    OBVIOUS
  <2> QED
    BY <1>1, <2>1, <2>3, <2>4 DEF o
<1>3. ASSUME NEW m \in Nodes, NEW j \in {0, 1}, m = Child(t, c, j)
      PROVE  /\ m \in Prims(t) /\ t.slot[m] = <<c, j>> /\ m \in Children(t, c)
             /\ t.slot[m][2] = j
  <2>1. m \in Prims(t) /\ t.slot[m] = <<c, j>>
    BY <1>0, <1>1, <1>3, ChildIs
  <2>2. m \in Children(t, c)
    BY <1>0, <1>3 DEF Children
  <2> QED
    BY <2>1, <2>2
<1>4. ASSUME NEW m \in Children(t, c)
      PROVE  m \in Nodes /\ \E j \in {0, 1} : m = Child(t, c, j)
  <2>1. PICK j \in {0, 1} : m = Child(t, c, j) /\ m # NULL
    BY DEF Children
  <2>2. m \in Nodes
    BY <1>1, <2>1, ChildIs
  <2> QED
    BY <2>1, <2>2
<1> QED
  BY <1>1, <1>2, <1>3, <1>4

\* Pointers agree after it.
LEMMA SwappedLinked ==
    ASSUME NEW t \in Trees, NEW u \in Trees, Linked(t), NEW n \in Nodes, NEW i \in {0, 1},
           NEW c, c = Child(t, n, i), c # NULL, Swapped(t, u, n, c, i),
           t.slot[n][1] # n, t.slot[n][1] # c, c # n
    PROVE  Linked(u) /\ Prims(u) = Prims(t)
<1> DEFINE p == t.slot[n]
           o == Child(t, n, 1 - i)
           kids == Children(t, c)
           h == 1 - i
<1>0. h \in {0, 1} /\ h # i /\ (\A m \in Nodes : m # NULL) /\ \A j \in {0, 1} : j = i \/ j = h
  BY NodesAssumption, OtherBit
<1>1. n \in Prims(t) /\ c \in Prims(t) /\ c \in Nodes /\ t.slot[c] = <<n, i>>
  BY Kin
<1>2. p \in Slots /\ p # NOSLOT /\ t.at[p] = n
  BY <1>1, SlotsAre DEF Prims, Trees, Linked
<1>3. \A m \in Nodes : m = o => m \in Prims(t) /\ t.slot[m] = <<n, h>> /\ m # c
  BY Kin
<1>4. \A m \in Nodes, j \in {0, 1} : m = Child(t, c, j) =>
          m \in Prims(t) /\ t.slot[m] = <<c, j>> /\ m \in kids /\ t.slot[m][2] = j
  BY Kin
<1>5. \A m \in kids : m \in Nodes /\ \E j \in {0, 1} : m = Child(t, c, j)
  BY Kin
<1>6. /\ u.slot[n] = <<c, i>> /\ u.slot[c] = p /\ u.at[p] = c /\ u.at[<<c, i>>] = n
      /\ u.parent[n] = c /\ u.parent[c] = t.parent[n]
      /\ u.at[<<c, h>>] = o /\ \A j \in {0, 1} : u.at[<<n, j>>] = Child(t, c, j)
  BY DEF Swapped
<1>7. \A s \in Slots : s # p /\ s[1] # n /\ s[1] # c => u.at[s] = t.at[s]
  BY DEF Swapped
<1>8. o \in Nodes => o # n /\ o # c /\ o \notin kids
  <2>1. SUFFICES ASSUME o \in Nodes PROVE o # n /\ o # c /\ o \notin kids
    OBVIOUS
  <2>2. t.slot[o] = <<n, h>> /\ o # c
    BY <1>3, <2>1
  <2> HIDE DEF o
  <2>3. t.slot[o][1] = n
    BY <2>2
  <2>4. ASSUME o \in kids PROVE FALSE
    <3>1. PICK j \in {0, 1} : o = Child(t, c, j)
      BY <1>5, <2>4
    <3>2. t.slot[o] = <<c, j>>
      BY <1>4, <2>1, <3>1
    <3> QED
      BY <2>3, <3>2
  <2> QED
    BY <2>2, <2>3, <2>4
<1>9. ASSUME NEW m \in Nodes, m = o PROVE u.slot[m] = <<c, h>> /\ u.parent[m] = c
  <2>1. m \in Nodes \ {n, c} /\ m = Child(t, n, 1 - i)
    BY <1>8, <1>9
  <2> HIDE DEF o
  <2>2. u.slot[m] = <<c, 1 - i>> /\ u.parent[m] = c
    BY <2>1 DEF Swapped
  <2> QED
    BY <2>2
<1>10. ASSUME NEW m \in kids
       PROVE  /\ m \in Nodes /\ m # n /\ m # c /\ m # o
              /\ u.slot[m] = <<n, t.slot[m][2]>> /\ u.parent[m] = n
  <2>1. PICK j \in {0, 1} : m = Child(t, c, j)
    BY <1>5
  <2>2. m \in Nodes /\ t.slot[m] = <<c, j>>
    BY <1>4, <1>5, <2>1
  <2>3. t.slot[m][1] = c
    BY <2>2
  <2>4. m # n /\ m # c
    BY <1>1, <2>3
  <2>5. m # o
    BY <1>8, <2>2
  <2>6. m \in Nodes \ {n, c} /\ m # Child(t, n, 1 - i) /\ m \in Children(t, c)
    BY <2>2, <2>4, <2>5
  <2>7. u.slot[m] = <<n, t.slot[m][2]>> /\ u.parent[m] = n
    BY <2>6 DEF Swapped
  <2> QED
    BY <2>2, <2>4, <2>5, <2>7
<1>11. ASSUME NEW m \in Nodes, m # n, m # c, m # o, m \notin kids
       PROVE  u.slot[m] = t.slot[m] /\ u.parent[m] = t.parent[m]
  <2>1. m \in Nodes \ {n, c} /\ m # Child(t, n, 1 - i) /\ m \notin Children(t, c)
    BY <1>11
  <2> QED
    BY <2>1 DEF Swapped
<1>12. o \in Pointer /\ \A j \in {0, 1} : Child(t, c, j) \in Pointer /\ Child(t, n, j) \in Pointer
  <2>1. \A m \in Nodes, j \in {0, 1} : Child(t, m, j) \in Pointer
    BY SlotsAre DEF Child, Trees
  <2> QED
    BY <1>0, <1>1, <2>1
<1>13. ASSUME NEW m \in Nodes, m # n, m # c, m # o, m \notin kids, m \in Prims(t)
       PROVE  /\ t.slot[m] \in Slots /\ t.slot[m] # p /\ t.slot[m][1] # n /\ t.slot[m][1] # c
  <2> DEFINE s == t.slot[m]
  <2>1. t.at[s] = m /\ s \in Slots
    BY <1>13 DEF Linked, Prims, Trees
  <2>2. s # p
    BY <1>2, <1>13, <2>1
  <2>3. ASSUME s[1] \in {n, c} PROVE FALSE
    <3>1. s # ROOT
      BY <1>0, <1>1, <2>3, SlotsAre
    <3>2. s[2] \in {0, 1} /\ s = <<s[1], s[2]>>
      BY <2>1, <3>1, SlotsAre
    <3>3. m = Child(t, s[1], s[2])
      BY <2>1, <3>2 DEF Child
    <3> HIDE DEF s
    <3>4. CASE s[1] = c
      BY <1>4, <1>13, <3>2, <3>3, <3>4
    <3>5. CASE s[1] = n
      BY <1>0, <1>13, <3>2, <3>3, <3>5
    <3> QED
      BY <2>3, <3>4, <3>5
  <2> QED
    BY <2>1, <2>2, <2>3
<1>14. Prims(u) = Prims(t)
  <2>1. ASSUME NEW m \in Nodes PROVE m \in Prims(u) <=> m \in Prims(t)
    <3>1. CASE m = n
      BY <1>0, <1>1, <1>6, <3>1, SlotsAre DEF Prims
    <3>2. CASE m = c
      BY <1>1, <1>2, <1>6, <3>2 DEF Prims
    <3>3. CASE m # n /\ m # c /\ m = o
      <4>1. u.slot[m] = <<c, h>> /\ m \in Prims(t)
        BY <1>3, <1>9, <3>3
      <4> QED
        BY <1>0, <1>1, <4>1, SlotsAre DEF Prims
    <3>4. CASE m \in kids
      <4>1. PICK j \in {0, 1} : m = Child(t, c, j)
        BY <1>5, <3>4
      <4>2. m \in Prims(t) /\ t.slot[m][2] = j
        BY <1>4, <4>1
      <4>3. u.slot[m] = <<n, j>>
        BY <1>10, <3>4, <4>2
      <4> QED
        BY <4>2, <4>3, SlotsAre DEF Prims
    <3>5. CASE m # n /\ m # c /\ m # o /\ m \notin kids
      BY <1>11, <3>5 DEF Prims
    <3> QED
      BY <3>1, <3>2, <3>3, <3>4, <3>5
  <2>2. (\A m \in Prims(u) : m \in Nodes) /\ (\A m \in Prims(t) : m \in Nodes)
    BY DEF Prims
  <2> QED
    BY <2>1, <2>2
<1> HIDE DEF p, o, kids, h
<1>15. ASSUME NEW m \in Prims(u) PROVE u.at[u.slot[m]] = m /\ u.parent[m] = u.slot[m][1]
  <2>0. m \in Nodes /\ m \in Prims(t)
    BY <1>14 DEF Prims
  <2>1. CASE m = n
    BY <1>6, <2>1
  <2>2. CASE m = c
    BY <1>1, <1>6, <2>2 DEF Linked, p
  <2>3. CASE m = o
    BY <1>6, <1>9, <2>0, <2>3
  <2>4. CASE m \in kids
    <3>1. PICK j \in {0, 1} : m = Child(t, c, j)
      BY <1>5, <2>4
    <3>2. u.slot[m] = <<n, j>> /\ u.parent[m] = n
      BY <1>4, <1>10, <2>0, <2>4, <3>1
    <3> QED
      BY <1>6, <3>1, <3>2
  <2>5. CASE m # n /\ m # c /\ m # o /\ m \notin kids
    <3> DEFINE s == t.slot[m]
    <3>1. s \in Slots /\ s # p /\ s[1] # n /\ s[1] # c
      BY <1>13, <2>0, <2>5
    <3>2. u.slot[m] = s /\ u.parent[m] = t.parent[m]
      BY <1>11, <2>0, <2>5
    <3>3. t.at[s] = m /\ t.parent[m] = s[1]
      BY <2>0 DEF Linked
    <3> HIDE DEF s
    <3> QED
      BY <1>7, <3>1, <3>2, <3>3
  <2> QED
    BY <2>1, <2>2, <2>3, <2>4, <2>5
<1>16. ASSUME NEW s \in Slots, u.at[s] # NULL PROVE u.slot[u.at[s]] = s
  <2>1. CASE s = p
    BY <1>6, <2>1
  <2>2. CASE s # p /\ s[1] = n
    <3> DEFINE j == s[2]
    <3>1. j \in {0, 1} /\ s = <<n, j>>
      BY <1>0, <2>2, SlotsAre
    <3> HIDE DEF j
    <3> DEFINE m == Child(t, c, j)
    <3>2. u.at[s] = m /\ m \in Nodes
      BY <1>6, <1>12, <1>16, <3>1 DEF Pointer
    <3>3. m \in kids /\ t.slot[m][2] = j
      BY <1>4, <3>1, <3>2
    <3> HIDE DEF m
    <3> QED
      BY <1>10, <3>1, <3>2, <3>3
  <2>3. CASE s # p /\ s[1] = c
    <3> DEFINE j == s[2]
    <3>1. j \in {0, 1} /\ s = <<c, j>>
      BY <1>0, <1>1, <2>3, SlotsAre
    <3> HIDE DEF j
    <3>2. CASE j = i
      BY <1>6, <3>1, <3>2
    <3>3. CASE j = h
      <4>1. u.at[s] = o /\ o \in Nodes
        BY <1>6, <1>12, <1>16, <3>1, <3>3 DEF Pointer
      <4> QED
        BY <1>9, <3>1, <3>3, <4>1
    <3> QED
      BY <1>0, <3>1, <3>2, <3>3
  <2>4. CASE s # p /\ s[1] # n /\ s[1] # c
    <3> DEFINE m == t.at[s]
    <3>1. u.at[s] = m /\ m # NULL
      BY <1>7, <1>16, <2>4
    <3>2. m \in Prims(t) /\ m \in Nodes /\ t.slot[m] = s
      BY <3>1, Held
    <3> HIDE DEF m
    <3>3. m # n /\ m # c
      BY <1>1, <2>4, <3>2 DEF p
    <3>4. m # o
      <4>1. SUFFICES ASSUME m = o PROVE FALSE
        OBVIOUS
      <4>2. s = <<n, h>>
        BY <1>3, <3>2, <4>1
      <4> QED
        BY <2>4, <4>2
    <3>5. m \notin kids
      <4>1. SUFFICES ASSUME m \in kids PROVE FALSE
        OBVIOUS
      <4>2. PICK j \in {0, 1} : m = Child(t, c, j)
        BY <1>5, <4>1
      <4>3. s = <<c, j>>
        BY <1>4, <3>2, <4>2
      <4> QED
        BY <2>4, <4>3
    <3> QED
      BY <1>11, <3>1, <3>2, <3>3, <3>4, <3>5
  <2> QED
    BY <2>1, <2>2, <2>3, <2>4
<1>17. ASSUME NEW m \in Nodes \ Prims(u)
       PROVE  u.parent[m] = NULL /\ \A j \in {0, 1} : u.at[<<m, j>>] = NULL
  <2>1. m \notin Prims(t) /\ m # n /\ m # c
    BY <1>1, <1>14
  <2>2. m # o
    BY <1>3, <2>1
  <2>3. m \notin kids
    BY <1>4, <1>5, <2>1
  <2>4. u.parent[m] = NULL
    BY <1>11, <2>1, <2>2, <2>3 DEF Linked
  <2>5. ASSUME NEW j \in {0, 1} PROVE u.at[<<m, j>>] = NULL
    <3> DEFINE s == <<m, j>>
    <3>1. s \in Slots /\ s[1] = m /\ t.at[s] = NULL
      BY <2>1, SlotsAre DEF Linked
    <3> HIDE DEF s
    <3>2. s # p
      BY <1>0, <1>2, <3>1
    <3>3. u.at[s] = t.at[s]
      BY <1>7, <2>1, <3>1, <3>2
    <3> QED
      BY <3>1, <3>3 DEF s
  <2> QED
    BY <2>4, <2>5
<1> QED
  BY <1>14, <1>15, <1>16, <1>17 DEF Linked

\* A tree in which only x may be as small as its parent, by the keys K.
Loose(t, K, depth, x) ==
    /\ t \in Trees /\ Linked(t) /\ depth \in [Nodes -> Depths] /\ K \in [Nodes -> Keys]
    /\ Placed(t, K, depth, x)

\* A child in it.
LEMMA LooseChild ==
    ASSUME NEW t, NEW K, NEW depth, NEW x, Loose(t, K, depth, x),
           NEW p \in Nodes, NEW j \in {0, 1}, NEW m, m = Child(t, p, j), m # NULL
    PROVE  /\ m \in Prims(t) /\ p \in Prims(t) /\ m \in Nodes /\ t.slot[m] = <<p, j>>
           /\ depth[p] \in Depths /\ depth[m] \in 1 .. KeyBits
           /\ depth[m] = depth[p] + 1 /\ depth[m] - 1 = depth[p]
           /\ Top(K[m], depth[p]) = Top(K[p], depth[p])
           /\ BitAt(K[m], depth[m]) = j
           /\ K[p] \in Nat /\ K[m] \in Nat
           /\ K[p] < K[m] \/ (m = x /\ K[p] = K[m])
<1>1. m \in Prims(t) /\ p \in Prims(t) /\ m \in Nodes /\ t.slot[m] = <<p, j>>
  BY ChildIs DEF Loose
<1> DEFINE s == <<p, j>>
<1>2. s # ROOT /\ s[1] = p /\ s[2] = j
  BY SlotsAre
<1> HIDE DEF s
<1>3. t.slot[m] = s /\ t.slot[m] # ROOT
  BY <1>1, <1>2 DEF s
<1>4. Under(t, K, depth, x, m)
  BY <1>1, <1>3 DEF Loose, Placed
<1>5. /\ depth[m] = depth[p] + 1 /\ Top(K[m], depth[p]) = Top(K[p], depth[p])
      /\ BitAt(K[m], depth[m]) = j
      /\ K[p] < K[m] \/ (m = x /\ K[p] = K[m])
  BY <1>2, <1>3, <1>4 DEF Under
<1>6. depth[p] \in Depths /\ depth[m] \in Depths /\ K[p] \in Keys /\ K[m] \in Keys
  BY <1>1 DEF Loose
<1>7. depth[m] \in 1 .. KeyBits /\ depth[m] - 1 = depth[p]
  BY <1>5, <1>6, BitsAssumption DEF Depths
<1> QED
  BY <1>1, <1>5, <1>6, <1>7, NoBits

\* A primary in it that is not the root.
LEMMA LooseParent ==
    ASSUME NEW t, NEW K, NEW depth, NEW x, Loose(t, K, depth, x),
           NEW m \in Prims(t), t.slot[m] # ROOT
    PROVE  /\ t.slot[m][1] \in Nodes /\ t.slot[m][2] \in {0, 1} /\ m \in Nodes /\ m # NULL
           /\ m = Child(t, t.slot[m][1], t.slot[m][2])
           /\ t.slot[m] = <<t.slot[m][1], t.slot[m][2]>>
<1>1. t.slot[m][1] \in Nodes /\ t.slot[m][2] \in {0, 1} /\ m = Child(t, t.slot[m][1], t.slot[m][2])
      /\ t.slot[m] = <<t.slot[m][1], t.slot[m][2]>>
  BY ParentIs DEF Loose
<1>2. m \in Nodes
  BY DEF Prims
<1> QED
  BY <1>1, <1>2, NodesAssumption

\* A node, its child and the one above are three.
LEMMA LooseApart ==
    ASSUME NEW t, NEW K, NEW depth, NEW x, Loose(t, K, depth, x),
           NEW n \in Nodes, NEW i \in {0, 1}, NEW c, c = Child(t, n, i), c # NULL
    PROVE  c # n /\ t.slot[n][1] # n /\ t.slot[n][1] # c
<1> DEFINE s == t.slot[n]
<1>1. /\ c \in Nodes /\ n \in Prims(t) /\ depth[c] = depth[n] + 1 /\ depth[n] \in Depths
  BY LooseChild
<1>2. depth[n] \in Nat
  BY <1>1 DEF Depths
<1>3. CASE s = ROOT
  BY <1>1, <1>2, <1>3, NodesAssumption, SlotsAre
<1>4. CASE s # ROOT
  <2>1. s[1] \in Nodes /\ s[2] \in {0, 1} /\ n = Child(t, s[1], s[2]) /\ n # NULL
    BY <1>1, <1>4, LooseParent
  <2> DEFINE p == s[1]
  <2>2. depth[n] = depth[p] + 1 /\ depth[p] \in Depths
    <3> HIDE DEF s
    <3> QED
      BY <2>1, LooseChild
  <2>3. depth[p] \in Nat
    BY <2>2 DEF Depths
  <2> HIDE DEF p
  <2>4. p # n /\ p # c
    BY <1>1, <2>2, <2>3
  <2> QED
    BY <1>1, <1>2, <2>4 DEF p
<1> QED
  BY <1>3, <1>4

\* n and c change depths, and n counts as one of the key of c.
Exchanged(K, L, depth, new, n, c) ==
    /\ L \in [Nodes -> Keys] /\ L[n] = K[c]
    /\ \A m \in Nodes : m # n => L[m] = K[m]
    /\ new \in [Nodes -> Depths] /\ new[n] = depth[c] /\ new[c] = depth[n]
    /\ \A m \in Nodes : m # n /\ m # c => new[m] = depth[m]

\* The loose node goes below its smaller child, and from now on counts as one
\* that has the key of this child.
LEMMA SwappedLoose ==
    ASSUME NEW t, NEW K, NEW depth, NEW n \in Nodes, Loose(t, K, depth, n),
           NEW c, NEW i \in {0, 1}, c = Child(t, n, i), c # NULL,
           i = 0 \/ Child(t, n, 0) = NULL,
           NEW u \in Trees, Swapped(t, u, n, c, i),
           NEW L, NEW new, Exchanged(K, L, depth, new, n, c)
    PROVE  /\ Loose(u, L, new, n)
           /\ Prims(u) = Prims(t) /\ depth[c] = depth[n] + 1
<1> DEFINE s == t.slot[n]
<1>0. t \in Trees /\ Linked(t) /\ depth \in [Nodes -> Depths] /\ K \in [Nodes -> Keys]
      /\ \A m \in Nodes : m # NULL
  BY NodesAssumption DEF Loose
<1>1. /\ c \in Prims(t) /\ n \in Prims(t) /\ c \in Nodes /\ t.slot[c] = <<n, i>>
      /\ depth[n] \in Depths /\ depth[c] \in 1 .. KeyBits
      /\ depth[c] = depth[n] + 1 /\ depth[c] - 1 = depth[n]
      /\ Top(K[c], depth[n]) = Top(K[n], depth[n]) /\ BitAt(K[c], depth[c]) = i
      /\ K[n] \in Nat /\ K[c] \in Nat /\ (K[n] < K[c] \/ (c = n /\ K[n] = K[c]))
  BY LooseChild
<1>2. c # n /\ K[n] < K[c]
  <2>1. depth[n] \in Nat
    BY <1>1 DEF Depths
  <2> QED
    BY <1>1, <2>1
<1>3. s # ROOT =>
         /\ s[1] \in Nodes /\ s[2] \in {0, 1} /\ s = <<s[1], s[2]>> /\ s[1] \in Prims(t)
         /\ depth[s[1]] \in Depths /\ depth[n] = depth[s[1]] + 1 /\ depth[n] - 1 = depth[s[1]]
         /\ depth[n] \in 1 .. KeyBits
         /\ Top(K[n], depth[s[1]]) = Top(K[s[1]], depth[s[1]])
         /\ BitAt(K[n], depth[n]) = s[2] /\ K[s[1]] <= K[n] /\ K[s[1]] \in Nat
  <2>1. SUFFICES ASSUME s # ROOT
                 PROVE  /\ s[1] \in Nodes /\ s[2] \in {0, 1} /\ s = <<s[1], s[2]>>
                        /\ s[1] \in Prims(t)
                        /\ depth[s[1]] \in Depths /\ depth[n] = depth[s[1]] + 1
                        /\ depth[n] - 1 = depth[s[1]] /\ depth[n] \in 1 .. KeyBits
                        /\ Top(K[n], depth[s[1]]) = Top(K[s[1]], depth[s[1]])
                        /\ BitAt(K[n], depth[n]) = s[2] /\ K[s[1]] <= K[n] /\ K[s[1]] \in Nat
    OBVIOUS
  <2>2. s[1] \in Nodes /\ s[2] \in {0, 1} /\ n = Child(t, s[1], s[2]) /\ n # NULL
        /\ s = <<s[1], s[2]>>
    BY <1>1, <2>1, LooseParent
  <2> HIDE DEF s
  <2>3. /\ s[1] \in Prims(t)
        /\ depth[s[1]] \in Depths /\ depth[n] = depth[s[1]] + 1
        /\ depth[n] - 1 = depth[s[1]] /\ depth[n] \in 1 .. KeyBits
        /\ Top(K[n], depth[s[1]]) = Top(K[s[1]], depth[s[1]])
        /\ BitAt(K[n], depth[n]) = s[2] /\ K[s[1]] \in Nat
        /\ K[s[1]] < K[n] \/ (n = n /\ K[s[1]] = K[n])
    BY <2>2, LooseChild
  <2> QED
    BY <1>1, <2>2, <2>3
<1>4. s[1] # n /\ s[1] # c
  BY LooseApart
<1>5. Linked(u) /\ Prims(u) = Prims(t)
  BY <1>0, <1>2, <1>4, SwappedLinked
<1>6. /\ L \in [Nodes -> Keys] /\ L[n] = K[c] /\ L[c] = K[c]
      /\ \A m \in Nodes : m # n => L[m] = K[m]
  BY <1>1, <1>2 DEF Exchanged
<1>7. /\ new \in [Nodes -> Depths] /\ new[n] = depth[c] /\ new[c] = depth[n]
      /\ \A m \in Nodes : m # n /\ m # c => new[m] = depth[m]
  BY DEF Exchanged
<1>8. u.slot[n] = <<c, i>> /\ u.slot[c] = s
  BY DEF Swapped
<1>9. ASSUME NEW m \in Prims(u), u.slot[m] = ROOT PROVE new[m] = 0
  <2>0. m \in Nodes /\ m \in Prims(t)
    BY <1>5 DEF Prims
  <2>1. CASE m = n
    BY <1>0, <1>1, <1>8, <1>9, <2>1, SlotsAre
  <2>2. CASE m = c
    <3>1. depth[n] = 0
      BY <1>1, <1>8, <1>9, <2>2 DEF Loose, Placed
    <3> QED
      BY <1>7, <2>2, <3>1
  <2>3. CASE m # n /\ m # c
    <3>1. t.slot[m] = ROOT
      <4>1. u.slot[m] \in {<<c, 1 - i>>, <<n, t.slot[m][2]>>, t.slot[m]}
        BY <2>0, <2>3 DEF Swapped
      <4>2. <<c, 1 - i>>[1] = c /\ <<n, t.slot[m][2]>>[1] = n
        OBVIOUS
      <4>3. u.slot[m] # <<c, 1 - i>> /\ u.slot[m] # <<n, t.slot[m][2]>>
        BY <1>0, <1>1, <1>9, <4>2, SlotsAre
      <4> QED
        BY <1>9, <4>1, <4>3
    <3>2. depth[m] = 0
      BY <2>0, <3>1 DEF Loose, Placed
    <3> QED
      BY <1>7, <2>0, <2>3, <3>2
  <2> QED
    BY <2>1, <2>2, <2>3
<1>10. ASSUME NEW m \in Prims(u), u.slot[m] # ROOT
       PROVE  Under(u, L, new, n, m)
  <2>0. m \in Nodes /\ m \in Prims(t)
    BY <1>5 DEF Prims
  <2>1. CASE m = n
    <3>1. u.slot[m][1] = c /\ u.slot[m][2] = i
      BY <1>8, <2>1
    <3>2. /\ new[m] = new[c] + 1 /\ Top(L[m], new[c]) = Top(L[c], new[c])
          /\ BitAt(L[m], new[m]) = i /\ m = n /\ L[c] = L[m]
      BY <1>1, <1>6, <1>7, <2>1
    <3> QED
      BY <3>1, <3>2 DEF Under
  <2>2. CASE m = c
    <3>0. s # ROOT /\ u.slot[m] = s
      BY <1>8, <1>10, <2>2
    <3> DEFINE p == s[1]
    <3>1. new[p] = depth[p] /\ L[p] = K[p] /\ new[m] = depth[n] /\ L[m] = K[c]
      BY <1>3, <1>4, <1>6, <1>7, <2>2, <3>0
    <3>2. Top(K[c], depth[n] - 1) = Top(K[n], depth[n] - 1)
          /\ BitAt(K[c], depth[n]) = BitAt(K[n], depth[n])
      BY <1>1, <1>3, <3>0, SharedBit
    <3>3. K[p] < K[c]
      BY <1>1, <1>2, <1>3, <3>0
    <3>4. /\ depth[n] = depth[p] + 1 /\ Top(K[c], depth[p]) = Top(K[p], depth[p])
          /\ BitAt(K[c], depth[n]) = s[2]
      BY <1>3, <3>0, <3>2
    <3>5. u.slot[m][1] = p /\ u.slot[m][2] = s[2]
      BY <3>0
    <3> HIDE DEF p, s
    <3> QED
      BY <3>1, <3>3, <3>4, <3>5 DEF Under
  <2>3. CASE m # n /\ m # c /\ m = Child(t, n, 1 - i)
    <3> DEFINE h == 1 - i
    <3>0. h \in {0, 1} /\ h # i /\ m # NULL
      BY <1>0, <2>0, OtherBit
    <3>1. i = 0 /\ h = 1
      <4>1. Child(t, n, h) # NULL
        BY <2>3, <3>0
      <4>2. i = 1 => h = 0
        OBVIOUS
      <4> HIDE DEF h
      <4> QED
        BY <3>0, <4>1, <4>2
    <3>2. m = Child(t, n, 1)
      BY <2>3, <3>1
    <3>3. /\ depth[m] \in 1 .. KeyBits /\ depth[m] = depth[n] + 1
          /\ Top(K[m], depth[n]) = Top(K[n], depth[n]) /\ BitAt(K[m], depth[m]) = 1
          /\ K[m] \in Nat
      BY <3>0, <3>2, LooseChild
    <3>4. u.slot[m] = <<c, 1 - i>>
      BY <2>0, <2>3 DEF Swapped
    <3>5. u.slot[m][1] = c /\ u.slot[m][2] = 1
      BY <3>1, <3>4
    <3>6. depth[m] = depth[c] /\ Top(K[c], depth[c] - 1) = Top(K[m], depth[c] - 1)
          /\ BitAt(K[c], depth[c]) = 0 /\ BitAt(K[m], depth[c]) = 1
      BY <1>1, <3>1, <3>3
    <3>7. Top(K[c], depth[c]) < Top(K[m], depth[c])
      BY <1>1, <3>3, <3>6, NextBit
    <3>8. depth[c] \in Depths
      BY <1>1, <1>0
    <3>9. K[c] < K[m]
      BY <1>1, <3>3, <3>7, <3>8, TopOrder
    <3>10. /\ new[m] = depth[m] /\ new[c] = depth[n] /\ L[m] = K[m] /\ L[c] = K[c]
      BY <1>6, <1>7, <2>0, <2>3
    <3> QED
      BY <1>1, <3>3, <3>5, <3>9, <3>10 DEF Under
  <2>4. CASE m # n /\ m # c /\ m # Child(t, n, 1 - i) /\ m \in Children(t, c)
    <3>1. PICK j \in {0, 1} : m = Child(t, c, j)
      BY <2>4 DEF Children
    <3>2. /\ t.slot[m] = <<c, j>> /\ depth[m] = depth[c] + 1
          /\ Top(K[m], depth[c]) = Top(K[c], depth[c]) /\ BitAt(K[m], depth[m]) = j
          /\ K[c] < K[m]
      BY <1>0, <1>1, <2>0, <2>4, <3>1, LooseChild
    <3>3. u.slot[m] = <<n, t.slot[m][2]>>
      BY <2>0, <2>4 DEF Swapped
    <3>4. u.slot[m][1] = n /\ u.slot[m][2] = j
      BY <3>2, <3>3
    <3>5. /\ new[m] = depth[m] /\ new[n] = depth[c] /\ L[m] = K[m] /\ L[n] = K[c]
      BY <1>6, <1>7, <2>0, <2>4
    <3> QED
      BY <3>2, <3>4, <3>5 DEF Under
  <2>5. CASE m # n /\ m # c /\ m # Child(t, n, 1 - i) /\ m \notin Children(t, c)
    <3>1. u.slot[m] = t.slot[m] /\ t.slot[m] # ROOT
      BY <1>10, <2>0, <2>5 DEF Swapped
    <3> DEFINE p == t.slot[m][1]
               j == t.slot[m][2]
    <3>2. p \in Nodes /\ j \in {0, 1} /\ m = Child(t, p, j) /\ m # NULL
          /\ u.slot[m][1] = p /\ u.slot[m][2] = j
      BY <2>0, <3>1, LooseParent
    <3> HIDE DEF p, j
    <3>3. /\ depth[m] = depth[p] + 1 /\ Top(K[m], depth[p]) = Top(K[p], depth[p])
          /\ BitAt(K[m], depth[m]) = j
          /\ K[p] < K[m] \/ (m = n /\ K[p] = K[m])
      BY <3>2, LooseChild
    <3>4. p # c
      BY <2>5, <3>2 DEF Children
    <3>5. p # n
      <4>1. SUFFICES ASSUME p = n PROVE FALSE
        OBVIOUS
      <4>2. j = i \/ j = 1 - i
        BY <3>2, OtherBit
      <4> QED
        BY <2>5, <3>2, <4>1, <4>2
    <3>6. /\ new[m] = depth[m] /\ new[p] = depth[p] /\ L[m] = K[m] /\ L[p] = K[p]
      BY <1>6, <1>7, <2>0, <2>5, <3>2, <3>4, <3>5
    <3> QED
      BY <2>5, <3>2, <3>3, <3>6 DEF Under
  <2> QED
    BY <2>1, <2>2, <2>3, <2>4, <2>5
<1>11. Placed(u, L, new, n)
  BY <1>9, <1>10 DEF Placed
<1> QED
  BY <1>1, <1>5, <1>6, <1>7, <1>11 DEF Loose

----------------------------------------------------------------------------
(***************************************************************************)
(* The operations do these things.                                         *)
(***************************************************************************)

\* All slots have a side.
LEMMA Sides == \A s \in Slots \cup {NOSLOT} : s[2] \in {0, 1}
BY DEF Slots, ROOT, NOSLOT

\* u differs from t in links only.
SameRings(t, u) == u.next = t.next /\ u.prev = t.prev /\ u.key = t.key

\* The slot of a primary is in another one.
LEMMA SlotAbove ==
    ASSUME NEW t, NEW depth, Deep(t, depth), NEW c \in Prims(t)
    PROVE  /\ t.slot[c] \in Slots /\ t.slot[c][1] # c /\ t.slot[c] # NOSLOT
           /\ \A r \in Nodes \ Prims(t) : t.slot[c][1] # r
<1>1. t.slot[c] \in Slots /\ c \in Nodes /\ c # NULL /\ t.slot[c] # NOSLOT
  BY NodesAssumption DEF Deep, Prims, Trees
<1>2. CASE t.slot[c] = ROOT
  BY <1>1, <1>2, SlotsAre
<1>3. CASE t.slot[c] # ROOT
  <2> DEFINE p == t.slot[c][1]
  <2>1. depth[c] = depth[p] + 1 /\ depth[p] \in Depths /\ p \in Prims(t)
    BY <1>3, UnderIs
  <2>2. depth[p] \in Nat
    BY <2>1 DEF Depths
  <2> HIDE DEF p
  <2>3. p # c
    BY <2>1, <2>2
  <2> QED
    BY <1>1, <2>1, <2>3 DEF p
<1> QED
  BY <1>2, <1>3

\* v is t with r in the place of c, where c still points into the tree.
TakesPlace(t, v, c, r) ==
    /\ v.slot[r] = t.slot[c] /\ v.parent[r] = t.parent[c]
    /\ \A m \in Nodes \ {r} :
          IF m \in Children(t, c)
          THEN v.slot[m] = <<r, t.slot[m][2]>> /\ v.parent[m] = r
          ELSE v.slot[m] = t.slot[m] /\ v.parent[m] = t.parent[m]
    /\ \A s \in Slots :
          v.at[s] = IF s = t.slot[c] THEN r
                    ELSE IF s[1] = r THEN t.at[<<c, s[2]>>] ELSE t.at[s]

\* What radixTreeReplaceNode does, pointer by pointer.
LEMMA ReplaceNodeIs ==
    ASSUME NEW t, NEW depth, Deep(t, depth), NEW c \in Prims(t), NEW r \in Nodes \ Prims(t),
           NEW v, v = radixTreeReplaceNode(t, c, r)
    PROVE  v \in Trees /\ SameRings(t, v) /\ TakesPlace(t, v, c, r)
<1> DEFINE a(s) == CASE s = t.slot[c] -> r
                     [] s[1] = r      -> t.at[<<c, s[2]>>]
                     [] OTHER         -> t.at[s]
           p(n) == CASE n = r              -> t.parent[c]
                     [] n \in Children(t, c) -> r
                     [] OTHER              -> t.parent[n]
           q(n) == CASE n = r              -> t.slot[c]
                     [] n \in Children(t, c) -> <<r, t.slot[n][2]>>
                     [] OTHER              -> t.slot[n]
           A == [s \in Slots |-> a(s)]
           P == [n \in Nodes |-> p(n)]
           Q == [n \in Nodes |-> q(n)]
<1>0. t \in Trees /\ Linked(t) /\ c \in Nodes /\ t.slot[c][1] # r /\ r \notin Children(t, c)
  <2>1. t \in Trees /\ Linked(t) /\ c \in Nodes /\ t.slot[c][1] # r
    BY SlotAbove DEF Deep, Prims
  <2>2. ASSUME r \in Children(t, c) PROVE FALSE
    <3>1. PICK j \in {0, 1} : r = Child(t, c, j) /\ r # NULL
      BY <2>2 DEF Children
    <3> QED
      BY <2>1, <3>1, ChildIs
  <2> QED
    BY <2>1, <2>2
<1>1. v = [t EXCEPT !.slot = Q, !.parent = P, !.at = A]
  BY DEF radixTreeReplaceNode
<1>2. ASSUME NEW s \in Slots
      PROVE  a(s) = IF s = t.slot[c] THEN r
                    ELSE IF s[1] = r THEN t.at[<<c, s[2]>>] ELSE t.at[s]
  <2>1. CASE s = t.slot[c]
    BY <1>0, <2>1
  <2>2. CASE s # t.slot[c] /\ s[1] = r
    BY <2>2
  <2>3. CASE s # t.slot[c] /\ s[1] # r
    BY <2>3
  <2> QED
    BY <2>1, <2>2, <2>3
<1>3. ASSUME NEW m \in Nodes
      PROVE  /\ m = r => q(m) = t.slot[c] /\ p(m) = t.parent[c]
             /\ m # r /\ m \in Children(t, c) => q(m) = <<r, t.slot[m][2]>> /\ p(m) = r
             /\ m # r /\ m \notin Children(t, c) => q(m) = t.slot[m] /\ p(m) = t.parent[m]
  BY <1>0
<1> HIDE DEF a, p, q
<1>4. A \in [Slots -> Pointer]
  <2>1. ASSUME NEW s \in Slots PROVE a(s) \in Pointer
    <3>1. <<c, s[2]>> \in Slots
      BY <1>0, Sides, SlotsAre
    <3> QED
      BY <1>0, <1>2, <3>1 DEF Trees, Pointer
  <2> QED
    BY <2>1
<1>5. P \in [Nodes -> Pointer]
  BY <1>0, <1>3 DEF Trees, Pointer
<1>6. Q \in [Nodes -> Slots \cup {NOSLOT}]
  <2>1. ASSUME NEW m \in Nodes PROVE q(m) \in Slots \cup {NOSLOT}
    <3>1. t.slot[m] \in Slots \cup {NOSLOT} /\ t.slot[c] \in Slots \cup {NOSLOT}
      BY <1>0 DEF Trees
    <3>2. <<r, t.slot[m][2]>> \in Slots
      BY <3>1, Sides, SlotsAre
    <3> QED
      BY <1>3, <3>1, <3>2
  <2> QED
    BY <2>1
<1>7. (\A s \in Slots : A[s] = a(s)) /\ \A m \in Nodes : P[m] = p(m) /\ Q[m] = q(m)
  OBVIOUS
<1> HIDE DEF A, P, Q
<1>8. v \in Trees /\ SameRings(t, v) /\ v.at = A /\ v.parent = P /\ v.slot = Q
  BY <1>0, <1>1, <1>4, <1>5, <1>6 DEF Trees, SameRings
<1>9. ASSUME NEW s \in Slots
      PROVE  v.at[s] = IF s = t.slot[c] THEN r
                       ELSE IF s[1] = r THEN t.at[<<c, s[2]>>] ELSE t.at[s]
  BY <1>2, <1>7, <1>8
<1>10. ASSUME NEW m \in Nodes \ {r}
       PROVE  IF m \in Children(t, c)
              THEN v.slot[m] = <<r, t.slot[m][2]>> /\ v.parent[m] = r
              ELSE v.slot[m] = t.slot[m] /\ v.parent[m] = t.parent[m]
  BY <1>3, <1>7, <1>8
<1>11. v.slot[r] = t.slot[c] /\ v.parent[r] = t.parent[c]
  BY <1>3, <1>7, <1>8
<1> QED
  BY <1>8, <1>9, <1>10, <1>11 DEF TakesPlace

\* u is v with the links of c cleared.
Detached(v, u, c) ==
    /\ u.slot[c] = NOSLOT /\ u.parent[c] = NULL
    /\ \A m \in Nodes : m # c => u.slot[m] = v.slot[m] /\ u.parent[m] = v.parent[m]
    /\ \A s \in Slots : u.at[s] = IF s[1] = c THEN NULL ELSE v.at[s]

\* What Detach does.
LEMMA DetachIs ==
    ASSUME NEW v \in Trees, NEW c \in Nodes, NEW u, u = Detach(v, c)
    PROVE  u \in Trees /\ SameRings(v, u) /\ Detached(v, u, c)
<1> DEFINE A == [s \in Slots |-> IF s[1] = c THEN NULL ELSE v.at[s]]
           P == [v.parent EXCEPT ![c] = NULL]
           Q == [v.slot EXCEPT ![c] = NOSLOT]
<1>1. u = [v EXCEPT !.at = A, !.slot[c] = NOSLOT, !.parent[c] = NULL]
  BY DEF Detach
<1>2. A \in [Slots -> Pointer] /\ \A s \in Slots : A[s] = IF s[1] = c THEN NULL ELSE v.at[s]
  BY DEF Trees, Pointer
<1> HIDE DEF A
<1>3. u.at = A /\ u.slot = Q /\ u.parent = P /\ SameRings(v, u)
  BY <1>1 DEF SameRings, Trees
<1>4. /\ P \in [Nodes -> Pointer] /\ Q \in [Nodes -> Slots \cup {NOSLOT}]
      /\ P[c] = NULL /\ Q[c] = NOSLOT
      /\ \A m \in Nodes : m # c => Q[m] = v.slot[m] /\ P[m] = v.parent[m]
  BY DEF Trees, Pointer
<1>5. u = [v EXCEPT !.at = A, !.slot = Q, !.parent = P]
  BY <1>1 DEF Trees
<1> HIDE DEF P, Q
<1>6. u \in Trees
  BY <1>2, <1>4, <1>5 DEF Trees
<1> QED
  BY <1>2, <1>3, <1>4, <1>6 DEF Detached

\* When a node has taken the place of another whose links are cleared then, it
\* has replaced it.
LEMMA PlaceTaken ==
    ASSUME NEW t, NEW depth, Deep(t, depth), NEW c \in Prims(t), NEW r \in Nodes \ Prims(t),
           NEW v, TakesPlace(t, v, c, r), NEW u, Detached(v, u, c)
    PROVE  Replaced(t, u, c, r)
<1>0. t \in Trees /\ Linked(t) /\ c \in Nodes /\ c # r
  BY DEF Deep, Prims
<1>1. t.slot[c] \in Slots /\ t.slot[c][1] # c /\ t.slot[c][1] # r
  BY SlotAbove
<1>2. \A i \in {0, 1} : u.at[<<r, i>>] = t.at[<<c, i>>] /\ u.at[<<c, i>>] = NULL
  <2>1. ASSUME NEW i \in {0, 1} PROVE u.at[<<r, i>>] = t.at[<<c, i>>] /\ u.at[<<c, i>>] = NULL
    <3> DEFINE x == <<r, i>>
               y == <<c, i>>
    <3>1. x \in Slots /\ y \in Slots /\ x[1] = r /\ x[2] = i /\ y[1] = c
      BY <1>0, SlotsAre
    <3>2. y = <<c, x[2]>>
      OBVIOUS
    <3> HIDE DEF x, y
    <3>3. u.at[y] = NULL /\ u.at[x] = v.at[x]
      BY <1>0, <3>1 DEF Detached
    <3>4. v.at[x] = t.at[y]
      BY <1>1, <3>1, <3>2 DEF TakesPlace
    <3> QED
      BY <3>3, <3>4 DEF x, y
  <2> QED
    BY <2>1
<1>3. u.at[t.slot[c]] = r
  BY <1>1 DEF TakesPlace, Detached
<1>4. \A s \in Slots : s # t.slot[c] /\ s[1] # r /\ s[1] # c => u.at[s] = t.at[s]
  BY DEF TakesPlace, Detached
<1>5. ASSUME NEW m \in Nodes \ {c, r}
      PROVE  IF m \in Children(t, c)
             THEN u.slot[m] = <<r, t.slot[m][2]>> /\ u.parent[m] = r
             ELSE u.slot[m] = t.slot[m] /\ u.parent[m] = t.parent[m]
  <2>1. u.slot[m] = v.slot[m] /\ u.parent[m] = v.parent[m] /\ m \in Nodes \ {r}
    BY DEF Detached
  <2> QED
    BY <2>1 DEF TakesPlace
<1>6. u.slot[r] = t.slot[c] /\ u.parent[r] = t.parent[c]
  BY <1>0 DEF TakesPlace, Detached
<1>7. u.slot[c] = NOSLOT /\ u.parent[c] = NULL
  BY DEF Detached
<1> QED
  BY <1>2, <1>3, <1>4, <1>5, <1>6, <1>7 DEF Replaced

\* What insert does with a node it displaces.
LEMMA DisplaceIs ==
    ASSUME NEW t, NEW depth, Deep(t, depth), NEW c \in Prims(t), NEW r \in Nodes \ Prims(t),
           NEW u, u = Detach(radixTreeReplaceNode(t, c, r), c)
    PROVE  u \in Trees /\ SameRings(t, u) /\ Replaced(t, u, c, r)
<1> DEFINE v == radixTreeReplaceNode(t, c, r)
<1>1. v \in Trees /\ SameRings(t, v) /\ TakesPlace(t, v, c, r)
  BY ReplaceNodeIs
<1>2. u = Detach(v, c) /\ c \in Nodes
  BY DEF Prims
<1> HIDE DEF v
<1>3. u \in Trees /\ SameRings(v, u) /\ Detached(v, u, c)
  BY <1>1, <1>2, DetachIs
<1>4. Replaced(t, u, c, r)
  BY <1>1, <1>3, PlaceTaken
<1> QED
  BY <1>1, <1>3, <1>4 DEF SameRings

\* Of a node, its children and their children, no two are the same.
LEMMA KinDiffer ==
    ASSUME NEW t \in Trees, Linked(t), NEW n \in Nodes, NEW i \in {0, 1},
           NEW c, c = Child(t, n, i), c # NULL, c # n,
           t.slot[n][1] # n, t.slot[n][1] # c
    PROVE  /\ n \notin Children(t, c) /\ c \notin Children(t, c)
           /\ Child(t, n, 1 - i) \in Nodes =>
                 /\ Child(t, n, 1 - i) # c /\ Child(t, n, 1 - i) \notin Children(t, c)
                 /\ Child(t, n, 1 - i) # n
<1> DEFINE o == Child(t, n, 1 - i)
<1>1. /\ n \in Prims(t) /\ c \in Prims(t) /\ c \in Nodes /\ t.slot[c] = <<n, i>>
      /\ \A m \in Nodes : m = o => m \in Prims(t) /\ t.slot[m] = <<n, 1 - i>> /\ m # c
      /\ \A m \in Nodes, j \in {0, 1} : m = Child(t, c, j) =>
            /\ m \in Prims(t) /\ t.slot[m] = <<c, j>> /\ m \in Children(t, c)
            /\ t.slot[m][2] = j
      /\ \A m \in Children(t, c) : m \in Nodes /\ \E j \in {0, 1} : m = Child(t, c, j)
  BY Kin
<1> HIDE DEF o
<1>2. \A m \in Children(t, c) : m \in Nodes /\ t.slot[m][1] = c
  <2>1. SUFFICES ASSUME NEW m \in Children(t, c) PROVE m \in Nodes /\ t.slot[m][1] = c
    OBVIOUS
  <2>2. PICK j \in {0, 1} : m \in Nodes /\ m = Child(t, c, j)
    BY <1>1
  <2>3. t.slot[m] = <<c, j>>
    BY <1>1, <2>2
  <2> QED
    BY <2>2, <2>3
<1>3. t.slot[c][1] = n
  BY <1>1
<1>4. ASSUME NEW m \in Nodes, m = o PROVE t.slot[m][1] = n /\ m # c
  <2>1. t.slot[m] = <<n, 1 - i>> /\ m # c
    BY <1>1, <1>4
  <2> QED
    BY <2>1
<1>5. o \in Nodes => o # c /\ o \notin Children(t, c) /\ o # n
  BY <1>2, <1>4
<1> QED
  BY <1>2, <1>3, <1>5 DEF o

\* What radixTreeSwapParentWithChild does to n and its child c.
LEMMA SwapIs ==
    ASSUME NEW t \in Trees, Linked(t), NEW n \in Nodes, NEW i \in {0, 1},
           NEW c, c = Child(t, n, i), c # NULL,
           t.slot[n][1] # n, t.slot[n][1] # c, c # n,
           NEW u, u = radixTreeSwapParentWithChild(t, n, c)
    PROVE  u \in Trees /\ SameRings(t, u) /\ Swapped(t, u, n, c, i)
<1> DEFINE h == 1 - i
           o == Child(t, n, h)
           kids == Children(t, c)
           q(m) == CASE m = n    -> <<c, i>>
                     [] m = c    -> t.slot[n]
                     [] m = o    -> <<c, h>>
                     [] m \in kids -> <<n, t.slot[m][2]>>
                     [] OTHER    -> t.slot[m]
           p(m) == CASE m = n    -> c
                     [] m = c    -> t.parent[n]
                     [] m = o    -> c
                     [] m \in kids -> n
                     [] OTHER    -> t.parent[m]
           a(s) == CASE s = t.slot[n] -> c
                     [] s = <<c, i>>  -> n
                     [] s = <<c, h>>  -> o
                     [] s[1] = n      -> t.at[<<c, s[2]>>]
                     [] OTHER         -> t.at[s]
           A == [s \in Slots |-> a(s)]
           P == [m \in Nodes |-> p(m)]
           Q == [m \in Nodes |-> q(m)]
<1>1. n \in Prims(t) /\ c \in Prims(t) /\ c \in Nodes /\ t.slot[c] = <<n, i>>
  BY Kin
<1>2. h \in {0, 1} /\ h # i /\ \A j \in {0, 1} : j = i \/ j = h
  BY OtherBit
<1>3. t.slot[n] \in Slots /\ t.slot[n] # NOSLOT /\ (\A m \in Nodes : m # NULL)
  BY <1>1, NodesAssumption DEF Prims, Trees
<1>4. n \notin kids /\ c \notin kids /\ (o \in Nodes => o # c /\ o \notin kids /\ o # n)
  BY KinDiffer
<1>5. (IF Child(t, n, 1) = c THEN 1 ELSE 0) = i
  <2>1. CASE i = 1
    BY <2>1
  <2>2. CASE i = 0
    <3>1. SUFFICES ASSUME Child(t, n, 1) = c PROVE FALSE
      BY <2>2
    <3>2. Child(t, n, 1) \in Nodes /\ 1 - i = 1
      BY <1>1, <2>2, <3>1
    <3>3. o = c
      BY <3>1, <3>2
    <3> HIDE DEF o
    <3> QED
      BY <1>1, <1>4, <3>3
  <2> QED
    BY <2>1, <2>2
<1>6. u = [t EXCEPT !.slot = Q, !.parent = P, !.at = A]
  <2> DEFINE I == IF Child(t, n, 1) = c THEN 1 ELSE 0
  <2>1. I = i
    BY <1>5
  <2>2. u = [t EXCEPT
           !.slot = [m \in Nodes |->
                       CASE m = n         -> <<c, I>>
                         [] m = c         -> t.slot[n]
                         [] m = Child(t, n, 1 - I) -> <<c, 1 - I>>
                         [] m \in Children(t, c) -> <<n, t.slot[m][2]>>
                         [] OTHER         -> t.slot[m]],
           !.parent = [m \in Nodes |->
                         CASE m = n       -> c
                           [] m = c       -> t.parent[n]
                           [] m = Child(t, n, 1 - I) -> c
                           [] m \in Children(t, c) -> n
                           [] OTHER       -> t.parent[m]],
           !.at = [s \in Slots |->
                     CASE s = t.slot[n]   -> c
                       [] s = <<c, I>>    -> n
                       [] s = <<c, 1 - I>> -> Child(t, n, 1 - I)
                       [] s[1] = n        -> t.at[<<c, s[2]>>]
                       [] OTHER           -> t.at[s]]]
    BY DEF radixTreeSwapParentWithChild
  <2> HIDE DEF I
  <2> QED
    BY <2>1, <2>2
<1>7. ASSUME NEW m \in Nodes
      PROVE  /\ m = n => q(m) = <<c, i>> /\ p(m) = c
             /\ m = c => q(m) = t.slot[n] /\ p(m) = t.parent[n]
             /\ m # n /\ m # c /\ m = o => q(m) = <<c, h>> /\ p(m) = c
             /\ m # n /\ m # c /\ m # o /\ m \in kids => q(m) = <<n, t.slot[m][2]>> /\ p(m) = n
             /\ m # n /\ m # c /\ m # o /\ m \notin kids => q(m) = t.slot[m] /\ p(m) = t.parent[m]
  <2> HIDE DEF o, kids, h
  <2>1. CASE m = n
    BY <1>4, <2>1
  <2>2. CASE m = c
    BY <1>4, <2>2
  <2>3. CASE m # n /\ m # c /\ m = o
    BY <1>4, <2>3
  <2>4. CASE m # n /\ m # c /\ m # o /\ m \in kids
    BY <2>4
  <2>5. CASE m # n /\ m # c /\ m # o /\ m \notin kids
    BY <2>5
  <2> QED
    BY <2>1, <2>2, <2>3, <2>4, <2>5
<1>8. <<c, i>> \in Slots /\ <<c, h>> \in Slots /\ <<c, i>> # <<c, h>>
      /\ \A j \in {0, 1} : <<c, j>>[1] = c /\ <<n, j>>[1] = n /\ <<n, j>>[2] = j /\ <<n, j>> \in Slots
  BY <1>1, <1>2, SlotsAre
<1>9. /\ a(t.slot[n]) = c /\ a(<<c, i>>) = n /\ a(<<c, h>>) = o
      /\ \A j \in {0, 1} : a(<<n, j>>) = Child(t, c, j)
      /\ \A s \in Slots : s # t.slot[n] /\ s[1] # n /\ s[1] # c => a(s) = t.at[s]
  <2> HIDE DEF o, kids, h
  <2>1. <<c, i>> # t.slot[n] /\ <<c, h>> # t.slot[n]
    BY <1>2, <1>8
  <2>2. a(t.slot[n]) = c
    BY <2>1
  <2>3. a(<<c, i>>) = n
    BY <1>2, <1>8, <2>1
  <2>4. a(<<c, h>>) = o
    BY <1>2, <1>8, <2>1
  <2>5. ASSUME NEW j \in {0, 1} PROVE a(<<n, j>>) = Child(t, c, j)
    <3> DEFINE s == <<n, j>>
    <3>1. s[1] = n /\ s[2] = j
      OBVIOUS
    <3>2. s # t.slot[n] /\ s # <<c, i>> /\ s # <<c, h>>
      BY <3>1
    <3> HIDE DEF s
    <3>3. a(s) = t.at[<<c, s[2]>>]
      BY <3>1, <3>2
    <3>4. a(s) = Child(t, c, j)
      BY <3>1, <3>3 DEF Child
    <3> QED
      BY <3>4 DEF s
  <2>6. ASSUME NEW s \in Slots, s # t.slot[n], s[1] # n, s[1] # c PROVE a(s) = t.at[s]
    <3>1. s # <<c, i>> /\ s # <<c, h>>
      BY <1>2, <1>8, <2>6
    <3> QED
      BY <2>6, <3>1
  <2> QED
    BY <2>2, <2>3, <2>4, <2>5, <2>6
<1> HIDE DEF a, p, q
<1>10. ASSUME NEW m \in Nodes, NEW j \in {0, 1} PROVE Child(t, m, j) \in Pointer
  <2>1. <<m, j>> \in Slots
    BY SlotsAre
  <2> QED
    BY <2>1 DEF Child, Trees
<1>11. A \in [Slots -> Pointer]
  <2>1. ASSUME NEW s \in Slots PROVE a(s) \in Pointer
    <3>1. CASE s = t.slot[n]
      BY <1>1, <1>9, <3>1 DEF Pointer
    <3>2. CASE s[1] \in {n, c}
      <4>1. s # ROOT
        BY <1>1, <1>3, <3>2, SlotsAre
      <4> DEFINE j == s[2]
      <4>2. j \in {0, 1} /\ s = <<s[1], j>>
        BY <4>1, SlotsAre
      <4> HIDE DEF j
      <4>3. CASE s[1] = n
        BY <1>1, <1>9, <1>10, <4>2, <4>3
      <4>4. CASE s[1] = c
        <5>1. o \in Pointer /\ n \in Pointer
          BY <1>2, <1>10 DEF Pointer
        <5> HIDE DEF o, h
        <5> QED
          BY <1>2, <1>9, <4>2, <4>4, <5>1
      <4> QED
        BY <3>2, <4>3, <4>4
    <3>3. CASE s # t.slot[n] /\ s[1] # n /\ s[1] # c
      <4>1. a(s) = t.at[s]
        BY <1>9, <3>3
      <4> QED
        BY <4>1 DEF Trees
    <3> QED
      BY <3>1, <3>2, <3>3
  <2> QED
    BY <2>1
<1>12. P \in [Nodes -> Pointer] /\ Q \in [Nodes -> Slots \cup {NOSLOT}]
  <2>1. ASSUME NEW m \in Nodes PROVE p(m) \in Pointer /\ q(m) \in Slots \cup {NOSLOT}
    <3>1. t.slot[m] \in Slots \cup {NOSLOT} /\ t.parent[m] \in Pointer /\ t.parent[n] \in Pointer
      BY DEF Trees
    <3>2. <<n, t.slot[m][2]>> \in Slots
      BY <3>1, Sides, SlotsAre
    <3>3. c \in Pointer /\ n \in Pointer
      BY <1>1 DEF Pointer
    <3> HIDE DEF o, kids, h
    <3> QED
      BY <1>3, <1>7, <1>8, <3>1, <3>2, <3>3
  <2> QED
    BY <2>1
<1>13. (\A s \in Slots : A[s] = a(s)) /\ \A m \in Nodes : P[m] = p(m) /\ Q[m] = q(m)
  OBVIOUS
<1> HIDE DEF A, P, Q
<1>14. u \in Trees /\ SameRings(t, u) /\ u.at = A /\ u.parent = P /\ u.slot = Q
  BY <1>6, <1>11, <1>12 DEF Trees, SameRings
<1>15. ASSUME NEW m \in Nodes \ {n, c}
       PROVE  IF m = Child(t, n, 1 - i)
              THEN u.slot[m] = <<c, 1 - i>> /\ u.parent[m] = c
              ELSE IF m \in Children(t, c)
              THEN u.slot[m] = <<n, t.slot[m][2]>> /\ u.parent[m] = n
              ELSE u.slot[m] = t.slot[m] /\ u.parent[m] = t.parent[m]
  <2>1. IF m = o THEN u.slot[m] = <<c, h>> /\ u.parent[m] = c
        ELSE IF m \in kids THEN u.slot[m] = <<n, t.slot[m][2]>> /\ u.parent[m] = n
        ELSE u.slot[m] = t.slot[m] /\ u.parent[m] = t.parent[m]
    <3> HIDE DEF o, kids, h
    <3>1. u.slot[m] = q(m) /\ u.parent[m] = p(m) /\ m \in Nodes /\ m # n /\ m # c
      BY <1>13, <1>14
    <3>2. /\ m = o => q(m) = <<c, h>> /\ p(m) = c
          /\ m # o /\ m \in kids => q(m) = <<n, t.slot[m][2]>> /\ p(m) = n
          /\ m # o /\ m \notin kids => q(m) = t.slot[m] /\ p(m) = t.parent[m]
      BY <1>7, <3>1
    <3> QED
      BY <3>1, <3>2
  <2> QED
    BY <2>1
<1>16. u.slot[n] = <<c, i>> /\ u.slot[c] = t.slot[n] /\ u.parent[n] = c /\ u.parent[c] = t.parent[n]
  BY <1>1, <1>7, <1>13, <1>14
<1>17. /\ u.at[t.slot[n]] = c /\ u.at[<<c, i>>] = n /\ u.at[<<c, h>>] = o
       /\ \A j \in {0, 1} : u.at[<<n, j>>] = Child(t, c, j)
       /\ \A s \in Slots : s # t.slot[n] /\ s[1] # n /\ s[1] # c => u.at[s] = t.at[s]
  <2> HIDE DEF o, h
  <2> QED
    BY <1>3, <1>8, <1>9, <1>13, <1>14
<1>18. u.at[<<c, 1 - i>>] = Child(t, n, 1 - i)
  BY <1>17
<1> QED
  BY <1>14, <1>15, <1>16, <1>17, <1>18 DEF Swapped

\* A turn of PushDown.
Sink(u, n) ==
    IF Children(u, n) = {} THEN u
    ELSE radixTreeSwapParentWithChild(u, n, SmallerChild(u, n))

\* n has sunk by i turns at least, or is a leaf.
Sinking(t, n, u, i) ==
    /\ u \in Trees /\ SameRings(t, u) /\ Prims(u) = Prims(t)
    /\ \E K \in [Nodes -> Keys], depth \in [Nodes -> Depths] :
          /\ Loose(u, K, depth, n) /\ \A m \in Nodes : m # n => K[m] = t.key[m]
          /\ Children(u, n) = {} \/ depth[n] >= i

\* The child that PushDown takes.
LEMMA SmallerIs ==
    ASSUME NEW u \in Trees, NEW n \in Nodes, Children(u, n) # {}
    PROVE  \E i \in {0, 1} : /\ SmallerChild(u, n) = Child(u, n, i) /\ Child(u, n, i) # NULL
                             /\ i = 0 \/ Child(u, n, 0) = NULL
<1>1. CASE Child(u, n, 0) # NULL
  BY <1>1 DEF SmallerChild
<1>2. CASE Child(u, n, 0) = NULL
  <2>1. Child(u, n, 1) # NULL
    BY <1>2 DEF Children
  <2> QED
    BY <1>2, <2>1 DEF SmallerChild
<1> QED
  BY <1>1, <1>2

\* Each turn takes it one down.
LEMMA SinksOne ==
    ASSUME NEW t, NEW n \in Nodes, NEW u, NEW i \in Nat, Sinking(t, n, u, i)
    PROVE  Sinking(t, n, Sink(u, n), i + 1)
<1>1. PICK K \in [Nodes -> Keys], depth \in [Nodes -> Depths] :
         /\ Loose(u, K, depth, n) /\ \A m \in Nodes : m # n => K[m] = t.key[m]
         /\ Children(u, n) = {} \/ depth[n] >= i
  BY DEF Sinking
<1>2. u \in Trees /\ Linked(u) /\ SameRings(t, u) /\ Prims(u) = Prims(t)
  BY <1>1 DEF Sinking, Loose
<1>3. CASE Children(u, n) = {}
  <2>1. Sink(u, n) = u
    BY <1>3 DEF Sink
  <2> QED
    BY <1>1, <1>2, <1>3, <2>1 DEF Sinking
<1>4. CASE Children(u, n) # {}
  <2> DEFINE c == SmallerChild(u, n)
             v == radixTreeSwapParentWithChild(u, n, c)
  <2>1. PICK j \in {0, 1} : /\ c = Child(u, n, j) /\ c # NULL
                            /\ j = 0 \/ Child(u, n, 0) = NULL
    BY <1>2, <1>4, SmallerIs
  <2>2. Sink(u, n) = v
    BY <1>4 DEF Sink
  <2> HIDE DEF c
  <2>3. c # n /\ u.slot[n][1] # n /\ u.slot[n][1] # c
    BY <1>1, <2>1, LooseApart
  <2>4. v \in Trees /\ SameRings(u, v) /\ Swapped(u, v, n, c, j)
    BY <1>2, <2>1, <2>3, SwapIs
  <2> HIDE DEF v
  <2> DEFINE L == [K EXCEPT ![n] = K[c]]
             new == [depth EXCEPT ![c] = depth[n], ![n] = depth[c]]
  <2>5. c \in Nodes /\ K \in [Nodes -> Keys] /\ depth \in [Nodes -> Depths]
    BY <1>2, <2>1, Kin
  <2>6. Exchanged(K, L, depth, new, n, c)
    BY <2>3, <2>5 DEF Exchanged
  <2> HIDE DEF L, new
  <2>7. Loose(v, L, new, n) /\ Prims(v) = Prims(u) /\ depth[c] = depth[n] + 1
    BY <1>1, <2>1, <2>4, <2>6, SwappedLoose
  <2>8. /\ L \in [Nodes -> Keys] /\ new \in [Nodes -> Depths]
        /\ new[n] = depth[c] /\ \A m \in Nodes : m # n => L[m] = K[m]
    BY <2>6 DEF Exchanged
  <2>9. new[n] >= i + 1
    <3>1. depth[n] \in Nat
      BY DEF Depths
    <3> QED
      BY <1>1, <1>4, <2>7, <2>8, <3>1
  <2>10. \A m \in Nodes : m # n => L[m] = t.key[m]
    BY <1>1, <2>8
  <2>11. SameRings(t, v) /\ Prims(v) = Prims(t)
    BY <1>2, <2>4, <2>7 DEF SameRings
  <2>12. Sinking(t, n, v, i + 1)
    BY <2>4, <2>7, <2>8, <2>9, <2>10, <2>11 DEF Sinking
  <2> QED
    BY <2>2, <2>12
<1> QED
  BY <1>3, <1>4

\* In the end it is a leaf.
LEMMA PushDownIs ==
    ASSUME NEW t, NEW depth, Deep(t, depth), NEW n \in Prims(t)
    PROVE  Sinking(t, n, PushDown(t, n), KeyBits) /\ Children(PushDown(t, n), n) = {}
<1> DEFINE Turn(u) == Sink(u, n)
           D == {u \in Trees : Sinking(t, n, u, 0)}
           E(f) == [i \in 0 .. KeyBits |-> IF i = 0 THEN t ELSE Turn(f[i - 1])]
           step == [i \in 1 .. KeyBits |-> [u \in D |-> Turn(u)]]
           g == CHOOSE f : f = E(f)
<1>0. KeyBits \in Nat /\ n \in Nodes /\ t \in Trees
  BY BitsAssumption DEF Prims, Deep
<1>1. PushDown(t, n) = g[KeyBits]
  BY DEF PushDown, Sink
<1>2. Sinking(t, n, t, 0)
  <2>1. t.key \in [Nodes -> Keys] /\ depth \in [Nodes -> Depths] /\ SameRings(t, t)
    BY DEF Deep, Trees, SameRings
  <2>2. \A m \in Prims(t) : m # NULL
    BY PrimsAre
  <2>3. Placed(t, t.key, depth, n)
    BY <2>2 DEF Deep, Placed, Under
  <2>4. Loose(t, t.key, depth, n)
    BY <2>1, <2>3 DEF Deep, Loose
  <2>5. depth[n] >= 0
    BY <1>0, <2>1 DEF Depths
  <2> QED
    BY <1>0, <2>1, <2>4, <2>5 DEF Sinking
<1>3. ASSUME NEW u, NEW i \in Nat, Sinking(t, n, u, i) PROVE u \in D
  <2>1. u \in Trees /\ SameRings(t, u) /\ Prims(u) = Prims(t)
    BY <1>3 DEF Sinking
  <2>2. PICK K \in [Nodes -> Keys], new \in [Nodes -> Depths] :
           /\ Loose(u, K, new, n) /\ \A m \in Nodes : m # n => K[m] = t.key[m]
    BY <1>3 DEF Sinking
  <2>3. new[n] >= 0
    BY <1>0 DEF Depths
  <2>4. Sinking(t, n, u, 0)
    BY <2>1, <2>2, <2>3 DEF Sinking
  <2> QED
    BY <2>1, <2>4
<1>4. ASSUME NEW u \in D PROVE Turn(u) \in D
  <2>1. Sinking(t, n, u, 0)
    OBVIOUS
  <2>2. Sinking(t, n, Sink(u, n), 0 + 1)
    BY <1>0, <2>1, SinksOne
  <2> HIDE DEF D
  <2>3. 0 + 1 \in Nat
    OBVIOUS
  <2> QED
    BY <1>3, <2>2, <2>3
<1>5. step \in [1 .. KeyBits -> [D -> D]]
  BY <1>4
<1>6. t \in D
  BY <1>0, <1>2
<1> HIDE DEF Turn, D
<1>7. PICK f \in [0 .. KeyBits -> D] : TurnsTo(f, t, step, KeyBits)
  <2> HIDE DEF step
  <2> QED
    BY <1>0, <1>5, <1>6, TurnsExist
<1>8. f = E(f)
  <2>1. ASSUME NEW i \in 0 .. KeyBits PROVE f[i] = E(f)[i]
    <3>1. CASE i = 0
      BY <1>7, <3>1 DEF TurnsTo
    <3>2. CASE i # 0
      <4>1. i \in 1 .. KeyBits /\ i - 1 \in 0 .. KeyBits
        BY <1>0, <3>2
      <4>2. f[i] = step[i][f[i - 1]]
        BY <1>7, <3>2 DEF TurnsTo
      <4> QED
        BY <3>2, <4>1, <4>2
    <3> QED
      BY <3>1, <3>2
  <2> QED
    BY <2>1
<1> HIDE DEF E
<1>9. g = E(g)
  BY <1>8
<1> HIDE DEF g
<1>10. g[0] = t
  <2>1. 0 \in 0 .. KeyBits
    BY <1>0
  <2> QED
    BY <1>9, <2>1 DEF E
<1>11. ASSUME NEW i \in 1 .. KeyBits PROVE g[i] = Turn(g[i - 1])
  <2>1. i \in 0 .. KeyBits /\ i # 0
    BY <1>0
  <2> QED
    BY <1>9, <2>1 DEF E
<1>12. Sinking(t, n, g[KeyBits], KeyBits)
  <2> DEFINE S == {i \in Nat : Sinking(t, n, g[i], i)}
  <2>1. 0 \in S
    BY <1>2, <1>10
  <2>2. ASSUME NEW i \in 1 .. KeyBits, i - 1 \in S PROVE i \in S
    <3>1. i - 1 \in Nat /\ i \in Nat /\ (i - 1) + 1 = i /\ Sinking(t, n, g[i - 1], i - 1)
      BY <2>2
    <3>2. Sinking(t, n, Sink(g[i - 1], n), (i - 1) + 1)
      BY <1>0, <3>1, SinksOne
    <3>3. g[i] = Sink(g[i - 1], n)
      BY <1>11 DEF Turn
    <3> QED
      BY <3>1, <3>2, <3>3
  <2>3. S \in SUBSET Nat
    OBVIOUS
  <2> HIDE DEF S
  <2>4. \A i \in 0 .. KeyBits : i \in S
    BY <1>0, <2>1, <2>2, <2>3, UpThrough
  <2>5. KeyBits \in S
    BY <1>0, <2>4
  <2> QED
    BY <2>5 DEF S
<1> DEFINE u == PushDown(t, n)
<1>13. Sinking(t, n, u, KeyBits)
  BY <1>1, <1>12
<1> HIDE DEF u
<1>14. Children(u, n) = {}
  <2>1. SUFFICES ASSUME Children(u, n) # {} PROVE FALSE
    OBVIOUS
  <2>2. PICK K \in [Nodes -> Keys], new \in [Nodes -> Depths] :
           Loose(u, K, new, n) /\ new[n] >= KeyBits
    BY <1>13, <2>1 DEF Sinking
  <2>3. PICK j \in {0, 1} : Child(u, n, j) # NULL
    BY <2>1 DEF Children
  <2> DEFINE m == Child(u, n, j)
  <2>4. new[m] = new[n] + 1 /\ new[m] \in 1 .. KeyBits /\ new[n] \in Depths
    BY <1>0, <2>2, <2>3, LooseChild
  <2> QED
    BY <1>0, <2>2, <2>4 DEF Depths
<1> QED
  BY <1>13, <1>14 DEF u

----------------------------------------------------------------------------
(***************************************************************************)
(* Remove.                                                                 *)
(***************************************************************************)

\* What Remove leaves of v when n is taken out of the model's sight.
Erase(v, n) == [Fresh(v, n, 0) EXCEPT !.next[n] = NULL, !.prev[n] = NULL]

\* u is v without anything of n.
Erased(v, u, n) ==
    /\ u \in Trees /\ Detached(v, u, n) /\ u.next[n] = NULL
    /\ \A m \in Nodes : m # n => /\ u.next[m] = v.next[m] /\ u.prev[m] = v.prev[m]
                                 /\ u.key[m] = v.key[m]

\* What Fresh makes of n, under the key k.
Renewed(v, u, n, k) ==
    /\ u \in Trees /\ Detached(v, u, n) /\ u.next[n] = n /\ u.prev[n] = n /\ u.key[n] = k
    /\ \A m \in Nodes : m # n => /\ u.next[m] = v.next[m] /\ u.prev[m] = v.prev[m]
                                 /\ u.key[m] = v.key[m]

\* Zero is a key.
LEMMA ZeroIsKey == 0 \in Keys
<1>1. 2 ^ KeyBits \in Nat \ {0}
  BY BitsAssumption, PowerType
<1> DEFINE P == 2 ^ KeyBits
<1>2. P \in Nat \ {0}
  BY <1>1
<1>3. Keys = 0 .. (P - 1)
  BY DEF Keys
<1> HIDE DEF P
<1> QED
  BY <1>2, <1>3

\* Fresh makes a ring of one, without links.
LEMMA FreshIs ==
    ASSUME NEW v \in Trees, NEW n \in Nodes, NEW k \in Keys
    PROVE  Renewed(v, Fresh(v, n, k), n, k)
<1> DEFINE A == [s \in Slots |-> IF s[1] = n THEN NULL ELSE v.at[s]]
           P == [v.parent EXCEPT ![n] = NULL]
           Q == [v.slot EXCEPT ![n] = NOSLOT]
           X == [v.next EXCEPT ![n] = n]
           Y == [v.prev EXCEPT ![n] = n]
           Z == [v.key EXCEPT ![n] = k]
           u == Fresh(v, n, k)
<1>1. u = [v EXCEPT !.at = A, !.slot = Q, !.parent = P, !.next = X, !.prev = Y, !.key = Z]
  BY DEF Fresh, Trees
<1>2. A \in [Slots -> Pointer] /\ \A s \in Slots : A[s] = IF s[1] = n THEN NULL ELSE v.at[s]
  BY DEF Trees, Pointer
<1>3. /\ P \in [Nodes -> Pointer] /\ Q \in [Nodes -> Slots \cup {NOSLOT}]
      /\ P[n] = NULL /\ Q[n] = NOSLOT
      /\ \A m \in Nodes : m # n => Q[m] = v.slot[m] /\ P[m] = v.parent[m]
  BY DEF Trees, Pointer
<1>4. /\ X \in [Nodes -> Pointer] /\ Y \in [Nodes -> Pointer] /\ Z \in [Nodes -> Keys]
      /\ X[n] = n /\ Y[n] = n /\ Z[n] = k
      /\ \A m \in Nodes : m # n => X[m] = v.next[m] /\ Y[m] = v.prev[m] /\ Z[m] = v.key[m]
  BY DEF Trees, Pointer
<1> HIDE DEF A, P, Q, X, Y, Z
<1>5. /\ u.at = A /\ u.slot = Q /\ u.parent = P /\ u.next = X /\ u.prev = Y /\ u.key = Z
      /\ u \in Trees
  BY <1>1, <1>2, <1>3, <1>4 DEF Trees
<1> HIDE DEF u
<1>6. Detached(v, u, n)
  BY <1>2, <1>3, <1>5 DEF Detached
<1>7. Renewed(v, u, n, k)
  BY <1>4, <1>5, <1>6 DEF Renewed
<1> QED
  BY <1>7 DEF u

\* Erase leaves nothing of n.
LEMMA EraseIs ==
    ASSUME NEW v \in Trees, NEW n \in Nodes
    PROVE  Erased(v, Erase(v, n), n)
<1> DEFINE w == Fresh(v, n, 0)
           u == Erase(v, n)
           X == [w.next EXCEPT ![n] = NULL]
           Y == [w.prev EXCEPT ![n] = NULL]
<1>1. Renewed(v, w, n, 0)
  BY ZeroIsKey, FreshIs
<1>2. u = [w EXCEPT !.next[n] = NULL, !.prev[n] = NULL]
  BY DEF Erase
<1> HIDE DEF w
<1>3. w \in Trees
  BY <1>1 DEF Renewed
<1>4. u = [w EXCEPT !.next = X, !.prev = Y]
  BY <1>2, <1>3 DEF Trees
<1>5. /\ X \in [Nodes -> Pointer] /\ Y \in [Nodes -> Pointer] /\ X[n] = NULL
      /\ \A m \in Nodes : m # n => X[m] = w.next[m] /\ Y[m] = w.prev[m]
  BY <1>3 DEF Trees, Pointer
<1> HIDE DEF u, X, Y
<1>6. u \in Trees /\ u.next = X /\ u.prev = Y
      /\ u.at = w.at /\ u.slot = w.slot /\ u.parent = w.parent /\ u.key = w.key
  BY <1>3, <1>4, <1>5 DEF Trees
<1>7. Detached(v, u, n)
  BY <1>1, <1>6 DEF Renewed, Detached
<1>8. \A m \in Nodes : m # n => /\ u.next[m] = v.next[m] /\ u.prev[m] = v.prev[m]
                                /\ u.key[m] = v.key[m]
  BY <1>1, <1>5, <1>6 DEF Renewed
<1>9. Erased(v, u, n)
  BY <1>5, <1>6, <1>7, <1>8 DEF Erased
<1> QED
  BY <1>9 DEF u

\* w has the links of v.
SameLinks(v, w) == w.at = v.at /\ w.slot = v.slot /\ w.parent = v.parent

\* w has the ring of n in v closed without n.
Skipped(v, w, n) ==
    /\ SameLinks(v, w) /\ w.key = v.key
    /\ \A m \in Nodes :
          /\ w.next[m] = IF m = v.prev[n] THEN v.next[n] ELSE v.next[m]
          /\ w.prev[m] = IF m = v.next[n] THEN v.prev[n] ELSE v.prev[m]

\* What radixListRemove does.
LEMMA ListRemoveIs ==
    ASSUME NEW v \in Trees, NEW n \in Nodes, v.next[n] \in Nodes, v.prev[n] \in Nodes
    PROVE  radixListRemove(v, n) \in Trees /\ Skipped(v, radixListRemove(v, n), n)
<1> DEFINE w == radixListRemove(v, n)
           X == [v.next EXCEPT ![v.prev[n]] = v.next[n]]
           Y == [v.prev EXCEPT ![v.next[n]] = v.prev[n]]
<1>1. w = [v EXCEPT !.prev = Y, !.next = X]
  BY DEF radixListRemove, Trees
<1>2. /\ X \in [Nodes -> Pointer] /\ Y \in [Nodes -> Pointer]
      /\ \A m \in Nodes :
            /\ X[m] = IF m = v.prev[n] THEN v.next[n] ELSE v.next[m]
            /\ Y[m] = IF m = v.next[n] THEN v.prev[n] ELSE v.prev[m]
  BY DEF Trees, Pointer
<1> HIDE DEF w, X, Y
<1>3. w \in Trees /\ SameLinks(v, w) /\ w.key = v.key /\ w.next = X /\ w.prev = Y
  BY <1>1, <1>2 DEF Trees, SameLinks
<1>4. w \in Trees /\ Skipped(v, w, n)
  BY <1>2, <1>3 DEF Skipped
<1> QED
  BY <1>4 DEF w

\* Taken out of the ring and erased, n leaves the others in theirs.
LEMMA RingSkips ==
    ASSUME NEW t, Rings(t), NEW v \in Trees, SameRings(t, v), NEW n \in In(t),
           NEW w, Skipped(v, w, n), NEW u, Erased(w, u, n)
    PROVE  RingLess(t, u, n)
<1>1. /\ \A m \in In(t) : /\ t.next[m] \in In(t) /\ t.prev[m] \in In(t)
                          /\ t.prev[t.next[m]] = m /\ t.next[t.prev[m]] = m
      /\ n \in Nodes /\ n # NULL
  BY NodesAssumption DEF Rings, In
<1>2. \A m \in Nodes : m # n =>
         /\ u.next[m] = IF m = t.prev[n] THEN t.next[n] ELSE t.next[m]
         /\ u.prev[m] = IF m = t.next[n] THEN t.prev[n] ELSE t.prev[m]
         /\ u.key[m] = t.key[m]
  BY <1>1 DEF Erased, Skipped, SameRings
<1>3. ASSUME NEW m \in Nodes PROVE m = t.prev[n] <=> t.next[m] = n
  <2>1. CASE m \in In(t)
    BY <1>1, <2>1
  <2>2. CASE m \notin In(t)
    BY <1>1, <2>2 DEF In
  <2> QED
    BY <2>1, <2>2
<1>4. ASSUME NEW m \in In(t) PROVE m = t.next[n] <=> t.prev[m] = n
  BY <1>1
<1>5. \A m \in In(t) : m \in Nodes
  BY DEF In
<1>6. u.next[n] = NULL
  BY DEF Erased
<1> QED
  BY <1>2, <1>3, <1>4, <1>5, <1>6 DEF RingLess

\* A ring of one goes as a whole.
LEMMA RingGoes ==
    ASSUME NEW t, Rings(t), NEW n \in In(t), t.next[n] = n,
           NEW w, SameRings(t, w), NEW u, Erased(w, u, n)
    PROVE  RingLess(t, u, n)
<1>1. /\ \A m \in In(t) : /\ t.next[m] \in In(t) /\ t.prev[m] \in In(t)
                          /\ t.prev[t.next[m]] = m /\ t.next[t.prev[m]] = m
      /\ n \in Nodes /\ n # NULL
  BY NodesAssumption DEF Rings, In
<1>2. \A m \in Nodes : m # n =>
         u.next[m] = t.next[m] /\ u.prev[m] = t.prev[m] /\ u.key[m] = t.key[m]
  BY <1>1 DEF Erased, SameRings
<1>3. ASSUME NEW m \in Nodes, m # n PROVE t.next[m] # n
  <2>1. CASE m \in In(t)
    BY <1>1, <1>3, <2>1
  <2>2. CASE m \notin In(t)
    BY <1>1, <2>2 DEF In
  <2> QED
    BY <2>1, <2>2
<1>4. ASSUME NEW m \in In(t), m # n PROVE t.prev[m] # n
  BY <1>1, <1>4
<1>5. \A m \in In(t) : m \in Nodes
  BY DEF In
<1>6. u.next[n] = NULL
  BY DEF Erased
<1> QED
  BY <1>2, <1>3, <1>4, <1>5, <1>6 DEF RingLess

\* A leaf that is loose can go.
LEMMA LeafGoes ==
    ASSUME NEW v, NEW K, NEW depth, NEW n \in Prims(v), Loose(v, K, depth, n),
           \A m \in Nodes : m # n => K[m] = v.key[m], Children(v, n) = {},
           NEW w, w.slot = v.slot, w.parent = v.parent,
           \A s \in Slots : w.at[s] = IF s = v.slot[n] THEN NULL ELSE v.at[s],
           NEW u, Erased(w, u, n), \A m \in Nodes : m # n => u.key[m] = v.key[m]
    PROVE  Deep(u, depth) /\ Prims(u) = Prims(v) \ {n}
<1>0. v \in Trees /\ Linked(v) /\ n \in Nodes /\ depth \in [Nodes -> Depths] /\ u \in Trees
      /\ \A m \in Nodes : m # NULL
  BY NodesAssumption DEF Loose, Prims, Erased
<1>1. /\ u.slot[n] = NOSLOT /\ u.parent[n] = NULL
      /\ \A m \in Nodes : m # n => u.slot[m] = v.slot[m] /\ u.parent[m] = v.parent[m]
  BY DEF Erased, Detached
<1>2. \A s \in Slots : u.at[s] = IF s[1] = n \/ s = v.slot[n] THEN NULL ELSE v.at[s]
  BY DEF Erased, Detached
<1>3. Prims(u) = Prims(v) \ {n}
  BY <1>0, <1>1 DEF Prims
<1>4. ASSUME NEW m \in Prims(v), m # n
      PROVE  /\ m \in Nodes /\ v.slot[m] \in Slots /\ v.slot[m] # v.slot[n] /\ v.slot[m][1] # n
             /\ v.at[v.slot[m]] = m /\ v.parent[m] = v.slot[m][1]
  <2>1. m \in Nodes /\ v.slot[m] \in Slots /\ v.at[v.slot[m]] = m /\ v.parent[m] = v.slot[m][1]
    BY <1>0 DEF Prims, Linked, Trees
  <2>2. v.slot[m] # v.slot[n]
    BY <1>0, <1>4, <2>1 DEF Linked
  <2>3. v.slot[m][1] # n
    <3>1. SUFFICES ASSUME v.slot[m][1] = n PROVE FALSE
      OBVIOUS
    <3>2. v.slot[m] # ROOT
      BY <1>0, <3>1, SlotsAre
    <3>3. v.slot[m][2] \in {0, 1} /\ m = Child(v, n, v.slot[m][2])
      BY <1>0, <3>1, <3>2, LooseParent
    <3> QED
      BY <1>0, <2>1, <3>3 DEF Children
  <2> QED
    BY <2>1, <2>2, <2>3
<1>5. Linked(u)
  <2>1. ASSUME NEW m \in Prims(u) PROVE u.at[u.slot[m]] = m /\ u.parent[m] = u.slot[m][1]
    BY <1>1, <1>2, <1>3, <1>4
  <2>2. ASSUME NEW s \in Slots, u.at[s] # NULL PROVE u.slot[u.at[s]] = s
    <3>1. u.at[s] = v.at[s] /\ s # v.slot[n]
      BY <1>2, <2>2
    <3>2. v.at[s] \in Nodes /\ v.slot[v.at[s]] = s
      BY <1>0, <2>2, <3>1, Held
    <3>3. v.at[s] # n
      BY <3>1, <3>2
    <3> QED
      BY <1>1, <3>1, <3>2, <3>3
  <2>3. ASSUME NEW m \in Nodes \ Prims(u)
        PROVE  u.parent[m] = NULL /\ \A i \in {0, 1} : u.at[<<m, i>>] = NULL
    <3>1. ASSUME NEW i \in {0, 1} PROVE u.at[<<m, i>>] = NULL
      <4> DEFINE s == <<m, i>>
      <4>1. s \in Slots /\ s[1] = m
        BY SlotsAre
      <4>2. m # n => v.at[s] = NULL
        BY <1>0, <1>3 DEF Linked
      <4> HIDE DEF s
      <4>3. u.at[s] = NULL
        BY <1>2, <4>1, <4>2
      <4> QED
        BY <4>3 DEF s
    <3>2. u.parent[m] = NULL
      BY <1>0, <1>1, <1>3 DEF Linked
    <3> QED
      BY <3>1, <3>2
  <2> QED
    BY <2>1, <2>2, <2>3 DEF Linked
<1>6. ASSUME NEW m \in Prims(u)
      PROVE  IF u.slot[m] = ROOT THEN depth[m] = 0 ELSE Under(u, u.key, depth, NULL, m)
  <2>1. m \in Prims(v) /\ m # n /\ u.slot[m] = v.slot[m] /\ m \in Nodes
    BY <1>1, <1>3, <1>4
  <2>2. CASE v.slot[m] = ROOT
    BY <2>1, <2>2 DEF Loose, Placed
  <2>3. CASE v.slot[m] # ROOT
    <3> DEFINE p == v.slot[m][1]
    <3>1. Under(v, K, depth, n, m)
      BY <2>1, <2>3 DEF Loose, Placed
    <3>2. p \in Nodes /\ p # n
      BY <1>0, <1>4, <2>1, <2>3, LooseParent
    <3>3. /\ depth[m] = depth[p] + 1 /\ Top(K[m], depth[p]) = Top(K[p], depth[p])
          /\ BitAt(K[m], depth[m]) = v.slot[m][2] /\ K[p] < K[m]
      BY <2>1, <3>1 DEF Under
    <3>4. K[m] = u.key[m] /\ K[p] = u.key[p] /\ u.slot[m][1] = p /\ u.slot[m][2] = v.slot[m][2]
      BY <2>1, <3>2
    <3> HIDE DEF p
    <3> QED
      BY <2>1, <2>3, <3>3, <3>4 DEF Under
  <2> QED
    BY <2>1, <2>2, <2>3
<1>7. Placed(u, u.key, depth, NULL)
  BY <1>6 DEF Placed
<1> QED
  BY <1>0, <1>3, <1>5, <1>7 DEF Deep

\* A tree of the same links is as good.
LEMMA LinksStay ==
    ASSUME NEW t, NEW depth, Deep(t, depth), NEW u \in Trees,
           \A m \in Nodes : u.slot[m] = t.slot[m] /\ u.parent[m] = t.parent[m],
           \A s \in Slots : u.at[s] = t.at[s],
           \A m \in Prims(t) : u.key[m] = t.key[m]
    PROVE  Deep(u, depth) /\ Prims(u) = Prims(t)
<1>0. t \in Trees /\ Linked(t) /\ depth \in [Nodes -> Depths]
  BY DEF Deep
<1>1. Prims(u) = Prims(t)
  BY DEF Prims
<1>2. \A m \in Prims(t) : m \in Nodes /\ t.slot[m] \in Slots
  BY <1>0 DEF Prims, Trees
<1>3. Linked(u)
  <2>1. ASSUME NEW m \in Prims(u) PROVE u.at[u.slot[m]] = m /\ u.parent[m] = u.slot[m][1]
    BY <1>0, <1>1, <1>2 DEF Linked
  <2>2. ASSUME NEW s \in Slots, u.at[s] # NULL PROVE u.slot[u.at[s]] = s
    BY <1>0, <2>2, Held
  <2>3. ASSUME NEW m \in Nodes \ Prims(u)
        PROVE  u.parent[m] = NULL /\ \A i \in {0, 1} : u.at[<<m, i>>] = NULL
    BY <1>0, <1>1, SlotsAre DEF Linked
  <2> QED
    BY <2>1, <2>2, <2>3 DEF Linked
<1>4. ASSUME NEW m \in Prims(u)
      PROVE  IF u.slot[m] = ROOT THEN depth[m] = 0 ELSE Under(u, u.key, depth, NULL, m)
  <2>1. m \in Prims(t) /\ m \in Nodes /\ u.slot[m] = t.slot[m] /\ u.key[m] = t.key[m]
    BY <1>1, <1>2
  <2>2. CASE t.slot[m] = ROOT
    BY <2>1, <2>2 DEF Deep, Placed
  <2>3. CASE t.slot[m] # ROOT
    <3>1. t.slot[m][1] \in Prims(t)
      BY <1>0, <2>1, <2>3, ParentIs
    <3>2. u.key[t.slot[m][1]] = t.key[t.slot[m][1]]
      BY <3>1
    <3>3. Under(t, t.key, depth, NULL, m)
      BY <2>1, <2>3 DEF Deep, Placed
    <3> QED
      BY <2>1, <2>3, <3>2, <3>3 DEF Under
  <2> QED
    BY <2>2, <2>3, <2>1
<1>5. Placed(u, u.key, depth, NULL)
  BY <1>4 DEF Placed
<1> QED
  BY <1>0, <1>1, <1>3, <1>5 DEF Deep

\* The next of a primary that is not alone is not primary.
LEMMA NextIs ==
    ASSUME NEW t, Good(t), NEW n \in In(t)
    PROVE  /\ t.next[n] \in In(t) /\ t.prev[n] \in In(t) /\ t.key[t.next[n]] = t.key[n]
           /\ n \in Nodes /\ t.next[n] \in Nodes /\ t.prev[n] \in Nodes
           /\ t.next[n] = n => n \in Prims(t)
           /\ n \in Prims(t) /\ t.next[n] # n => t.next[n] \notin Prims(t)
<1>1. PICK depth \in [Nodes -> Depths] : Placed(t, t.key, depth, NULL)
  BY DEF Good, Shape
<1>2. Deep(t, depth)
  BY <1>1 DEF Good, Deep
<1>3. /\ t.next[n] \in In(t) /\ t.prev[n] \in In(t) /\ t.key[t.next[n]] = t.key[n]
      /\ n \in Nodes /\ t.next[n] \in Nodes /\ t.prev[n] \in Nodes
  BY DEF Good, Rings, In
<1>4. ASSUME t.next[n] = n PROVE n \in Prims(t)
  <2> DEFINE S == {n}
  <2>1. S \in SUBSET In(t) /\ Closed(t, S) /\ n \in S
    BY <1>4 DEF Closed
  <2>2. PICK p \in Prims(t) : t.key[p] = t.key[n]
    BY DEF Good, Headed
  <2>3. p \in In(t)
    BY DEF Good, Headed
  <2>4. p \in S
    <3> HIDE DEF S
    <3> QED
      BY <2>1, <2>2, <2>3 DEF Good, Rings
  <2> QED
    BY <2>4
<1>5. n \in Prims(t) /\ t.next[n] # n => t.next[n] \notin Prims(t)
  BY <1>2, <1>3, OnePrimary
<1> QED
  BY <1>3, <1>4, <1>5

\* A tree without n.
Without(t, u, n) == Good(u) /\ In(u) = In(t) \ {n} /\ \A m \in In(u) : u.key[m] = t.key[m]

\* It is enough that the links and the ring are right, and some node of every
\* key is primary.
LEMMA WithoutIs ==
    ASSUME NEW t, Good(t), NEW n \in In(t), NEW u, NEW depth, Deep(u, depth),
           RingLess(t, u, n), Prims(u) \subseteq In(t) \ {n},
           \A m \in In(t) : m # n => \E p \in Prims(u) : t.key[p] = t.key[m]
    PROVE  Without(t, u, n)
<1>1. In(u) = In(t) \ {n} /\ Rings(u)
  BY RingsLess DEF Good
<1>2. \A m \in In(t) : m # n => u.key[m] = t.key[m] /\ m \in Nodes
  BY DEF RingLess, In
<1>3. Headed(u)
  BY <1>1, <1>2 DEF Headed
<1>4. Shape(u) /\ u \in Trees /\ Linked(u)
  BY DEF Deep, Shape
<1> QED
  BY <1>1, <1>2, <1>3, <1>4 DEF Without, Good

\* Remove takes one node out and keeps everything in order.
LEMMA RemoveIs ==
    ASSUME NEW t, Good(t), NEW n \in In(t)
    PROVE  Without(t, Erase(radixTreeRemove(t, n), n), n)
<1>1. PICK depth \in [Nodes -> Depths] : Placed(t, t.key, depth, NULL)
  BY DEF Good, Shape
<1>2. Deep(t, depth) /\ t \in Trees /\ Rings(t) /\ Headed(t) /\ Linked(t)
  BY <1>1 DEF Good, Deep
<1>3. /\ t.next[n] \in In(t) /\ t.prev[n] \in In(t) /\ t.key[t.next[n]] = t.key[n]
      /\ n \in Nodes /\ t.next[n] \in Nodes /\ t.prev[n] \in Nodes
      /\ t.next[n] = n => n \in Prims(t)
      /\ n \in Prims(t) /\ t.next[n] # n => t.next[n] \notin Prims(t)
  BY NextIs
<1>4. CASE t.next[n] = n
  <2> DEFINE v == PushDown(t, n)
             w == [v EXCEPT !.at[v.slot[n]] = NULL]
             u == Erase(w, n)
  <2>1. radixTreeRemove(t, n) = w
    BY <1>4 DEF radixTreeRemove
  <2>2. Sinking(t, n, v, KeyBits) /\ Children(v, n) = {} /\ n \in Prims(t)
    BY <1>2, <1>3, <1>4, PushDownIs
  <2> HIDE DEF v
  <2>3. v \in Trees /\ SameRings(t, v) /\ Prims(v) = Prims(t)
    BY <2>2 DEF Sinking
  <2>4. PICK K \in [Nodes -> Keys], new \in [Nodes -> Depths] :
           Loose(v, K, new, n) /\ \A m \in Nodes : m # n => K[m] = t.key[m]
    BY <2>2 DEF Sinking
  <2>5. /\ w \in Trees /\ w.slot = v.slot /\ w.parent = v.parent /\ SameRings(t, w)
        /\ \A s \in Slots : w.at[s] = IF s = v.slot[n] THEN NULL ELSE v.at[s]
    <3> DEFINE A == [v.at EXCEPT ![v.slot[n]] = NULL]
    <3>1. A \in [Slots -> Pointer] /\ \A s \in Slots : A[s] = IF s = v.slot[n] THEN NULL ELSE v.at[s]
      BY <2>3 DEF Trees, Pointer
    <3>2. w = [v EXCEPT !.at = A]
      BY <2>3 DEF Trees
    <3> HIDE DEF A, w
    <3> QED
      BY <2>3, <3>1, <3>2 DEF Trees, SameRings
  <2> HIDE DEF w
  <2>6. Erased(w, u, n)
    BY <1>3, <2>5, EraseIs
  <2> HIDE DEF u
  <2>7. RingLess(t, u, n)
    BY <1>2, <1>4, <2>5, <2>6, RingGoes
  <2>8. \A m \in Nodes : m # n => u.key[m] = v.key[m] /\ K[m] = v.key[m]
    BY <2>3, <2>4, <2>5, <2>6 DEF Erased, SameRings
  <2>9. Deep(u, new) /\ Prims(u) = Prims(v) \ {n}
    BY <2>2, <2>3, <2>4, <2>5, <2>6, <2>8, LeafGoes
  <2>10. ASSUME NEW m \in In(t), m # n PROVE \E p \in Prims(u) : t.key[p] = t.key[m]
    <3>1. PICK p \in Prims(t) : t.key[p] = t.key[m]
      BY <1>2 DEF Headed
    <3> DEFINE S == {n}
    <3>2. S \in SUBSET In(t) /\ Closed(t, S) /\ n \in S /\ m \notin S
      BY <1>4, <2>10 DEF Closed
    <3>3. p # n
      <4> HIDE DEF S
      <4> QED
        BY <1>2, <3>1, <3>2 DEF Rings
    <3> QED
      BY <2>3, <2>9, <3>1, <3>3
  <2>11. Prims(u) \subseteq In(t) \ {n}
    BY <1>2, <2>3, <2>9 DEF Headed
  <2>12. Without(t, u, n)
    BY <2>7, <2>9, <2>10, <2>11, WithoutIs
  <2> QED
    BY <2>1, <2>12 DEF u
<1>5. CASE t.next[n] # n /\ n \notin Prims(t)
  <2> DEFINE w == radixListRemove(t, n)
             u == Erase(w, n)
  <2>1. radixTreeRemove(t, n) = w
    BY <1>3, <1>5 DEF radixTreeRemove, Prims
  <2>2. w \in Trees /\ Skipped(t, w, n)
    BY <1>2, <1>3, ListRemoveIs
  <2> HIDE DEF w
  <2>3. Erased(w, u, n)
    BY <1>3, <2>2, EraseIs
  <2> HIDE DEF u
  <2>4. RingLess(t, u, n)
    BY <1>2, <2>2, <2>3, RingSkips DEF SameRings
  <2>5. u \in Trees /\ \A m \in Prims(t) : u.key[m] = t.key[m]
    BY <1>5, <2>2, <2>3 DEF Erased, Skipped, Prims
  <2>6. \A m \in Nodes : u.slot[m] = t.slot[m] /\ u.parent[m] = t.parent[m]
    <3>1. w.slot = t.slot /\ w.parent = t.parent
      BY <2>2 DEF Skipped, SameLinks
    <3>2. /\ u.slot[n] = NOSLOT /\ u.parent[n] = NULL
          /\ \A m \in Nodes : m # n => u.slot[m] = w.slot[m] /\ u.parent[m] = w.parent[m]
      BY <2>3 DEF Erased, Detached
    <3>3. t.slot[n] = NOSLOT /\ t.parent[n] = NULL
      <4>1. n \in Nodes
        BY DEF In
      <4>2. t.slot[n] = NOSLOT
        BY <1>5, <4>1 DEF Prims
      <4> QED
        BY <1>2, <1>5, <4>1, <4>2 DEF Linked
    <3> QED
      BY <3>1, <3>2, <3>3
  <2>7. ASSUME NEW s \in Slots PROVE u.at[s] = t.at[s]
    <3>1. u.at[s] = IF s[1] = n THEN NULL ELSE t.at[s]
      BY <2>2, <2>3 DEF Erased, Detached, Skipped, SameLinks
    <3>2. ASSUME s[1] = n PROVE t.at[s] = NULL
      <4>1. s # ROOT
        BY <1>3, <3>2, NodesAssumption, SlotsAre
      <4>2. s[2] \in {0, 1} /\ s = <<n, s[2]>>
        BY <3>2, <4>1, SlotsAre
      <4>3. \A i \in {0, 1} : t.at[<<n, i>>] = NULL
        BY <1>2, <1>3, <1>5 DEF Linked
      <4> QED
        BY <4>2, <4>3
    <3> QED
      BY <3>1, <3>2
  <2>8. Deep(u, depth) /\ Prims(u) = Prims(t)
    BY <1>2, <2>5, <2>6, <2>7, LinksStay
  <2>9. Prims(u) \subseteq In(t) \ {n}
    BY <1>2, <1>5, <2>8 DEF Headed
  <2>10. \A m \in In(t) : m # n => \E p \in Prims(u) : t.key[p] = t.key[m]
    BY <1>2, <2>8 DEF Headed
  <2>11. Without(t, u, n)
    BY <2>4, <2>8, <2>9, <2>10, WithoutIs
  <2> QED
    BY <2>1, <2>11 DEF u
<1>6. CASE t.next[n] # n /\ n \in Prims(t)
  <2> DEFINE r == t.next[n]
             x == radixTreeReplaceNode(t, n, r)
             v == [x EXCEPT !.slot[n] = NOSLOT]
             w == radixListRemove(v, n)
             u == Erase(w, n)
  <2>1. radixTreeRemove(t, n) = w
    BY <1>6 DEF radixTreeRemove, Prims
  <2>2. r \in Nodes \ Prims(t) /\ r # n /\ r \in In(t) /\ t.key[r] = t.key[n]
    BY <1>3, <1>6
  <2> HIDE DEF r
  <2>3. x \in Trees /\ SameRings(t, x) /\ TakesPlace(t, x, n, r)
    BY <1>2, <1>6, <2>2, ReplaceNodeIs
  <2> HIDE DEF x
  <2>4. /\ v \in Trees /\ SameRings(t, v) /\ v.at = x.at /\ v.parent = x.parent
        /\ \A m \in Nodes : v.slot[m] = IF m = n THEN NOSLOT ELSE x.slot[m]
    <3> DEFINE Q == [x.slot EXCEPT ![n] = NOSLOT]
    <3>1. /\ Q \in [Nodes -> Slots \cup {NOSLOT}]
          /\ \A m \in Nodes : Q[m] = IF m = n THEN NOSLOT ELSE x.slot[m]
      BY <2>3 DEF Trees
    <3>2. v = [x EXCEPT !.slot = Q]
      BY <2>3 DEF Trees
    <3> HIDE DEF Q, v
    <3> QED
      BY <2>3, <3>1, <3>2 DEF Trees, SameRings
  <2> HIDE DEF v
  <2>5. v.next[n] \in Nodes /\ v.prev[n] \in Nodes
    BY <1>3, <2>4 DEF SameRings
  <2>6. w \in Trees /\ Skipped(v, w, n)
    BY <1>3, <2>4, <2>5, ListRemoveIs
  <2> HIDE DEF w
  <2>7. Erased(w, u, n)
    BY <1>3, <2>6, EraseIs
  <2> HIDE DEF u
  <2>8. RingLess(t, u, n)
    BY <1>2, <2>4, <2>6, <2>7, RingSkips
  <2>9. /\ u \in Trees /\ \A m \in Nodes : m # n => u.key[m] = t.key[m]
    BY <2>4, <2>6, <2>7 DEF Erased, Skipped, SameRings
  <2>10. /\ u.slot[n] = NOSLOT /\ u.parent[n] = NULL
         /\ \A m \in Nodes : m # n => u.slot[m] = x.slot[m] /\ u.parent[m] = x.parent[m]
         /\ \A s \in Slots : u.at[s] = IF s[1] = n THEN NULL ELSE x.at[s]
    BY <2>4, <2>6, <2>7 DEF Erased, Detached, Skipped, SameLinks
  <2>11. Detached(x, u, n)
    BY <2>10 DEF Detached
  <2>12. Replaced(t, u, n, r)
    BY <1>2, <1>6, <2>2, <2>3, <2>11, PlaceTaken
  <2>13. Fits(t, depth, n, r)
    <3>1. t.slot[n] # ROOT => t.key[t.slot[n][1]] < t.key[r]
      BY <1>2, <1>6, <2>2, UnderIs
    <3>2. t.key[r] <= t.key[n] /\ Top(t.key[r], depth[n]) = Top(t.key[n], depth[n])
      BY <1>2, <1>6, <2>2, PrimsAre
    <3> QED
      BY <3>1, <3>2 DEF Fits
  <2> DEFINE new == [depth EXCEPT ![r] = depth[n]]
  <2>14. \A m \in Prims(u) : u.key[m] = t.key[m]
    BY <2>9, <2>10 DEF Prims
  <2>15. Inherits(depth, new, n, r)
    BY <1>2, <1>3, <2>2 DEF Inherits, Deep
  <2> HIDE DEF new
  <2>16. Deep(u, new) /\ Prims(u) = (Prims(t) \ {n}) \cup {r}
    BY <1>2, <1>6, <2>2, <2>9, <2>12, <2>13, <2>14, <2>15, ReplacedDeep
  <2>17. Prims(u) \subseteq In(t) \ {n}
    BY <1>2, <2>2, <2>16 DEF Headed
  <2>18. ASSUME NEW m \in In(t), m # n PROVE \E p \in Prims(u) : t.key[p] = t.key[m]
    <3>1. PICK p \in Prims(t) : t.key[p] = t.key[m]
      BY <1>2 DEF Headed
    <3>2. CASE p = n
      BY <2>2, <2>16, <3>1, <3>2
    <3>3. CASE p # n
      BY <2>16, <3>1, <3>3
    <3> QED
      BY <3>2, <3>3
  <2>19. Without(t, u, n)
    BY <2>8, <2>16, <2>17, <2>18, WithoutIs
  <2> QED
    BY <2>1, <2>19 DEF r, u
<1> QED
  BY <1>4, <1>5, <1>6

----------------------------------------------------------------------------
(***************************************************************************)
(* The way of an insert.                                                   *)
(***************************************************************************)

\* x may go into the slot s, at depth d.
Hangs(u, depth, d, x, s) ==
    IF s = ROOT THEN d = 0
    ELSE /\ s[1] \in Prims(u) /\ depth[s[1]] + 1 = d
         /\ Top(u.key[x], depth[s[1]]) = Top(u.key[s[1]], depth[s[1]])
         /\ BitAt(u.key[x], d) = s[2] /\ u.key[s[1]] < u.key[x]

\* The walk has come to a free slot or to the key.
Arrived(w, k) == w.tree.at[w.slot] = NULL \/ w.tree.key[w.tree.at[w.slot]] = k

\* A turn of the insert of k, at depth i - 1.
InsertStep(w, k, i) ==
    IF w.tree.at[w.slot] # NULL /\ w.tree.key[w.tree.at[w.slot]] # k
    THEN InsertTurn(w, KeyBits - i) ELSE w

Walks3 == [tree : Trees, node : Nodes, slot : Slots]

\* The nodes of w and of t are the same, n among them, one of them on its way.
Carries(t, n, k, w) ==
    /\ w \in Walks3 /\ SameRings(Fresh(t, n, k), w.tree)
    /\ w.node \notin Prims(w.tree)
    /\ Prims(w.tree) \cup {w.node} = Prims(t) \cup {n}
    /\ w.node # n => w.slot # ROOT /\ w.tree.key[w.slot[1]] >= k

\* The walk after i turns.
Walking(t, n, k, w, i) ==
    /\ Carries(t, n, k, w)
    /\ \E depth \in [Nodes -> Depths], d \in Depths :
          /\ Deep(w.tree, depth) /\ Hangs(w.tree, depth, d, w.node, w.slot)
          /\ d <= i /\ (Arrived(w, k) \/ d = i)

\* The keys on the way.
LEMMA CarriedKeys ==
    ASSUME NEW t \in Trees, NEW n \in Nodes, NEW k \in Keys, NEW w, Carries(t, n, k, w)
    PROVE  /\ w.tree.key[n] = k /\ \A m \in Nodes : m # n => w.tree.key[m] = t.key[m]
           /\ \A m \in Nodes : w.tree.key[m] \in Nat
           /\ w.tree \in Trees /\ w.node \in Nodes /\ w.slot \in Slots
           /\ w.tree.next[n] = n /\ w.tree.prev[n] = n
           /\ \A m \in Nodes : m # n => /\ w.tree.next[m] = t.next[m]
                                        /\ w.tree.prev[m] = t.prev[m]
<1> DEFINE u == w.tree
           f == Fresh(t, n, k)
<1>1. Renewed(t, f, n, k)
  BY FreshIs
<1>2. w \in Walks3 /\ SameRings(f, u)
  BY DEF Carries
<1>3. u \in Trees /\ w.node \in Nodes /\ w.slot \in Slots
  BY <1>2 DEF Walks3
<1> HIDE DEF u, f
<1>4. /\ u.key[n] = k /\ u.next[n] = n /\ u.prev[n] = n
      /\ \A m \in Nodes : m # n => /\ u.key[m] = t.key[m] /\ u.next[m] = t.next[m]
                                   /\ u.prev[m] = t.prev[m]
  BY <1>1, <1>2 DEF Renewed, SameRings
<1>5. \A m \in Nodes : u.key[m] \in Keys
  BY <1>3 DEF Trees
<1>6. \A m \in Nodes : u.key[m] \in Nat
  BY <1>5, NoBits
<1> QED
  BY <1>3, <1>4, <1>6 DEF u

\* No node on the way has the key of the one that is carried, but for k.
LEMMA CarriedDiffers ==
    ASSUME NEW t, Good(t), NEW n \in Nodes, NEW k \in Keys, NEW w, Carries(t, n, k, w),
           NEW c \in Prims(w.tree), w.tree.key[c] # k
    PROVE  w.tree.key[c] # w.tree.key[w.node] /\ c # n
<1>1. PICK depth \in [Nodes -> Depths] : Placed(t, t.key, depth, NULL)
  BY DEF Good, Shape
<1>2. Deep(t, depth) /\ t \in Trees
  BY <1>1 DEF Good, Deep
<1>3. /\ w.tree.key[n] = k /\ \A m \in Nodes : m # n => w.tree.key[m] = t.key[m]
      /\ w.node \in Nodes
  BY <1>2, CarriedKeys
<1>4. c # n /\ c \in Nodes
  BY <1>3 DEF Prims
<1>5. CASE w.node = n
  BY <1>3, <1>4, <1>5
<1>6. CASE w.node # n
  <2>1. w.node \in Prims(t) /\ c \in Prims(t) /\ c # w.node
    BY <1>4, <1>6 DEF Carries
  <2>2. t.key[c] # t.key[w.node]
    BY <1>2, <2>1, OnePrimary
  <2> QED
    BY <1>3, <1>4, <1>6, <2>2
<1> QED
  BY <1>4, <1>5, <1>6

\* The node that is met shares the bits so far with the one that is carried.
LEMMA WalkMeets ==
    ASSUME NEW u, NEW depth, Deep(u, depth), NEW x \in Nodes, NEW s \in Slots,
           NEW d \in Depths, Hangs(u, depth, d, x, s), NEW c, c = u.at[s], c # NULL
    PROVE  /\ c \in Prims(u) /\ c \in Nodes /\ u.slot[c] = s /\ depth[c] = d
           /\ Top(u.key[x], d) = Top(u.key[c], d)
           /\ s # ROOT => u.key[s[1]] < u.key[c] /\ u.key[s[1]] < u.key[x]
           /\ u.key[x] \in Nat /\ u.key[c] \in Nat /\ (s # ROOT => u.key[s[1]] \in Nat)
<1>1. c \in Prims(u) /\ c \in Nodes /\ u.slot[c] = s
  BY Held DEF Deep
<1>2. \A m \in Nodes : u.key[m] \in Keys
  BY DEF Deep, Trees
<1>3. u.key[x] \in Nat /\ u.key[c] \in Nat
  BY <1>1, <1>2, NoBits
<1>4. CASE s = ROOT
  <2>1. d = 0 /\ depth[c] = 0
    BY <1>1, <1>4 DEF Hangs, Deep, Placed
  <2>2. Top(u.key[x], 0) = 0 /\ Top(u.key[c], 0) = 0
    BY <1>1, <1>2, NoBits
  <2> QED
    BY <1>1, <1>3, <1>4, <2>1, <2>2
<1>5. CASE s # ROOT
  <2> DEFINE p == s[1]
  <2>1. /\ p \in Nodes /\ depth[c] = depth[p] + 1 /\ depth[c] \in 1 .. KeyBits
        /\ depth[c] - 1 = depth[p]
        /\ Top(u.key[c], depth[p]) = Top(u.key[p], depth[p])
        /\ BitAt(u.key[c], depth[c]) = s[2]
        /\ u.key[p] < u.key[c] /\ u.key[p] \in Nat
    BY <1>1, <1>5, UnderIs
  <2>2. /\ depth[p] + 1 = d /\ Top(u.key[x], depth[p]) = Top(u.key[p], depth[p])
        /\ BitAt(u.key[x], d) = s[2] /\ u.key[p] < u.key[x]
    BY <1>5 DEF Hangs
  <2> HIDE DEF p
  <2>3. depth[c] = d /\ d \in 1 .. KeyBits /\ Top(u.key[x], d - 1) = Top(u.key[c], d - 1)
        /\ BitAt(u.key[x], d) = BitAt(u.key[c], d)
    BY <2>1, <2>2
  <2>4. Top(u.key[x], d) = Top(u.key[c], d)
    BY <1>3, <2>3, NextBit
  <2> QED
    BY <1>1, <1>3, <1>5, <2>1, <2>2, <2>3, <2>4 DEF p
<1> QED
  BY <1>4, <1>5

\* The first slot is that of the root.
LEMMA WalkStarts ==
    ASSUME NEW t, Good(t), NEW n \in Nodes, n \notin In(t), NEW k \in Keys
    PROVE  Walking(t, n, k, [tree |-> Fresh(t, n, k), node |-> n, slot |-> ROOT], 0)
<1> DEFINE u == Fresh(t, n, k)
           w == [tree |-> u, node |-> n, slot |-> ROOT]
<1>1. PICK depth \in [Nodes -> Depths] : Placed(t, t.key, depth, NULL)
  BY DEF Good, Shape
<1>2. Deep(t, depth) /\ t \in Trees /\ Linked(t)
  BY <1>1 DEF Good, Deep
<1>3. Renewed(t, u, n, k)
  BY <1>2, FreshIs
<1>4. n \notin Prims(t)
  BY DEF Good, Headed
<1>5. w.tree = u /\ w.node = n /\ w.slot = ROOT
  OBVIOUS
<1>6. u \in Trees => w \in Walks3
  BY SlotsAre DEF Walks3
<1> HIDE DEF u, w
<1>7. \A m \in Nodes : u.slot[m] = t.slot[m] /\ u.parent[m] = t.parent[m]
  BY <1>2, <1>3, <1>4 DEF Renewed, Detached, Prims, Linked
<1>8. ASSUME NEW s \in Slots PROVE u.at[s] = t.at[s]
  <2>1. u.at[s] = IF s[1] = n THEN NULL ELSE t.at[s]
    BY <1>3 DEF Renewed, Detached
  <2>2. ASSUME s[1] = n PROVE t.at[s] = NULL
    <3>1. s # ROOT
      BY <2>2, NodesAssumption, SlotsAre
    <3>2. s[2] \in {0, 1} /\ s = <<n, s[2]>>
      BY <2>2, <3>1, SlotsAre
    <3>3. \A i \in {0, 1} : t.at[<<n, i>>] = NULL
      BY <1>2, <1>4 DEF Linked
    <3> QED
      BY <3>2, <3>3
  <2> QED
    BY <2>1, <2>2
<1>9. u \in Trees /\ \A m \in Prims(t) : u.key[m] = t.key[m]
  BY <1>3, <1>4 DEF Renewed, Prims
<1>10. Deep(u, depth) /\ Prims(u) = Prims(t)
  BY <1>2, <1>7, <1>8, <1>9, LinksStay
<1>11. Carries(t, n, k, w)
  <2>1. SameRings(u, u)
    BY DEF SameRings
  <2> QED
    BY <1>4, <1>5, <1>6, <1>9, <1>10, <2>1 DEF Carries, u
<1>12. Hangs(w.tree, depth, 0, w.node, w.slot) /\ 0 \in Depths
  BY <1>5, BitsAssumption DEF Hangs, Depths
<1>13. Walking(t, n, k, w, 0)
  <2>1. 0 <= 0
    OBVIOUS
  <2> QED
    BY <1>5, <1>10, <1>11, <1>12, <2>1 DEF Walking
<1> QED
  BY <1>13 DEF w, u

\* The node that is met keeps its place: the carried one goes below it.
LEMMA WalkPasses ==
    ASSUME NEW t, Good(t), NEW n \in Nodes, NEW k \in Keys, NEW w, Carries(t, n, k, w),
           NEW i \in 1 .. KeyBits, NEW depth \in [Nodes -> Depths], Deep(w.tree, depth),
           Hangs(w.tree, depth, i - 1, w.node, w.slot),
           NEW c, c = w.tree.at[w.slot], c # NULL, w.tree.key[c] # k,
           ~ (w.tree.key[w.node] < w.tree.key[c])
    PROVE  Walking(t, n, k, InsertTurn(w, KeyBits - i), i)
<1> DEFINE u == w.tree
           x == w.node
           s == w.slot
           b == BitAt(u.key[x], i)
           v == [tree |-> u, node |-> x, slot |-> <<c, b>>]
<1>0. t \in Trees /\ i - 1 \in Depths /\ i \in Depths /\ (i - 1) + 1 = i
  BY BitsAssumption DEF Good, Depths
<1>1. InsertTurn(w, KeyBits - i) = v
  BY DEF InsertTurn, BitAt
<1>2. /\ u.key[n] = k /\ \A m \in Nodes : u.key[m] \in Nat
      /\ u \in Trees /\ x \in Nodes /\ s \in Slots /\ k \in Nat
  BY <1>0, CarriedKeys
<1>3. /\ c \in Prims(u) /\ c \in Nodes /\ depth[c] = i - 1
      /\ Top(u.key[x], i - 1) = Top(u.key[c], i - 1)
      /\ s # ROOT => u.key[s[1]] < u.key[c] /\ u.key[s[1]] \in Nat
  BY <1>0, <1>2, WalkMeets
<1>4. u.key[c] # u.key[x]
  BY <1>3, CarriedDiffers
<1>5. b \in {0, 1}
  BY <1>2, OneMoreBit
<1>6. /\ v.tree = u /\ v.node = x /\ v.slot = <<c, b>> /\ <<c, b>>[1] = c /\ <<c, b>>[2] = b
      /\ <<c, b>> \in Slots /\ <<c, b>> # ROOT
  BY <1>3, <1>5, SlotsAre
<1> DEFINE q == <<c, b>>
<1>7. v.tree = u /\ v.node = x /\ v.slot = q /\ q[1] = c /\ q[2] = b /\ q \in Slots /\ q # ROOT
  BY <1>6
<1>8. v \in Walks3
  BY <1>2, <1>6 DEF Walks3
<1> HIDE DEF v, q
<1>9. u.key[c] < u.key[x]
  BY <1>2, <1>3, <1>4
<1>10. ASSUME x # n PROVE u.key[c] >= k
  <2>1. s # ROOT /\ u.key[s[1]] >= k
    BY <1>10 DEF Carries
  <2> HIDE DEF u, s
  <2> QED
    BY <1>2, <1>3, <2>1
<1>11. Carries(t, n, k, v)
  BY <1>7, <1>8, <1>10 DEF Carries
<1>12. Hangs(v.tree, depth, i, v.node, v.slot)
  BY <1>0, <1>3, <1>7, <1>9 DEF Hangs
<1>13. Walking(t, n, k, v, i)
  <2>1. i <= i /\ Deep(v.tree, depth)
    BY <1>7
  <2> QED
    BY <1>0, <1>11, <1>12, <2>1 DEF Walking
<1> QED
  BY <1>1, <1>13

\* The carried node takes the place of the one that is met, which goes on.
LEMMA WalkDisplaces ==
    ASSUME NEW t, Good(t), NEW n \in Nodes, NEW k \in Keys, NEW w, Carries(t, n, k, w),
           NEW i \in 1 .. KeyBits, NEW depth \in [Nodes -> Depths], Deep(w.tree, depth),
           Hangs(w.tree, depth, i - 1, w.node, w.slot),
           NEW c, c = w.tree.at[w.slot], c # NULL, w.tree.key[c] # k,
           w.tree.key[w.node] < w.tree.key[c]
    PROVE  Walking(t, n, k, InsertTurn(w, KeyBits - i), i)
<1> DEFINE u == w.tree
           x == w.node
           s == w.slot
           r == Detach(radixTreeReplaceNode(u, c, x), c)
           b == BitAt(r.key[c], i)
           q == <<x, b>>
           v == [tree |-> r, node |-> c, slot |-> q]
           new == [depth EXCEPT ![x] = depth[c]]
<1>0. t \in Trees /\ i - 1 \in Depths /\ i \in Depths /\ (i - 1) + 1 = i
  BY BitsAssumption DEF Good, Depths
<1>1. InsertTurn(w, KeyBits - i) = v
  BY DEF InsertTurn, BitAt
<1>2. /\ u.key[n] = k /\ \A m \in Nodes : u.key[m] \in Nat
      /\ u \in Trees /\ x \in Nodes /\ s \in Slots /\ k \in Nat
  BY <1>0, CarriedKeys
<1>3. /\ c \in Prims(u) /\ c \in Nodes /\ u.slot[c] = s /\ depth[c] = i - 1
      /\ Top(u.key[x], i - 1) = Top(u.key[c], i - 1)
      /\ s # ROOT => u.key[s[1]] < u.key[x] /\ u.key[s[1]] \in Nat
  BY <1>0, <1>2, WalkMeets
<1>4. x \in Nodes \ Prims(u) /\ c # x /\ c # n
  BY <1>2, <1>3, CarriedDiffers DEF Carries
<1>5. r \in Trees /\ SameRings(u, r) /\ Replaced(u, r, c, x)
  BY <1>3, <1>4, DisplaceIs
<1> HIDE DEF r
<1>6. Fits(u, depth, c, x)
  <2>1. u.key[x] <= u.key[c]
    BY <1>2, <1>3
  <2> QED
    BY <1>3, <2>1 DEF Fits
<1>7. Inherits(depth, new, c, x)
  BY <1>2, <1>3 DEF Inherits
<1>8. \A m \in Nodes : r.key[m] = u.key[m]
  BY <1>5 DEF SameRings
<1> HIDE DEF new
<1>9. \A m \in Prims(r) : r.key[m] = u.key[m]
  BY <1>8 DEF Prims
<1>10. Deep(r, new) /\ Prims(r) = (Prims(u) \ {c}) \cup {x}
  BY <1>3, <1>4, <1>5, <1>6, <1>7, <1>9, ReplacedDeep
<1>11. b \in {0, 1} /\ r.key[c] = u.key[c] /\ r.key[x] = u.key[x]
  BY <1>2, <1>3, <1>8, OneMoreBit
<1>12. /\ v.tree = r /\ v.node = c /\ v.slot = q /\ q[1] = x /\ q[2] = b
       /\ q \in Slots /\ q # ROOT
  BY <1>2, <1>11, SlotsAre
<1> HIDE DEF q
<1>13. v \in Walks3
  BY <1>3, <1>5, <1>12 DEF Walks3
<1> HIDE DEF v, b
<1>14. u.key[x] >= k
  <2>1. CASE x = n
    BY <1>2, <2>1
  <2>2. CASE x # n
    <3>1. s # ROOT /\ u.key[s[1]] >= k
      BY <2>2 DEF Carries
    <3> HIDE DEF u, s, x
    <3> QED
      BY <1>2, <1>3, <3>1
  <2> QED
    BY <2>1, <2>2
<1>15. Carries(t, n, k, v)
  <2>1. SameRings(Fresh(t, n, k), u) /\ Prims(u) \cup {x} = Prims(t) \cup {n}
    BY DEF Carries
  <2>2. SameRings(Fresh(t, n, k), r)
    BY <1>5, <2>1 DEF SameRings
  <2>3. c \notin Prims(r) /\ Prims(r) \cup {c} = Prims(t) \cup {n}
    BY <1>3, <1>4, <1>10, <2>1
  <2> QED
    BY <1>11, <1>12, <1>13, <1>14, <2>2, <2>3 DEF Carries
<1>16. Hangs(v.tree, new, i, v.node, v.slot)
  <2>1. new[x] = i - 1 /\ x \in Prims(r)
    BY <1>3, <1>7, <1>10 DEF Inherits
  <2>2. BitAt(r.key[c], i) = b
    BY DEF b
  <2> HIDE DEF u, x
  <2> QED
    BY <1>0, <1>3, <1>11, <1>12, <2>1, <2>2 DEF Hangs, u, x
<1>17. Walking(t, n, k, v, i)
  <2>1. i <= i /\ Deep(v.tree, new) /\ new \in [Nodes -> Depths]
    BY <1>7, <1>10, <1>12 DEF Inherits
  <2> QED
    BY <1>0, <1>15, <1>16, <2>1 DEF Walking
<1> QED
  BY <1>1, <1>17

\* A turn of the walk.
LEMMA WalkGoesOn ==
    ASSUME NEW t, Good(t), NEW n \in Nodes, NEW k \in Keys, NEW i \in 1 .. KeyBits,
           NEW w, Walking(t, n, k, w, i - 1)
    PROVE  Walking(t, n, k, InsertStep(w, k, i), i)
<1>1. PICK depth \in [Nodes -> Depths], d \in Depths :
         /\ Deep(w.tree, depth) /\ Hangs(w.tree, depth, d, w.node, w.slot)
         /\ d <= i - 1 /\ (Arrived(w, k) \/ d = i - 1)
  BY DEF Walking
<1>2. Carries(t, n, k, w)
  BY DEF Walking
<1>3. CASE Arrived(w, k)
  <2>1. InsertStep(w, k, i) = w
    BY <1>3 DEF Arrived, InsertStep
  <2>2. d <= i
    BY <1>1, BitsAssumption DEF Depths
  <2> QED
    BY <1>1, <1>2, <1>3, <2>1, <2>2 DEF Walking
<1>4. CASE ~ Arrived(w, k)
  <2> DEFINE c == w.tree.at[w.slot]
  <2>1. c # NULL /\ w.tree.key[c] # k /\ InsertStep(w, k, i) = InsertTurn(w, KeyBits - i)
    BY <1>4 DEF Arrived, InsertStep
  <2>2. Hangs(w.tree, depth, i - 1, w.node, w.slot) /\ Deep(w.tree, depth)
    BY <1>1, <1>4
  <2>3. c = w.tree.at[w.slot]
    OBVIOUS
  <2> HIDE DEF c
  <2>4. CASE w.tree.key[w.node] < w.tree.key[c]
    <3>1. Walking(t, n, k, InsertTurn(w, KeyBits - i), i)
      BY <1>2, <2>1, <2>2, <2>3, <2>4, WalkDisplaces
    <3> QED
      BY <2>1, <3>1
  <2>5. CASE ~ (w.tree.key[w.node] < w.tree.key[c])
    <3>1. Walking(t, n, k, InsertTurn(w, KeyBits - i), i)
      BY <1>2, <2>1, <2>2, <2>3, <2>5, WalkPasses
    <3> QED
      BY <2>1, <3>1
  <2> QED
    BY <2>4, <2>5
<1> QED
  BY <1>3, <1>4

\* The insert walk takes its turns to the end.
LEMMA InsertWalkIs ==
    ASSUME NEW t, Good(t), NEW n \in Nodes, n \notin In(t), NEW k \in Keys
    PROVE  Walking(t, n, k, InsertWalk(t, n, k), KeyBits)
<1> DEFINE start == [tree |-> Fresh(t, n, k), node |-> n, slot |-> ROOT]
           Turn(w, i) == IF Walking(t, n, k, w, i - 1) THEN InsertStep(w, k, i) ELSE w
           E(f) == [i \in 0 .. KeyBits |->
                      IF i = 0 THEN start ELSE InsertStep(f[i - 1], k, i)]
           step == [i \in 1 .. KeyBits |-> [w \in Walks3 |-> Turn(w, i)]]
           g == CHOOSE f : f = E(f)
<1>0. KeyBits \in Nat
  BY BitsAssumption
<1>1. InsertWalk(t, n, k) = g[KeyBits]
  BY DEF InsertWalk, InsertStep
<1>2. Walking(t, n, k, start, 0)
  BY WalkStarts
<1> HIDE DEF start
<1>3. \A w, i : Walking(t, n, k, w, i) => w \in Walks3
  BY DEF Walking, Carries
<1>4. ASSUME NEW w \in Walks3, NEW i \in 1 .. KeyBits PROVE Turn(w, i) \in Walks3
  <2>1. CASE Walking(t, n, k, w, i - 1)
    <3>1. Walking(t, n, k, InsertStep(w, k, i), i)
      BY <2>1, WalkGoesOn
    <3> QED
      BY <1>3, <2>1, <3>1
  <2>2. CASE ~ Walking(t, n, k, w, i - 1)
    BY <2>2
  <2> QED
    BY <2>1, <2>2
<1> HIDE DEF Turn
<1>5. step \in [1 .. KeyBits -> [Walks3 -> Walks3]]
  BY <1>4
<1>6. start \in Walks3
  BY <1>2, <1>3
<1>7. PICK f \in [0 .. KeyBits -> Walks3] : TurnsTo(f, start, step, KeyBits)
  <2> HIDE DEF step
  <2> QED
    BY <1>0, <1>5, <1>6, TurnsExist
<1>8. f[0] = start /\ \A i \in 1 .. KeyBits : f[i] = Turn(f[i - 1], i)
  <2>1. f[0] = start
    <3>1. 0 \in 0 .. KeyBits
      BY <1>0
    <3> QED
      BY <1>7, <3>1 DEF TurnsTo
  <2>2. ASSUME NEW i \in 1 .. KeyBits PROVE f[i] = Turn(f[i - 1], i)
    <3>1. i \in 0 .. KeyBits /\ i # 0 /\ i - 1 \in 0 .. KeyBits
      BY <1>0
    <3>2. f[i] = step[i][f[i - 1]]
      BY <1>7, <3>1 DEF TurnsTo
    <3>3. f[i - 1] \in Walks3
      BY <3>1
    <3> QED
      BY <3>2, <3>3
  <2> QED
    BY <2>1, <2>2
<1> HIDE DEF step
<1>9. \A i \in 0 .. KeyBits : Walking(t, n, k, f[i], i)
  <2> DEFINE S == {i \in Nat : Walking(t, n, k, f[i], i)}
  <2>1. 0 \in S
    BY <1>2, <1>8
  <2>2. ASSUME NEW i \in 1 .. KeyBits, i - 1 \in S PROVE i \in S
    <3>1. Walking(t, n, k, f[i - 1], i - 1) /\ i \in Nat
      BY <2>2
    <3>2. f[i] = InsertStep(f[i - 1], k, i)
      BY <1>8, <3>1 DEF Turn
    <3> QED
      BY <3>1, <3>2, WalkGoesOn
  <2>3. S \in SUBSET Nat
    OBVIOUS
  <2> HIDE DEF S
  <2>4. \A i \in 0 .. KeyBits : i \in S
    BY <1>0, <2>1, <2>2, <2>3, UpThrough
  <2> QED
    BY <2>4 DEF S
<1>10. f = E(f)
  <2>1. ASSUME NEW i \in 0 .. KeyBits PROVE f[i] = E(f)[i]
    <3>1. CASE i = 0
      BY <1>8, <3>1
    <3>2. CASE i # 0
      <4>1. i \in 1 .. KeyBits /\ i - 1 \in 0 .. KeyBits
        BY <1>0, <3>2
      <4>2. f[i] = InsertStep(f[i - 1], k, i)
        BY <1>8, <1>9, <4>1 DEF Turn
      <4> QED
        BY <3>2, <4>2
    <3> QED
      BY <3>1, <3>2
  <2> QED
    BY <2>1
<1> HIDE DEF E
<1>11. g = E(g)
  BY <1>10
<1> HIDE DEF g
<1>12. g[0] = start /\ \A i \in 1 .. KeyBits : g[i] = InsertStep(g[i - 1], k, i)
  <2>1. 0 \in 0 .. KeyBits /\ \A i \in 1 .. KeyBits : i \in 0 .. KeyBits /\ i # 0
    BY <1>0
  <2> QED
    BY <1>11, <2>1 DEF E
<1>13. Walking(t, n, k, g[KeyBits], KeyBits)
  <2> DEFINE S == {i \in Nat : Walking(t, n, k, g[i], i)}
  <2>1. 0 \in S
    BY <1>2, <1>12
  <2>2. ASSUME NEW i \in 1 .. KeyBits, i - 1 \in S PROVE i \in S
    <3>1. Walking(t, n, k, g[i - 1], i - 1) /\ i \in Nat
      BY <2>2
    <3> QED
      BY <1>12, <3>1, WalkGoesOn
  <2>3. S \in SUBSET Nat
    OBVIOUS
  <2> HIDE DEF S
  <2>4. \A i \in 0 .. KeyBits : i \in S
    BY <1>0, <2>1, <2>2, <2>3, UpThrough
  <2>5. KeyBits \in S
    BY <1>0, <2>4
  <2> QED
    BY <2>5 DEF S
<1> QED
  BY <1>1, <1>13

\* The bits of the key last until a free slot or the key.
LEMMA WalkEnds ==
    ASSUME NEW t, Good(t), NEW n \in Nodes, NEW k \in Keys, NEW w,
           Walking(t, n, k, w, KeyBits)
    PROVE  Arrived(w, k)
<1>1. SUFFICES ASSUME ~ Arrived(w, k) PROVE FALSE
  OBVIOUS
<1>2. PICK depth \in [Nodes -> Depths], d \in Depths :
         /\ Deep(w.tree, depth) /\ Hangs(w.tree, depth, d, w.node, w.slot)
         /\ (Arrived(w, k) \/ d = KeyBits)
  BY DEF Walking
<1>3. Carries(t, n, k, w) /\ t \in Trees
  BY DEF Walking, Good
<1> DEFINE c == w.tree.at[w.slot]
<1>4. c # NULL /\ w.tree.key[c] # k
  BY <1>1 DEF Arrived
<1>5. w.node \in Nodes /\ w.slot \in Slots /\ c = w.tree.at[w.slot]
  BY <1>3, CarriedKeys
<1> HIDE DEF c
<1>6. d = KeyBits
  BY <1>1, <1>2
<1>7. /\ c \in Prims(w.tree) /\ Top(w.tree.key[w.node], d) = Top(w.tree.key[c], d)
      /\ w.tree.key[w.node] \in Nat /\ w.tree.key[c] \in Nat
  BY <1>2, <1>4, <1>5, WalkMeets
<1>8. w.tree.key[w.node] = w.tree.key[c]
  BY <1>6, <1>7, AllBits
<1>9. w.tree.key[c] # w.tree.key[w.node]
  BY <1>3, <1>4, <1>7, CarriedDiffers
<1> QED
  BY <1>8, <1>9

\* A node goes into a free slot.
Planted(u, v, x, s) ==
    /\ \A q \in Slots : v.at[q] = IF q = s THEN x ELSE u.at[q]
    /\ \A m \in Nodes : /\ v.slot[m] = IF m = x THEN s ELSE u.slot[m]
                        /\ v.parent[m] = IF m = x THEN s[1] ELSE u.parent[m]
                        /\ v.key[m] = u.key[m]

\* It has its place there.
LEMMA PlantIs ==
    ASSUME NEW u, NEW depth, Deep(u, depth), NEW x \in Nodes, x \notin Prims(u),
           NEW s \in Slots, u.at[s] = NULL, NEW d \in Depths, Hangs(u, depth, d, x, s),
           NEW v \in Trees, Planted(u, v, x, s)
    PROVE  Prims(v) = Prims(u) \cup {x} /\ \E new \in [Nodes -> Depths] : Deep(v, new)
<1>0. u \in Trees /\ Linked(u) /\ depth \in [Nodes -> Depths]
  BY DEF Deep
<1>1. s # NOSLOT /\ x # NULL
  BY SlotsAre
<1>2. Prims(v) = Prims(u) \cup {x}
  BY <1>1 DEF Planted, Prims
<1>3. \A m \in Prims(u) : m \in Nodes /\ m # x /\ u.slot[m] \in Slots /\ u.slot[m] # s
  <2>1. ASSUME NEW m \in Prims(u) PROVE m \in Nodes /\ m # x /\ u.slot[m] \in Slots
    BY <1>0 DEF Prims, Trees
  <2>2. ASSUME NEW m \in Prims(u) PROVE u.slot[m] # s
    <3>1. u.at[u.slot[m]] = m /\ m # NULL
      BY <1>0, <2>1, <2>2, NodesAssumption DEF Linked
    <3> QED
      BY <3>1
  <2> QED
    BY <2>1, <2>2
<1>4. Linked(v)
  <2>1. ASSUME NEW m \in Prims(v) PROVE v.at[v.slot[m]] = m /\ v.parent[m] = v.slot[m][1]
    <3>1. CASE m = x
      BY <3>1 DEF Planted
    <3>2. CASE m # x
      <4>1. m \in Prims(u)
        BY <1>2, <3>2
      <4>2. u.at[u.slot[m]] = m /\ u.parent[m] = u.slot[m][1]
        BY <1>0, <4>1 DEF Linked
      <4>3. v.slot[m] = u.slot[m] /\ v.parent[m] = u.parent[m]
        BY <1>3, <3>2, <4>1 DEF Planted
      <4> QED
        BY <1>3, <4>1, <4>2, <4>3 DEF Planted
    <3> QED
      BY <3>1, <3>2
  <2>2. ASSUME NEW q \in Slots, v.at[q] # NULL PROVE v.slot[v.at[q]] = q
    <3>1. CASE q = s
      BY <3>1 DEF Planted
    <3>2. CASE q # s
      <4>1. v.at[q] = u.at[q]
        BY <3>2 DEF Planted
      <4>2. u.slot[u.at[q]] = q /\ u.at[q] \in Prims(u)
        BY <1>0, <2>2, <4>1, Held
      <4> QED
        BY <1>3, <4>1, <4>2 DEF Planted
    <3> QED
      BY <3>1, <3>2
  <2>3. ASSUME NEW m \in Nodes \ Prims(v)
        PROVE  v.parent[m] = NULL /\ \A i \in {0, 1} : v.at[<<m, i>>] = NULL
    <3>1. m # x /\ m \in Nodes \ Prims(u)
      BY <1>2
    <3>2. u.parent[m] = NULL /\ \A i \in {0, 1} : u.at[<<m, i>>] = NULL
      BY <1>0, <3>1 DEF Linked
    <3>3. ASSUME NEW i \in {0, 1} PROVE v.at[<<m, i>>] = NULL
      <4> DEFINE q == <<m, i>>
      <4>1. q \in Slots /\ q # ROOT /\ q[1] = m /\ u.at[q] = NULL
        BY <3>2, SlotsAre
      <4> HIDE DEF q
      <4>2. q # s
        <5>1. s # ROOT => s[1] \in Prims(u)
          BY DEF Hangs
        <5> QED
          BY <3>1, <4>1, <5>1
      <4>3. v.at[q] = NULL
        BY <4>1, <4>2 DEF Planted
      <4> QED
        BY <4>3 DEF q
    <3>4. v.parent[m] = NULL
      BY <3>1, <3>2 DEF Planted
    <3> QED
      BY <3>3, <3>4
  <2> QED
    BY <2>1, <2>2, <2>3 DEF Linked
<1> DEFINE new == [depth EXCEPT ![x] = d]
<1>5. new \in [Nodes -> Depths] /\ new[x] = d /\ \A m \in Nodes : m # x => new[m] = depth[m]
  BY <1>0
<1> HIDE DEF new
<1>6. ASSUME NEW m \in Prims(v)
      PROVE  IF v.slot[m] = ROOT THEN new[m] = 0 ELSE Under(v, v.key, new, NULL, m)
  <2>1. CASE m = x
    <3>1. v.slot[m] = s /\ new[m] = d
      BY <1>5, <2>1 DEF Planted
    <3>2. CASE s = ROOT
      BY <3>1, <3>2 DEF Hangs
    <3>3. CASE s # ROOT
      <4> DEFINE p == s[1]
      <4>1. /\ p \in Prims(u) /\ depth[p] + 1 = d
            /\ Top(u.key[x], depth[p]) = Top(u.key[p], depth[p])
            /\ BitAt(u.key[x], d) = s[2] /\ u.key[p] < u.key[x]
        BY <3>3 DEF Hangs
      <4>2. p = v.slot[m][1]
        BY <3>1
      <4>3. s[2] = v.slot[m][2]
        BY <3>1
      <4> HIDE DEF p
      <4>4. p \in Nodes /\ p # x /\ new[p] = depth[p] /\ v.key[p] = u.key[p] /\ v.key[x] = u.key[x]
        BY <1>3, <1>5, <4>1 DEF Planted
      <4>5. Under(v, v.key, new, NULL, m)
        BY <2>1, <3>1, <4>1, <4>2, <4>3, <4>4 DEF Under
      <4> QED
        BY <3>1, <3>3, <4>5
    <3> QED
      BY <3>2, <3>3
  <2>2. CASE m # x
    <3>1. m \in Prims(u) /\ m \in Nodes
      BY <1>2, <1>3, <2>2
    <3>2. v.slot[m] = u.slot[m] /\ v.key[m] = u.key[m] /\ new[m] = depth[m]
      BY <1>5, <2>2, <3>1 DEF Planted
    <3>3. CASE u.slot[m] = ROOT
      BY <3>1, <3>2, <3>3 DEF Deep, Placed
    <3>4. CASE u.slot[m] # ROOT
      <4> DEFINE p == u.slot[m][1]
      <4>1. p \in Prims(u) /\ p = u.slot[m][1]
        BY <3>1, <3>4, UnderIs
      <4>2. Under(u, u.key, depth, NULL, m)
        BY <3>1, <3>4 DEF Deep, Placed
      <4> HIDE DEF p
      <4>3. p \in Nodes /\ v.key[p] = u.key[p] /\ new[p] = depth[p]
        BY <1>3, <1>5, <4>1 DEF Planted
      <4>4. Under(v, v.key, new, NULL, m)
        BY <3>1, <3>2, <4>1, <4>2, <4>3 DEF Under
      <4> QED
        BY <3>2, <3>4, <4>4
    <3> QED
      BY <3>3, <3>4
  <2> QED
    BY <2>1, <2>2
<1>7. Deep(v, new)
  BY <1>4, <1>5, <1>6 DEF Deep, Placed
<1> QED
  BY <1>2, <1>5, <1>7

\* x has come into the ring of h, before it; nothing else is changed.
Added(u, v, x, h) ==
    /\ v.at = u.at /\ v.slot = u.slot /\ v.parent = u.parent /\ v.key = u.key
    /\ \A m \in Nodes :
          /\ v.next[m] = IF m = x THEN h ELSE IF m = u.prev[h] THEN x ELSE u.next[m]
          /\ v.prev[m] = IF m = h THEN x ELSE IF m = x THEN u.prev[h] ELSE u.prev[m]

\* That is what radixListInsert does.
LEMMA ListInsertIs ==
    ASSUME NEW u \in Trees, NEW x \in Nodes, NEW h \in Nodes, x # h, u.prev[h] \in Nodes
    PROVE  radixListInsert(u, x, h) \in Trees /\ Added(u, radixListInsert(u, x, h), x, h)
<1> DEFINE p == u.prev[h]
           A == [u.next EXCEPT ![p] = x, ![x] = h]
           P == [u.prev EXCEPT ![x] = p, ![h] = x]
           v == radixListInsert(u, x, h)
<1>1. /\ u.next \in [Nodes -> Pointer] /\ u.prev \in [Nodes -> Pointer]
      /\ x \in Pointer /\ h \in Pointer /\ p \in Pointer
  BY DEF Trees, Pointer
<1>2. v = [u EXCEPT !.next = A, !.prev = P]
  BY DEF radixListInsert
<1>3. /\ A \in [Nodes -> Pointer]
      /\ \A m \in Nodes : A[m] = IF m = x THEN h ELSE IF m = p THEN x ELSE u.next[m]
  BY <1>1
<1>4. /\ P \in [Nodes -> Pointer]
      /\ \A m \in Nodes : P[m] = IF m = h THEN x ELSE IF m = x THEN p ELSE u.prev[m]
  BY <1>1
<1> HIDE DEF A, P, v
<1>5. /\ v \in Trees /\ v.at = u.at /\ v.slot = u.slot /\ v.parent = u.parent
      /\ v.key = u.key /\ v.next = A /\ v.prev = P
  BY <1>2, <1>3, <1>4 DEF Trees
<1>6. v \in Trees /\ Added(u, v, x, h)
  BY <1>3, <1>4, <1>5 DEF Added
<1> QED
  BY <1>6 DEF v

\* The node goes into the slot it came to.
LEMMA PlantingIs ==
    ASSUME NEW u \in Trees, NEW x \in Nodes, NEW s \in Slots, NEW v,
           v = [u EXCEPT !.at[s] = x, !.slot[x] = s, !.parent[x] = s[1]]
    PROVE  v \in Trees /\ SameRings(u, v) /\ Planted(u, v, x, s)
<1> DEFINE A == [u.at EXCEPT ![s] = x]
           P == [u.slot EXCEPT ![x] = s]
           Q == [u.parent EXCEPT ![x] = s[1]]
<1>1. x \in Pointer /\ s[1] \in Pointer /\ s \in Slots \cup {NOSLOT}
  BY SlotsAre DEF Pointer
<1>2. v = [u EXCEPT !.at = A, !.slot = P, !.parent = Q]
  BY DEF Trees
<1>3. /\ A \in [Slots -> Pointer]
      /\ \A q \in Slots : A[q] = IF q = s THEN x ELSE u.at[q]
  BY <1>1 DEF Trees
<1>4. /\ P \in [Nodes -> Slots \cup {NOSLOT}]
      /\ \A m \in Nodes : P[m] = IF m = x THEN s ELSE u.slot[m]
  BY <1>1 DEF Trees
<1>5. /\ Q \in [Nodes -> Pointer]
      /\ \A m \in Nodes : Q[m] = IF m = x THEN s[1] ELSE u.parent[m]
  BY <1>1 DEF Trees
<1> HIDE DEF A, P, Q
<1>6. /\ v \in Trees /\ v.at = A /\ v.slot = P /\ v.parent = Q
      /\ v.key = u.key /\ v.next = u.next /\ v.prev = u.prev
  BY <1>2, <1>3, <1>4, <1>5 DEF Trees
<1> QED
  BY <1>3, <1>4, <1>5, <1>6 DEF SameRings, Planted

\* A tree with n as well, under k.
With(t, v, n, k) ==
    /\ Good(v) /\ In(v) = In(t) \cup {n}
    /\ v.key[n] = k /\ \A m \in In(t) : v.key[m] = t.key[m]

\* It comes into the ring of its key.
LEMMA JoinsRing ==
    ASSUME NEW t, Good(t), NEW n \in Nodes, n \notin In(t), NEW k \in Keys,
           NEW w, Walking(t, n, k, w, KeyBits), NEW c, c = w.tree.at[w.slot], c # NULL
    PROVE  With(t, radixListInsert(w.tree, w.node, c), n, k)
<1> DEFINE u == w.tree
           s == w.slot
           v == radixListInsert(u, n, c)
<1>1. PICK depth \in [Nodes -> Depths], d \in Depths :
         Deep(u, depth) /\ Hangs(u, depth, d, w.node, s)
  BY DEF Walking
<1>2. Carries(t, n, k, w) /\ t \in Trees /\ Rings(t) /\ Headed(t)
  BY DEF Walking, Good
<1>3. Arrived(w, k)
  BY WalkEnds
<1>4. u.key[c] = k
  BY <1>3 DEF Arrived
<1>5. /\ u.key[n] = k /\ \A m \in Nodes : m # n => u.key[m] = t.key[m]
      /\ u \in Trees /\ w.node \in Nodes /\ s \in Slots
      /\ \A m \in Nodes : m # n => u.next[m] = t.next[m] /\ u.prev[m] = t.prev[m]
  BY <1>2, CarriedKeys
<1>6. /\ w.node \notin Prims(u) /\ Prims(u) \cup {w.node} = Prims(t) \cup {n}
      /\ w.node # n => s # ROOT /\ u.key[s[1]] >= k
  BY <1>2 DEF Carries
<1>7. c = u.at[s]
  OBVIOUS
<1> HIDE DEF u, s
<1>8. /\ c \in Prims(u) /\ c \in Nodes /\ u.key[c] \in Nat
      /\ s # ROOT => u.key[s[1]] < u.key[c] /\ u.key[s[1]] \in Nat
  BY <1>1, <1>5, <1>7, WalkMeets
<1>9. w.node = n
  BY <1>4, <1>6, <1>8
<1>10. n \notin Prims(t) /\ Prims(u) = Prims(t) /\ c # n /\ c \in In(t)
  <2>1. Prims(t) \subseteq In(t)
    BY <1>2 DEF Headed
  <2>2. n \notin Prims(t) /\ n \notin Prims(u) /\ Prims(u) \cup {n} = Prims(t) \cup {n}
    BY <1>6, <1>9, <2>1
  <2>3. Prims(u) = Prims(t)
    BY <2>2
  <2> QED
    BY <1>8, <2>1, <2>2, <2>3
<1>11. u.prev[c] \in Nodes /\ u.prev[c] = t.prev[c] /\ t.key[c] = k
  <2>1. t.prev[c] \in In(t)
    BY <1>2, <1>10 DEF Rings
  <2> QED
    BY <1>4, <1>5, <1>8, <1>10, <2>1 DEF In
<1>12. v \in Trees /\ Added(u, v, n, c)
  BY <1>5, <1>8, <1>10, <1>11, ListInsertIs
<1> HIDE DEF v
<1>13. RingMore(t, v, n, c) /\ v.key[n] = t.key[c]
  <2>1. /\ v.next[n] = c /\ v.prev[n] = t.prev[c] /\ v.key = u.key
    <3>1. /\ v.next[n] = IF n = n THEN c ELSE IF n = u.prev[c] THEN n ELSE u.next[n]
          /\ v.prev[n] = IF n = c THEN n ELSE IF n = n THEN u.prev[c] ELSE u.prev[n]
      BY <1>12 DEF Added
    <3>2. v.key = u.key
      BY <1>12 DEF Added
    <3> QED
      BY <1>10, <1>11, <3>1, <3>2
  <2>2. ASSUME NEW m \in Nodes, m # n
        PROVE  /\ v.next[m] = IF m = t.prev[c] THEN n ELSE t.next[m]
               /\ v.prev[m] = IF m = c THEN n ELSE t.prev[m]
    <3>1. /\ v.next[m] = IF m = n THEN c ELSE IF m = u.prev[c] THEN n ELSE u.next[m]
          /\ v.prev[m] = IF m = c THEN n ELSE IF m = n THEN u.prev[c] ELSE u.prev[m]
      BY <1>12 DEF Added
    <3>2. u.next[m] = t.next[m] /\ u.prev[m] = t.prev[m] /\ u.prev[c] = t.prev[c]
      BY <1>5, <1>11, <2>2
    <3> QED
      BY <2>2, <3>1, <3>2
  <2> QED
    BY <1>5, <1>10, <1>11, <2>1, <2>2 DEF RingMore
<1>14. In(v) = In(t) \cup {n} /\ Rings(v)
  BY <1>2, <1>10, <1>13, RingsMore
<1>15. Deep(v, depth) /\ Prims(v) = Prims(t)
  <2>1. /\ \A m \in Nodes : v.slot[m] = u.slot[m] /\ v.parent[m] = u.parent[m]
        /\ \A q \in Slots : v.at[q] = u.at[q]
        /\ \A m \in Prims(u) : v.key[m] = u.key[m]
    BY <1>12 DEF Added
  <2> QED
    BY <1>1, <1>10, <1>12, <2>1, LinksStay
<1>16. v.key[n] = k /\ \A m \in In(t) : m # n /\ v.key[m] = t.key[m]
  BY <1>5, <1>12 DEF Added, In
<1>17. Headed(v)
  <2>1. ASSUME NEW m \in In(v) PROVE \E p \in Prims(v) : v.key[p] = v.key[m]
    <3>1. CASE m = n
      BY <1>8, <1>10, <1>11, <1>15, <1>16, <3>1
    <3>2. CASE m # n
      <4>1. m \in In(t)
        BY <1>14, <3>2
      <4>2. PICK p \in Prims(t) : t.key[p] = t.key[m]
        BY <1>2, <4>1 DEF Headed
      <4>3. p \in In(t)
        BY <1>2 DEF Headed
      <4> QED
        BY <1>15, <1>16, <4>1, <4>2, <4>3
    <3> QED
      BY <3>1, <3>2
  <2> QED
    BY <1>2, <1>14, <1>15, <2>1 DEF Headed
<1>18. Good(v)
  BY <1>14, <1>15, <1>17 DEF Good, Shape, Deep
<1>19. With(t, v, n, k)
  BY <1>14, <1>16, <1>18 DEF With
<1> QED
  BY <1>9, <1>19 DEF v, u

\* It, or the one it has displaced, comes into a free slot.
LEMMA TakesSlot ==
    ASSUME NEW t, Good(t), NEW n \in Nodes, n \notin In(t), NEW k \in Keys,
           NEW w, Walking(t, n, k, w, KeyBits), w.tree.at[w.slot] = NULL,
           NEW v, v = [w.tree EXCEPT !.at[w.slot] = w.node, !.slot[w.node] = w.slot,
                                     !.parent[w.node] = w.slot[1]]
    PROVE  With(t, v, n, k)
<1> DEFINE u == w.tree
           s == w.slot
           x == w.node
<1>1. PICK depth \in [Nodes -> Depths], d \in Depths :
         Deep(u, depth) /\ Hangs(u, depth, d, x, s)
  BY DEF Walking
<1>2. Carries(t, n, k, w) /\ t \in Trees /\ Rings(t) /\ Headed(t)
  BY DEF Walking, Good
<1>3. /\ u.key[n] = k /\ \A m \in Nodes : m # n => u.key[m] = t.key[m]
      /\ u \in Trees /\ x \in Nodes /\ s \in Slots
      /\ u.next[n] = n /\ u.prev[n] = n
      /\ \A m \in Nodes : m # n => u.next[m] = t.next[m] /\ u.prev[m] = t.prev[m]
  BY <1>2, CarriedKeys
<1>4. x \notin Prims(u) /\ Prims(u) \cup {x} = Prims(t) \cup {n}
  BY <1>2 DEF Carries
<1>5. u.at[s] = NULL /\ v = [u EXCEPT !.at[s] = x, !.slot[x] = s, !.parent[x] = s[1]]
  OBVIOUS
<1> HIDE DEF u, s, x
<1>6. v \in Trees /\ SameRings(u, v) /\ Planted(u, v, x, s)
  BY <1>3, <1>5, PlantingIs
<1>7. Prims(v) = Prims(t) \cup {n} /\ \E new \in [Nodes -> Depths] : Deep(v, new)
  BY <1>1, <1>3, <1>4, <1>5, <1>6, PlantIs
<1>8. PICK new \in [Nodes -> Depths] : Deep(v, new)
  BY <1>7
<1>9. v.key[n] = k /\ \A m \in In(t) : m # n /\ m \in Nodes /\ v.key[m] = t.key[m]
  BY <1>3, <1>6 DEF SameRings, In
<1>10. RingMore(t, v, n, n)
  BY <1>3, <1>6 DEF RingMore, SameRings
<1>11. \A m \in In(t) : t.key[m] # v.key[n]
  <2>1. SUFFICES ASSUME NEW m \in In(t), t.key[m] = v.key[n] PROVE FALSE
    OBVIOUS
  <2>2. PICK p \in Prims(t) : t.key[p] = t.key[m]
    BY <1>2 DEF Headed
  <2>3. p \in In(t)
    BY <1>2 DEF Headed
  <2>4. v.key[p] = v.key[n] /\ p # n /\ p \in Prims(v) /\ n \in Prims(v)
    BY <1>7, <1>9, <2>1, <2>2, <2>3
  <2> QED
    BY <1>8, <2>4, OnePrimary
<1>12. In(v) = In(t) \cup {n} /\ Rings(v)
  BY <1>2, <1>10, <1>11, RingsNew
<1>13. Headed(v)
  <2>1. ASSUME NEW m \in In(v) PROVE \E p \in Prims(v) : v.key[p] = v.key[m]
    <3>1. CASE m = n
      BY <1>7, <3>1
    <3>2. CASE m # n
      <4>1. m \in In(t)
        BY <1>12, <3>2
      <4>2. PICK p \in Prims(t) : t.key[p] = t.key[m]
        BY <1>2, <4>1 DEF Headed
      <4>3. p \in In(t)
        BY <1>2 DEF Headed
      <4> QED
        BY <1>7, <1>9, <4>1, <4>2, <4>3
    <3> QED
      BY <3>1, <3>2
  <2> QED
    BY <1>2, <1>7, <1>12, <2>1 DEF Headed
<1>14. Good(v)
  BY <1>8, <1>12, <1>13 DEF Good, Shape, Deep
<1> QED
  BY <1>9, <1>12, <1>14 DEF With

\* Insert puts one node in and keeps everything in order.
LEMMA InsertIs ==
    ASSUME NEW t, Good(t), NEW n \in Nodes, n \notin In(t), NEW k \in Keys
    PROVE  With(t, radixTreeInsert(t, n, k), n, k)
<1> DEFINE w == InsertWalk(t, n, k)
           c == w.tree.at[w.slot]
           v == [w.tree EXCEPT !.at[w.slot] = w.node, !.slot[w.node] = w.slot,
                               !.parent[w.node] = w.slot[1]]
<1>1. radixTreeInsert(t, n, k) = IF c # NULL THEN radixListInsert(w.tree, w.node, c) ELSE v
  BY DEF radixTreeInsert
<1>2. Walking(t, n, k, w, KeyBits)
  BY InsertWalkIs
<1> HIDE DEF w
<1>3. CASE c # NULL
  <2>1. With(t, radixListInsert(w.tree, w.node, c), n, k)
    BY <1>2, <1>3, JoinsRing
  <2> QED
    BY <1>1, <1>3, <2>1
<1>4. CASE c = NULL
  <2>1. w.tree.at[w.slot] = NULL
    BY <1>4
  <2> HIDE DEF c
  <2>2. With(t, v, n, k)
    BY <1>2, <2>1, TakesSlot
  <2> QED
    BY <1>1, <1>4, <2>2
<1> QED
  BY <1>3, <1>4

----------------------------------------------------------------------------
(***************************************************************************)
(* What holds in every state.                                              *)
(***************************************************************************)

\* At first nothing is in the tree.
LEMMA InitIs == Init => IInv /\ In(tree) = {}
<1> SUFFICES ASSUME Init PROVE IInv /\ In(tree) = {}
  OBVIOUS
<1>1. 0 \in Keys /\ NULL \in Pointer /\ ROOT \in Slots /\ 0 \in Depths
  BY ZeroIsKey, SlotsAre, BitsAssumption DEF Pointer, Depths
<1>2. tree \in Trees
  BY <1>1 DEF Init, Trees
<1>3. In(tree) = {}
  BY DEF Init, In
<1>4. Prims(tree) = {}
  BY DEF Init, Prims
<1>5. Linked(tree)
  <2>1. \A s \in Slots : tree.at[s] = NULL
    BY DEF Init
  <2>2. \A n \in Nodes : tree.parent[n] = NULL
    BY DEF Init
  <2>3. \A n \in Nodes, i \in {0, 1} : <<n, i>> \in Slots
    BY SlotsAre
  <2> QED
    BY <1>4, <2>1, <2>2, <2>3 DEF Linked
<1>6. Shape(tree)
  <2>1. [n \in Nodes |-> 0] \in [Nodes -> Depths]
    BY <1>1
  <2> QED
    BY <1>4, <2>1 DEF Shape, Placed
<1>7. Rings(tree)
  BY <1>3 DEF Rings
<1>8. Headed(tree)
  BY <1>3, <1>4 DEF Headed
<1> QED
  BY <1>2, <1>3, <1>5, <1>6, <1>7, <1>8 DEF IInv, Good

\* What an insert does, and what a remove does.
LEMMA StepsAre ==
    ASSUME IInv, NEW n \in Nodes
    PROVE  /\ Members(tree) = In(tree)
           /\ \A k \in Keys : Insert(n, k) => n \notin In(tree) /\ With(tree, tree', n, k)
           /\ Remove(n) => n \in In(tree) /\ Without(tree, tree', n)
<1>1. Good(tree)
  BY DEF IInv
<1>2. Members(tree) = In(tree)
  BY <1>1, MembersIn
<1>3. ASSUME NEW k \in Keys, Insert(n, k)
      PROVE  n \notin In(tree) /\ With(tree, tree', n, k)
  <2>1. n \notin In(tree) /\ tree' = radixTreeInsert(tree, n, k)
    BY <1>2, <1>3 DEF Insert
  <2> QED
    BY <1>1, <2>1, InsertIs
<1>4. ASSUME Remove(n) PROVE n \in In(tree) /\ Without(tree, tree', n)
  <2>1. n \in In(tree) /\ tree' = Erase(radixTreeRemove(tree, n), n)
    BY <1>2, <1>4 DEF Remove, Erase
  <2>2. Without(tree, Erase(radixTreeRemove(tree, n), n), n)
    BY <1>1, <2>1, RemoveIs
  <2> QED
    BY <2>1, <2>2
<1> QED
  BY <1>2, <1>3, <1>4

\* Every step keeps the tree in order.
LEMMA StepKeeps == IInv /\ [Next]_tree => IInv'
<1> SUFFICES ASSUME IInv, [Next]_tree PROVE IInv'
  OBVIOUS
<1>1. ASSUME NEW n \in Nodes, NEW k \in Keys, Insert(n, k) PROVE IInv'
  <2>1. With(tree, tree', n, k)
    BY <1>1, StepsAre
  <2> QED
    BY <2>1 DEF With, IInv
<1>2. ASSUME NEW n \in Nodes, Remove(n) PROVE IInv'
  <2>1. Without(tree, tree', n)
    BY <1>2, StepsAre
  <2> QED
    BY <2>1 DEF Without, IInv
<1>3. CASE UNCHANGED tree
  BY <1>3 DEF IInv
<1> QED
  BY <1>1, <1>2, <1>3 DEF Next

\* The links, the places and the rings of the tree stay in order under any
\* sequence of inserts and removes, for any nodes and any width of key.
THEOREM Invariant == Spec => []IInv
<1>1. Init => IInv
  BY InitIs
<1> QED
  BY <1>1, StepKeeps, PTL DEF Spec

\* Every pointer is a node or NULL, and every slot is one.
THEOREM TypeCorrect == Spec => []TypeOK
<1>1. IInv => TypeOK
  BY DEF IInv, Good, Trees, TypeOK
<1> QED
  BY <1>1, Invariant, PTL

\* Slots, parents, children and rings agree about who is where.
THEOREM LinksAgree == Spec => []PointersAgree
<1>1. ASSUME IInv PROVE PointersAgree
  <2>0. /\ tree \in Trees /\ Linked(tree) /\ Rings(tree) /\ Headed(tree)
        /\ Members(tree) = In(tree)
    BY <1>1, MembersIn DEF IInv, Good
  <2>1. ASSUME NEW n \in In(tree), Primary(n)
        PROVE  /\ tree.at[tree.slot[n]] = n
               /\ tree.parent[n] = tree.slot[n][1]
               /\ \A i \in {0, 1} : Child(tree, n, i) # NULL =>
                                       tree.slot[Child(tree, n, i)] = <<n, i>>
    <3>1. n \in Prims(tree) /\ n \in Nodes
      BY <2>1 DEF Primary, Prims, In
    <3>2. ASSUME NEW i \in {0, 1}, Child(tree, n, i) # NULL
          PROVE  tree.slot[Child(tree, n, i)] = <<n, i>>
      <4>1. <<n, i>> \in Slots
        BY <3>1, SlotsAre
      <4> QED
        BY <2>0, <3>2, <4>1 DEF Linked, Child
    <3> QED
      BY <2>0, <3>1, <3>2 DEF Linked
  <2>2. ASSUME NEW n \in In(tree), ~ Primary(n)
        PROVE  tree.parent[n] = NULL /\ Children(tree, n) = {}
    <3>1. n \in Nodes \ Prims(tree)
      BY <2>2 DEF Primary, Prims, In
    <3> QED
      BY <2>0, <3>1 DEF Linked, Children, Child
  <2>3. \A n \in In(tree) : /\ tree.prev[tree.next[n]] = n /\ tree.next[tree.prev[n]] = n
                            /\ tree.key[tree.next[n]] = tree.key[n]
    BY <2>0 DEF Rings
  <2> QED
    BY <2>0, <2>1, <2>2, <2>3 DEF PointersAgree
<1> QED
  BY <1>1, Invariant, PTL

\* Every key is on the path of its bits, below smaller keys only.
THEOREM KeysFindable == Spec => []KeysInPlace
<1>1. ASSUME IInv PROVE KeysInPlace
  <2>0. /\ tree \in Trees /\ Headed(tree) /\ Members(tree) = In(tree) /\ Good(tree)
    BY <1>1, MembersIn DEF IInv, Good
  <2>1. PICK depth \in [Nodes -> Depths] : Placed(tree, tree.key, depth, NULL)
    BY <2>0 DEF Good, Shape
  <2>2. Deep(tree, depth)
    BY <2>0, <2>1 DEF Good, Deep
  <2>3. ASSUME NEW n \in In(tree)
        PROVE  \E d \in 0 .. KeyBits :
                  /\ Path(tree, tree.key[n])[d] # NULL /\ Primary(Path(tree, tree.key[n])[d])
                  /\ tree.key[Path(tree, tree.key[n])[d]] = tree.key[n]
                  /\ \A e \in 0 .. (d - 1) :
                        tree.key[Path(tree, tree.key[n])[e]] < tree.key[n]
    <3>1. PICK p \in Prims(tree) : tree.key[p] = tree.key[n]
      BY <2>0 DEF Headed
    <3> DEFINE k == tree.key[p]
    <3>2. p # NULL /\ depth[p] \in 0 .. KeyBits /\ k \in Nat /\ Primary(p)
      BY <2>2, PrimsAre DEF Primary, Prims, Depths
    <3>3. OnPath(tree, depth, p, k)
      BY <2>2, <3>2, ComesBy
    <3> HIDE DEF k
    <3>4. /\ Path(tree, k)[depth[p]] = p
          /\ \A e \in 0 .. (depth[p] - 1) : tree.key[Path(tree, k)[e]] < tree.key[p]
      BY <3>3 DEF OnPath
    <3>5. k = tree.key[n] /\ k = tree.key[p]
      BY <3>1 DEF k
    <3> QED
      BY <3>2, <3>4, <3>5
  <2> QED
    BY <2>0, <2>3 DEF KeysInPlace
<1> QED
  BY <1>1, Invariant, PTL

\* The search returns the best fit, for any key, and nothing only if nothing fits.
THEOREM BestFitFound == Spec => []FindGEQIsLeast
<1>1. ASSUME IInv PROVE FindGEQIsLeast
  <2>0. /\ Headed(tree) /\ Members(tree) = In(tree) /\ Good(tree) /\ tree \in Trees
    BY <1>1, MembersIn DEF IInv, Good
  <2>1. PICK depth \in [Nodes -> Depths] : Placed(tree, tree.key, depth, NULL)
    BY <2>0 DEF Good, Shape
  <2>2. Deep(tree, depth)
    BY <2>0, <2>1 DEF Good, Deep
  <2>3. \A n \in In(tree) : \E p \in Prims(tree) : tree.key[p] = tree.key[n]
    BY <2>0 DEF Headed
  <2>4. \A p \in Prims(tree) : p \in In(tree) /\ p # NULL
    BY <2>0, <2>2, PrimsAre DEF Headed
  <2>5. ASSUME NEW k \in Keys
        PROVE  LET found == radixTreeFindGEQ(tree, k)
                   geq   == {n \in In(tree) : tree.key[n] >= k}
               IN  IF geq = {} THEN found = NULL
                   ELSE /\ found \in geq
                        /\ \A n \in geq : tree.key[found] <= tree.key[n]
    <3> DEFINE found == radixTreeFindGEQ(tree, k)
               geq   == {n \in In(tree) : tree.key[n] >= k}
    <3>1. BestFit(tree, k, found)
      BY <2>2, FindsBest
    <3> HIDE DEF found
    <3>2. ASSUME geq = {} PROVE found = NULL
      BY <2>4, <3>1, <3>2 DEF BestFit
    <3>3. ASSUME geq # {}
          PROVE  found \in geq /\ \A n \in geq : tree.key[found] <= tree.key[n]
      <4>1. ASSUME NEW n \in geq
            PROVE  found # NULL /\ tree.key[found] <= tree.key[n]
        <5>1. PICK p \in Prims(tree) : tree.key[p] = tree.key[n]
          BY <2>3
        <5>2. tree.key[p] >= k
          BY <5>1
        <5> QED
          BY <3>1, <5>1, <5>2 DEF BestFit
      <4>2. found # NULL
        BY <3>3, <4>1
      <4>3. found \in geq
        BY <2>4, <3>1, <4>2 DEF BestFit
      <4> QED
        BY <3>3, <4>1, <4>3
    <3> QED
      BY <3>2, <3>3 DEF found, geq
  <2> QED
    BY <2>0, <2>5 DEF FindGEQIsLeast
<1> QED
  BY <1>1, Invariant, PTL

\* The insert loop comes to a free slot or to the key before the bits run out,
\* in every state and for every key.
THEOREM InsertEnds == Spec => []InsertEndsInTime
<1>1. ASSUME IInv PROVE InsertEndsInTime
  <2>1. Members(tree) = In(tree) /\ Good(tree)
    BY <1>1, MembersIn DEF IInv
  <2>2. ASSUME NEW n \in Nodes \ In(tree), NEW k \in Keys,
               NEW w, w = InsertWalk(tree, n, k)
        PROVE  w.tree.at[w.slot] # NULL => w.tree.key[w.tree.at[w.slot]] = k
    <3>1. Walking(tree, n, k, w, KeyBits)
      BY <2>1, <2>2, InsertWalkIs
    <3>2. Arrived(w, k)
      BY <2>1, <3>1, WalkEnds
    <3> QED
      BY <3>2 DEF Arrived
  <2> QED
    BY <2>1, <2>2 DEF InsertEndsInTime
<1> QED
  BY <1>1, Invariant, PTL

\* What is filed, and under which key.
Filed == [n \in Members(tree) |-> tree.key[n]]

\* An insert files one node and a remove takes one out: the pointers implement
\* the index.
THEOREM ImplementsIndex == Spec => KeepsIndex
<1>1. Init => Index!Init
  <2> SUFFICES ASSUME Init PROVE Index!Init
    OBVIOUS
  <2>1. Members(tree) = {}
    BY InitIs, MembersIn DEF IInv
  <2> QED
    BY <2>1 DEF Index!Init
<1>2. IInv /\ IInv' /\ [Next]_tree => [Index!Next]_Filed
  <2> SUFFICES ASSUME IInv, IInv', [Next]_tree PROVE [Index!Next]_Filed
    OBVIOUS
  <2>0. /\ Members(tree) = In(tree) /\ Members(tree)' = In(tree')
        /\ Filed = [n \in In(tree) |-> tree.key[n]]
        /\ Filed' = [n \in In(tree') |-> tree'.key[n]]
    <3>1. Good(tree) /\ Good(tree')
      BY DEF IInv
    <3>2. Members(tree) = In(tree) /\ Members(tree') = In(tree')
      BY <3>1, MembersIn
    <3> QED
      BY <3>2 DEF Filed
  <2>1. ASSUME NEW n \in Nodes, NEW k \in Keys, Insert(n, k) PROVE Index!Next
    <3>1. /\ n \notin In(tree) /\ In(tree') = In(tree) \cup {n}
          /\ tree'.key[n] = k /\ \A m \in In(tree) : tree'.key[m] = tree.key[m]
      BY <2>1, StepsAre DEF With
    <3>2. \A m \in In(tree') : tree'.key[m] \in Keys
      BY DEF IInv, Good, Trees, In
    <3>3. Index!Insert(n)
      BY <2>0, <3>1, <3>2 DEF Index!Insert, Filed
    <3> QED
      BY <3>3 DEF Index!Next
  <2>2. ASSUME NEW n \in Nodes, Remove(n) PROVE Index!Next
    <3>1. /\ n \in In(tree) /\ In(tree') = In(tree) \ {n}
          /\ \A m \in In(tree') : tree'.key[m] = tree.key[m]
      BY <2>2, StepsAre DEF Without
    <3>2. Index!Remove(n)
      BY <2>0, <3>1 DEF Index!Remove, Filed
    <3> QED
      BY <3>2 DEF Index!Next
  <2>3. CASE UNCHANGED tree
    BY <2>3 DEF Filed
  <2> QED
    BY <2>1, <2>2, <2>3 DEF Next
<1> QED
  BY <1>1, <1>2, Invariant, PTL DEF Spec, KeepsIndex, Index!Spec, Filed
=============================================================================
