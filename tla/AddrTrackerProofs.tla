-------------------------- MODULE AddrTrackerProofs -------------------------
(***************************************************************************)
(* The address tracker and the AVL tree below it: whatever is registered   *)
(* and unregistered, the pointers form one search tree, between the turns  *)
(* of a climb too; its heights are right and its subtrees even wherever    *)
(* the climb is not; and the queries find what they promise.               *)
(*                                                                         *)
(* A search tree t over the nodes H comes with a function S: S[n] is what  *)
(* is at and below n.  Each operation of avl.c is first told node by node  *)
(* (Replaced, Renamed, Rotated, Hooked), then shown to turn one such S     *)
(* into another.  Heights come with a function V, the heights the tree     *)
(* would have if the climb were over.                                      *)
(***************************************************************************)
EXTENDS AddrTracker, NumberInduction

----------------------------------------------------------------------------
(***************************************************************************)
(* Addresses as the tree orders them.                                      *)
(***************************************************************************)

AvlTrees == [root   : Pointer,
             link   : [Nodes -> [Sides -> Pointer]],
             parent : [Nodes -> Pointer],
             height : [Nodes -> Nat],
             key    : [Nodes -> Addrs \cup {NULL}]]

Held(t) == {n \in Nodes : t.key[n] # NULL}

Val(t, n) == Signed(t.key[n])

\* b lies on that side of a.
Past(t, side, a, b) == IF side = "left" THEN Val(t, b) < Val(t, a)
                       ELSE Val(t, a) < Val(t, b)

\* Signed tells addresses apart.
LEMMA SignedIs ==
    ASSUME NEW a \in Addrs, NEW b \in Addrs
    PROVE  Signed(a) \in Int /\ (Signed(a) = Signed(b) => a = b)
<1> DEFINE P == 2 ^ Width
           Q == 2 ^ (Width - 1)
<1>1. P \in Nat /\ Q \in Nat
  <2>1. Width \in Nat /\ Width - 1 \in Nat
    BY WidthAssumption
  <2> QED
    BY <2>1, PowerType
<1>2. a \in 0 .. (P - 1) /\ b \in 0 .. (P - 1)
  BY DifferenceAssumption
<1>3. Signed(a) = (IF a < Q THEN a ELSE a - P) /\ Signed(b) = (IF b < Q THEN b ELSE b - P)
  BY DEF Signed
<1> HIDE DEF P, Q
<1> QED
  BY <1>1, <1>2, <1>3

Keyed(t, H) == H \subseteq Nodes /\ \A n \in H : t.key[n] \in Addrs

\* The order is one.
LEMMA PastIs ==
    ASSUME NEW t, NEW H, Keyed(t, H), NEW side \in Sides,
           NEW a \in H, NEW b \in H, NEW c \in H
    PROVE  /\ ~ Past(t, side, a, a)
           /\ Past(t, side, a, b) => ~ Past(t, side, b, a)
           /\ Past(t, side, a, b) /\ Past(t, side, b, c) => Past(t, side, a, c)
           /\ Past(t, Opposite(side), a, b) <=> Past(t, side, b, a)
           /\ t.key[a] # t.key[b] => Past(t, side, a, b) \/ Past(t, side, b, a)
<1>1. Val(t, a) \in Int /\ Val(t, b) \in Int /\ Val(t, c) \in Int
  BY SignedIs DEF Keyed, Val
<1>2. Val(t, a) = Val(t, b) => t.key[a] = t.key[b]
  BY SignedIs DEF Keyed, Val
<1>3. side = "left" \/ side = "right"
  BY DEF Sides
<1>4. Past(t, Opposite(side), a, b) <=> Past(t, side, b, a)
  BY <1>3 DEF Past, Opposite
<1> QED
  BY <1>1, <1>2, <1>4 DEF Past

\* The sides.
LEMMA SidesAre ==
    ASSUME NEW side \in Sides
    PROVE  /\ Opposite(side) \in Sides /\ Opposite(side) # side
           /\ Opposite(Opposite(side)) = side
           /\ \A other \in Sides : other # side => other = Opposite(side)
           /\ "left" \in Sides /\ "right" \in Sides
BY DEF Sides, Opposite

----------------------------------------------------------------------------
(***************************************************************************)
(* Search trees.                                                           *)
(***************************************************************************)

\* The nodes at and below p.
Span(S, p) == IF p = NULL THEN {} ELSE S[p]

\* The nodes of H name each other as parent and child, from the root on.
Linked(t, H) ==
    /\ t.root # NULL => t.root \in H /\ t.parent[t.root] = NULL
    /\ \A n \in H, side \in Sides :
          t.link[n][side] # NULL =>
             t.link[n][side] \in H /\ t.parent[t.link[n][side]] = n
    /\ \A n \in H : IF t.parent[n] = NULL THEN n = t.root
                    ELSE /\ t.parent[n] \in H
                         /\ \E side \in Sides : t.link[t.parent[n]][side] = n

\* Below each node are it and what is below its children, each child with all
\* that is below it on its side.
Sorted(t, H, S) ==
    /\ S \in [Nodes -> SUBSET H]
    /\ Span(S, t.root) = H
    /\ \A n \in H :
          /\ S[n] = {n} \cup Span(S, t.link[n]["left"]) \cup Span(S, t.link[n]["right"])
          /\ \A side \in Sides : \A m \in Span(S, t.link[n][side]) : Past(t, side, n, m)

Search(t, H, S) == t \in AvlTrees /\ Keyed(t, H) /\ Linked(t, H) /\ Sorted(t, H, S)

\* A child.
LEMMA ChildIs ==
    ASSUME NEW t, NEW H, NEW S, Search(t, H, S), NEW n \in H, NEW side \in Sides,
           NEW c, c = t.link[n][side], c # NULL
    PROVE  /\ c \in H /\ c \in Nodes /\ t.parent[c] = n /\ c # n
           /\ S[c] \subseteq S[n] /\ c \in S[c] /\ n \notin S[c] /\ n \in S[n]
           /\ \A m \in S[c] : m \in H /\ Past(t, side, n, m)
<1>1. c \in H /\ t.parent[c] = n
  BY DEF Search, Linked
<1>2. H \subseteq Nodes /\ Keyed(t, H)
  BY DEF Search, Keyed
<1>3. \A m \in S[c] : m \in H /\ Past(t, side, n, m)
  <2>1. S[c] \subseteq H
    BY <1>1, <1>2 DEF Search, Sorted
  <2>2. Span(S, c) = S[c]
    BY DEF Span
  <2> QED
    BY <2>1, <2>2 DEF Search, Sorted
<1>4. c \in S[c] /\ n \in S[n]
  BY <1>1 DEF Search, Sorted
<1>5. n \notin S[c]
  BY <1>2, <1>3, PastIs
<1>6. S[c] \subseteq S[n]
  <2>1. S[n] = {n} \cup Span(S, t.link[n]["left"]) \cup Span(S, t.link[n]["right"])
    BY DEF Search, Sorted
  <2>2. side = "left" \/ side = "right"
    BY DEF Sides
  <2>3. Span(S, c) = S[c]
    BY DEF Span
  <2> QED
    BY <2>1, <2>2, <2>3
<1> QED
  BY <1>1, <1>2, <1>3, <1>4, <1>5, <1>6

\* What is below a node is it or below one of its children.
LEMMA SpanIs ==
    ASSUME NEW t, NEW H, NEW S, Search(t, H, S), NEW n \in H, NEW m \in S[n], m # n
    PROVE  \E side \in Sides : t.link[n][side] # NULL /\ m \in S[t.link[n][side]]
<1>1. S[n] = {n} \cup Span(S, t.link[n]["left"]) \cup Span(S, t.link[n]["right"])
  BY DEF Search, Sorted
<1>2. PICK side \in Sides : m \in Span(S, t.link[n][side])
  BY <1>1 DEF Sides
<1> QED
  BY <1>2 DEF Span

\* The two children are on two sides.
LEMMA TwoChildren ==
    ASSUME NEW t, NEW H, NEW S, Search(t, H, S), NEW n \in H, NEW side \in Sides,
           NEW c, c = t.link[n][side], c # NULL,
           NEW d, d = t.link[n][Opposite(side)], d # NULL
    PROVE  c # d /\ S[c] \cap S[d] = {}
<1>1. Opposite(side) \in Sides /\ Keyed(t, H)
  BY SidesAre DEF Search
<1>2. /\ \A m \in S[c] : m \in H /\ Past(t, side, n, m)
      /\ c \in S[c]
  BY ChildIs
<1>3. /\ \A m \in S[d] : m \in H /\ Past(t, Opposite(side), n, m)
      /\ d \in S[d]
  BY <1>1, ChildIs
<1>4. ASSUME NEW m \in S[c], m \in S[d] PROVE FALSE
  <2>1. m \in H /\ Past(t, side, n, m) /\ Past(t, Opposite(side), n, m)
    BY <1>2, <1>3, <1>4
  <2> QED
    BY <1>1, <2>1, PastIs
<1> QED
  BY <1>2, <1>3, <1>4

\* Fewer nodes below a child, more below the parent.
LEMMA SpanSizes ==
    ASSUME NEW t, NEW H, NEW S, Search(t, H, S)
    PROVE  /\ IsFiniteSet(H) /\ Cardinality(H) \in Nat
           /\ \A n \in H : /\ IsFiniteSet(S[n]) /\ Cardinality(S[n]) \in Nat
                           /\ Cardinality(S[n]) <= Cardinality(H)
           /\ \A n \in H, side \in Sides : t.link[n][side] # NULL =>
                 /\ t.link[n][side] \in H
                 /\ Cardinality(S[t.link[n][side]]) < Cardinality(S[n])
<1>1. IsFiniteSet(H) /\ Cardinality(H) \in Nat /\ H \subseteq Nodes
  <2>1. H \subseteq Nodes
    BY DEF Search, Keyed
  <2> QED
    BY <2>1, NodesAssumption, FS_Subset, FS_CardinalityType
<1>2. ASSUME NEW n \in H
      PROVE  IsFiniteSet(S[n]) /\ Cardinality(S[n]) \in Nat
             /\ Cardinality(S[n]) <= Cardinality(H)
  <2>1. S[n] \subseteq H
    BY <1>1 DEF Search, Sorted
  <2> QED
    BY <1>1, <2>1, FS_Subset, FS_CardinalityType
<1>3. ASSUME NEW n \in H, NEW side \in Sides, t.link[n][side] # NULL
      PROVE  /\ t.link[n][side] \in H
             /\ Cardinality(S[t.link[n][side]]) < Cardinality(S[n])
  <2> DEFINE c == t.link[n][side]
  <2>1. c \in H /\ S[c] \subseteq S[n] /\ n \notin S[c] /\ n \in S[n]
    BY <1>3, ChildIs
  <2> HIDE DEF c
  <2>2. S[c] # S[n]
    BY <2>1
  <2>3. Cardinality(S[c]) < Cardinality(S[n])
    <3>1. IsFiniteSet(S[n])
      BY <1>2
    <3>2. Cardinality(S[c]) <= Cardinality(S[n]) /\ Cardinality(S[c]) # Cardinality(S[n])
      BY <2>1, <2>2, <3>1, FS_Subset
    <3> QED
      BY <1>2, <2>1, <3>2
  <2> QED
    BY <2>1, <2>3 DEF c
<1> QED
  BY <1>1, <1>2, <1>3

\* Induction from the leaves to the root.
LEMMA LeavesToRoot ==
    ASSUME NEW t, NEW H, NEW S, Search(t, H, S), NEW G,
           \A n \in H : (\A side \in Sides : t.link[n][side] # NULL => t.link[n][side] \in G)
                           => n \in G
    PROVE  \A n \in H : n \in G
<1> DEFINE rank == [n \in H |-> Cardinality(S[n])]
<1>1. rank \in [H -> Nat]
  BY SpanSizes
<1>2. ASSUME NEW n \in H, \A m \in H : rank[m] < rank[n] => m \in G PROVE n \in G
  <2>1. ASSUME NEW side \in Sides, t.link[n][side] # NULL PROVE t.link[n][side] \in G
    <3>1. t.link[n][side] \in H /\ Cardinality(S[t.link[n][side]]) < Cardinality(S[n])
      BY <2>1, SpanSizes
    <3> QED
      BY <1>2, <3>1
  <2> QED
    BY <2>1
<1> HIDE DEF rank
<1> QED
  BY <1>1, <1>2, RankInduction

\* The parent.
LEMMA ParentIs ==
    ASSUME NEW t, NEW H, NEW S, Search(t, H, S), NEW n \in H, NEW p, p = t.parent[n], p # NULL
    PROVE  /\ p \in H /\ p \in Nodes /\ p # n /\ S[n] \subseteq S[p] /\ p \notin S[n]
           /\ \E side \in Sides : /\ t.link[p][side] = n /\ t.link[p][Opposite(side)] # n
                                  /\ \A m \in S[n] : Past(t, side, p, m)
<1>1. p \in H
  BY DEF Search, Linked
<1>2. PICK side \in Sides : t.link[p][side] = n
  BY DEF Search, Linked
<1>3. n # NULL
  BY NodesAssumption DEF Search, Keyed
<1>4. /\ p \in Nodes /\ p # n /\ S[n] \subseteq S[p] /\ p \notin S[n]
      /\ \A m \in S[n] : Past(t, side, p, m)
  BY <1>1, <1>2, <1>3, ChildIs DEF Search, Keyed
<1>5. t.link[p][Opposite(side)] # n
  BY <1>1, <1>2, <1>3, TwoChildren
<1> QED
  BY <1>1, <1>2, <1>4, <1>5

\* Induction from the root to the leaves.
LEMMA RootToLeaves ==
    ASSUME NEW t, NEW H, NEW S, Search(t, H, S), NEW G,
           \A n \in H : (t.parent[n] # NULL => t.parent[n] \in G) => n \in G
    PROVE  \A n \in H : n \in G
<1> DEFINE rank == [n \in H |-> Cardinality(H) - Cardinality(S[n])]
<1>1. rank \in [H -> Nat]
  BY SpanSizes
<1>2. ASSUME NEW n \in H, \A m \in H : rank[m] < rank[n] => m \in G PROVE n \in G
  <2>1. ASSUME t.parent[n] # NULL PROVE t.parent[n] \in G
    <3> DEFINE p == t.parent[n]
    <3>1. p \in H /\ \E side \in Sides : t.link[p][side] = n
      BY <2>1, ParentIs
    <3>2. n # NULL
      BY NodesAssumption DEF Search, Keyed
    <3>3. Cardinality(S[n]) < Cardinality(S[p])
      BY <3>1, <3>2, SpanSizes
    <3> HIDE DEF p
    <3>4. rank[p] < rank[n]
      <4>1. /\ Cardinality(S[p]) \in Nat /\ Cardinality(S[n]) \in Nat
            /\ Cardinality(H) \in Nat
        BY <3>1, SpanSizes
      <4> QED
        BY <3>1, <3>3, <4>1
    <3> QED
      BY <1>2, <3>1, <3>4 DEF p
  <2> QED
    BY <2>1
<1> HIDE DEF rank
<1> QED
  BY <1>1, <1>2, RankInduction

\* All that is below a node that is below another is below that.
LEMMA SpanDown ==
    ASSUME NEW t, NEW H, NEW S, Search(t, H, S), NEW n \in H, NEW m \in S[n]
    PROVE  m \in H /\ S[m] \subseteq S[n]
<1> DEFINE G == {k \in H : \A x \in S[k] : x \in H /\ S[x] \subseteq S[k]}
<1>1. ASSUME NEW k \in H, \A side \in Sides : t.link[k][side] # NULL => t.link[k][side] \in G
      PROVE  k \in G
  <2>1. ASSUME NEW x \in S[k], x # k PROVE x \in H /\ S[x] \subseteq S[k]
    <3>1. PICK side \in Sides : t.link[k][side] # NULL /\ x \in S[t.link[k][side]]
      BY <2>1, SpanIs
    <3>2. S[t.link[k][side]] \subseteq S[k]
      BY <3>1, ChildIs
    <3> QED
      BY <1>1, <3>1, <3>2
  <2> QED
    BY <2>1
<1> HIDE DEF G
<1>2. n \in G
  BY <1>1, LeavesToRoot
<1> QED
  BY <1>2 DEF G

\* The parent of a node that is below another is so too.
LEMMA SpanUp ==
    ASSUME NEW t, NEW H, NEW S, Search(t, H, S), NEW n \in H, NEW m \in S[n], m # n
    PROVE  t.parent[m] # NULL /\ t.parent[m] \in S[n]
<1> DEFINE G == {k \in H : \A x \in S[k] : x # k => t.parent[x] # NULL /\ t.parent[x] \in S[k]}
<1>0. \A k \in H : k # NULL /\ k \in S[k]
  BY NodesAssumption DEF Search, Keyed, Sorted
<1>1. ASSUME NEW k \in H, \A side \in Sides : t.link[k][side] # NULL => t.link[k][side] \in G
      PROVE  k \in G
  <2>1. ASSUME NEW x \in S[k], x # k PROVE t.parent[x] # NULL /\ t.parent[x] \in S[k]
    <3>1. PICK side \in Sides : t.link[k][side] # NULL /\ x \in S[t.link[k][side]]
      BY <2>1, SpanIs
    <3> DEFINE c == t.link[k][side]
    <3>2. S[c] \subseteq S[k] /\ t.parent[c] = k
      BY <3>1, ChildIs
    <3>3. CASE x = c
      BY <1>0, <3>2, <3>3
    <3>4. CASE x # c
      BY <1>1, <3>1, <3>2, <3>4
    <3> QED
      BY <3>3, <3>4
  <2> QED
    BY <2>1
<1> HIDE DEF G
<1>2. n \in G
  BY <1>1, LeavesToRoot
<1> QED
  BY <1>2 DEF G

----------------------------------------------------------------------------
(***************************************************************************)
(* Single writes.                                                          *)
(***************************************************************************)

\* u is t but for the parents, for the links, for the root.
SameButParents(t, u) == u.root = t.root /\ u.link = t.link /\ u.height = t.height /\ u.key = t.key
SameButLinks(t, u) == u.root = t.root /\ u.parent = t.parent /\ u.height = t.height /\ u.key = t.key
SameButRoot(t, u) == u.link = t.link /\ u.parent = t.parent /\ u.height = t.height /\ u.key = t.key

\* The fields of a tree have their types.
LEMMA TreeFields ==
    ASSUME NEW t \in AvlTrees
    PROVE  /\ t.root \in Pointer
           /\ \A n \in Nodes : /\ t.parent[n] \in Pointer
                               /\ t.height[n] \in Nat
                               /\ t.key[n] \in Addrs \cup {NULL}
           /\ \A n \in Nodes, side \in Sides : t.link[n][side] \in Pointer
BY DEF AvlTrees

\* Writing one link.
LEMMA SetLink ==
    ASSUME NEW t \in AvlTrees, NEW p \in Nodes, NEW side \in Sides, NEW m \in Pointer
    PROVE  LET u == [t EXCEPT !.link[p][side] = m]
           IN  /\ u \in AvlTrees /\ SameButLinks(t, u)
               /\ \A x \in Nodes, d \in Sides :
                     u.link[x][d] = IF x = p /\ d = side THEN m ELSE t.link[x][d]
<1> DEFINE L == [t.link EXCEPT ![p] = [t.link[p] EXCEPT ![side] = m]]
           u == [t EXCEPT !.link = L]
<1>0. /\ t.link \in [Nodes -> [Sides -> Pointer]] /\ t.root \in Pointer
      /\ t.parent \in [Nodes -> Pointer] /\ t.height \in [Nodes -> Nat]
      /\ t.key \in [Nodes -> Addrs \cup {NULL}]
      /\ t = [root |-> t.root, link |-> t.link, parent |-> t.parent, height |-> t.height, key |-> t.key]
  BY DEF AvlTrees
<1>1. t.link[p] \in [Sides -> Pointer]
  BY <1>0
<1>2. L \in [Nodes -> [Sides -> Pointer]]
  <2>1. [t.link[p] EXCEPT ![side] = m] \in [Sides -> Pointer]
    BY <1>1
  <2> QED
    BY <1>0, <2>1
<1>3. \A x \in Nodes, d \in Sides : L[x][d] = IF x = p /\ d = side THEN m ELSE t.link[x][d]
  <2>1. L[p] = [t.link[p] EXCEPT ![side] = m] /\ \A x \in Nodes : x # p => L[x] = t.link[x]
    BY <1>0
  <2> HIDE DEF L
  <2> QED
    BY <1>0, <1>1, <2>1
<1>4. [t EXCEPT !.link[p][side] = m] = u
  OBVIOUS
<1> HIDE DEF L
<1>5. u \in AvlTrees /\ SameButLinks(t, u) /\ u.link = L
  BY <1>0, <1>2 DEF AvlTrees, SameButLinks
<1> HIDE DEF u
<1> QED
  BY <1>3, <1>4, <1>5

\* Writing one parent; NULL has none.
LEMMA SetParentIs ==
    ASSUME NEW t \in AvlTrees, NEW n \in Pointer, NEW p \in Pointer
    PROVE  LET u == SetParent(t, n, p)
           IN  /\ u \in AvlTrees /\ SameButParents(t, u)
               /\ \A x \in Nodes : u.parent[x] = IF x = n THEN p ELSE t.parent[x]
<1> DEFINE u == SetParent(t, n, p)
<1>1. CASE n = NULL
  <2>1. u = t
    BY <1>1 DEF SetParent
  <2>2. NULL \notin Nodes
    BY NodesAssumption
  <2> QED
    BY <1>1, <2>1, <2>2 DEF SameButParents
<1>2. CASE n # NULL
  <2> DEFINE P == [t.parent EXCEPT ![n] = p]
             v == [t EXCEPT !.parent = P]
  <2>0. /\ t.link \in [Nodes -> [Sides -> Pointer]] /\ t.root \in Pointer
        /\ t.parent \in [Nodes -> Pointer] /\ t.height \in [Nodes -> Nat]
        /\ t.key \in [Nodes -> Addrs \cup {NULL}]
        /\ t = [root |-> t.root, link |-> t.link, parent |-> t.parent, height |-> t.height, key |-> t.key]
    BY DEF AvlTrees
  <2>1. n \in Nodes
    BY <1>2 DEF Pointer
  <2>2. P \in [Nodes -> Pointer] /\ \A x \in Nodes : P[x] = IF x = n THEN p ELSE t.parent[x]
    BY <2>0, <2>1
  <2>3. u = v
    BY <1>2 DEF SetParent
  <2> HIDE DEF P, u
  <2>4. v \in AvlTrees /\ SameButParents(t, v) /\ v.parent = P
    BY <2>0, <2>2 DEF AvlTrees, SameButParents
  <2> HIDE DEF v
  <2> QED
    BY <2>2, <2>3, <2>4 DEF u
<1> QED
  BY <1>1, <1>2

\* Writing the root.
LEMMA SetRoot ==
    ASSUME NEW t \in AvlTrees, NEW m \in Pointer
    PROVE  LET u == [t EXCEPT !.root = m]
           IN  u \in AvlTrees /\ SameButRoot(t, u) /\ u.root = m
BY DEF AvlTrees, SameButRoot

\* Writing one height.
LEMMA SetHeight ==
    ASSUME NEW t \in AvlTrees, NEW n \in Nodes, NEW h \in Nat
    PROVE  LET u == [t EXCEPT !.height[n] = h]
           IN  /\ u \in AvlTrees /\ u.root = t.root /\ u.link = t.link
               /\ u.parent = t.parent /\ u.key = t.key
               /\ \A x \in Nodes : u.height[x] = IF x = n THEN h ELSE t.height[x]
<1> DEFINE P == [t.height EXCEPT ![n] = h]
           v == [t EXCEPT !.height = P]
<1>0. /\ t.link \in [Nodes -> [Sides -> Pointer]] /\ t.root \in Pointer
      /\ t.parent \in [Nodes -> Pointer] /\ t.height \in [Nodes -> Nat]
      /\ t.key \in [Nodes -> Addrs \cup {NULL}]
      /\ t = [root |-> t.root, link |-> t.link, parent |-> t.parent, height |-> t.height, key |-> t.key]
  BY DEF AvlTrees
<1>2. P \in [Nodes -> Nat] /\ \A x \in Nodes : P[x] = IF x = n THEN h ELSE t.height[x]
  BY <1>0
<1>3. [t EXCEPT !.height[n] = h] = v
  OBVIOUS
<1> HIDE DEF P
<1>4. /\ v \in AvlTrees /\ v.root = t.root /\ v.link = t.link
      /\ v.parent = t.parent /\ v.key = t.key /\ v.height = P
  BY <1>0, <1>2 DEF AvlTrees
<1> HIDE DEF v
<1> QED
  BY <1>2, <1>3, <1>4

----------------------------------------------------------------------------
(***************************************************************************)
(* m in the place of n.                                                    *)
(***************************************************************************)

\* The one place that names n.
Hangs(t, n) ==
    IF t.parent[n] = NULL THEN t.root = n
    ELSE \E side \in Sides : /\ t.link[t.parent[n]][side] = n
                             /\ t.link[t.parent[n]][Opposite(side)] # n

\* u is t with m in the place of n.
Replaced(t, u, n, m) ==
    /\ u.root = IF t.root = n THEN m ELSE t.root
    /\ \A x \in Nodes, d \in Sides :
          u.link[x][d] = IF x = t.parent[n] /\ t.link[x][d] = n THEN m ELSE t.link[x][d]
    /\ \A x \in Nodes : u.parent[x] = IF x = m THEN t.parent[n] ELSE t.parent[x]
    /\ u.height = t.height /\ u.key = t.key

\* Replace puts m in the place of n, whichever of root and links that is.
LEMMA ReplaceIs ==
    ASSUME NEW t \in AvlTrees, NEW n \in Nodes, NEW m \in Pointer, Hangs(t, n),
           t.parent[n] # NULL => t.root # n
    PROVE  Replace(t, n, m) \in AvlTrees /\ Replaced(t, Replace(t, n, m), n, m)
<1> DEFINE p == t.parent[n]
           up == SetParent(t, m, p)
           u == Replace(t, n, m)
<1>1. p \in Pointer /\ NULL \notin Nodes
  BY TreeFields, NodesAssumption
<1>2. /\ up \in AvlTrees /\ SameButParents(t, up)
      /\ \A x \in Nodes : up.parent[x] = IF x = m THEN p ELSE t.parent[x]
  BY <1>1, SetParentIs
<1>3. CASE p = NULL
  <2>1. u = [up EXCEPT !.root = m]
    BY <1>3 DEF Replace
  <2> HIDE DEF up, u
  <2>2. u \in AvlTrees /\ SameButRoot(up, u) /\ u.root = m
    BY <1>2, <2>1, SetRoot
  <2>3. t.root = n
    BY <1>3 DEF Hangs
  <2>4. Replaced(t, u, n, m)
    BY <1>1, <1>2, <1>3, <2>2, <2>3 DEF Replaced, SameButRoot, SameButParents
  <2> QED
    BY <2>2, <2>4 DEF u
<1>4. CASE p # NULL
  <2> DEFINE s == IF t.link[p]["left"] = n THEN "left" ELSE "right"
  <2>1. u = [up EXCEPT !.link[p][s] = m]
    BY <1>4 DEF Replace
  <2>2. p \in Nodes
    BY <1>1, <1>4 DEF Pointer
  <2>3. s \in Sides /\ \A d \in Sides : t.link[p][d] = n <=> d = s
    <3>1. PICK side \in Sides : t.link[p][side] = n /\ t.link[p][Opposite(side)] # n
      BY <1>4 DEF Hangs
    <3> QED
      BY <3>1 DEF Sides, Opposite
  <2> HIDE DEF up, u, s
  <2>4. /\ u \in AvlTrees /\ SameButLinks(up, u)
        /\ \A x \in Nodes, d \in Sides :
              u.link[x][d] = IF x = p /\ d = s THEN m ELSE up.link[x][d]
    BY <1>2, <2>1, <2>2, <2>3, SetLink
  <2>5. \A x \in Nodes, d \in Sides :
              u.link[x][d] = IF x = p /\ t.link[x][d] = n THEN m ELSE t.link[x][d]
    BY <1>2, <2>3, <2>4 DEF SameButParents
  <2>6. /\ u.root = t.root /\ t.root # n /\ u.height = t.height /\ u.key = t.key
        /\ \A x \in Nodes : u.parent[x] = IF x = m THEN p ELSE t.parent[x]
    BY <1>2, <1>4, <2>4 DEF SameButLinks, SameButParents
  <2>7. Replaced(t, u, n, m)
    BY <2>5, <2>6 DEF Replaced
  <2> QED
    BY <2>4, <2>7 DEF u
<1> QED
  BY <1>3, <1>4

\* Every node of a search tree has its place.
LEMMA HangsIs ==
    ASSUME NEW t, NEW H, NEW S, Search(t, H, S), NEW n \in H
    PROVE  n \in Nodes /\ n # NULL /\ Hangs(t, n) /\ (t.parent[n] = NULL <=> t.root = n)
<1>1. n \in Nodes /\ n # NULL
  BY NodesAssumption DEF Search, Keyed
<1>2. t.parent[n] = NULL <=> t.root = n
  BY <1>1 DEF Search, Linked
<1>3. CASE t.parent[n] = NULL
  BY <1>1, <1>2, <1>3 DEF Hangs
<1>4. CASE t.parent[n] # NULL
  BY <1>1, <1>2, <1>4, ParentIs DEF Hangs
<1> QED
  BY <1>1, <1>2, <1>3, <1>4

\* m becomes a child.
Adopted(t, u, n, side, m) ==
    /\ \A x \in Nodes, d \in Sides :
          u.link[x][d] = IF x = n /\ d = side THEN m ELSE t.link[x][d]
    /\ \A x \in Nodes : u.parent[x] = IF x = m THEN n ELSE t.parent[x]
    /\ u.root = t.root /\ u.height = t.height /\ u.key = t.key

\* Adopt links m and n both ways.
LEMMA AdoptIs ==
    ASSUME NEW t \in AvlTrees, NEW n \in Nodes, NEW side \in Sides, NEW m \in Pointer
    PROVE  Adopt(t, n, side, m) \in AvlTrees /\ Adopted(t, Adopt(t, n, side, m), n, side, m)
<1> DEFINE v == [t EXCEPT !.link[n][side] = m]
           u == Adopt(t, n, side, m)
<1>1. /\ v \in AvlTrees /\ SameButLinks(t, v)
      /\ \A x \in Nodes, d \in Sides :
            v.link[x][d] = IF x = n /\ d = side THEN m ELSE t.link[x][d]
  BY SetLink
<1>2. u = SetParent(v, m, n)
  BY DEF Adopt
<1> HIDE DEF u, v
<1>3. /\ u \in AvlTrees /\ SameButParents(v, u)
      /\ \A x \in Nodes : u.parent[x] = IF x = m THEN n ELSE v.parent[x]
  <2>1. n \in Pointer
    BY DEF Pointer
  <2> QED
    BY <1>1, <1>2, <2>1, SetParentIs
<1>4. Adopted(t, u, n, side, m)
  BY <1>1, <1>3 DEF SameButLinks, SameButParents, Adopted
<1> QED
  BY <1>3, <1>4 DEF u

----------------------------------------------------------------------------
(***************************************************************************)
(* A node with a free side leaves its place to its child.                  *)
(***************************************************************************)

\* The order is a matter of the keys alone.
LEMMA KeyedSame ==
    ASSUME NEW t, NEW u, u.key = t.key
    PROVE  /\ \A H : Keyed(t, H) <=> Keyed(u, H)
           /\ \A side, a, b : Past(t, side, a, b) <=> Past(u, side, a, b)
BY DEF Keyed, Past, Val

\* What is below which node without n.
Without(S, n) == [m \in Nodes |-> S[m] \ {n}]

\* A node with one child at most can be taken out, the child moving up.
LEMMA Cut ==
    ASSUME NEW t, NEW H, NEW S, Search(t, H, S), NEW n \in H, NEW side \in Sides,
           t.link[n][Opposite(side)] = NULL,
           NEW c, c = t.link[n][side],
           NEW u \in AvlTrees, Replaced(t, u, n, c)
    PROVE  Search(u, H \ {n}, Without(S, n))
<1> DEFINE G == H \ {n}
           S2 == Without(S, n)
           p == t.parent[n]
<1>0. /\ Keyed(t, H) /\ Linked(t, H) /\ Sorted(t, H, S) /\ t \in AvlTrees
      /\ H \subseteq Nodes /\ n \in Nodes /\ NULL \notin Nodes /\ Opposite(side) \in Sides
  BY NodesAssumption, SidesAre DEF Search, Keyed
<1>1. c # NULL => c \in G /\ t.parent[c] = n /\ n \notin S[c]
  BY ChildIs
<1>2. p # NULL => p \in G /\ \E d \in Sides : t.link[p][d] = n
  BY ParentIs
<1>3. p = NULL <=> t.root = n
  BY HangsIs
<1>4. \A d \in Sides : t.link[n][d] = c \/ t.link[n][d] = NULL
  BY SidesAre
<1>5. S[n] = {n} \cup Span(S, c)
  <2>1. S[n] = {n} \cup Span(S, t.link[n]["left"]) \cup Span(S, t.link[n]["right"])
    BY <1>0 DEF Sorted
  <2>2. (side = "left" /\ Opposite(side) = "right") \/ (side = "right" /\ Opposite(side) = "left")
    BY DEF Sides, Opposite
  <2>3. Span(S, NULL) = {}
    BY DEF Span
  <2> QED
    BY <2>1, <2>2, <2>3
<1>6. n \notin Span(S, c)
  BY <1>1 DEF Span
<1>7. ASSUME NEW x \in G, NEW d \in Sides
      PROVE  /\ t.link[x][d] = n => u.link[x][d] = c /\ x = p
             /\ t.link[x][d] # n => u.link[x][d] = t.link[x][d]
             /\ t.link[x][d] # NULL => t.link[x][d] \in H /\ t.parent[t.link[x][d]] = x
  <2>1. t.link[x][d] # NULL => t.link[x][d] \in H /\ t.parent[t.link[x][d]] = x
    BY <1>0 DEF Linked
  <2>2. x \in Nodes
    BY <1>0
  <2> QED
    BY <1>0, <2>1, <2>2 DEF Replaced
<1>8. \A x \in G : u.parent[x] = IF x = c THEN p ELSE t.parent[x]
  BY <1>0 DEF Replaced
<1>9. u.root = IF t.root = n THEN c ELSE t.root
  BY DEF Replaced
<1>10. Linked(u, G)
  <2>1. u.root # NULL => u.root \in G /\ u.parent[u.root] = NULL
    <3>1. CASE t.root = n
      BY <1>1, <1>3, <1>8, <1>9, <3>1
    <3>2. CASE t.root # n
      <4>1. t.root # NULL => t.root \in G /\ t.parent[t.root] = NULL
        BY <1>0, <3>2 DEF Linked
      <4>2. t.root # NULL => t.root # c
        BY <1>0, <1>1, <4>1
      <4> QED
        BY <1>8, <1>9, <3>2, <4>1, <4>2
    <3> QED
      BY <3>1, <3>2
  <2>2. ASSUME NEW x \in G, NEW d \in Sides, u.link[x][d] # NULL
        PROVE  u.link[x][d] \in G /\ u.parent[u.link[x][d]] = x
    <3>1. CASE t.link[x][d] = n
      BY <1>1, <1>7, <1>8, <2>2, <3>1
    <3>2. CASE t.link[x][d] # n
      <4>1. u.link[x][d] = t.link[x][d]
        BY <1>7, <3>2
      <4>2. t.link[x][d] \in G /\ t.parent[t.link[x][d]] = x /\ x # n
        BY <1>7, <2>2, <3>2, <4>1
      <4>3. t.link[x][d] # c
        BY <1>1, <4>2, <2>2, <4>1
      <4> QED
        BY <1>8, <4>1, <4>2, <4>3
    <3> QED
      BY <3>1, <3>2
  <2>3. ASSUME NEW x \in G
        PROVE  IF u.parent[x] = NULL THEN x = u.root
               ELSE /\ u.parent[x] \in G
                    /\ \E d \in Sides : u.link[u.parent[x]][d] = x
    <3>1. CASE x = c
      <4>1. u.parent[x] = p
        BY <1>8, <3>1
      <4>2. CASE p = NULL
        BY <1>3, <1>9, <3>1, <4>1, <4>2
      <4>3. CASE p # NULL
        BY <1>2, <1>7, <3>1, <4>1, <4>3
      <4> QED
        BY <4>2, <4>3
    <3>2. CASE x # c
      <4>1. u.parent[x] = t.parent[x] /\ x # NULL
        BY <1>0, <1>8, <3>2
      <4>2. CASE t.parent[x] = NULL
        BY <1>0, <1>9, <4>1, <4>2 DEF Linked
      <4>3. CASE t.parent[x] # NULL
        <5>1. t.parent[x] \in H /\ \E d \in Sides : t.link[t.parent[x]][d] = x
          BY <1>0, <4>3 DEF Linked
        <5>2. t.parent[x] # n
          BY <1>4, <3>2, <4>1, <5>1
        <5> QED
          BY <1>7, <4>1, <4>3, <5>1, <5>2
      <4> QED
        BY <4>2, <4>3
    <3> QED
      BY <3>1, <3>2
  <2> QED
    BY <2>1, <2>2, <2>3 DEF Linked
<1>11. S2 \in [Nodes -> SUBSET G] /\ \A m \in Nodes : S2[m] = S[m] \ {n}
  BY <1>0 DEF Sorted, Without
<1>12. \A m \in Pointer : Span(S2, m) = Span(S, m) \ {n}
  <2> HIDE DEF S2
  <2> QED
    BY <1>11 DEF Span, Pointer
<1>13. ASSUME NEW x \in G, NEW d \in Sides
       PROVE  Span(S2, u.link[x][d]) = Span(S, t.link[x][d]) \ {n}
  <2>1. c \in Pointer /\ t.link[x][d] \in Pointer
    BY <1>0, TreeFields
  <2> HIDE DEF S2
  <2>2. CASE t.link[x][d] = n
    <3>1. u.link[x][d] = c /\ Span(S, n) = S[n]
      BY <1>0, <1>7, <2>2 DEF Span
    <3> QED
      BY <1>5, <1>6, <1>12, <2>1, <2>2, <3>1
  <2>3. CASE t.link[x][d] # n
    BY <1>7, <1>12, <2>1, <2>3
  <2> QED
    BY <2>2, <2>3
<1>14. Span(S2, u.root) = G
  <2>1. c \in Pointer /\ t.root \in Pointer /\ Span(S, t.root) = H
    BY <1>0, TreeFields DEF Sorted
  <2> HIDE DEF S2
  <2>2. CASE t.root = n
    <3>1. u.root = c /\ Span(S, n) = S[n]
      BY <1>0, <1>9, <2>2 DEF Span
    <3> QED
      BY <1>5, <1>6, <1>12, <2>1, <2>2, <3>1
  <2>3. CASE t.root # n
    BY <1>9, <1>12, <2>1, <2>3
  <2> QED
    BY <2>2, <2>3
<1>15. ASSUME NEW x \in G
       PROVE  /\ S2[x] = {x} \cup Span(S2, u.link[x]["left"]) \cup Span(S2, u.link[x]["right"])
              /\ \A d \in Sides : \A m \in Span(S2, u.link[x][d]) : Past(u, d, x, m)
  <2>1. S[x] = {x} \cup Span(S, t.link[x]["left"]) \cup Span(S, t.link[x]["right"])
    BY <1>0 DEF Sorted
  <2>2. \A d \in Sides : \A m \in Span(S, t.link[x][d]) : Past(t, d, x, m)
    BY <1>0 DEF Sorted
  <2>3. S2[x] = S[x] \ {n} /\ x # n
    BY <1>0, <1>11
  <2> HIDE DEF S2
  <2>4. "left" \in Sides /\ "right" \in Sides
    BY DEF Sides
  <2>5. S2[x] = {x} \cup Span(S2, u.link[x]["left"]) \cup Span(S2, u.link[x]["right"])
    BY <1>13, <2>1, <2>3, <2>4
  <2>6. u.key = t.key
    BY DEF Replaced
  <2> QED
    BY <1>13, <2>2, <2>5, <2>6, KeyedSame
<1> HIDE DEF S2
<1>16. Sorted(u, G, S2)
  BY <1>11, <1>14, <1>15 DEF Sorted
<1>17. Keyed(u, G)
  <2>1. u.key = t.key
    BY DEF Replaced
  <2> QED
    BY <1>0, <2>1 DEF Keyed
<1> QED
  BY <1>10, <1>16, <1>17 DEF Search, S2

----------------------------------------------------------------------------
(***************************************************************************)
(* A node outside takes the place of one inside.                           *)
(***************************************************************************)

\* u is t with s for n, s taking over the children.
Renamed(t, u, n, s) ==
    /\ u.root = IF t.root = n THEN s ELSE t.root
    /\ \A x \in Nodes, d \in Sides :
          u.link[x][d] = IF x = s THEN t.link[n][d]
                         ELSE IF x = t.parent[n] /\ t.link[x][d] = n THEN s ELSE t.link[x][d]
    /\ \A x \in Nodes :
          u.parent[x] = IF x = s THEN t.parent[n]
                        ELSE IF \E d \in Sides : t.link[n][d] = x THEN s ELSE t.parent[x]
    /\ u.height = t.height /\ u.key = t.key

\* A set of nodes with s for n.
Swap(M, n, s) == IF n \in M THEN (M \ {n}) \cup {s} ELSE M

\* What is below which node with s for n.
Swapped(S, n, s) == [m \in Nodes |-> Swap(S[IF m = s THEN n ELSE m], n, s)]

\* A node from outside can take the place of n if it compares as n does.
LEMMA Put ==
    ASSUME NEW t, NEW H, NEW S, Search(t, H, S), NEW n \in H, NEW s \in Nodes, s \notin H,
           t.key[s] \in Addrs,
           \A m \in H \ {n}, d \in Sides : /\ Past(t, d, m, n) => Past(t, d, m, s)
                                           /\ Past(t, d, n, m) => Past(t, d, s, m),
           NEW u \in AvlTrees, Renamed(t, u, n, s)
    PROVE  Search(u, (H \ {n}) \cup {s}, Swapped(S, n, s))
<1> DEFINE G == (H \ {n}) \cup {s}
           S2 == Swapped(S, n, s)
           p == t.parent[n]
<1>0. /\ Keyed(t, H) /\ Linked(t, H) /\ Sorted(t, H, S) /\ t \in AvlTrees
      /\ H \subseteq Nodes /\ n \in Nodes /\ NULL \notin Nodes /\ n # s
      /\ "left" \in Sides /\ "right" \in Sides
  BY NodesAssumption DEF Search, Keyed, Sides
<1>2. p # NULL => p \in H /\ p # n /\ \E d \in Sides : t.link[p][d] = n
  BY ParentIs
<1>3. p = NULL <=> t.root = n
  BY HangsIs
<1>4. \A d \in Sides : t.link[n][d] # NULL =>
         /\ t.link[n][d] \in H \ {n} /\ t.parent[t.link[n][d]] = n
         /\ n \notin S[t.link[n][d]]
  BY ChildIs
<1>5. ASSUME NEW x \in H \ {n}, NEW d \in Sides
      PROVE  /\ t.link[x][d] = n => u.link[x][d] = s /\ x = p
             /\ t.link[x][d] # n => u.link[x][d] = t.link[x][d]
             /\ t.link[x][d] # NULL => t.link[x][d] \in H /\ t.parent[t.link[x][d]] = x
  <2>1. t.link[x][d] # NULL => t.link[x][d] \in H /\ t.parent[t.link[x][d]] = x
    BY <1>0 DEF Linked
  <2>2. x \in Nodes /\ x # s
    BY <1>0
  <2> QED
    BY <1>0, <2>1, <2>2 DEF Renamed
<1>6. \A d \in Sides : u.link[s][d] = t.link[n][d]
  BY DEF Renamed
<1>7. ASSUME NEW x \in H \ {n}
      PROVE  /\ t.parent[x] = n => u.parent[x] = s
             /\ t.parent[x] # n => u.parent[x] = t.parent[x]
  <2>1. x \in Nodes /\ x # s /\ x # NULL
    BY <1>0
  <2>2. t.parent[x] = n => \E d \in Sides : t.link[n][d] = x
    BY <1>0, <2>1 DEF Linked
  <2>3. (\E d \in Sides : t.link[n][d] = x) => t.parent[x] = n
    BY <1>4, <2>1
  <2> QED
    BY <2>1, <2>2, <2>3 DEF Renamed
<1>8. u.parent[s] = p
  BY DEF Renamed
<1>9. u.root = IF t.root = n THEN s ELSE t.root
  BY DEF Renamed
<1>10. Linked(u, G)
  <2>1. u.root # NULL => u.root \in G /\ u.parent[u.root] = NULL
    <3>1. CASE t.root = n
      BY <1>3, <1>8, <1>9, <3>1
    <3>2. CASE t.root # n
      <4>1. t.root # NULL => t.root \in H \ {n} /\ t.parent[t.root] = NULL
        BY <1>0, <3>2 DEF Linked
      <4> QED
        BY <1>0, <1>7, <1>9, <3>2, <4>1
    <3> QED
      BY <3>1, <3>2
  <2>2. ASSUME NEW x \in G, NEW d \in Sides, u.link[x][d] # NULL
        PROVE  u.link[x][d] \in G /\ u.parent[u.link[x][d]] = x
    <3>1. CASE x = s
      <4>1. t.link[n][d] \in H \ {n} /\ t.parent[t.link[n][d]] = n
        BY <1>4, <1>6, <2>2, <3>1
      <4> QED
        BY <1>6, <1>7, <3>1, <4>1
    <3>2. CASE x # s /\ t.link[x][d] = n
      BY <1>5, <1>8, <3>2
    <3>3. CASE x # s /\ t.link[x][d] # n
      <4>1. x \in H \ {n} /\ u.link[x][d] = t.link[x][d]
        BY <1>5, <3>3
      <4>2. t.link[x][d] \in H \ {n} /\ t.parent[t.link[x][d]] = x
        BY <1>5, <2>2, <3>3, <4>1
      <4> QED
        BY <1>7, <4>1, <4>2
    <3> QED
      BY <3>1, <3>2, <3>3
  <2>3. ASSUME NEW x \in G
        PROVE  IF u.parent[x] = NULL THEN x = u.root
               ELSE /\ u.parent[x] \in G
                    /\ \E d \in Sides : u.link[u.parent[x]][d] = x
    <3>1. CASE x = s
      <4>2. CASE p = NULL
        BY <1>3, <1>8, <1>9, <3>1, <4>2
      <4>3. CASE p # NULL
        BY <1>2, <1>5, <1>8, <3>1, <4>3
      <4> QED
        BY <4>2, <4>3
    <3>2. CASE x # s
      <4>0. x \in H \ {n} /\ x # NULL
        BY <1>0, <3>2
      <4>1. CASE t.parent[x] = NULL
        <5>1. u.parent[x] = NULL /\ x = t.root
          BY <1>0, <1>7, <4>0, <4>1 DEF Linked
        <5> QED
          BY <1>9, <4>0, <5>1
      <4>2. CASE t.parent[x] = n
        <5>1. u.parent[x] = s /\ \E d \in Sides : t.link[n][d] = x
          BY <1>0, <1>7, <4>0, <4>2 DEF Linked
        <5> QED
          BY <1>0, <1>6, <5>1
      <4>3. CASE t.parent[x] # NULL /\ t.parent[x] # n
        <5>1. t.parent[x] \in H /\ \E d \in Sides : t.link[t.parent[x]][d] = x
          BY <1>0, <4>0, <4>3 DEF Linked
        <5>2. u.parent[x] = t.parent[x]
          BY <1>7, <4>0, <4>3
        <5> QED
          BY <1>5, <4>0, <4>3, <5>1, <5>2
      <4> QED
        BY <4>1, <4>2, <4>3
    <3> QED
      BY <3>1, <3>2
  <2> QED
    BY <2>1, <2>2, <2>3 DEF Linked
<1>11. S2 \in [Nodes -> SUBSET G]
  <2>1. \A m \in Nodes : S[m] \subseteq H
    BY <1>0 DEF Sorted
  <2>2. \A m \in Nodes : Swap(S[IF m = s THEN n ELSE m], n, s) \subseteq G
    BY <1>0, <2>1 DEF Swap
  <2> QED
    BY <2>2 DEF Swapped
<1>12. /\ \A m \in Nodes : m # s /\ m # n => Span(S2, m) = Swap(Span(S, m), n, s)
       /\ Span(S2, s) = Swap(Span(S, n), n, s)
       /\ Span(S2, NULL) = Swap(Span(S, NULL), n, s)
  <2>1. \A m \in Nodes : S2[m] = Swap(S[IF m = s THEN n ELSE m], n, s)
    BY DEF Swapped
  <2>2. Swap({}, n, s) = {}
    BY DEF Swap
  <2> HIDE DEF S2
  <2> QED
    BY <1>0, <2>1, <2>2 DEF Span
<1>13. ASSUME NEW x \in G, NEW d \in Sides
       PROVE  Span(S2, u.link[x][d]) = Swap(Span(S, t.link[IF x = s THEN n ELSE x][d]), n, s)
  <2> HIDE DEF S2
  <2>1. CASE x = s
    <3>1. u.link[x][d] = t.link[n][d] /\ (t.link[n][d] # NULL => t.link[n][d] \in H \ {n})
      BY <1>4, <1>6, <2>1
    <3>2. t.link[n][d] # NULL => t.link[n][d] \in Nodes /\ t.link[n][d] # s /\ t.link[n][d] # n
      BY <1>0, <3>1
    <3> QED
      BY <1>12, <2>1, <3>1, <3>2
  <2>2. CASE x # s
    <3>0. x \in H \ {n}
      BY <2>2
    <3>1. CASE t.link[x][d] = n
      BY <1>5, <1>12, <2>2, <3>0, <3>1
    <3>2. CASE t.link[x][d] # n
      <4>1. u.link[x][d] = t.link[x][d] /\ (t.link[x][d] # NULL => t.link[x][d] \in H)
        BY <1>5, <3>0, <3>2
      <4>2. t.link[x][d] # NULL => t.link[x][d] \in Nodes /\ t.link[x][d] # s
        BY <1>0, <4>1
      <4> QED
        BY <1>12, <2>2, <3>2, <4>1, <4>2
    <3> QED
      BY <3>1, <3>2
  <2> QED
    BY <2>1, <2>2
<1>14. Span(S2, u.root) = G
  <2>1. t.root \in Pointer /\ Span(S, t.root) = H /\ G = Swap(H, n, s)
    BY <1>0, TreeFields DEF Sorted, Swap
  <2>2. t.root # NULL
    BY <2>1 DEF Span
  <2>3. t.root \in H
    BY <1>0, <2>2 DEF Linked
  <2>4. t.root \in Nodes /\ t.root # s
    BY <1>0, <2>3
  <2> HIDE DEF S2
  <2> QED
    BY <1>9, <1>12, <2>1, <2>4
<1>15. ASSUME NEW x \in G
       PROVE  /\ S2[x] = {x} \cup Span(S2, u.link[x]["left"]) \cup Span(S2, u.link[x]["right"])
              /\ \A d \in Sides : \A m \in Span(S2, u.link[x][d]) : Past(u, d, x, m)
  <2> DEFINE y == IF x = s THEN n ELSE x
  <2>0. y \in H /\ y \in Nodes /\ x \in Nodes /\ S2[x] = Swap(S[y], n, s)
    BY <1>0 DEF Swapped
  <2>1. S[y] = {y} \cup Span(S, t.link[y]["left"]) \cup Span(S, t.link[y]["right"])
    BY <1>0, <2>0 DEF Sorted
  <2>2. \A d \in Sides : \A m \in Span(S, t.link[y][d]) : Past(t, d, y, m)
    BY <1>0, <2>0 DEF Sorted
  <2>3. \A d \in Sides : Span(S2, u.link[x][d]) = Swap(Span(S, t.link[y][d]), n, s)
    BY <1>13
  <2>4. Swap({y}, n, s) = {x}
    BY <1>0 DEF Swap
  <2> HIDE DEF S2
  <2>5. S2[x] = {x} \cup Span(S2, u.link[x]["left"]) \cup Span(S2, u.link[x]["right"])
    <3>1. \A A, B, C : Swap(A \cup B \cup C, n, s) =
                          Swap(A, n, s) \cup Swap(B, n, s) \cup Swap(C, n, s)
      BY DEF Swap
    <3> HIDE DEF y
    <3> QED
      BY <1>0, <2>0, <2>1, <2>3, <2>4, <3>1
  <2>6. u.key = t.key
    BY DEF Renamed
  <2>7. ASSUME NEW d \in Sides, NEW m \in Span(S2, u.link[x][d]) PROVE Past(t, d, x, m)
    <3>1. Span(S, t.link[y][d]) \subseteq H
      <4>1. t.link[y][d] # NULL => t.link[y][d] \in H
        BY <1>0, <2>0 DEF Linked
      <4> QED
        BY <1>0, <4>1 DEF Sorted, Span
    <3>2. m \in Swap(Span(S, t.link[y][d]), n, s)
      BY <2>3, <2>7
    <3>3. CASE m = s
      <4>1. n \in Span(S, t.link[y][d])
        BY <1>0, <3>1, <3>2, <3>3 DEF Swap
      <4>2. Past(t, d, y, n)
        BY <2>2, <4>1
      <4>3. y # n
        BY <1>0, <4>2, PastIs
      <4> QED
        BY <2>0, <3>3, <4>2, <4>3
    <3>4. CASE m # s
      <4>1. m \in Span(S, t.link[y][d]) /\ m # n /\ m \in H
        BY <3>1, <3>2, <3>4 DEF Swap
      <4>2. Past(t, d, y, m)
        BY <2>2, <4>1
      <4> QED
        BY <4>1, <4>2
    <3> QED
      BY <3>3, <3>4
  <2> QED
    BY <2>5, <2>6, <2>7, KeyedSame
<1> HIDE DEF S2
<1>16. Sorted(u, G, S2)
  BY <1>11, <1>14, <1>15 DEF Sorted
<1>17. Keyed(u, G)
  <2>1. u.key = t.key
    BY DEF Renamed
  <2> QED
    BY <1>0, <2>1 DEF Keyed
<1> QED
  BY <1>10, <1>16, <1>17 DEF Search, S2

----------------------------------------------------------------------------
(***************************************************************************)
(* Rotations.                                                              *)
(***************************************************************************)

\* The heights a rotation writes.
LowHeight(t, n, side, c) == 1 + Greater(Height(t, t.link[n][side]), Height(t, t.link[c][side]))
HighHeight(t, n, side, c) ==
    1 + Greater(Height(t, t.link[c][Opposite(side)]), LowHeight(t, n, side, c))

\* u is t with n rotated down on that side, c coming up.
Rotated(t, u, n, side, c) ==
    /\ u.root = IF t.root = n THEN c ELSE t.root
    /\ \A x \in Nodes, d \in Sides :
          u.link[x][d] = IF x = n /\ d = Opposite(side) THEN t.link[c][side]
                         ELSE IF x = c /\ d = side THEN n
                         ELSE IF x = t.parent[n] /\ t.link[x][d] = n THEN c
                         ELSE t.link[x][d]
    /\ \A x \in Nodes :
          u.parent[x] = IF x = n THEN c
                        ELSE IF x = c THEN t.parent[n]
                        ELSE IF x = t.link[c][side] THEN n ELSE t.parent[x]
    /\ \A x \in Nodes :
          u.height[x] = IF x = c THEN HighHeight(t, n, side, c)
                        ELSE IF x = n THEN LowHeight(t, n, side, c) ELSE t.height[x]
    /\ u.key = t.key

\* The height of a pointer.
LEMMA HeightIs ==
    ASSUME NEW t \in AvlTrees, NEW m \in Pointer
    PROVE  Height(t, m) \in Nat /\ (m = NULL => Height(t, m) = 0)
           /\ (m # NULL => m \in Nodes /\ Height(t, m) = t.height[m])
BY TreeFields DEF Height, Pointer

\* The greater of two numbers.
LEMMA GreaterIs ==
    ASSUME NEW i \in Nat, NEW j \in Nat
    PROVE  Greater(i, j) \in Nat /\ Greater(i, j) >= i /\ Greater(i, j) >= j
           /\ (Greater(i, j) = i \/ Greater(i, j) = j)
           /\ Greater(i, j) = (IF i > j THEN i ELSE j)
           /\ Greater(i, j) = Greater(j, i)
BY DEF Greater

\* Rotate, with all it writes.
LEMMA RotateIs ==
    ASSUME NEW t, NEW H, NEW S, Search(t, H, S), NEW n \in H, NEW side \in Sides,
           NEW c, c = t.link[n][Opposite(side)], c # NULL
    PROVE  Rotate(t, n, side) \in AvlTrees /\ Rotated(t, Rotate(t, n, side), n, side, c)
<1> DEFINE inner == t.link[c][side]
           low   == LowHeight(t, n, side, c)
           high  == HighHeight(t, n, side, c)
           r1    == Replace(t, n, c)
           r2    == Adopt(r1, n, Opposite(side), inner)
           r3    == Adopt(r2, c, side, n)
           r4    == [r3 EXCEPT !.height[n] = low]
           r5    == [r4 EXCEPT !.height[c] = high]
<1>0. /\ t \in AvlTrees /\ Opposite(side) \in Sides /\ Opposite(side) # side
      /\ n \in Nodes /\ n \in Pointer /\ c \in Nodes /\ c \in Pointer /\ c # n
      /\ NULL \notin Nodes
  <2>1. t \in AvlTrees /\ Opposite(side) \in Sides /\ Opposite(side) # side
    BY SidesAre DEF Search
  <2>2. c \in Nodes /\ c # n /\ n \in Nodes
    BY <2>1, ChildIs, HangsIs
  <2> QED
    BY <2>1, <2>2, NodesAssumption DEF Pointer
<1>1. inner \in Pointer
  BY <1>0, TreeFields
<1>2. inner # NULL => inner # c /\ inner # n
  <2>1. SUFFICES ASSUME inner # NULL PROVE inner # c /\ inner # n
    OBVIOUS
  <2>2. c \in H /\ n \notin S[c]
    BY <1>0, ChildIs
  <2>3. inner \in S[inner] /\ S[inner] \subseteq S[c] /\ inner # c
    BY <2>1, <2>2, ChildIs
  <2> QED
    BY <2>2, <2>3
<1>3. low \in Nat /\ high \in Nat
  <2>1. /\ t.link[n][side] \in Pointer /\ t.link[c][side] \in Pointer
        /\ t.link[c][Opposite(side)] \in Pointer
    BY <1>0, TreeFields
  <2>2. /\ Height(t, t.link[n][side]) \in Nat /\ Height(t, t.link[c][side]) \in Nat
        /\ Height(t, t.link[c][Opposite(side)]) \in Nat
    BY <1>0, <2>1, HeightIs
  <2>3. low \in Nat
    BY <2>2, GreaterIs DEF LowHeight
  <2> HIDE DEF low
  <2>4. high = 1 + Greater(Height(t, t.link[c][Opposite(side)]), low)
    BY DEF HighHeight, low
  <2> HIDE DEF high
  <2> QED
    BY <2>2, <2>3, <2>4, GreaterIs
<1>4. Rotate(t, n, side) = r5
  <2>1. c = t.link[n][Opposite(side)]
    OBVIOUS
  <2>2. r5 = [r3 EXCEPT !.height[n] = low, !.height[c] = high]
    OBVIOUS
  <2>3. Rotate(t, n, side) = [r3 EXCEPT !.height[n] = low, !.height[c] = high]
    BY <2>1 DEF Rotate, LowHeight, HighHeight
  <2> QED
    BY <2>2, <2>3
<1>5. r1 \in AvlTrees /\ Replaced(t, r1, n, c)
  BY <1>0, HangsIs, ReplaceIs
<1> HIDE DEF r1
<1>6. /\ r2 \in AvlTrees
      /\ \A x \in Nodes, d \in Sides :
            r2.link[x][d] = IF x = n /\ d = Opposite(side) THEN inner ELSE r1.link[x][d]
      /\ \A x \in Nodes : r2.parent[x] = IF x = inner THEN n ELSE r1.parent[x]
      /\ r2.root = r1.root /\ r2.height = r1.height /\ r2.key = r1.key
  <2>1. r2 \in AvlTrees /\ Adopted(r1, r2, n, Opposite(side), inner)
    BY <1>0, <1>1, <1>5, AdoptIs
  <2> QED
    BY <2>1, Zenon DEF Adopted
<1> HIDE DEF r2
<1>7. /\ r3 \in AvlTrees
      /\ \A x \in Nodes, d \in Sides :
            r3.link[x][d] = IF x = c /\ d = side THEN n ELSE r2.link[x][d]
      /\ \A x \in Nodes : r3.parent[x] = IF x = n THEN c ELSE r2.parent[x]
      /\ r3.root = r2.root /\ r3.height = r2.height /\ r3.key = r2.key
  <2>1. r3 \in AvlTrees /\ Adopted(r2, r3, c, side, n)
    BY <1>0, <1>6, AdoptIs
  <2> QED
    BY <2>1 DEF Adopted
<1> HIDE DEF r3, low, high
<1>8. /\ r4 \in AvlTrees /\ r4.root = r3.root /\ r4.link = r3.link
      /\ r4.parent = r3.parent /\ r4.key = r3.key
      /\ \A x \in Nodes : r4.height[x] = IF x = n THEN low ELSE r3.height[x]
  BY <1>0, <1>3, <1>7, SetHeight
<1> HIDE DEF r4
<1>9. /\ r5 \in AvlTrees /\ r5.root = r4.root /\ r5.link = r4.link
      /\ r5.parent = r4.parent /\ r5.key = r4.key
      /\ \A x \in Nodes : r5.height[x] = IF x = c THEN high ELSE r4.height[x]
  BY <1>0, <1>3, <1>8, SetHeight
<1> HIDE DEF r5
<1>10. r5.root = (IF t.root = n THEN c ELSE t.root) /\ r5.key = t.key
  BY <1>5, <1>6, <1>7, <1>8, <1>9 DEF Replaced
<1>11. ASSUME NEW x \in Nodes, NEW d \in Sides
       PROVE  r5.link[x][d] = IF x = n /\ d = Opposite(side) THEN inner
                              ELSE IF x = c /\ d = side THEN n
                              ELSE IF x = t.parent[n] /\ t.link[x][d] = n THEN c
                              ELSE t.link[x][d]
  <2>1. r1.link[x][d] = IF x = t.parent[n] /\ t.link[x][d] = n THEN c ELSE t.link[x][d]
    BY <1>5 DEF Replaced
  <2> HIDE DEF inner
  <2> QED
    BY <1>0, <1>6, <1>7, <1>8, <1>9, <2>1
<1>12. ASSUME NEW x \in Nodes
       PROVE  r5.parent[x] = IF x = n THEN c
                             ELSE IF x = c THEN t.parent[n]
                             ELSE IF x = inner THEN n ELSE t.parent[x]
  <2>1. r1.parent[x] = IF x = c THEN t.parent[n] ELSE t.parent[x]
    BY <1>5 DEF Replaced
  <2> HIDE DEF inner
  <2> QED
    BY <1>0, <1>2, <1>6, <1>7, <1>8, <1>9, <2>1
<1>13. ASSUME NEW x \in Nodes
       PROVE  r5.height[x] = IF x = c THEN high ELSE IF x = n THEN low ELSE t.height[x]
  BY <1>5, <1>6, <1>7, <1>8, <1>9 DEF Replaced
<1>14. Rotated(t, r5, n, side, c)
  BY <1>10, <1>11, <1>12, <1>13 DEF Rotated, low, high
<1> QED
  BY <1>4, <1>9, <1>14

\* What is below which node after a rotation.
Turned(t, S, n, side, c) ==
    [m \in Nodes |-> IF m = c THEN S[n]
                     ELSE IF m = n THEN {n} \cup Span(S, t.link[n][side])
                                            \cup Span(S, t.link[c][side])
                     ELSE S[m]]

\* A rotation keeps the search tree.
LEMMA Turn ==
    ASSUME NEW t, NEW H, NEW S, Search(t, H, S), NEW n \in H, NEW side \in Sides,
           NEW c, c = t.link[n][Opposite(side)], c # NULL,
           NEW u \in AvlTrees, Rotated(t, u, n, side, c)
    PROVE  Search(u, H, Turned(t, S, n, side, c)) /\ c \in H /\ n # c
<1> DEFINE other == Opposite(side)
           inner == t.link[c][side]
           outer == t.link[c][other]
           near  == t.link[n][side]
           p     == t.parent[n]
           S2    == Turned(t, S, n, side, c)
<1>0. /\ Keyed(t, H) /\ Linked(t, H) /\ Sorted(t, H, S) /\ t \in AvlTrees
      /\ H \subseteq Nodes /\ n \in Nodes /\ NULL \notin Nodes
      /\ "left" \in Sides /\ "right" \in Sides
      /\ other \in Sides /\ other # side /\ \A d \in Sides : d = side \/ d = other
  BY NodesAssumption DEF Search, Keyed, Sides, Opposite
<1>1. /\ c \in H /\ c \in Nodes /\ t.parent[c] = n /\ c # n
      /\ S[c] \subseteq S[n] /\ c \in S[c] /\ n \notin S[c] /\ n \in S[n]
      /\ \A m \in S[c] : m \in H /\ Past(t, other, n, m)
  BY <1>0, ChildIs
<1>2. p # NULL => p \in H /\ p # n /\ p \notin S[n] /\ p # c
                  /\ \E d \in Sides : t.link[p][d] = n
  BY <1>1, ParentIs
<1>3. p = NULL <=> t.root = n
  BY HangsIs
<1>4. inner # NULL => /\ inner \in H /\ t.parent[inner] = c /\ inner # c
                      /\ S[inner] \subseteq S[c] /\ c \notin S[inner] /\ inner \in S[inner]
                      /\ \A m \in S[inner] : Past(t, side, c, m)
  BY <1>1, ChildIs
<1>5. outer # NULL => /\ outer \in H /\ t.parent[outer] = c /\ outer # c
                      /\ S[outer] \subseteq S[c] /\ c \notin S[outer] /\ outer \in S[outer]
                      /\ \A m \in S[outer] : Past(t, other, c, m)
  BY <1>0, <1>1, ChildIs
<1>6. near # NULL => /\ near \in H /\ t.parent[near] = n /\ near # n
                     /\ S[near] \subseteq S[n] /\ n \notin S[near] /\ near \in S[near]
                     /\ \A m \in S[near] : m \in H /\ Past(t, side, n, m)
  BY ChildIs
<1>7. near # NULL => near # c /\ S[near] \cap S[c] = {}
  BY TwoChildren
<1>8. inner # NULL /\ outer # NULL => inner # outer
  BY <1>0, <1>1, TwoChildren
<1>9. /\ u.link[n][other] = inner /\ u.link[n][side] = near
      /\ u.link[c][side] = n /\ u.link[c][other] = outer
  <2>1. c # p /\ n # p /\ c # n
    BY <1>1, <1>2, <1>0
  <2> HIDE DEF inner, outer, near, p, other
  <2>2. \A x \in Nodes, d \in Sides :
          u.link[x][d] = IF x = n /\ d = other THEN inner
                         ELSE IF x = c /\ d = side THEN n
                         ELSE IF x = p /\ t.link[x][d] = n THEN c
                         ELSE t.link[x][d]
    BY DEF Rotated, other, inner, p
  <2>3. t.link[n][side] = near /\ t.link[c][other] = outer
    BY DEF near, outer
  <2> QED
    BY <1>0, <1>1, <2>1, <2>2, <2>3
<1>10. ASSUME NEW x \in H, x # n, x # c, NEW d \in Sides
       PROVE  /\ t.link[x][d] = n => u.link[x][d] = c /\ x = p
              /\ t.link[x][d] # n => u.link[x][d] = t.link[x][d]
              /\ t.link[x][d] # NULL => /\ t.link[x][d] \in H /\ t.parent[t.link[x][d]] = x
                                        /\ t.link[x][d] # c
  <2>1. t.link[x][d] # NULL => t.link[x][d] \in H /\ t.parent[t.link[x][d]] = x
    BY <1>0 DEF Linked
  <2>2. x \in Nodes
    BY <1>0
  <2> QED
    BY <1>0, <1>1, <1>10, <2>1, <2>2 DEF Rotated
<1>11. /\ u.parent[n] = c /\ u.parent[c] = p
       /\ inner # NULL => u.parent[inner] = n
       /\ \A x \in H : x # n /\ x # c /\ x # inner => u.parent[x] = t.parent[x]
       /\ u.root = IF t.root = n THEN c ELSE t.root
  <2>1. inner # NULL => inner # c /\ inner # n /\ inner \in Nodes
    BY <1>0, <1>1, <1>4
  <2> QED
    BY <1>0, <1>1, <2>1 DEF Rotated
<1>12. u.key = t.key
  BY DEF Rotated
<1>13. Linked(u, H)
  <2> HIDE DEF inner, outer, near, p, other
  <2>1. u.root # NULL => u.root \in H /\ u.parent[u.root] = NULL
    <3>1. CASE t.root = n
      BY <1>1, <1>3, <1>11, <3>1
    <3>2. CASE t.root # n
      <4>1. t.root # NULL => t.root \in H /\ t.parent[t.root] = NULL
        BY <1>0, <3>2 DEF Linked
      <4>2. t.root # NULL => t.root # c /\ t.root # inner
        BY <1>0, <1>1, <1>4, <4>1
      <4> QED
        BY <1>11, <3>2, <4>1, <4>2
    <3> QED
      BY <3>1, <3>2
  <2>2. ASSUME NEW x \in H, NEW d \in Sides, u.link[x][d] # NULL
        PROVE  u.link[x][d] \in H /\ u.parent[u.link[x][d]] = x
    <3>1. CASE x = n
      <4>1. CASE d = other
        BY <1>4, <1>9, <1>11, <2>2, <3>1, <4>1
      <4>2. CASE d = side
        <5>1. u.link[x][d] = near /\ near \in H /\ near # n /\ near # c /\ t.parent[near] = n
          BY <1>6, <1>7, <1>9, <2>2, <3>1, <4>2
        <5>2. near # inner
          BY <1>1, <1>4, <5>1, <1>0
        <5> QED
          BY <1>11, <3>1, <5>1, <5>2
      <4> QED
        BY <1>0, <4>1, <4>2
    <3>2. CASE x = c
      <4>1. CASE d = side
        BY <1>9, <1>11, <3>2, <4>1
      <4>2. CASE d = other
        <5>1. u.link[x][d] = outer /\ outer \in H /\ outer # c /\ t.parent[outer] = c
          BY <1>5, <1>9, <2>2, <3>2, <4>2
        <5>2. outer # n /\ outer # inner
          BY <1>1, <1>5, <1>8, <2>2, <5>1
        <5> QED
          BY <1>11, <3>2, <5>1, <5>2
      <4> QED
        BY <1>0, <4>1, <4>2
    <3>3. CASE x # n /\ x # c /\ t.link[x][d] = n
      BY <1>1, <1>10, <1>11, <3>3
    <3>4. CASE x # n /\ x # c /\ t.link[x][d] # n
      <4>1. /\ u.link[x][d] = t.link[x][d] /\ t.link[x][d] \in H
            /\ t.parent[t.link[x][d]] = x /\ t.link[x][d] # c
        BY <1>10, <2>2, <3>4
      <4>2. t.link[x][d] # inner
        BY <1>4, <2>2, <3>4, <4>1
      <4> QED
        BY <1>11, <3>4, <4>1, <4>2
    <3> QED
      BY <3>1, <3>2, <3>3, <3>4
  <2>3. ASSUME NEW x \in H
        PROVE  IF u.parent[x] = NULL THEN x = u.root
               ELSE /\ u.parent[x] \in H
                    /\ \E d \in Sides : u.link[u.parent[x]][d] = x
    <3>1. CASE x = n
      BY <1>0, <1>1, <1>9, <1>11, <3>1
    <3>2. CASE x = c
      <4>1. CASE p = NULL
        BY <1>3, <1>11, <3>2, <4>1
      <4>2. CASE p # NULL
        BY <1>2, <1>10, <1>11, <3>2, <4>2
      <4> QED
        BY <4>1, <4>2
    <3>3. CASE x = inner
      <4>1. inner # NULL
        BY <1>0, <3>3
      <4> QED
        BY <1>0, <1>9, <1>11, <3>3, <4>1
    <3>4. CASE x # n /\ x # c /\ x # inner
      <4>0. u.parent[x] = t.parent[x] /\ x # NULL
        BY <1>0, <1>11, <3>4
      <4>1. CASE t.parent[x] = NULL
        BY <1>0, <1>11, <3>4, <4>0, <4>1 DEF Linked
      <4>2. CASE t.parent[x] # NULL
        <5>1. t.parent[x] \in H /\ \E d \in Sides : t.link[t.parent[x]][d] = x
          BY <1>0, <4>2 DEF Linked
        <5>2. PICK d \in Sides : t.link[t.parent[x]][d] = x
          BY <5>1
        <5>3. CASE t.parent[x] = n
          <6>1. d = side /\ x = near
            BY <1>0, <3>4, <5>2, <5>3 DEF near, other
          <6> QED
            BY <1>1, <1>9, <4>0, <5>3, <6>1, <1>0
        <5>4. CASE t.parent[x] = c
          <6>1. d = other /\ x = outer
            BY <1>0, <3>4, <5>2, <5>4 DEF inner, outer
          <6> QED
            BY <1>1, <1>9, <4>0, <5>4, <6>1, <1>0
        <5>5. CASE t.parent[x] # n /\ t.parent[x] # c
          BY <1>10, <3>4, <4>0, <4>2, <5>1, <5>2, <5>5
        <5> QED
          BY <5>3, <5>4, <5>5
      <4> QED
        BY <4>1, <4>2
    <3> QED
      BY <3>1, <3>2, <3>3, <3>4
  <2> QED
    BY <2>1, <2>2, <2>3 DEF Linked
<1>14. /\ S[n] = {n} \cup Span(S, near) \cup S[c]
       /\ S[c] = {c} \cup Span(S, inner) \cup Span(S, outer)
  <2>1. /\ S[n] = {n} \cup Span(S, t.link[n]["left"]) \cup Span(S, t.link[n]["right"])
        /\ S[c] = {c} \cup Span(S, t.link[c]["left"]) \cup Span(S, t.link[c]["right"])
    BY <1>0, <1>1 DEF Sorted
  <2>2. (side = "left" /\ other = "right") \/ (side = "right" /\ other = "left")
    BY DEF Sides, Opposite
  <2>3. Span(S, t.link[n][other]) = S[c]
    BY DEF Span
  <2> HIDE DEF other
  <2> QED
    BY <2>1, <2>2, <2>3
<1>15. \A m \in Nodes : S2[m] = IF m = c THEN S[n]
                     ELSE IF m = n THEN {n} \cup Span(S, near) \cup Span(S, inner)
                     ELSE S[m]
  BY DEF Turned
<1>16. S2 \in [Nodes -> SUBSET H]
  <2>1. \A m \in Nodes : S[m] \subseteq H
    BY <1>0 DEF Sorted
  <2>2. {n} \cup Span(S, near) \cup Span(S, inner) \subseteq H
    BY <1>0, <1>1, <1>14, <2>1
  <2>3. \A m \in Nodes : S2[m] \subseteq H
    BY <1>0, <1>15, <2>1, <2>2
  <2> QED
    BY <2>3 DEF Turned
<1> HIDE DEF S2
<1>17. \A m \in Pointer : m # n /\ m # c => Span(S2, m) = Span(S, m)
  BY <1>15 DEF Span, Pointer
<1>18. Span(S2, c) = S[n] /\ Span(S2, n) = {n} \cup Span(S, near) \cup Span(S, inner)
  BY <1>0, <1>1, <1>15 DEF Span
<1> HIDE DEF inner, outer, near, p, other
<1>19. Span(S2, u.root) = H
  <2>1. t.root \in Pointer /\ Span(S, t.root) = H
    BY <1>0, TreeFields DEF Sorted
  <2>2. CASE t.root = n
    BY <1>0, <1>11, <1>18, <2>1, <2>2 DEF Span
  <2>3. CASE t.root # n
    <3>1. t.root # NULL => t.parent[t.root] = NULL
      BY <1>0 DEF Linked
    <3>2. t.root # c
      BY <1>0, <1>1, <3>1
    <3> QED
      BY <1>11, <1>17, <2>1, <2>3, <3>2
  <2> QED
    BY <2>2, <2>3
<1>20. near \in Pointer /\ inner \in Pointer /\ outer \in Pointer
  BY <1>0, <1>1, TreeFields DEF near, inner, outer
<1>21. /\ Span(S2, near) = Span(S, near) /\ Span(S2, inner) = Span(S, inner)
       /\ Span(S2, outer) = Span(S, outer)
  <2>1. near # n /\ near # c
    BY <1>0, <1>1, <1>6, <1>7
  <2>2. inner # n /\ inner # c
    BY <1>0, <1>1, <1>4
  <2>3. outer # n /\ outer # c
    BY <1>0, <1>1, <1>5
  <2> QED
    BY <1>17, <1>20, <2>1, <2>2, <2>3
<1>22. ASSUME NEW x \in H
       PROVE  /\ S2[x] = {x} \cup Span(S2, u.link[x]["left"]) \cup Span(S2, u.link[x]["right"])
              /\ \A d \in Sides : \A m \in Span(S2, u.link[x][d]) : Past(t, d, x, m)
  <2>0. (side = "left" /\ other = "right") \/ (side = "right" /\ other = "left")
    BY DEF Sides, Opposite, other
  <2>1. CASE x = n
    <3>1. S2[x] = {x} \cup Span(S2, u.link[x][side]) \cup Span(S2, u.link[x][other])
      BY <1>0, <1>1, <1>9, <1>15, <1>21, <2>1
    <3>2. \A m \in Span(S2, u.link[x][side]) : Past(t, side, x, m)
      BY <1>6, <1>9, <1>21, <2>1 DEF Span
    <3>3. \A m \in Span(S2, u.link[x][other]) : Past(t, other, x, m)
      BY <1>1, <1>4, <1>9, <1>21, <2>1 DEF Span
    <3> QED
      BY <1>0, <2>0, <3>1, <3>2, <3>3
  <2>2. CASE x = c
    <3>1. S2[x] = {x} \cup Span(S2, u.link[x][side]) \cup Span(S2, u.link[x][other])
      BY <1>0, <1>1, <1>9, <1>14, <1>15, <1>18, <1>21, <2>2
    <3>2. ASSUME NEW m \in Span(S2, u.link[x][side]) PROVE Past(t, side, x, m)
      <4>1. m \in {n} \cup Span(S, near) \cup Span(S, inner)
        BY <1>9, <1>18, <2>2, <3>2
      <4>2. Past(t, side, c, n)
        <5>1. Past(t, other, n, c)
          BY <1>1
        <5> QED
          BY <1>0, <1>1, <5>1, PastIs DEF other
      <4>3. CASE m \in Span(S, near)
        <5>1. m \in H /\ Past(t, side, n, m)
          BY <1>6, <4>3 DEF Span
        <5> QED
          BY <1>0, <1>1, <2>2, <4>2, <5>1, PastIs
      <4>4. CASE m \in Span(S, inner)
        BY <1>4, <2>2, <4>4 DEF Span
      <4> QED
        BY <2>2, <4>1, <4>2, <4>3, <4>4
    <3>3. \A m \in Span(S2, u.link[x][other]) : Past(t, other, x, m)
      BY <1>5, <1>9, <1>21, <2>2 DEF Span
    <3> QED
      BY <1>0, <2>0, <3>1, <3>2, <3>3
  <2>3. CASE x # n /\ x # c
    <3>1. S[x] = {x} \cup Span(S, t.link[x]["left"]) \cup Span(S, t.link[x]["right"])
      BY <1>0 DEF Sorted
    <3>2. \A d \in Sides : \A m \in Span(S, t.link[x][d]) : Past(t, d, x, m)
      BY <1>0 DEF Sorted
    <3>3. ASSUME NEW d \in Sides PROVE Span(S2, u.link[x][d]) = Span(S, t.link[x][d])
      <4>1. t.link[x][d] \in Pointer
        BY <1>0, TreeFields
      <4>2. CASE t.link[x][d] = n
        BY <1>0, <1>10, <1>18, <2>3, <4>2 DEF Span
      <4>3. CASE t.link[x][d] # n
        <5>1. u.link[x][d] = t.link[x][d] /\ t.link[x][d] # c
          BY <1>0, <1>1, <1>10, <2>3, <4>3
        <5> QED
          BY <1>17, <4>1, <4>3, <5>1
      <4> QED
        BY <4>2, <4>3
    <3>4. S2[x] = S[x]
      BY <1>0, <1>15, <2>3
    <3> QED
      BY <1>0, <3>1, <3>2, <3>3, <3>4
  <2> QED
    BY <2>1, <2>2, <2>3
<1>23. Sorted(u, H, S2)
  BY <1>12, <1>16, <1>19, <1>22, KeyedSame DEF Sorted
<1>24. Keyed(u, H)
  BY <1>0, <1>12 DEF Keyed
<1> QED
  BY <1>1, <1>13, <1>23, <1>24 DEF Search, S2

----------------------------------------------------------------------------
(***************************************************************************)
(* Neighbours.                                                             *)
(***************************************************************************)

\* A node outside the tree holds nothing.
Tidy(t, H) ==
    \A n \in Nodes \ H :
       /\ \A side \in Sides : t.link[n][side] = NULL
       /\ t.parent[n] = NULL /\ t.key[n] = NULL /\ t.height[n] = 0

\* What is not below a node lies on one side of all that is.
LEMMA Convex ==
    ASSUME NEW t, NEW H, NEW S, Search(t, H, S), NEW n \in H, NEW x \in H, x \notin S[n]
    PROVE  \E d \in Sides : \A y \in S[n] : Past(t, d, y, x)
<1> DEFINE G == {m \in H : x \notin S[m] => \E d \in Sides : \A y \in S[m] : Past(t, d, y, x)}
<1>0. /\ Keyed(t, H) /\ Linked(t, H) /\ Sorted(t, H, S)
      /\ \A m \in H : S[m] \subseteq H /\ m \in S[m] /\ m \in Nodes /\ m # NULL
  BY NodesAssumption DEF Search, Keyed, Sorted
<1>1. ASSUME NEW m \in H, t.parent[m] # NULL => t.parent[m] \in G
      PROVE  m \in G
  <2>1. SUFFICES ASSUME x \notin S[m]
                 PROVE  \E d \in Sides : \A y \in S[m] : Past(t, d, y, x)
    OBVIOUS
  <2>2. CASE t.parent[m] = NULL
    <3>1. m = t.root /\ Span(S, t.root) = H
      BY <1>0, <2>2 DEF Linked, Sorted
    <3> QED
      BY <1>0, <2>1, <3>1 DEF Span
  <2>3. CASE t.parent[m] # NULL
    <3> DEFINE p == t.parent[m]
    <3>1. p \in H /\ S[m] \subseteq S[p]
      BY <2>3, ParentIs
    <3>2. PICK d \in Sides : t.link[p][d] = m /\ \A y \in S[m] : Past(t, d, p, y)
      BY <2>3, ParentIs
    <3>3. Opposite(d) \in Sides /\ \A e \in Sides : e = d \/ e = Opposite(d)
      BY SidesAre
    <3>4. \A y \in S[m] : y \in H /\ Past(t, Opposite(d), y, p)
      BY <1>0, <3>1, <3>2, PastIs
    <3>5. CASE x = p
      BY <3>3, <3>4, <3>5
    <3>6. CASE x # p /\ x \in S[p]
      <4>1. PICK e \in Sides : t.link[p][e] # NULL /\ x \in S[t.link[p][e]]
        BY <3>1, <3>6, SpanIs
      <4>2. e = Opposite(d)
        BY <2>1, <3>2, <3>3, <4>1
      <4>3. Past(t, Opposite(d), p, x)
        BY <3>1, <4>1, <4>2, ChildIs
      <4>4. \A y \in S[m] : Past(t, Opposite(d), y, x)
        BY <1>0, <3>1, <3>3, <3>4, <4>3, PastIs
      <4> QED
        BY <3>3, <4>4
    <3>7. CASE x \notin S[p]
      <4>1. PICK e \in Sides : \A y \in S[p] : Past(t, e, y, x)
        BY <1>1, <2>3, <3>7
      <4> QED
        BY <3>1, <4>1
    <3> QED
      BY <3>5, <3>6, <3>7
  <2> QED
    BY <2>2, <2>3
<1> HIDE DEF G
<1>2. n \in G
  BY <1>1, RootToLeaves
<1> QED
  BY <1>2 DEF G

\* A rank for recursion towards the leaves, and one towards the root.
LEMMA Ranks ==
    ASSUME NEW t, NEW H, NEW S, Search(t, H, S), Tidy(t, H)
    PROVE  /\ \E rank \in [Pointer -> Nat] :
                 \A n \in Nodes, side \in Sides : rank[t.link[n][side]] < rank[n]
           /\ \E rank \in [Pointer -> Nat] :
                 \A n \in Nodes : rank[t.parent[n]] < rank[n]
<1>0. /\ H \subseteq Nodes /\ NULL \notin Nodes /\ t \in AvlTrees
      /\ \A n \in H : n # NULL
  BY NodesAssumption DEF Search, Keyed
<1>1. /\ Cardinality(H) \in Nat
      /\ \A n \in H : /\ Cardinality(S[n]) \in Nat /\ Cardinality(S[n]) <= Cardinality(H)
      /\ \A n \in H, side \in Sides : t.link[n][side] # NULL =>
            /\ t.link[n][side] \in H
            /\ Cardinality(S[t.link[n][side]]) < Cardinality(S[n])
  BY SpanSizes
<1>2. \A n \in H : t.parent[n] # NULL =>
         /\ t.parent[n] \in H /\ \E side \in Sides : t.link[t.parent[n]][side] = n
  BY <1>0 DEF Search, Linked
<1>3. \A n \in Nodes \ H : t.parent[n] = NULL /\ \A side \in Sides : t.link[n][side] = NULL
  BY DEF Tidy
<1> DEFINE down == [n \in Pointer |-> IF n = NULL THEN 0 ELSE IF n \in H THEN Cardinality(S[n]) + 1 ELSE 1]
           up   == [n \in Pointer |-> IF n = NULL THEN 0
                                      ELSE IF n \in H THEN Cardinality(H) - Cardinality(S[n]) + 1
                                      ELSE 1]
<1>4. down \in [Pointer -> Nat] /\ up \in [Pointer -> Nat]
  BY <1>1
<1>5. ASSUME NEW n \in Nodes, NEW side \in Sides PROVE down[t.link[n][side]] < down[n]
  <2>1. n \in Pointer /\ NULL \in Pointer /\ n # NULL /\ t.link[n][side] \in Pointer
    BY <1>0, TreeFields DEF Pointer
  <2>2. down[n] >= 1 /\ down[NULL] = 0
    BY <1>1, <2>1
  <2>3. CASE t.link[n][side] = NULL
    <3>1. down[n] \in Nat
      BY <1>4, <2>1
    <3> HIDE DEF down
    <3> QED
      BY <2>2, <2>3, <3>1
  <2>4. CASE t.link[n][side] # NULL
    <3>1. n \in H
      BY <1>3, <2>4
    <3> QED
      BY <1>1, <2>1, <2>4, <3>1
  <2> QED
    BY <2>3, <2>4
<1>6. ASSUME NEW n \in Nodes PROVE up[t.parent[n]] < up[n]
  <2>1. n \in Pointer /\ NULL \in Pointer /\ n # NULL /\ t.parent[n] \in Pointer
    BY <1>0, TreeFields DEF Pointer
  <2>2. up[n] >= 1 /\ up[NULL] = 0
    BY <1>1, <2>1
  <2>3. CASE t.parent[n] = NULL
    <3>1. up[n] \in Nat
      BY <1>4, <2>1
    <3> HIDE DEF up
    <3> QED
      BY <2>2, <2>3, <3>1
  <2>4. CASE t.parent[n] # NULL
    <3>1. n \in H
      BY <1>3, <2>4
    <3>2. t.parent[n] \in H /\ Cardinality(S[n]) < Cardinality(S[t.parent[n]])
      BY <1>0, <1>1, <1>2, <2>4, <3>1
    <3> QED
      BY <1>1, <2>1, <2>4, <3>1, <3>2
  <2> QED
    BY <2>3, <2>4
<1> HIDE DEF down, up
<1> QED
  BY <1>4, <1>5, <1>6

\* The outermost node on a side is there and is the last on that side.
LEMMA OutermostIs ==
    ASSUME NEW t, NEW H, NEW S, Search(t, H, S), Tidy(t, H), NEW n \in H, NEW side \in Sides,
           NEW s, s = Outermost(t, n, side)
    PROVE  /\ s \in H /\ s \in S[n] /\ t.link[s][side] = NULL
           /\ \A x \in S[n] : x # s => Past(t, Opposite(side), s, x)
<1> DEFINE E(f) == [m \in Nodes |-> IF t.link[m][side] = NULL THEN m ELSE f[t.link[m][side]]]
           g    == CHOOSE f : f = E(f)
<1>0. /\ Keyed(t, H) /\ Linked(t, H) /\ Sorted(t, H, S) /\ t \in AvlTrees
      /\ H \subseteq Nodes /\ \A m \in H : S[m] \subseteq H /\ m \in S[m] /\ m \in Nodes /\ m # NULL
      /\ Opposite(side) \in Sides /\ \A e \in Sides : e = side \/ e = Opposite(side)
  BY NodesAssumption, SidesAre DEF Search, Keyed, Sorted
<1>1. s = g[n]
  BY DEF Outermost
<1>2. \E f : f = E(f)
  <2>1. PICK rank \in [Pointer -> Nat] :
           \A m \in Nodes, d \in Sides : rank[t.link[m][d]] < rank[m]
    BY Ranks
  <2> DEFINE low  == [m \in Nodes |-> rank[m]]
             step == [m \in Nodes |-> [f \in [Nodes -> Nodes] |->
                         IF t.link[m][side] = NULL THEN m ELSE f[t.link[m][side]]]]
  <2>2. low \in [Nodes -> Nat]
    BY DEF Pointer
  <2>3. \A m \in Nodes : t.link[m][side] # NULL => t.link[m][side] \in Nodes
    BY <1>0, TreeFields DEF Pointer
  <2>4. step \in [Nodes -> [[Nodes -> Nodes] -> Nodes]]
    BY <2>3
  <2>5. ASSUME NEW m \in Nodes, NEW f \in [Nodes -> Nodes], NEW h \in [Nodes -> Nodes],
               \A y \in Nodes : low[y] < low[m] => f[y] = h[y]
        PROVE  step[m][f] = step[m][h]
    <3>1. t.link[m][side] # NULL => low[t.link[m][side]] < low[m]
      BY <2>1, <2>3
    <3>2. /\ step[m][f] = IF t.link[m][side] = NULL THEN m ELSE f[t.link[m][side]]
          /\ step[m][h] = IF t.link[m][side] = NULL THEN m ELSE h[t.link[m][side]]
      OBVIOUS
    <3> HIDE DEF step, low
    <3> QED
      BY <2>3, <2>5, <3>1, <3>2
  <2>6. \A m \in Nodes, f \in [Nodes -> Nodes] :
           step[m][f] = IF t.link[m][side] = NULL THEN m ELSE f[t.link[m][side]]
    OBVIOUS
  <2> HIDE DEF low, step
  <2>7. LooksDown(Nodes, Nodes, low, step)
    BY <2>5 DEF LooksDown
  <2>8. Nodes # {}
    BY <1>0
  <2>9. PICK f \in [Nodes -> Nodes] : Recursive(f, Nodes, step)
    BY <2>2, <2>4, <2>7, <2>8, RecursionExists
  <2>10. f = E(f)
    BY <2>6, <2>9 DEF Recursive
  <2> HIDE DEF E
  <2> QED
    BY <2>10
<1>3. g = E(g)
  <2> HIDE DEF E
  <2> QED
    BY <1>2
<1> HIDE DEF g
<1>4. \A m \in Nodes : g[m] = IF t.link[m][side] = NULL THEN m ELSE g[t.link[m][side]]
  BY <1>3
<1> DEFINE G == {m \in H : /\ g[m] \in H /\ g[m] \in S[m] /\ t.link[g[m]][side] = NULL
                           /\ \A x \in S[m] : x # g[m] => Past(t, Opposite(side), g[m], x)}
<1>5. ASSUME NEW m \in H, \A d \in Sides : t.link[m][d] # NULL => t.link[m][d] \in G
      PROVE  m \in G
  <2>1. CASE t.link[m][side] = NULL
    <3>1. g[m] = m
      BY <1>0, <1>4, <2>1
    <3>2. ASSUME NEW x \in S[m], x # m PROVE Past(t, Opposite(side), m, x)
      <4>1. PICK d \in Sides : t.link[m][d] # NULL /\ x \in S[t.link[m][d]]
        BY <3>2, SpanIs
      <4>2. d = Opposite(side)
        BY <1>0, <2>1, <4>1
      <4> QED
        BY <4>1, <4>2, ChildIs
    <3> QED
      BY <1>0, <2>1, <3>1, <3>2
  <2>2. CASE t.link[m][side] # NULL
    <3> DEFINE c == t.link[m][side]
    <3>1. g[m] = g[c] /\ c \in G
      BY <1>0, <1>4, <1>5, <2>2
    <3>2. /\ c \in H /\ S[c] \subseteq S[m] /\ m \notin S[c]
          /\ \A y \in S[c] : y \in H /\ Past(t, side, m, y)
      BY <2>2, ChildIs
    <3>3. g[c] \in H /\ g[c] \in S[c] /\ t.link[g[c]][side] = NULL
          /\ \A x \in S[c] : x # g[c] => Past(t, Opposite(side), g[c], x)
      BY <3>1
    <3>4. Past(t, Opposite(side), g[c], m)
      BY <1>0, <3>2, <3>3, PastIs
    <3>5. ASSUME NEW x \in S[m], x # g[c] PROVE Past(t, Opposite(side), g[c], x)
      <4>1. CASE x = m
        BY <3>4, <4>1
      <4>2. CASE x # m
        <5>1. PICK d \in Sides : t.link[m][d] # NULL /\ x \in S[t.link[m][d]]
          BY <4>2, SpanIs
        <5>2. CASE d = side
          BY <3>3, <3>5, <5>1, <5>2
        <5>3. CASE d = Opposite(side)
          <6>1. x \in H /\ Past(t, Opposite(side), m, x)
            BY <1>0, <5>1, <5>3, ChildIs
          <6> QED
            BY <1>0, <3>3, <3>4, <6>1, PastIs
        <5> QED
          BY <1>0, <5>2, <5>3
      <4> QED
        BY <4>1, <4>2
    <3> HIDE DEF c
    <3> QED
      BY <3>1, <3>2, <3>3, <3>5
  <2> QED
    BY <2>1, <2>2
<1> HIDE DEF G
<1>6. n \in G
  BY <1>5, LeavesToRoot
<1> QED
  BY <1>1, <1>6 DEF G

\* a is next to all below m on that side, if there is one.
NextTo(t, H, S, m, side, a) ==
    IF a = NULL
    THEN \A x \in H \ S[m], y \in S[m] : Past(t, Opposite(side), y, x)
    ELSE /\ a \in H \ S[m] /\ \A y \in S[m] : Past(t, side, y, a)
         /\ \A x \in H \ S[m] : \/ x = a
                                \/ \A y \in S[m] : Past(t, Opposite(side), y, x)
                                \/ Past(t, side, a, x)

\* The first parent that has n on the other side is next to all below n.
LEMMA AncestorIs ==
    ASSUME NEW t, NEW H, NEW S, Search(t, H, S), Tidy(t, H), NEW n \in H, NEW side \in Sides
    PROVE  NextTo(t, H, S, n, side, Ancestor(t, n, side))
<1> DEFINE opp  == Opposite(side)
           E(f) == [m \in Nodes |-> LET p == t.parent[m]
                                    IN  IF p = NULL \/ t.link[p][Opposite(side)] = m THEN p ELSE f[p]]
           g    == CHOOSE f : f = E(f)
<1>0. /\ Keyed(t, H) /\ Linked(t, H) /\ Sorted(t, H, S) /\ t \in AvlTrees
      /\ H \subseteq Nodes /\ \A m \in H : S[m] \subseteq H /\ m \in S[m] /\ m \in Nodes /\ m # NULL
      /\ opp \in Sides /\ \A e \in Sides : e = side \/ e = opp
  BY NodesAssumption, SidesAre DEF Search, Keyed, Sorted
<1>1. Ancestor(t, n, side) = g[n]
  BY DEF Ancestor
<1>2. \E f : f = E(f)
  <2>1. PICK rank \in [Pointer -> Nat] : \A m \in Nodes : rank[t.parent[m]] < rank[m]
    BY Ranks
  <2> DEFINE low  == [m \in Nodes |-> rank[m]]
             end  == {m \in Nodes : t.parent[m] = NULL \/ t.link[t.parent[m]][opp] = m}
             step == [m \in Nodes |-> [f \in [Nodes -> Pointer] |->
                         IF m \in end THEN t.parent[m] ELSE f[t.parent[m]]]]
  <2>2. low \in [Nodes -> Nat]
    BY DEF Pointer
  <2>3. \A m \in Nodes : t.parent[m] \in Pointer /\ (m \notin end => t.parent[m] \in Nodes)
    BY <1>0, TreeFields DEF Pointer
  <2>4. step \in [Nodes -> [[Nodes -> Pointer] -> Pointer]]
    <3> HIDE DEF end
    <3> QED
      BY <2>3
  <2>5. ASSUME NEW m \in Nodes, NEW f \in [Nodes -> Pointer], NEW h \in [Nodes -> Pointer],
               \A y \in Nodes : low[y] < low[m] => f[y] = h[y]
        PROVE  step[m][f] = step[m][h]
    <3>1. m \notin end => low[t.parent[m]] < low[m]
      BY <2>1, <2>3
    <3>2. /\ step[m][f] = IF m \in end THEN t.parent[m] ELSE f[t.parent[m]]
          /\ step[m][h] = IF m \in end THEN t.parent[m] ELSE h[t.parent[m]]
      OBVIOUS
    <3> HIDE DEF step, low, end
    <3> QED
      BY <2>3, <2>5, <3>1, <3>2
  <2>6. \A m \in Nodes, f \in [Nodes -> Pointer] :
           step[m][f] = IF m \in end THEN t.parent[m] ELSE f[t.parent[m]]
    OBVIOUS
  <2> HIDE DEF low, step
  <2>7. LooksDown(Nodes, Pointer, low, step)
    BY <2>5 DEF LooksDown
  <2>8. Pointer # {}
    BY DEF Pointer
  <2>9. PICK f \in [Nodes -> Pointer] : Recursive(f, Nodes, step)
    BY <2>2, <2>4, <2>7, <2>8, RecursionExists
  <2>10. f = E(f)
    <3>1. \A m \in Nodes : f[m] = E(f)[m]
      BY <2>6, <2>9 DEF Recursive
    <3> QED
      BY <3>1
  <2> HIDE DEF E
  <2> QED
    BY <2>10
<1>3. g = E(g)
  <2> HIDE DEF E
  <2> QED
    BY <1>2
<1> HIDE DEF g
<1>4. \A m \in Nodes : g[m] = IF t.parent[m] = NULL \/ t.link[t.parent[m]][opp] = m
                              THEN t.parent[m] ELSE g[t.parent[m]]
  BY <1>3
<1> HIDE DEF E
<1> DEFINE G == {m \in H : NextTo(t, H, S, m, side, g[m])}
<1>5. ASSUME NEW m \in H, t.parent[m] # NULL => t.parent[m] \in G
      PROVE  m \in G
  <2> DEFINE p == t.parent[m]
  <2>1. CASE p = NULL
    <3>1. g[m] = NULL
      BY <1>0, <1>4, <2>1
    <3>2. m = t.root /\ Span(S, t.root) = H
      BY <1>0, <2>1 DEF Linked, Sorted
    <3>3. H \ S[m] = {}
      BY <1>0, <3>2 DEF Span
    <3> QED
      BY <3>1, <3>3 DEF NextTo
  <2>2. CASE p # NULL
    <3>1. p \in H /\ p \in G /\ p # m /\ S[m] \subseteq S[p] /\ p \notin S[m] /\ p # NULL
      BY <1>5, <2>2, ParentIs
    <3>2. PICK d \in Sides : /\ t.link[p][d] = m /\ t.link[p][Opposite(d)] # m
                             /\ \A y \in S[m] : Past(t, d, p, y)
      BY <2>2, ParentIs
    <3>3. \A x \in S[p] : x # p /\ x \notin S[m] =>
             \A e \in Sides : e # d => x \in H /\ Past(t, e, p, x)
      <4>1. SUFFICES ASSUME NEW x \in S[p], x # p, x \notin S[m], NEW e \in Sides, e # d
                     PROVE  x \in H /\ Past(t, e, p, x)
        OBVIOUS
      <4>2. PICK k \in Sides : t.link[p][k] # NULL /\ x \in S[t.link[p][k]]
        BY <3>1, <4>1, SpanIs
      <4>3. k # d
        BY <3>2, <4>1, <4>2
      <4>4. k = e
        BY <4>1, <4>3 DEF Sides
      <4> QED
        BY <3>1, <4>2, <4>4, ChildIs
    <3>4. \A x \in H : x \notin S[p] => \E e \in Sides : \A y \in S[p] : Past(t, e, y, x)
      BY <3>1, Convex
    <3> HIDE DEF p
    <3>5. CASE d = opp
      <4>1. g[m] = p
        BY <1>0, <1>4, <3>2, <3>5 DEF p
      <4>2. \A y \in S[m] : Past(t, side, y, p)
        <5>1. SUFFICES ASSUME NEW y \in S[m] PROVE Past(t, side, y, p)
          OBVIOUS
        <5>2. y \in H /\ Past(t, Opposite(side), p, y)
          BY <1>0, <3>2, <3>5
        <5> QED
          BY <1>0, <3>1, <5>2, PastIs
      <4>3. ASSUME NEW x \in H \ S[m], x # p
            PROVE  (\A y \in S[m] : Past(t, opp, y, x)) \/ Past(t, side, p, x)
        <5>1. CASE x \in S[p]
          <6>1. side # d
            BY <3>5, SidesAre
          <6> QED
            BY <3>3, <4>3, <5>1, <6>1
        <5>2. CASE x \notin S[p]
          <6>1. PICK e \in Sides : \A y \in S[p] : Past(t, e, y, x)
            BY <3>4, <5>2
          <6> QED
            BY <1>0, <3>1, <6>1
        <5> QED
          BY <5>1, <5>2
      <4> QED
        BY <3>1, <4>1, <4>2, <4>3 DEF NextTo
    <3>6. CASE d = side
      <4>1. g[m] = g[p]
        <5>1. t.link[p][opp] # m
          BY <3>2, <3>6
        <5> QED
          BY <1>0, <1>4, <3>1, <5>1 DEF p
      <4>2. NextTo(t, H, S, p, side, g[p])
        BY <3>1
      <4>3. \A y \in S[m] : y \in H /\ Past(t, opp, y, p)
        <5>1. SUFFICES ASSUME NEW y \in S[m] PROVE y \in H /\ Past(t, opp, y, p)
          OBVIOUS
        <5>2. y \in H /\ Past(t, side, p, y)
          BY <1>0, <3>2, <3>6
        <5> QED
          BY <1>0, <3>1, <5>2, PastIs
      <4>4. ASSUME NEW x \in S[p], x \notin S[m]
            PROVE  \A y \in S[m] : Past(t, opp, y, x)
        <5>1. CASE x = p
          BY <4>3, <5>1
        <5>2. CASE x # p
          <6>1. opp # d
            BY <3>6, SidesAre
          <6>2. x \in H /\ Past(t, opp, p, x)
            BY <1>0, <3>3, <4>4, <5>2, <6>1
          <6> QED
            BY <1>0, <3>1, <4>3, <6>2, PastIs
        <5> QED
          BY <5>1, <5>2
      <4>5. CASE g[p] = NULL
        <5>1. \A x \in H \ S[p], y \in S[p] : Past(t, opp, y, x)
          BY <4>2, <4>5 DEF NextTo
        <5>2. ASSUME NEW x \in H \ S[m], NEW y \in S[m] PROVE Past(t, opp, y, x)
          BY <3>1, <4>4, <5>1
        <5> QED
          BY <4>1, <4>5, <5>2 DEF NextTo
      <4>6. CASE g[p] # NULL
        <5> DEFINE a == g[p]
        <5>1. /\ a \in H \ S[p] /\ \A y \in S[p] : Past(t, side, y, a)
              /\ \A x \in H \ S[p] : \/ x = a
                                     \/ \A y \in S[p] : Past(t, opp, y, x)
                                     \/ Past(t, side, a, x)
          BY <4>2, <4>6 DEF NextTo
        <5> HIDE DEF a
        <5>2. ASSUME NEW x \in H \ S[m]
              PROVE  \/ x = a
                     \/ \A y \in S[m] : Past(t, opp, y, x)
                     \/ Past(t, side, a, x)
          BY <3>1, <4>4, <5>1
        <5>3. a \in H \ S[m] /\ (\A y \in S[m] : Past(t, side, y, a)) /\ a # NULL
          BY <1>0, <3>1, <5>1
        <5>4. g[m] = a
          BY <4>1 DEF a
        <5>5. NextTo(t, H, S, m, side, a)
          BY <5>2, <5>3 DEF NextTo
        <5> QED
          BY <5>4, <5>5
      <4> QED
        BY <4>5, <4>6
    <3> QED
      BY <1>0, <3>5, <3>6
  <2> QED
    BY <2>1, <2>2
<1> HIDE DEF G
<1>6. n \in G
  BY <1>5, RootToLeaves
<1> QED
  BY <1>1, <1>6 DEF G

\* The node next to n on that side, NULL if there is none.
LEMMA NeighbourIs ==
    ASSUME NEW t, NEW H, NEW S, Search(t, H, S), Tidy(t, H), NEW n \in H, NEW side \in Sides,
           NEW a, a = Neighbour(t, n, side)
    PROVE  IF a = NULL THEN \A x \in H : ~ Past(t, side, n, x)
           ELSE /\ a \in H /\ Past(t, side, n, a)
                /\ \A x \in H : Past(t, side, n, x) => x = a \/ Past(t, side, a, x)
<1> DEFINE opp == Opposite(side)
<1>0. /\ Keyed(t, H) /\ Linked(t, H) /\ Sorted(t, H, S) /\ t \in AvlTrees
      /\ H \subseteq Nodes /\ \A m \in H : S[m] \subseteq H /\ m \in S[m] /\ m \in Nodes /\ m # NULL
      /\ opp \in Sides /\ Opposite(opp) = side /\ opp # side
      /\ \A e \in Sides : e = side \/ e = opp
  BY NodesAssumption, SidesAre DEF Search, Keyed, Sorted
<1>1. \A x, y \in H : ~ Past(t, side, x, x) /\ ~ (Past(t, side, x, y) /\ Past(t, opp, x, y))
  BY <1>0, PastIs
<1>2. ASSUME NEW x \in S[n], Past(t, side, n, x)
      PROVE  t.link[n][side] # NULL /\ x \in S[t.link[n][side]]
  <2>1. x # n /\ x \in H
    BY <1>0, <1>1, <1>2
  <2>2. PICK d \in Sides : t.link[n][d] # NULL /\ x \in S[t.link[n][d]]
    BY <2>1, SpanIs
  <2>3. Past(t, d, n, x)
    BY <2>2, ChildIs
  <2>4. d = side
    BY <1>0, <1>1, <1>2, <2>1, <2>3
  <2> QED
    BY <2>2, <2>4
<1>3. CASE t.link[n][side] # NULL
  <2> DEFINE c == t.link[n][side]
  <2>1. a = Outermost(t, c, opp)
    BY <1>3 DEF Neighbour
  <2>2. /\ c \in H /\ S[c] \subseteq S[n] /\ \A y \in S[c] : y \in H /\ Past(t, side, n, y)
    BY <1>3, ChildIs
  <2>3. /\ a \in H /\ a \in S[c] /\ t.link[a][opp] = NULL
        /\ \A x \in S[c] : x # a => Past(t, side, a, x)
    BY <1>0, <2>1, <2>2, OutermostIs
  <2>4. ASSUME NEW x \in H, Past(t, side, n, x), x # a PROVE Past(t, side, a, x)
    <3>1. CASE x \in S[n]
      BY <1>2, <2>3, <2>4, <3>1
    <3>2. CASE x \notin S[n]
      <4>1. PICK d \in Sides : \A y \in S[n] : Past(t, d, y, x)
        BY <3>2, Convex
      <4>2. d = side
        BY <1>0, <1>1, <2>4, <4>1
      <4> QED
        BY <2>2, <2>3, <4>1, <4>2
    <3> QED
      BY <3>1, <3>2
  <2> QED
    BY <1>0, <2>2, <2>3, <2>4
<1>4. CASE t.link[n][side] = NULL
  <2>1. NextTo(t, H, S, n, side, a)
    BY <1>4, AncestorIs DEF Neighbour
  <2>2. \A x \in H : Past(t, side, n, x) => x \in H \ S[n] /\ ~ Past(t, opp, n, x)
    BY <1>1, <1>2, <1>4
  <2>3. CASE a = NULL
    BY <1>0, <2>1, <2>2, <2>3 DEF NextTo
  <2>4. CASE a # NULL
    <3>1. /\ a \in H \ S[n] /\ \A y \in S[n] : Past(t, side, y, a)
          /\ \A x \in H \ S[n] : \/ x = a
                                 \/ \A y \in S[n] : Past(t, opp, y, x)
                                 \/ Past(t, side, a, x)
      BY <2>1, <2>4 DEF NextTo
    <3> HIDE DEF opp
    <3> QED
      BY <1>0, <2>2, <2>4, <3>1
  <2> QED
    BY <2>3, <2>4
<1> QED
  BY <1>3, <1>4

----------------------------------------------------------------------------
(***************************************************************************)
(* Writing a node.                                                         *)
(***************************************************************************)

\* u is t with these fields in node n.
Written(t, u, n, p, h, k) ==
    /\ u.root = t.root
    /\ \A d \in Sides : u.link[n][d] = NULL
    /\ u.parent[n] = p /\ u.height[n] = h /\ u.key[n] = k
    /\ \A x \in Nodes : x # n => /\ u.link[x] = t.link[x] /\ u.parent[x] = t.parent[x]
                                 /\ u.height[x] = t.height[x] /\ u.key[x] = t.key[x]

\* Writing all fields of one node.
LEMMA WriteIs ==
    ASSUME NEW t \in AvlTrees, NEW n \in Nodes, NEW p \in Pointer, NEW h \in Nat,
           NEW k \in Addrs \cup {NULL},
           NEW u, u = [root   |-> t.root,
                       link   |-> [t.link EXCEPT ![n] = Leaf],
                       parent |-> [t.parent EXCEPT ![n] = p],
                       height |-> [t.height EXCEPT ![n] = h],
                       key    |-> [t.key EXCEPT ![n] = k]]
    PROVE  u \in AvlTrees /\ Written(t, u, n, p, h, k)
<1> DEFINE L == [t.link EXCEPT ![n] = Leaf]
           P == [t.parent EXCEPT ![n] = p]
           Q == [t.height EXCEPT ![n] = h]
           K == [t.key EXCEPT ![n] = k]
<1>0. /\ t.link \in [Nodes -> [Sides -> Pointer]] /\ t.root \in Pointer
      /\ t.parent \in [Nodes -> Pointer] /\ t.height \in [Nodes -> Nat]
      /\ t.key \in [Nodes -> Addrs \cup {NULL}]
  BY DEF AvlTrees
<1>1. Leaf \in [Sides -> Pointer] /\ \A d \in Sides : Leaf[d] = NULL
  BY DEF Leaf, Pointer
<1>2. /\ L \in [Nodes -> [Sides -> Pointer]] /\ P \in [Nodes -> Pointer]
      /\ Q \in [Nodes -> Nat] /\ K \in [Nodes -> Addrs \cup {NULL}]
  BY <1>0, <1>1
<1>3. /\ L[n] = Leaf /\ P[n] = p /\ Q[n] = h /\ K[n] = k
      /\ \A x \in Nodes : x # n => /\ L[x] = t.link[x] /\ P[x] = t.parent[x]
                                   /\ Q[x] = t.height[x] /\ K[x] = t.key[x]
  BY <1>0
<1>4. u = [root |-> t.root, link |-> L, parent |-> P, height |-> Q, key |-> K]
  OBVIOUS
<1> HIDE DEF L, P, Q, K
<1>5. /\ u.root = t.root /\ u.link = L /\ u.parent = P /\ u.height = Q /\ u.key = K
      /\ u \in AvlTrees
  BY <1>0, <1>2, <1>4 DEF AvlTrees
<1>6. Written(t, u, n, p, h, k)
  <2>1. \A d \in Sides : u.link[n][d] = NULL
    BY <1>1, <1>3, <1>5
  <2>2. u.parent[n] = p /\ u.height[n] = h /\ u.key[n] = k
    BY <1>3, <1>5
  <2>3. \A x \in Nodes : x # n => /\ u.link[x] = t.link[x] /\ u.parent[x] = t.parent[x]
                                   /\ u.height[x] = t.height[x] /\ u.key[x] = t.key[x]
    BY <1>3, <1>5
  <2> QED
    BY <1>5, <2>1, <2>2, <2>3 DEF Written
<1> QED
  BY <1>5, <1>6

\* The clearing of a removed node.
LEMMA WipeIs ==
    ASSUME NEW t \in AvlTrees, NEW n \in Nodes,
           NEW u, u = [t EXCEPT !.link[n] = Leaf, !.parent[n] = NULL,
                                !.key[n] = NULL, !.height[n] = 0]
    PROVE  u \in AvlTrees /\ Written(t, u, n, NULL, 0, NULL)
<1> DEFINE L == [t.link EXCEPT ![n] = Leaf]
           P == [t.parent EXCEPT ![n] = NULL]
           Q == [t.height EXCEPT ![n] = 0]
           K == [t.key EXCEPT ![n] = NULL]
<1>1. u = [t EXCEPT !.link = L, !.parent = P, !.key = K, !.height = Q]
  OBVIOUS
<1> HIDE DEF L, P, Q, K
<1>2. u = [root |-> t.root, link |-> L, parent |-> P, height |-> Q, key |-> K]
  BY <1>1 DEF AvlTrees
<1>3. NULL \in Pointer /\ 0 \in Nat /\ NULL \in Addrs \cup {NULL}
  BY DEF Pointer
<1> QED
  BY <1>2, <1>3, WriteIs DEF L, P, Q, K

\* The fields of an inserted node.
LEMMA FreshIs ==
    ASSUME NEW t \in AvlTrees, NEW n \in Nodes, NEW p \in Pointer, NEW k \in Addrs,
           NEW u, u = [t EXCEPT !.link[n] = Leaf, !.key[n] = k, !.height[n] = 1,
                                !.parent[n] = p]
    PROVE  u \in AvlTrees /\ Written(t, u, n, p, 1, k)
<1> DEFINE L == [t.link EXCEPT ![n] = Leaf]
           P == [t.parent EXCEPT ![n] = p]
           Q == [t.height EXCEPT ![n] = 1]
           K == [t.key EXCEPT ![n] = k]
<1>1. u = [t EXCEPT !.link = L, !.key = K, !.height = Q, !.parent = P]
  OBVIOUS
<1> HIDE DEF L, P, Q, K
<1>2. u = [root |-> t.root, link |-> L, parent |-> P, height |-> Q, key |-> K]
  BY <1>1 DEF AvlTrees
<1>3. 1 \in Nat /\ k \in Addrs \cup {NULL}
  OBVIOUS
<1> QED
  BY <1>2, <1>3, WriteIs DEF L, P, Q, K

\* A node outside is of no account.
LEMMA SearchKept ==
    ASSUME NEW t, NEW H, NEW S, Search(t, H, S), NEW n, n \notin H,
           NEW u \in AvlTrees, NEW p, NEW h, NEW k, Written(t, u, n, p, h, k)
    PROVE  Search(u, H, S)
<1>0. /\ Keyed(t, H) /\ Linked(t, H) /\ Sorted(t, H, S) /\ H \subseteq Nodes
      /\ \A m \in Nodes : S[m] \subseteq H
  BY DEF Search, Keyed, Sorted
<1>1. /\ u.root = t.root
      /\ \A x \in H : x # n /\ x \in Nodes /\ u.link[x] = t.link[x]
                      /\ u.parent[x] = t.parent[x] /\ u.key[x] = t.key[x]
  BY <1>0 DEF Written
<1>2. Keyed(u, H)
  BY <1>0, <1>1 DEF Keyed
<1>3. Linked(u, H)
  BY <1>0, <1>1 DEF Linked
<1>4. \A d \in Sides, a \in H, b \in H : Past(t, d, a, b) => Past(u, d, a, b)
  BY <1>1 DEF Past, Val
<1>5. \A x \in H, d \in Sides : Span(S, t.link[x][d]) \subseteq H
  <2>1. \A x \in H, d \in Sides : t.link[x][d] # NULL => t.link[x][d] \in Nodes
    BY <1>0 DEF Linked
  <2> QED
    BY <1>0, <2>1 DEF Span
<1>6. Sorted(u, H, S)
  <2>1. ASSUME NEW x \in H
        PROVE  /\ S[x] = {x} \cup Span(S, u.link[x]["left"]) \cup Span(S, u.link[x]["right"])
               /\ \A d \in Sides : \A m \in Span(S, u.link[x][d]) : Past(u, d, x, m)
    <3>1. u.link[x] = t.link[x]
      BY <1>1
    <3>2. S[x] = {x} \cup Span(S, t.link[x]["left"]) \cup Span(S, t.link[x]["right"])
      BY <1>0 DEF Sorted
    <3>3. \A d \in Sides : \A m \in Span(S, t.link[x][d]) : m \in H /\ Past(t, d, x, m)
      BY <1>0, <1>5 DEF Sorted
    <3> QED
      BY <1>4, <3>1, <3>2, <3>3
  <2> QED
    BY <1>0, <1>1, <2>1 DEF Sorted
<1> QED
  BY <1>2, <1>3, <1>6 DEF Search

----------------------------------------------------------------------------
(***************************************************************************)
(* Off the tree.                                                           *)
(***************************************************************************)

\* The successor of a node with two children.
LEMMA SuccessorIs ==
    ASSUME NEW t, NEW H, NEW S, Search(t, H, S), Tidy(t, H), NEW n \in H,
           NEW r, r = t.link[n]["right"], r # NULL,
           NEW s, s = Outermost(t, r, "left")
    PROVE  /\ s \in H /\ s # n /\ s \in S[r] /\ r \in H /\ t.link[s]["left"] = NULL
           /\ \A m \in H : m # n /\ m # s =>
                 \A d \in Sides : /\ Past(t, d, m, n) => Past(t, d, m, s)
                                  /\ Past(t, d, n, m) => Past(t, d, s, m)
<1>0. /\ "right" \in Sides /\ "left" \in Sides /\ Opposite("right") = "left"
      /\ Opposite("left") = "right" /\ Keyed(t, H)
  BY DEF Sides, Opposite, Search
<1>1. r \in H /\ n \notin S[r]
  BY <1>0, ChildIs
<1>2. s \in H /\ s \in S[r] /\ t.link[s]["left"] = NULL
  BY <1>0, <1>1, OutermostIs
<1>3. s = Neighbour(t, n, "right")
  BY <1>0 DEF Neighbour
<1>4. s # NULL
  BY <1>2, NodesAssumption DEF Search, Keyed
<1>5. /\ Past(t, "right", n, s)
      /\ \A x \in H : Past(t, "right", n, x) => x = s \/ Past(t, "right", s, x)
  BY <1>0, <1>3, <1>4, NeighbourIs
<1>6. ASSUME NEW m \in H, m # n, m # s, NEW d \in Sides
      PROVE  /\ Past(t, d, m, n) => Past(t, d, m, s)
             /\ Past(t, d, n, m) => Past(t, d, s, m)
  <2>1. /\ Past(t, "right", m, n) => Past(t, "right", m, s)
        /\ Past(t, "right", n, m) => Past(t, "right", s, m)
    BY <1>0, <1>2, <1>5, <1>6, PastIs
  <2>2. /\ Past(t, "left", m, n) <=> Past(t, "right", n, m)
        /\ Past(t, "left", n, m) <=> Past(t, "right", m, n)
        /\ Past(t, "left", m, s) <=> Past(t, "right", s, m)
        /\ Past(t, "left", s, m) <=> Past(t, "right", m, s)
    BY <1>0, <1>2, PastIs
  <2> QED
    BY <2>1, <2>2 DEF Sides
<1> QED
  BY <1>1, <1>2, <1>6

\* Where the climb starts if s takes the place of n.
ClimbFrom(t, n, s) == IF t.parent[s] # n THEN t.parent[s] ELSE s

\* u is t without n, t1 being t without its successor s.
OffTwo(t, t1, u, H, S, n, s, c, q) ==
    /\ t1 \in AvlTrees /\ Replaced(t, t1, s, c)
    /\ u \in AvlTrees /\ Renamed(t1, u, n, s)
    /\ Search(u, H \ {n}, Swapped(Without(S, s), n, s))
    /\ q = ClimbFrom(t, n, s)

\* With two children: t1 is the tree without the successor s, u has it in the
\* place of n.
LEMMA HookOffTwo ==
    ASSUME NEW t, NEW H, NEW S, Search(t, H, S), Tidy(t, H), NEW n \in H,
           NEW l, l = t.link[n]["left"], l # NULL,
           NEW r, r = t.link[n]["right"], r # NULL,
           NEW s, s = Outermost(t, r, "left"),
           NEW c, c = t.link[s]["right"],
           NEW t1, t1 = Replace(t, s, c),
           NEW u, u = HookOff(t, n).tree
    PROVE  OffTwo(t, t1, u, H, S, n, s, c, HookOff(t, n).rebalance)
<1> DEFINE t2 == Replace(t1, n, s)
           t3 == Adopt(t2, s, "left", l)
           q  == t1.link[n]["right"]
           t4 == Adopt(t3, s, "right", q)
           G  == H \ {s}
           S1 == Without(S, s)
<1>0. /\ "right" \in Sides /\ "left" \in Sides /\ Opposite("right") = "left"
      /\ Opposite("left") = "right" /\ Keyed(t, H) /\ t \in AvlTrees
      /\ H \subseteq Nodes /\ NULL \notin Nodes /\ n \in Nodes
  BY NodesAssumption DEF Sides, Opposite, Search, Keyed
<1>1. /\ s \in H /\ s # n /\ s \in S[r] /\ t.link[s]["left"] = NULL
      /\ \A m \in H : m # n /\ m # s =>
            \A d \in Sides : /\ Past(t, d, m, n) => Past(t, d, m, s)
                             /\ Past(t, d, n, m) => Past(t, d, s, m)
  BY SuccessorIs
<1>2. s \in Nodes /\ s \in Pointer /\ c \in Pointer /\ l \in Pointer
  BY <1>0, <1>1, TreeFields DEF Pointer
<1>3. t1 \in AvlTrees /\ Replaced(t, t1, s, c)
  BY <1>0, <1>1, <1>2, HangsIs, ReplaceIs
<1>4. Search(t1, G, S1)
  <2>1. t.link[s][Opposite("right")] = NULL
    BY <1>0, <1>1
  <2> QED
    BY <1>0, <1>1, <1>3, <2>1, Cut
<1> HIDE DEF S1
<1>5. n \in G
  BY <1>1
<1>6. t2 \in AvlTrees /\ Replaced(t1, t2, n, s)
  BY <1>0, <1>2, <1>3, <1>4, <1>5, HangsIs, ReplaceIs
<1>7. q \in Pointer
  BY <1>0, <1>3, TreeFields, Zenon
<1> HIDE DEF t2
<1>8. /\ t3 \in AvlTrees
      /\ \A x \in Nodes, d \in Sides :
            t3.link[x][d] = IF x = s /\ d = "left" THEN l ELSE t2.link[x][d]
      /\ \A x \in Nodes : t3.parent[x] = IF x = l THEN s ELSE t2.parent[x]
      /\ t3.root = t2.root /\ t3.height = t2.height /\ t3.key = t2.key
  <2>1. t3 \in AvlTrees /\ Adopted(t2, t3, s, "left", l)
    BY <1>0, <1>2, <1>6, AdoptIs
  <2> QED
    BY <2>1, Zenon DEF Adopted
<1> HIDE DEF t3
<1>9. /\ t4 \in AvlTrees
      /\ \A x \in Nodes, d \in Sides :
            t4.link[x][d] = IF x = s /\ d = "right" THEN q ELSE t3.link[x][d]
      /\ \A x \in Nodes : t4.parent[x] = IF x = q THEN s ELSE t3.parent[x]
      /\ t4.root = t3.root /\ t4.height = t3.height /\ t4.key = t3.key
  <2>1. t4 \in AvlTrees /\ Adopted(t3, t4, s, "right", q)
    <3> HIDE DEF q
    <3> QED
      BY <1>0, <1>2, <1>7, <1>8, AdoptIs
  <2> QED
    BY <2>1, Zenon DEF Adopted
<1> HIDE DEF t4
<1>10. /\ HookOff(t, n).tree = t4
       /\ HookOff(t, n).rebalance = IF t.parent[s] # n THEN t.parent[s] ELSE s
  <2>1. HookOff(t, n) = [tree      |-> t4,
                         rebalance |-> IF t.parent[s] # n THEN t.parent[s] ELSE s]
    BY Zenon DEF HookOff, t4, t3, t2, q
  <2> QED
    BY <2>1
<1>18. u = t4
  BY <1>10
<1>11. t1.link[n]["left"] = l
  <2>1. l # s
    <3>1. l \in S[l]
      BY <1>0, ChildIs
    <3>2. S[l] \cap S[r] = {}
      BY <1>0, TwoChildren
    <3> QED
      BY <1>1, <3>1, <3>2
  <2> QED
    BY <1>0, <1>3, <2>1, Zenon DEF Replaced
<1>12. l # s /\ q # s /\ (q # NULL => q \in G)
  <2>1. \A d \in Sides : t1.link[n][d] # NULL => t1.link[n][d] \in G
    BY <1>4, <1>5, ZenonT(30) DEF Search, Linked
  <2> QED
    BY <1>0, <1>2, <1>11, <2>1, Zenon
<1>13. Renamed(t1, t4, n, s)
  <2>1. t4.root = (IF t1.root = n THEN s ELSE t1.root) /\ t4.height = t1.height /\ t4.key = t1.key
    <3>1. t2.root = (IF t1.root = n THEN s ELSE t1.root) /\ t2.height = t1.height /\ t2.key = t1.key
      BY <1>6, Zenon DEF Replaced
    <3>2. t4.root = t2.root /\ t4.height = t2.height /\ t4.key = t2.key
      BY <1>8, <1>9, Zenon
    <3> QED
      BY <3>1, <3>2
  <2>2. ASSUME NEW x \in Nodes, NEW d \in Sides
        PROVE  t4.link[x][d] = IF x = s THEN t1.link[n][d]
                              ELSE IF x = t1.parent[n] /\ t1.link[x][d] = n THEN s
                              ELSE t1.link[x][d]
    <3>1. t4.link[x][d] = IF x = s /\ d = "right" THEN q ELSE t3.link[x][d]
      BY <1>9, Zenon
    <3>2. t3.link[x][d] = IF x = s /\ d = "left" THEN l ELSE t2.link[x][d]
      BY <1>8
    <3>3. t2.link[x][d] = IF x = t1.parent[n] /\ t1.link[x][d] = n THEN s ELSE t1.link[x][d]
      BY <1>6, Zenon DEF Replaced
    <3>4. d = "left" \/ d = "right"
      BY DEF Sides
    <3> QED
      BY <1>11, <3>1, <3>2, <3>3, <3>4, Zenon
  <2>3. ASSUME NEW x \in Nodes
        PROVE  t4.parent[x] = IF x = s THEN t1.parent[n]
                             ELSE IF \E d \in Sides : t1.link[n][d] = x THEN s ELSE t1.parent[x]
    <3>1. t4.parent[x] = IF x = q THEN s ELSE t3.parent[x]
      BY <1>9, Zenon
    <3>2. t3.parent[x] = IF x = l THEN s ELSE t2.parent[x]
      BY <1>8
    <3>3. t2.parent[x] = IF x = s THEN t1.parent[n] ELSE t1.parent[x]
      BY <1>6, Zenon DEF Replaced
    <3>4. (\E d \in Sides : t1.link[n][d] = x) <=> (x = l \/ x = q)
      BY <1>11, Zenon DEF Sides
    <3> HIDE DEF q
    <3> QED
      BY <1>12, <3>1, <3>2, <3>3, <3>4, Zenon
  <2> QED
    BY <2>1, <2>2, <2>3, Zenon DEF Renamed
<1>14. t1.key = t.key
  BY <1>3, Zenon DEF Replaced
<1>15. Search(t4, (G \ {n}) \cup {s}, Swapped(S1, n, s))
  <2>1. s \notin G /\ t1.key[s] \in Addrs
    BY <1>0, <1>1, <1>14 DEF Keyed
  <2>2. \A m \in G \ {n}, d \in Sides : /\ Past(t1, d, m, n) => Past(t1, d, m, s)
                                        /\ Past(t1, d, n, m) => Past(t1, d, s, m)
    BY <1>1, <1>14, KeyedSame
  <2> HIDE DEF G
  <2> QED
    BY <1>2, <1>4, <1>5, <1>9, <1>13, <2>1, <2>2, Put, Zenon
<1>16. (G \ {n}) \cup {s} = H \ {n}
  BY <1>1
<1>17. /\ t1 \in AvlTrees /\ Replaced(t, t1, s, c)
       /\ u \in AvlTrees /\ Renamed(t1, u, n, s)
       /\ Search(u, H \ {n}, Swapped(Without(S, s), n, s))
       /\ HookOff(t, n).rebalance = IF t.parent[s] # n THEN t.parent[s] ELSE s
  BY <1>3, <1>4, <1>9, <1>10, <1>18, <1>13, <1>15, <1>16, Zenon DEF S1
<1> QED
  BY <1>17, Zenon DEF OffTwo, ClimbFrom

\* With one child, or none.
LEMMA HookOffOne ==
    ASSUME NEW t, NEW H, NEW S, Search(t, H, S), NEW n \in H, NEW side \in Sides,
           t.link[n][Opposite(side)] = NULL,
           NEW c, c = t.link[n][side],
           NEW u, u = HookOff(t, n).tree
    PROVE  /\ u \in AvlTrees /\ Replaced(t, u, n, c)
           /\ Search(u, H \ {n}, Without(S, n))
           /\ HookOff(t, n).rebalance = IF c # NULL THEN c ELSE t.parent[n]
<1>0. t \in AvlTrees /\ n \in Nodes /\ c \in Pointer
  BY TreeFields DEF Search, Keyed
<1>1. (side = "left" /\ Opposite(side) = "right") \/ (side = "right" /\ Opposite(side) = "left")
  BY DEF Sides, Opposite
<1>2. HookOff(t, n) = [tree |-> Replace(t, n, c),
                       rebalance |-> IF c # NULL THEN c ELSE t.parent[n]]
  BY <1>1 DEF HookOff
<1>3. u = Replace(t, n, c) /\ HookOff(t, n).rebalance = IF c # NULL THEN c ELSE t.parent[n]
  BY <1>2
<1>4. u \in AvlTrees /\ Replaced(t, u, n, c)
  BY <1>0, <1>3, HangsIs, ReplaceIs
<1>5. Search(u, H \ {n}, Without(S, n))
  BY <1>4, Cut
<1> QED
  BY <1>3, <1>4, <1>5

----------------------------------------------------------------------------
(***************************************************************************)
(* Walks down.                                                             *)
(***************************************************************************)

\* What the walk goes on to below n.
Onward(t, F, dir, stop, n) == IF n \in stop THEN NULL ELSE F[t.link[n][dir[n]]]

\* F tells of each node what Best comes to from there.
WalksDown(t, F, dir, stop, pass) ==
    /\ F[NULL] = NULL
    /\ \A n \in Nodes :
          F[n] = IF Onward(t, F, dir, stop, n) = NULL /\ n \in pass THEN n
                 ELSE Onward(t, F, dir, stop, n)

\* The function that Best defines.
BestBody(t, dir, stop, pass, f) ==
    [n \in Pointer |->
        IF n = NULL THEN NULL
        ELSE IF Onward(t, f, dir, stop, n) = NULL /\ n \in pass THEN n
             ELSE Onward(t, f, dir, stop, n)]

\* There is one: the walk comes to a leaf.
LEMMA DownExists ==
    ASSUME NEW t, NEW H, NEW S, Search(t, H, S), Tidy(t, H),
           NEW dir \in [Nodes -> Sides], NEW stop, NEW pass
    PROVE  \E f : f = BestBody(t, dir, stop, pass, f)
<1> DEFINE D == [Pointer -> Pointer]
           step == [n \in Pointer |-> [f \in D |->
                       IF n = NULL THEN NULL
                       ELSE IF Onward(t, f, dir, stop, n) = NULL /\ n \in pass THEN n
                            ELSE Onward(t, f, dir, stop, n)]]
<1>1. PICK rank \in [Pointer -> Nat] :
         \A m \in Nodes, d \in Sides : rank[t.link[m][d]] < rank[m]
  BY Ranks
<1>2. \A n \in Pointer : n # NULL => n \in Nodes
  BY DEF Pointer
<1>3. \A n \in Nodes : t.link[n][dir[n]] \in Pointer /\ rank[t.link[n][dir[n]]] < rank[n]
  BY <1>1, TreeFields DEF Search
<1>4. \A n \in Nodes, f \in D : Onward(t, f, dir, stop, n) \in Pointer
  BY <1>3 DEF Onward, Pointer
<1>5. step \in [Pointer -> [D -> Pointer]]
  <2>1. NULL \in Pointer
    BY DEF Pointer
  <2> HIDE DEF D
  <2> QED
    BY <1>2, <1>4, <2>1
<1>6. ASSUME NEW n \in Pointer, NEW f \in D, NEW h \in D,
             \A y \in Pointer : rank[y] < rank[n] => f[y] = h[y]
      PROVE  step[n][f] = step[n][h]
  <2>1. CASE n = NULL
    BY <2>1
  <2>2. CASE n # NULL
    <3>1. Onward(t, f, dir, stop, n) = Onward(t, h, dir, stop, n)
      BY <1>2, <1>3, <1>6, <2>2 DEF Onward
    <3> QED
      BY <2>2, <3>1
  <2> QED
    BY <2>1, <2>2
<1>7. \A n \in Pointer, f \in D :
         step[n][f] = IF n = NULL THEN NULL
                      ELSE IF Onward(t, f, dir, stop, n) = NULL /\ n \in pass THEN n
                           ELSE Onward(t, f, dir, stop, n)
  OBVIOUS
<1> HIDE DEF step
<1>8. LooksDown(Pointer, Pointer, rank, step)
  BY <1>6 DEF LooksDown
<1>9. Pointer # {}
  BY DEF Pointer
<1>10. PICK f \in D : Recursive(f, Pointer, step)
  BY <1>1, <1>5, <1>8, <1>9, RecursionExists
<1>11. \A n \in Pointer : f[n] = BestBody(t, dir, stop, pass, f)[n]
  BY <1>7, <1>10 DEF Recursive, BestBody
<1>12. f = BestBody(t, dir, stop, pass, f)
  BY <1>11 DEF BestBody
<1> QED
  BY <1>12

\* What that function says of each node.
LEMMA DownIs ==
    ASSUME NEW t, NEW F, NEW dir, NEW stop, NEW pass,
           F = BestBody(t, dir, stop, pass, F)
    PROVE  WalksDown(t, F, dir, stop, pass)
<1>0. NULL \in Pointer /\ NULL \notin Nodes /\ \A n \in Nodes : n \in Pointer /\ n # NULL
  BY NodesAssumption DEF Pointer
<1> DEFINE B == BestBody(t, dir, stop, pass, F)
<1>1. B[NULL] = NULL /\ \A n \in Nodes :
          B[n] = IF Onward(t, F, dir, stop, n) = NULL /\ n \in pass THEN n
                 ELSE Onward(t, F, dir, stop, n)
  BY <1>0 DEF BestBody
<1>2. F = B
  OBVIOUS
<1> HIDE DEF B
<1>3. F[NULL] = B[NULL] /\ \A n \in Nodes : F[n] = B[n]
  BY <1>2
<1> QED
  BY <1>1, <1>3 DEF WalksDown

\* If every node passes the walk ends at the last node of its way.
LEMMA LastOfWay ==
    ASSUME NEW t, NEW H, NEW S, Search(t, H, S), NEW F, NEW dir \in [Nodes -> Sides],
           WalksDown(t, F, dir, {}, Nodes)
    PROVE  IF H = {} THEN F[t.root] = NULL
           ELSE /\ F[t.root] \in H /\ t.link[F[t.root]][dir[F[t.root]]] = NULL
                /\ \A a \in H : F[t.root] \in S[a] /\ F[t.root] # a =>
                      F[t.root] \in Span(S, t.link[a][dir[a]])
<1> DEFINE G == {n \in H : /\ F[n] \in S[n] /\ t.link[F[n]][dir[F[n]]] = NULL
                           /\ \A a \in S[n] : F[n] \in S[a] /\ F[n] # a =>
                                 F[n] \in Span(S, t.link[a][dir[a]])}
<1>0. /\ Keyed(t, H) /\ Linked(t, H) /\ Sorted(t, H, S) /\ H \subseteq Nodes
      /\ \A n \in H : n \in S[n] /\ n # NULL /\ n \in Nodes /\ dir[n] \in Sides
      /\ \A n \in H : S[n] \subseteq H
  BY NodesAssumption DEF Search, Keyed, Sorted
<1>1. \A n \in H : F[n] = IF F[t.link[n][dir[n]]] = NULL THEN n ELSE F[t.link[n][dir[n]]]
  BY <1>0 DEF WalksDown, Onward
<1>2. ASSUME NEW n \in H, \A side \in Sides : t.link[n][side] # NULL => t.link[n][side] \in G
      PROVE  n \in G
  <2>1. CASE t.link[n][dir[n]] = NULL
    <3>1. F[n] = n
      BY <1>1, <2>1 DEF WalksDown
    <3>2. ASSUME NEW a \in S[n], n \in S[a], n # a PROVE FALSE
      <4>1. PICK side \in Sides : t.link[n][side] # NULL /\ a \in S[t.link[n][side]]
        BY <1>0, <3>2, SpanIs
      <4>2. t.link[n][side] \in H /\ n \notin S[t.link[n][side]]
        BY <4>1, ChildIs
      <4> QED
        BY <3>2, <4>1, <4>2, SpanDown
    <3> QED
      BY <1>0, <2>1, <3>1, <3>2
  <2>2. CASE t.link[n][dir[n]] # NULL
    <3> DEFINE c == t.link[n][dir[n]]
    <3>1. c \in G /\ c \in H
      BY <1>0, <1>2, <2>2
    <3>2. /\ S[c] \subseteq S[n] /\ n \notin S[c] /\ c # n
          /\ \A y \in S[c] : y \in H /\ Past(t, dir[n], n, y)
      BY <1>0, <2>2, ChildIs
    <3>3. /\ F[c] \in S[c] /\ t.link[F[c]][dir[F[c]]] = NULL
          /\ \A a \in S[c] : F[c] \in S[a] /\ F[c] # a => F[c] \in Span(S, t.link[a][dir[a]])
      BY <3>1
    <3>4. F[n] = F[c]
      BY <1>0, <1>1, <3>2, <3>3
    <3>5. ASSUME NEW a \in S[n], F[c] \in S[a], F[c] # a
          PROVE  F[c] \in Span(S, t.link[a][dir[a]])
      <4>1. CASE a = n
        BY <2>2, <3>3, <4>1 DEF Span
      <4>2. CASE a # n
        <5>1. PICK e \in Sides : t.link[n][e] # NULL /\ a \in S[t.link[n][e]]
          BY <4>2, SpanIs
        <5>2. CASE e = dir[n]
          BY <3>3, <3>5, <5>1, <5>2
        <5>3. CASE e # dir[n]
          <6>0. t.link[n][e] \in H
            BY <5>1, ChildIs
          <6>1. F[c] \in S[t.link[n][e]]
            <7>1. S[a] \subseteq S[t.link[n][e]]
              BY <5>1, <6>0, SpanDown
            <7> QED
              BY <3>5, <7>1
          <6>2. e = Opposite(dir[n])
            BY <1>0, <5>3, SidesAre
          <6>3. S[c] \cap S[t.link[n][e]] = {}
            BY <1>0, <2>2, <5>1, <6>2, TwoChildren
          <6> QED
            BY <3>3, <6>1, <6>3
        <5> QED
          BY <5>2, <5>3
      <4> QED
        BY <4>1, <4>2
    <3> HIDE DEF c
    <3> QED
      BY <3>2, <3>3, <3>4, <3>5
  <2> QED
    BY <2>1, <2>2
<1> HIDE DEF G
<1>3. \A n \in H : n \in G
  BY <1>2, LeavesToRoot
<1>4. CASE H = {}
  <2>1. t.root = NULL
    BY <1>0, <1>4 DEF Linked
  <2> QED
    BY <1>4, <2>1 DEF WalksDown
<1>5. CASE H # {}
  <2>1. t.root # NULL /\ Span(S, t.root) = H
    BY <1>0, <1>5 DEF Sorted, Span
  <2>2. t.root \in H /\ S[t.root] = H
    BY <1>0, <2>1 DEF Linked, Span
  <2> QED
    BY <1>3, <1>5, <2>2 DEF G
<1> QED
  BY <1>4, <1>5

\* The walk finds a node that every node above it sends it to.
LEMMA SteersTo ==
    ASSUME NEW t, NEW H, NEW S, Search(t, H, S), NEW F, NEW dir \in [Nodes -> Sides],
           NEW stop, NEW pass, WalksDown(t, F, dir, stop, pass)
    PROVE  /\ F[t.root] # NULL => F[t.root] \in H /\ F[t.root] \in pass
           /\ \A m \in H :
                 m \in pass /\ (\A a \in H : m \in S[a] /\ m # a =>
                                    a \notin stop /\ m \in Span(S, t.link[a][dir[a]]))
                 => F[t.root] # NULL
<1> DEFINE Sent(m, n) == \A a \in S[n] : m \in S[a] /\ m # a =>
                                   a \notin stop /\ m \in Span(S, t.link[a][dir[a]])
           G == {n \in H : /\ F[n] # NULL => F[n] \in H /\ F[n] \in pass
                           /\ \A m \in S[n] : m \in pass /\ Sent(m, n) => F[n] # NULL}
<1>0. /\ Keyed(t, H) /\ Linked(t, H) /\ Sorted(t, H, S) /\ H \subseteq Nodes
      /\ \A n \in H : n \in S[n] /\ n # NULL /\ n \in Nodes /\ dir[n] \in Sides
      /\ \A n \in H : S[n] \subseteq H
  BY NodesAssumption DEF Search, Keyed, Sorted
<1>1. ASSUME NEW n \in H
      PROVE  /\ F[n] = IF Onward(t, F, dir, stop, n) = NULL /\ n \in pass THEN n
                       ELSE Onward(t, F, dir, stop, n)
             /\ n \notin stop => Onward(t, F, dir, stop, n) = F[t.link[n][dir[n]]]
             /\ n \in stop => Onward(t, F, dir, stop, n) = NULL
             /\ F[NULL] = NULL
  BY <1>0 DEF WalksDown, Onward
<1>2. ASSUME NEW n \in H, \A side \in Sides : t.link[n][side] # NULL => t.link[n][side] \in G
      PROVE  n \in G
  <2> DEFINE c == t.link[n][dir[n]]
  <2>1. c # NULL => c \in G /\ c \in H /\ S[c] \subseteq S[n]
    BY <1>0, <1>2, ChildIs
  <2>2. F[n] # NULL => F[n] \in H /\ F[n] \in pass
    BY <1>1, <2>1
  <2>3. ASSUME NEW m \in S[n], m \in pass, Sent(m, n) PROVE F[n] # NULL
    <3>1. CASE m = n
      BY <1>0, <1>1, <2>3, <3>1
    <3>2. CASE m # n
      <4>1. n \notin stop /\ m \in Span(S, c)
        BY <1>0, <2>3, <3>2
      <4>2. c # NULL /\ m \in S[c]
        BY <4>1 DEF Span
      <4>3. Sent(m, c)
        BY <2>1, <2>3, <4>2
      <4>4. F[c] # NULL
        <5> HIDE DEF Sent
        <5> QED
          BY <2>1, <2>3, <4>2, <4>3
      <4> QED
        BY <1>0, <1>1, <4>1, <4>4
    <3> QED
      BY <3>1, <3>2
  <2> QED
    BY <2>2, <2>3
<1>3. \A n \in H : n \in G
  <2> HIDE DEF G
  <2> QED
    BY <1>2, LeavesToRoot
<1>4. CASE t.root = NULL
  <2>1. H = {}
    BY <1>0, <1>4 DEF Sorted, Span
  <2> QED
    BY <1>4, <2>1 DEF WalksDown
<1>5. CASE t.root # NULL
  <2>1. t.root \in H /\ S[t.root] = H
    BY <1>0, <1>5 DEF Linked, Sorted, Span
  <2>2. t.root \in G
    BY <1>3, <2>1
  <2> HIDE DEF Sent
  <2>3. /\ F[t.root] # NULL => F[t.root] \in H /\ F[t.root] \in pass
        /\ \A m \in H : m \in pass /\ Sent(m, t.root) => F[t.root] # NULL
    BY <2>1, <2>2
  <2> QED
    BY <2>1, <2>3 DEF Sent
<1> QED
  BY <1>4, <1>5

\* If the nodes that pass are those from some point on, on one side, the walk
\* finds the first of them.
LEMMA FirstToPass ==
    ASSUME NEW t, NEW H, NEW S, Search(t, H, S), NEW F, NEW dir \in [Nodes -> Sides],
           NEW stop, NEW pass, WalksDown(t, F, dir, stop, pass), NEW side \in Sides,
           \A a \in H \cap pass, b \in H : Past(t, side, a, b) => b \in pass,
           \A a \in H \cap stop : /\ a \in pass
                                  /\ \A b \in H : Past(t, Opposite(side), a, b) => b \notin pass,
           \A a \in H \ stop : dir[a] = IF a \in pass THEN Opposite(side) ELSE side
    PROVE  IF F[t.root] = NULL THEN H \cap pass = {}
           ELSE /\ F[t.root] \in H \cap pass
                /\ \A m \in H \cap pass : m = F[t.root] \/ Past(t, side, F[t.root], m)
<1> DEFINE First(M, f) == IF f = NULL THEN M \cap pass = {}
                          ELSE /\ f \in M \cap pass
                               /\ \A m \in M \cap pass : m = f \/ Past(t, side, f, m)
           G == {n \in H : First(S[n], F[n])}
           opp == Opposite(side)
<1>0. /\ Keyed(t, H) /\ Linked(t, H) /\ Sorted(t, H, S) /\ H \subseteq Nodes
      /\ \A n \in H : n \in S[n] /\ n # NULL /\ n \in Nodes /\ dir[n] \in Sides
      /\ \A n \in H : S[n] \subseteq H
      /\ opp \in Sides /\ Opposite(opp) = side /\ opp # side
      /\ \A d \in Sides : d = side \/ d = opp
  BY NodesAssumption, SidesAre DEF Search, Keyed, Sorted
<1>1. ASSUME NEW n \in H
      PROVE  /\ F[n] = IF Onward(t, F, dir, stop, n) = NULL /\ n \in pass THEN n
                       ELSE Onward(t, F, dir, stop, n)
             /\ n \notin stop => Onward(t, F, dir, stop, n) = F[t.link[n][dir[n]]]
             /\ n \in stop => Onward(t, F, dir, stop, n) = NULL
             /\ F[NULL] = NULL
  BY <1>0 DEF WalksDown, Onward
<1>2. ASSUME NEW n \in H, \A d \in Sides : t.link[n][d] # NULL => t.link[n][d] \in G
      PROVE  n \in G
  <2> DEFINE c == t.link[n][dir[n]]
             o == t.link[n][opp]
             s == t.link[n][side]
  <2>1. /\ \A y \in Span(S, o) : y \in H /\ Past(t, opp, n, y)
        /\ \A y \in Span(S, s) : y \in H /\ Past(t, side, n, y)
        /\ S[n] = {n} \cup Span(S, o) \cup Span(S, s)
    <3>1. \A d \in Sides : \A y \in Span(S, t.link[n][d]) : y \in H /\ Past(t, d, n, y)
      BY ChildIs DEF Span
    <3>2. S[n] = {n} \cup Span(S, t.link[n]["left"]) \cup Span(S, t.link[n]["right"])
      BY <1>0 DEF Sorted
    <3>3. (side = "left" /\ opp = "right") \/ (side = "right" /\ opp = "left")
      BY DEF Sides, Opposite
    <3> QED
      BY <1>0, <3>1, <3>2, <3>3
  <2>2. \A d \in Sides : First(Span(S, t.link[n][d]), F[t.link[n][d]])
    <3>1. SUFFICES ASSUME NEW d \in Sides
                   PROVE  First(Span(S, t.link[n][d]), F[t.link[n][d]])
      OBVIOUS
    <3>2. CASE t.link[n][d] = NULL
      BY <1>1, <3>2 DEF Span
    <3>3. CASE t.link[n][d] # NULL
      BY <1>2, <3>3 DEF Span
    <3> QED
      BY <3>2, <3>3
  <2>3. First(Span(S, o), F[o]) /\ First(Span(S, s), F[s])
    BY <1>0, <2>2
  <2> HIDE DEF o, s, opp
  <2>4. CASE n \in stop
    <3>1. n \in pass /\ F[n] = n
      BY <1>1, <2>4
    <3>2. \A y \in Span(S, o) : y \notin pass
      BY <2>1, <2>4 DEF opp
    <3> QED
      BY <1>0, <2>1, <3>1, <3>2
  <2>5. CASE n \notin stop /\ n \in pass
    <3>1. c = o
      BY <2>5 DEF o, opp
    <3>2. F[n] = IF F[o] = NULL THEN n ELSE F[o]
      BY <1>1, <2>5, <3>1
    <3>3. CASE F[o] = NULL
      BY <1>0, <2>1, <2>3, <2>5, <3>2, <3>3
    <3>4. CASE F[o] # NULL
      <4>1. F[o] \in Span(S, o) \cap pass /\ F[o] \in H /\ Past(t, side, F[o], n)
        <5>1. F[o] \in Span(S, o) \cap pass
          BY <2>3, <3>4
        <5>2. F[o] \in H /\ Past(t, opp, n, F[o])
          BY <2>1, <5>1
        <5> QED
          BY <1>0, <5>1, <5>2, PastIs DEF opp
      <4>2. \A m \in Span(S, s) : Past(t, side, F[o], m)
        BY <1>0, <2>1, <4>1, PastIs
      <4> QED
        BY <1>0, <2>1, <2>3, <3>2, <3>4, <4>1, <4>2
    <3> QED
      BY <3>3, <3>4
  <2>6. CASE n \notin stop /\ n \notin pass
    <3>1. c = s
      BY <2>6 DEF s
    <3>2. F[n] = F[s]
      BY <1>1, <2>6, <3>1
    <3>3. \A y \in Span(S, o) : y \notin pass
      <4>1. SUFFICES ASSUME NEW y \in Span(S, o), y \in pass PROVE FALSE
        OBVIOUS
      <4>2. y \in H /\ Past(t, side, y, n)
        BY <1>0, <2>1, PastIs DEF opp
      <4> QED
        BY <2>6, <4>1, <4>2
    <3> QED
      BY <2>1, <2>3, <2>6, <3>2, <3>3
  <2> QED
    BY <2>4, <2>5, <2>6
<1>3. \A n \in H : n \in G
  <2> HIDE DEF G
  <2> QED
    BY <1>2, LeavesToRoot
<1>4. CASE t.root = NULL
  <2>1. H = {}
    BY <1>0, <1>4 DEF Sorted, Span
  <2> QED
    BY <1>4, <2>1 DEF WalksDown
<1>5. CASE t.root # NULL
  <2>1. t.root \in H /\ S[t.root] = H
    BY <1>0, <1>5 DEF Linked, Sorted, Span
  <2> QED
    BY <1>3, <2>1
<1> QED
  BY <1>4, <1>5

----------------------------------------------------------------------------
(***************************************************************************)
(* The walks by key, and the one by range.                                 *)
(***************************************************************************)

\* What the walk for address a does at each node.
KeyDir(t, a)   == [n \in Nodes |-> Side(cuiAddrTrackerCompare(a, t.key[n]))]
KeyAt(t, a)    == {n \in Nodes : cuiAddrTrackerCompare(a, t.key[n]) = 0}
KeyUpto(t, a)  == {n \in Nodes : cuiAddrTrackerCompare(a, t.key[n]) >= 0}
KeyFrom(t, a)  == {n \in Nodes : cuiAddrTrackerCompare(a, t.key[n]) <= 0}

\* The walk goes left or right.
LEMMA KeyDirIs ==
    ASSUME NEW t, NEW a
    PROVE  KeyDir(t, a) \in [Nodes -> Sides]
BY DEF KeyDir, Side, Sides

\* The search for an equal key is such a walk.
LEMMA ExistingWalks ==
    ASSUME NEW t, NEW H, NEW S, Search(t, H, S), Tidy(t, H), NEW a
    PROVE  \E F : /\ WalksDown(t, F, KeyDir(t, a), KeyAt(t, a), KeyAt(t, a))
                  /\ Existing(t, a) = F[t.root]
<1> DEFINE E(f) ==
              [n \in Pointer |->
                  IF n = NULL THEN NULL
                  ELSE LET below == IF cuiAddrTrackerCompare(a, t.key[n]) = 0 THEN NULL
                                    ELSE f[t.link[n][Side(cuiAddrTrackerCompare(a, t.key[n]))]]
                       IN  IF below = NULL /\ cuiAddrTrackerCompare(a, t.key[n]) = 0
                           THEN n ELSE below]
           B(f) == BestBody(t, KeyDir(t, a), KeyAt(t, a), KeyAt(t, a), f)
           g    == CHOOSE f : f = E(f)
<1>1. Existing(t, a) = g[t.root]
  BY DEF Existing, Find, Best
<1>2. ASSUME NEW f PROVE E(f) = B(f)
  <2>1. \A n \in Nodes :
           Onward(t, f, KeyDir(t, a), KeyAt(t, a), n)
              = IF cuiAddrTrackerCompare(a, t.key[n]) = 0 THEN NULL
                ELSE f[t.link[n][Side(cuiAddrTrackerCompare(a, t.key[n]))]]
    BY DEF Onward, KeyDir, KeyAt
  <2>2. \A n \in Pointer : E(f)[n] = B(f)[n]
    BY <2>1 DEF BestBody, KeyAt, Pointer
  <2> QED
    BY <2>2 DEF BestBody
<1>3. \E f : f = B(f)
  BY KeyDirIs, DownExists
<1> HIDE DEF E, B
<1>4. g = E(g)
  BY <1>2, <1>3
<1> HIDE DEF g
<1>5. WalksDown(t, g, KeyDir(t, a), KeyAt(t, a), KeyAt(t, a))
  BY <1>2, <1>4, DownIs DEF B
<1> QED
  BY <1>1, <1>5

\* The search for the first key from a on is such a walk.
LEMMA GEQWalks ==
    ASSUME NEW t, NEW H, NEW S, Search(t, H, S), Tidy(t, H), NEW a
    PROVE  \E F : /\ WalksDown(t, F, KeyDir(t, a), KeyAt(t, a), KeyFrom(t, a))
                  /\ cuAvlTreeNodeFindGEQ(t, a) = F[t.root]
<1> DEFINE E(f) ==
              [n \in Pointer |->
                  IF n = NULL THEN NULL
                  ELSE LET below == IF cuiAddrTrackerCompare(a, t.key[n]) = 0 THEN NULL
                                    ELSE f[t.link[n][Side(cuiAddrTrackerCompare(a, t.key[n]))]]
                       IN  IF below = NULL /\ cuiAddrTrackerCompare(a, t.key[n]) <= 0
                           THEN n ELSE below]
           B(f) == BestBody(t, KeyDir(t, a), KeyAt(t, a), KeyFrom(t, a), f)
           g    == CHOOSE f : f = E(f)
<1>1. cuAvlTreeNodeFindGEQ(t, a) = g[t.root]
  BY DEF cuAvlTreeNodeFindGEQ, Best
<1>2. ASSUME NEW f PROVE E(f) = B(f)
  <2>1. \A n \in Nodes :
           Onward(t, f, KeyDir(t, a), KeyAt(t, a), n)
              = IF cuiAddrTrackerCompare(a, t.key[n]) = 0 THEN NULL
                ELSE f[t.link[n][Side(cuiAddrTrackerCompare(a, t.key[n]))]]
    BY DEF Onward, KeyDir, KeyAt
  <2>2. \A n \in Pointer : E(f)[n] = B(f)[n]
    BY <2>1 DEF BestBody, KeyFrom, Pointer
  <2> QED
    BY <2>2 DEF BestBody
<1>3. \E f : f = B(f)
  BY KeyDirIs, DownExists
<1> HIDE DEF E, B
<1>4. g = E(g)
  BY <1>2, <1>3
<1> HIDE DEF g
<1>5. WalksDown(t, g, KeyDir(t, a), KeyAt(t, a), KeyFrom(t, a))
  BY <1>2, <1>4, DownIs DEF B
<1> QED
  BY <1>1, <1>5

\* The search for the last key up to a is such a walk.
LEMMA LEQWalks ==
    ASSUME NEW t, NEW H, NEW S, Search(t, H, S), Tidy(t, H), NEW a
    PROVE  \E F : /\ WalksDown(t, F, KeyDir(t, a), KeyAt(t, a), KeyUpto(t, a))
                  /\ cuAvlTreeNodeFindLEQ(t, a) = F[t.root]
<1> DEFINE E(f) ==
              [n \in Pointer |->
                  IF n = NULL THEN NULL
                  ELSE LET below == IF cuiAddrTrackerCompare(a, t.key[n]) = 0 THEN NULL
                                    ELSE f[t.link[n][Side(cuiAddrTrackerCompare(a, t.key[n]))]]
                       IN  IF below = NULL /\ cuiAddrTrackerCompare(a, t.key[n]) >= 0
                           THEN n ELSE below]
           B(f) == BestBody(t, KeyDir(t, a), KeyAt(t, a), KeyUpto(t, a), f)
           g    == CHOOSE f : f = E(f)
<1>1. cuAvlTreeNodeFindLEQ(t, a) = g[t.root]
  BY DEF cuAvlTreeNodeFindLEQ, Best
<1>2. ASSUME NEW f PROVE E(f) = B(f)
  <2>1. \A n \in Nodes :
           Onward(t, f, KeyDir(t, a), KeyAt(t, a), n)
              = IF cuiAddrTrackerCompare(a, t.key[n]) = 0 THEN NULL
                ELSE f[t.link[n][Side(cuiAddrTrackerCompare(a, t.key[n]))]]
    BY DEF Onward, KeyDir, KeyAt
  <2>2. \A n \in Pointer : E(f)[n] = B(f)[n]
    BY <2>1 DEF BestBody, KeyUpto, Pointer
  <2> QED
    BY <2>2 DEF BestBody
<1>3. \E f : f = B(f)
  BY KeyDirIs, DownExists
<1> HIDE DEF E, B
<1>4. g = E(g)
  BY <1>2, <1>3
<1> HIDE DEF g
<1>5. WalksDown(t, g, KeyDir(t, a), KeyAt(t, a), KeyUpto(t, a))
  BY <1>2, <1>4, DownIs DEF B
<1> QED
  BY <1>1, <1>5

\* The last node of the way to a.
Place(t, a) == Best(t, LAMBDA m : cuiAddrTrackerCompare(a, t.key[m]), LAMBDA m : TRUE)

\* The search for the place of a new key is such a walk.
LEMMA PlaceWalks ==
    ASSUME NEW t, NEW H, NEW S, Search(t, H, S), Tidy(t, H), NEW a
    PROVE  \E F : /\ WalksDown(t, F, KeyDir(t, a), KeyAt(t, a), Nodes)
                  /\ Place(t, a) = F[t.root]
<1> DEFINE E(f) ==
              [n \in Pointer |->
                  IF n = NULL THEN NULL
                  ELSE LET below == IF cuiAddrTrackerCompare(a, t.key[n]) = 0 THEN NULL
                                    ELSE f[t.link[n][Side(cuiAddrTrackerCompare(a, t.key[n]))]]
                       IN  IF below = NULL /\ TRUE THEN n ELSE below]
           B(f) == BestBody(t, KeyDir(t, a), KeyAt(t, a), Nodes, f)
           g    == CHOOSE f : f = E(f)
<1>1. Place(t, a) = g[t.root]
  BY DEF Place, Best
<1>2. ASSUME NEW f PROVE E(f) = B(f)
  <2>1. \A n \in Nodes :
           Onward(t, f, KeyDir(t, a), KeyAt(t, a), n)
              = IF cuiAddrTrackerCompare(a, t.key[n]) = 0 THEN NULL
                ELSE f[t.link[n][Side(cuiAddrTrackerCompare(a, t.key[n]))]]
    BY DEF Onward, KeyDir, KeyAt
  <2>2. \A n \in Pointer : E(f)[n] = B(f)[n]
    BY <2>1 DEF BestBody, Pointer
  <2> QED
    BY <2>2 DEF BestBody
<1>3. \E f : f = B(f)
  BY KeyDirIs, DownExists
<1> HIDE DEF E, B
<1>4. g = E(g)
  BY <1>2, <1>3
<1> HIDE DEF g
<1>5. WalksDown(t, g, KeyDir(t, a), KeyAt(t, a), Nodes)
  BY <1>2, <1>4, DownIs DEF B
<1> QED
  BY <1>1, <1>5

\* A node outside the tree has no children, so it does not matter whether the
\* walk would stop there.
LEMMA NeedNotStop ==
    ASSUME NEW t, NEW H, Tidy(t, H), NEW F, NEW dir \in [Nodes -> Sides],
           NEW stop, stop \cap H = {}, NEW pass, WalksDown(t, F, dir, stop, pass)
    PROVE  WalksDown(t, F, dir, {}, pass)
<1>1. \A n \in Nodes : Onward(t, F, dir, stop, n) = Onward(t, F, dir, {}, n)
  <2>1. SUFFICES ASSUME NEW n \in Nodes, n \in stop
                 PROVE  F[t.link[n][dir[n]]] = NULL
    BY DEF Onward
  <2>2. t.link[n][dir[n]] = NULL
    BY <2>1 DEF Tidy
  <2> QED
    BY <2>2 DEF WalksDown
<1> QED
  BY <1>1 DEF WalksDown

----------------------------------------------------------------------------
(***************************************************************************)
(* On to the tree.                                                         *)
(***************************************************************************)

\* u is t with n as a leaf of key k on that side of p.
Hooked(t, u, n, p, side, k) ==
    /\ u.root = IF p = NULL THEN n ELSE t.root
    /\ \A d \in Sides : u.link[n][d] = NULL
    /\ \A x \in Nodes, d \in Sides :
          x # n => u.link[x][d] = IF x = p /\ d = side THEN n ELSE t.link[x][d]
    /\ u.parent[n] = p /\ u.height[n] = 1 /\ u.key[n] = k
    /\ \A x \in Nodes : x # n => /\ u.parent[x] = t.parent[x]
                                 /\ u.height[x] = t.height[x]
                                 /\ u.key[x] = t.key[x]

\* What is below which node with n as a leaf below p.
Grown(S, H, n, p) ==
    [m \in Nodes |-> IF m = n THEN {n}
                     ELSE IF m \in H /\ p \in S[m] THEN S[m] \cup {n} ELSE S[m]]

\* A leaf in the place of its key keeps the search tree.
LEMMA Hook ==
    ASSUME NEW t, NEW H, NEW S, Search(t, H, S), NEW n \in Nodes, n \notin H,
           NEW p, IF H = {} THEN p = NULL ELSE p \in H,
           NEW side \in Sides, p # NULL => t.link[p][side] = NULL,
           NEW k \in Addrs, NEW u \in AvlTrees, Hooked(t, u, n, p, side, k),
           \A a \in H, d \in Sides :
              p \in S[a] /\ (IF a = p THEN d = side ELSE p \in Span(S, t.link[a][d]))
                 => Past(u, d, a, n)
    PROVE  Search(u, H \cup {n}, Grown(S, H, n, p))
<1> DEFINE G == H \cup {n}
           S2 == Grown(S, H, n, p)
<1>0. /\ Keyed(t, H) /\ Linked(t, H) /\ Sorted(t, H, S) /\ t \in AvlTrees
      /\ H \subseteq Nodes /\ n \in Nodes /\ NULL \notin Nodes
      /\ "left" \in Sides /\ "right" \in Sides
      /\ \A m \in H : m # n /\ m # NULL /\ m \in Nodes /\ m \in S[m] /\ S[m] \subseteq H
  BY NodesAssumption DEF Search, Keyed, Sides, Sorted
<1>1. p # n /\ (p # NULL <=> p \in H) /\ (p = NULL <=> t.root = NULL)
  <2>1. H = {} <=> t.root = NULL
    BY <1>0 DEF Sorted, Span, Linked
  <2> QED
    BY <1>0, <2>1
<1>2. ASSUME NEW x \in H, NEW d \in Sides
      PROVE  /\ x = p /\ d = side => u.link[x][d] = n /\ t.link[x][d] = NULL
             /\ ~ (x = p /\ d = side) => u.link[x][d] = t.link[x][d]
             /\ t.link[x][d] # NULL => t.link[x][d] \in H /\ t.parent[t.link[x][d]] = x
  <2>1. t.link[x][d] # NULL => t.link[x][d] \in H /\ t.parent[t.link[x][d]] = x
    BY <1>0 DEF Linked
  <2>2. x \in Nodes /\ x # n /\ x # NULL
    BY <1>0
  <2> QED
    BY <2>1, <2>2 DEF Hooked
<1>3. /\ \A d \in Sides : u.link[n][d] = NULL
      /\ u.parent[n] = p /\ u.key[n] = k
      /\ u.root = IF p = NULL THEN n ELSE t.root
      /\ \A x \in H : u.parent[x] = t.parent[x] /\ u.key[x] = t.key[x]
  BY <1>0 DEF Hooked
<1>4. Keyed(u, G)
  BY <1>0, <1>3 DEF Keyed
<1>5. Linked(u, G)
  <2>1. u.root # NULL => u.root \in G /\ u.parent[u.root] = NULL
    BY <1>0, <1>1, <1>3 DEF Linked
  <2>2. ASSUME NEW x \in G, NEW d \in Sides, u.link[x][d] # NULL
        PROVE  u.link[x][d] \in G /\ u.parent[u.link[x][d]] = x
    <3>1. x \in H
      BY <1>3, <2>2
    <3>2. CASE x = p /\ d = side
      BY <1>2, <1>3, <3>1, <3>2
    <3>3. CASE ~ (x = p /\ d = side)
      BY <1>2, <1>3, <2>2, <3>1, <3>3
    <3> QED
      BY <3>2, <3>3
  <2>3. ASSUME NEW x \in G
        PROVE  IF u.parent[x] = NULL THEN x = u.root
               ELSE /\ u.parent[x] \in G
                    /\ \E d \in Sides : u.link[u.parent[x]][d] = x
    <3>1. CASE x = n
      <4>1. p # NULL => u.link[p][side] = n
        BY <1>1, <1>2
      <4> QED
        BY <1>1, <1>3, <3>1, <4>1
    <3>2. CASE x # n
      <4>0. x \in H /\ u.parent[x] = t.parent[x] /\ x # NULL
        BY <1>0, <1>3, <3>2
      <4>1. CASE t.parent[x] = NULL
        <5>1. x = t.root /\ p # NULL
          BY <1>0, <1>1, <4>0, <4>1 DEF Linked
        <5> QED
          BY <1>3, <4>0, <4>1, <5>1
      <4>2. CASE t.parent[x] # NULL
        <5>1. t.parent[x] \in H
          BY <1>0, <4>0, <4>2 DEF Linked
        <5>2. PICK d \in Sides : t.link[t.parent[x]][d] = x
          BY <1>0, <4>0, <4>2 DEF Linked
        <5>3. u.link[t.parent[x]][d] = x
          BY <1>2, <4>0, <5>1, <5>2
        <5> QED
          BY <4>0, <4>2, <5>1, <5>3
      <4> QED
        BY <4>1, <4>2
    <3> QED
      BY <3>1, <3>2
  <2> QED
    BY <2>1, <2>2, <2>3 DEF Linked
<1>6. /\ S2[n] = {n}
      /\ \A m \in H : S2[m] = IF p \in S[m] THEN S[m] \cup {n} ELSE S[m]
      /\ \A m \in Nodes \ H : m # n => S2[m] = S[m]
  BY <1>0 DEF Grown
<1>7. S2 \in [Nodes -> SUBSET G]
  <2>1. \A m \in Nodes : S[m] \subseteq H
    BY <1>0 DEF Sorted
  <2>2. \A m \in Nodes : S2[m] \subseteq G
    BY <1>6, <2>1
  <2> QED
    BY <2>2 DEF Grown
<1> HIDE DEF S2
<1>8. \A c \in H \cup {NULL} :
         Span(S2, c) = IF p \in Span(S, c) THEN Span(S, c) \cup {n} ELSE Span(S, c)
  BY <1>0, <1>6 DEF Span
<1>9. Span(S2, n) = {n}
  BY <1>0, <1>6 DEF Span
<1>10. Span(S2, u.root) = G
  <2>1. CASE p = NULL
    <3>1. H = {}
      BY <1>0, <1>1, <2>1 DEF Sorted, Span
    <3> QED
      BY <1>3, <1>9, <2>1, <3>1
  <2>2. CASE p # NULL
    <3>1. p \in Span(S, t.root) /\ t.root \in H /\ Span(S, t.root) = H
      BY <1>0, <1>1, <2>2 DEF Sorted, Linked
    <3> QED
      BY <1>3, <1>8, <2>2, <3>1
  <2> QED
    BY <2>1, <2>2
<1>11. \A x \in H, d \in Sides : t.link[x][d] \in H \cup {NULL}
  BY <1>2
<1>12. \A d \in Sides, a \in H, b \in H : Past(t, d, a, b) => Past(u, d, a, b)
  BY <1>3 DEF Past, Val
<1>13. ASSUME NEW x \in G
       PROVE  /\ S2[x] = {x} \cup Span(S2, u.link[x]["left"]) \cup Span(S2, u.link[x]["right"])
              /\ \A d \in Sides : \A m \in Span(S2, u.link[x][d]) : Past(u, d, x, m)
  <2>1. CASE x = n
    BY <1>0, <1>3, <1>6, <2>1 DEF Span
  <2>2. CASE x # n
    <3>0. x \in H
      BY <2>2
    <3>1. S[x] = {x} \cup Span(S, t.link[x]["left"]) \cup Span(S, t.link[x]["right"])
      BY <1>0, <3>0 DEF Sorted
    <3>2. \A d \in Sides : \A m \in Span(S, t.link[x][d]) : m \in H /\ Past(t, d, x, m)
      <4>1. \A d \in Sides : \A m \in Span(S, t.link[x][d]) : Past(t, d, x, m)
        BY <1>0, <3>0 DEF Sorted
      <4>2. \A d \in Sides : Span(S, t.link[x][d]) \subseteq H
        BY <1>0, <1>11, <3>0 DEF Span
      <4> QED
        BY <4>1, <4>2
    <3>3. CASE x = p
      <4>1. \A d \in Sides : p \notin Span(S, t.link[x][d])
        BY <1>0, <3>0, <3>2, <3>3, PastIs
      <4>2. \A d \in Sides : d # side => Span(S2, u.link[x][d]) = Span(S, t.link[x][d])
        BY <1>2, <1>8, <1>11, <3>0, <4>1
      <4>3. Span(S2, u.link[x][side]) = {n} /\ Span(S, t.link[x][side]) = {}
        BY <1>2, <1>9, <3>0, <3>3 DEF Span
      <4>4. S2[x] = S[x] \cup {n}
        BY <1>0, <1>6, <3>0, <3>3
      <4>5. side = "left" \/ side = "right"
        BY DEF Sides
      <4>6. S2[x] = {x} \cup Span(S2, u.link[x]["left"]) \cup Span(S2, u.link[x]["right"])
        BY <1>0, <3>1, <4>2, <4>3, <4>4, <4>5
      <4>7. Past(u, side, x, n)
        BY <1>0, <3>0, <3>3
      <4>8. ASSUME NEW d \in Sides, NEW m \in Span(S2, u.link[x][d]) PROVE Past(u, d, x, m)
        BY <1>12, <3>0, <3>2, <4>2, <4>3, <4>7, <4>8
      <4> QED
        BY <4>6, <4>8
    <3>4. CASE x # p
      <4>1. \A d \in Sides :
               Span(S2, u.link[x][d]) = IF p \in Span(S, t.link[x][d])
                                        THEN Span(S, t.link[x][d]) \cup {n}
                                        ELSE Span(S, t.link[x][d])
        BY <1>2, <1>8, <1>11, <3>0, <3>4
      <4>2. S2[x] = IF p \in S[x] THEN S[x] \cup {n} ELSE S[x]
        BY <1>6, <3>0
      <4>3. S2[x] = {x} \cup Span(S2, u.link[x]["left"]) \cup Span(S2, u.link[x]["right"])
        BY <1>0, <3>1, <3>4, <4>1, <4>2
      <4>4. ASSUME NEW d \in Sides, NEW m \in Span(S2, u.link[x][d]) PROVE Past(u, d, x, m)
        <5>1. CASE m \in Span(S, t.link[x][d])
          BY <1>12, <3>0, <3>2, <5>1
        <5>2. CASE m \notin Span(S, t.link[x][d])
          <6>0. /\ p \in Span(S, t.link[x][d]) =>
                     Span(S2, u.link[x][d]) = Span(S, t.link[x][d]) \cup {n}
                /\ p \notin Span(S, t.link[x][d]) =>
                     Span(S2, u.link[x][d]) = Span(S, t.link[x][d])
            BY <4>1
          <6>1. m = n /\ p \in Span(S, t.link[x][d])
            BY <4>4, <5>2, <6>0
          <6>2. p \in S[x]
            BY <3>1, <6>1 DEF Sides
          <6> QED
            BY <3>0, <3>4, <6>1, <6>2
        <5> QED
          BY <5>1, <5>2
      <4> QED
        BY <4>3, <4>4
    <3> QED
      BY <3>3, <3>4
  <2> QED
    BY <2>1, <2>2
<1>14. Sorted(u, G, S2)
  BY <1>7, <1>10, <1>13 DEF Sorted
<1> QED
  BY <1>4, <1>5, <1>14 DEF Search, S2

----------------------------------------------------------------------------

\* The comparison with the key of a node.
LEMMA CompareIs ==
    ASSUME NEW t, NEW H, Keyed(t, H), NEW a \in Addrs, NEW m \in H
    PROVE  /\ cuiAddrTrackerCompare(a, t.key[m]) = Signed(a) - Val(t, m)
           /\ Signed(a) \in Int /\ Val(t, m) \in Int
           /\ cuiAddrTrackerCompare(a, t.key[m]) = 0 <=> t.key[m] = a
<1>1. t.key[m] \in Addrs
  BY DEF Keyed
<1>2. Signed(a) \in Int /\ Signed(t.key[m]) \in Int
      /\ (Signed(a) = Signed(t.key[m]) => a = t.key[m])
  BY <1>1, SignedIs
<1>3. cuiAddrTrackerCompare(a, t.key[m]) = Signed(a) - Signed(t.key[m])
  BY DEF cuiAddrTrackerCompare
<1>4. Signed(a) - Signed(t.key[m]) = 0 <=> Signed(a) = Signed(t.key[m])
  BY <1>2
<1>5. t.key[m] = a => Signed(a) = Signed(t.key[m])
  OBVIOUS
<1> QED
  BY <1>2, <1>3, <1>4, <1>5 DEF Val

\* The node of that key.
LEMMA ExistingIs ==
    ASSUME NEW t, NEW H, NEW S, Search(t, H, S), Tidy(t, H), NEW a \in Addrs
    PROVE  IF Existing(t, a) = NULL THEN \A m \in H : t.key[m] # a
           ELSE Existing(t, a) \in H /\ t.key[Existing(t, a)] = a
<1> DEFINE dir == KeyDir(t, a)
           at  == KeyAt(t, a)
<1>0. Keyed(t, H) /\ H \subseteq Nodes /\ Sorted(t, H, S) /\ \A m \in H : S[m] \subseteq H
  BY DEF Search, Keyed, Sorted
<1>1. PICK F : WalksDown(t, F, dir, at, at) /\ Existing(t, a) = F[t.root]
  BY ExistingWalks
<1>2. dir \in [Nodes -> Sides]
  BY KeyDirIs
<1>3. \A m \in H : m \in at <=> t.key[m] = a
  BY <1>0, CompareIs DEF KeyAt
<1>4. \A m \in H : dir[m] = IF Signed(a) - Val(t, m) < 0 THEN "left" ELSE "right"
  BY <1>0, CompareIs DEF KeyDir, Side
<1> HIDE DEF dir, at
<1>5. /\ F[t.root] # NULL => F[t.root] \in H /\ F[t.root] \in at
      /\ \A m \in H :
            m \in at /\ (\A b \in H : m \in S[b] /\ m # b =>
                            b \notin at /\ m \in Span(S, t.link[b][dir[b]]))
            => F[t.root] # NULL
  BY <1>1, <1>2, SteersTo
<1>6. ASSUME NEW m \in H, t.key[m] = a, NEW b \in H, m \in S[b], m # b
      PROVE  b \notin at /\ m \in Span(S, t.link[b][dir[b]])
  <2>1. PICK d \in Sides : t.link[b][d] # NULL /\ m \in S[t.link[b][d]]
    BY <1>6, SpanIs
  <2>2. Past(t, d, b, m)
    BY <2>1, ChildIs
  <2>3. Val(t, m) = Signed(a) /\ Val(t, m) \in Int /\ Val(t, b) \in Int
    BY <1>0, <1>6, CompareIs DEF Val
  <2>4. d = dir[b] /\ Val(t, b) # Signed(a)
    BY <1>4, <2>2, <2>3 DEF Past, Sides
  <2>5. t.key[b] # a
    BY <2>4 DEF Val
  <2> QED
    BY <1>3, <2>1, <2>4, <2>5 DEF Span
<1> QED
  BY <1>1, <1>3, <1>5, <1>6

\* The place of a new key.
LEMMA PlaceIs ==
    ASSUME NEW t, NEW H, NEW S, Search(t, H, S), Tidy(t, H), NEW a \in Addrs,
           \A m \in H : t.key[m] # a,
           NEW p, p = Place(t, a)
    PROVE  IF H = {} THEN p = NULL
           ELSE /\ p \in H /\ t.link[p][Side(cuiAddrTrackerCompare(a, t.key[p]))] = NULL
                /\ \A x \in H : p \in S[x] /\ p # x =>
                      p \in Span(S, t.link[x][Side(cuiAddrTrackerCompare(a, t.key[x]))])
<1> DEFINE dir == KeyDir(t, a)
           at  == KeyAt(t, a)
<1>0. Keyed(t, H) /\ H \subseteq Nodes
  BY DEF Search, Keyed
<1>1. PICK F : WalksDown(t, F, dir, at, Nodes) /\ p = F[t.root]
  BY PlaceWalks
<1>2. dir \in [Nodes -> Sides]
  BY KeyDirIs
<1>3. at \cap H = {}
  BY <1>0, CompareIs DEF KeyAt
<1>4. \A m \in H : dir[m] = Side(cuiAddrTrackerCompare(a, t.key[m]))
  BY <1>0 DEF KeyDir
<1> HIDE DEF dir, at
<1>5. WalksDown(t, F, dir, {}, Nodes)
  BY <1>1, <1>2, <1>3, NeedNotStop
<1>6. IF H = {} THEN F[t.root] = NULL
      ELSE /\ F[t.root] \in H /\ t.link[F[t.root]][dir[F[t.root]]] = NULL
           /\ \A x \in H : F[t.root] \in S[x] /\ F[t.root] # x =>
                 F[t.root] \in Span(S, t.link[x][dir[x]])
  BY <1>2, <1>5, LastOfWay
<1> QED
  BY <1>1, <1>4, <1>6

\* An insert hooks on a leaf.
LEMMA HookOnIs ==
    ASSUME NEW H, NEW S, Search(tree, H, S), Tidy(tree, H), NEW n \in Nodes, n \notin H,
           NEW k \in Addrs, Existing(tree, k) = NULL, HookOn(n, k)
    PROVE  \E p \in Pointer, side \in Sides :
              /\ IF H = {} THEN p = NULL ELSE p \in H
              /\ p # NULL => tree.link[p][side] = NULL
              /\ tree' \in AvlTrees /\ Hooked(tree, tree', n, p, side, k)
              /\ Search(tree', H \cup {n}, Grown(S, H, n, p))
              /\ rebalance' = p /\ isDelete' = FALSE
<1> DEFINE p == Place(tree, k)
           side == Side(cuiAddrTrackerCompare(k, tree.key[p]))
           fresh == [tree EXCEPT !.link[n] = Leaf, !.key[n] = k, !.height[n] = 1,
                                 !.parent[n] = p]
<1>0. /\ Keyed(tree, H) /\ H \subseteq Nodes /\ tree \in AvlTrees /\ NULL \notin Nodes
      /\ \A m \in H : m # n /\ m # NULL
  BY NodesAssumption DEF Search, Keyed
<1>1. \A m \in H : tree.key[m] # k
  BY ExistingIs
<1>2. IF H = {} THEN p = NULL
      ELSE /\ p \in H /\ tree.link[p][side] = NULL
           /\ \A x \in H : p \in S[x] /\ p # x =>
                 p \in Span(S, tree.link[x][Side(cuiAddrTrackerCompare(k, tree.key[x]))])
  BY <1>1, PlaceIs
<1>3. /\ tree' = IF p = NULL THEN [fresh EXCEPT !.root = n]
                 ELSE [fresh EXCEPT !.link[p][side] = n]
      /\ rebalance' = p /\ isDelete' = FALSE
  BY DEF HookOn, Place
<1>4. side \in Sides
  BY DEF Side, Sides
<1> HIDE DEF p, side
<1>5. p \in Pointer /\ n \in Pointer /\ p # n /\ (p # NULL => p \in Nodes)
  BY <1>0, <1>2 DEF Pointer
<1>6. fresh \in AvlTrees /\ Written(tree, fresh, n, p, 1, k)
  BY <1>0, <1>5, FreshIs, Zenon
<1> HIDE DEF fresh
<1>7. tree' \in AvlTrees /\ Hooked(tree, tree', n, p, side, k)
  <2>1. CASE p = NULL
    <3>1. tree' \in AvlTrees /\ SameButRoot(fresh, tree') /\ tree'.root = n
      BY <1>3, <1>5, <1>6, <2>1, SetRoot
    <3>2. Hooked(tree, tree', n, p, side, k)
      BY <1>0, <1>6, <2>1, <3>1 DEF Hooked, Written, SameButRoot
    <3> QED
      BY <3>1, <3>2
  <2>2. CASE p # NULL
    <3>1. /\ tree' \in AvlTrees /\ SameButLinks(fresh, tree')
          /\ \A x \in Nodes, d \in Sides :
                tree'.link[x][d] = IF x = p /\ d = side THEN n ELSE fresh.link[x][d]
      BY <1>3, <1>4, <1>5, <1>6, <2>2, SetLink
    <3>2. Hooked(tree, tree', n, p, side, k)
      BY <1>0, <1>5, <1>6, <2>2, <3>1 DEF Hooked, Written, SameButLinks
    <3> QED
      BY <3>1, <3>2
  <2> QED
    BY <2>1, <2>2
<1>8. ASSUME NEW x \in H, NEW d \in Sides, p \in S[x],
             IF x = p THEN d = side ELSE p \in Span(S, tree.link[x][d])
      PROVE  Past(tree', d, x, n)
  <2>1. d = Side(cuiAddrTrackerCompare(k, tree.key[x]))
    <3>1. CASE x = p
      BY <1>8, <3>1 DEF side
    <3>2. CASE x # p
      <4> DEFINE e == Side(cuiAddrTrackerCompare(k, tree.key[x]))
      <4>1. p \in Span(S, tree.link[x][d]) /\ p \in Span(S, tree.link[x][e]) /\ p \in H
        BY <1>2, <1>8, <3>2
      <4>2. e \in Sides
        BY DEF Side, Sides
      <4> HIDE DEF e
      <4>3. \A f \in Sides : p \in Span(S, tree.link[x][f]) => Past(tree, f, x, p)
        BY DEF Search, Sorted
      <4>4. Past(tree, d, x, p) /\ Past(tree, e, x, p)
        BY <4>1, <4>2, <4>3
      <4>5. d = e
        <5>1. d # e => d = Opposite(e)
          BY <4>2, SidesAre
        <5> QED
          BY <1>0, <4>1, <4>2, <4>4, <5>1, PastIs
      <4> QED
        BY <4>5 DEF e
    <3> QED
      BY <3>1, <3>2
  <2>2. tree'.key[n] = k /\ tree'.key[x] = tree.key[x]
    BY <1>0, <1>7 DEF Hooked
  <2>3. /\ cuiAddrTrackerCompare(k, tree.key[x]) = Signed(k) - Val(tree, x)
        /\ Signed(k) \in Int /\ Val(tree, x) \in Int
        /\ Signed(k) - Val(tree, x) # 0
    BY <1>0, <1>1, CompareIs
  <2>4. Val(tree', n) = Signed(k) /\ Val(tree', x) = Val(tree, x)
    BY <2>2 DEF Val
  <2>5. IF Signed(k) - Val(tree, x) < 0 THEN d = "left" ELSE d = "right"
    BY <2>1, <2>3 DEF Side
  <2> QED
    BY <2>3, <2>4, <2>5 DEF Past
<1>9. IF H = {} THEN p = NULL ELSE p \in H
  BY <1>2
<1>10. p # NULL => tree.link[p][side] = NULL
  BY <1>2
<1>11. Search(tree', H \cup {n}, Grown(S, H, n, p))
  BY <1>4, <1>7, <1>8, <1>9, <1>10, Hook
<1> QED
  BY <1>3, <1>4, <1>5, <1>7, <1>9, <1>10, <1>11

----------------------------------------------------------------------------
(***************************************************************************)
(* Heights.  A climb has reached r.  The nodes above it have heights that  *)
(* were right before the call; V gives them to r too.                      *)
(***************************************************************************)

\* The height of n, and that its subtrees differ by at most 1.
Even(t, V, n) ==
    \A side \in Sides :
       /\ V[n] = 1 + Greater(V[t.link[n][side]], V[t.link[n][Opposite(side)]])
       /\ V[t.link[n][side]] <= 1 + V[t.link[n][Opposite(side)]]

\* r was even when its subtree on that side had height h.  An insert can only
\* have made that higher by 1, leaning to one side, and a delete lower by 1.
Bent(t, V, r, delete, side, h) ==
    /\ V[r] = 1 + Greater(h, V[t.link[r][Opposite(side)]])
    /\ h <= 1 + V[t.link[r][Opposite(side)]]
    /\ V[t.link[r][Opposite(side)]] <= 1 + h
    /\ IF delete THEN V[t.link[r][side]] = h \/ V[t.link[r][side]] = h - 1
       ELSE \/ V[t.link[r][side]] = h
            \/ /\ V[t.link[r][side]] = h + 1
               /\ h = 0 \/ V[t.link[t.link[r][side]]["left"]] # V[t.link[t.link[r][side]]["right"]]

\* V gives the heights of the tree.
Heights(t, H, S, r, delete, V) ==
    /\ V \in [Pointer -> Nat] /\ V[NULL] = 0
    /\ \A m \in H : r \notin S[m] => V[m] = t.height[m]
    /\ \A m \in H : m # r => Even(t, V, m)
    /\ r # NULL => r \in H /\ \E side \in Sides, h \in Nat : Bent(t, V, r, delete, side, h)

\* U is S but for what is below r.
Kept(H, S, U, r) ==
    \A m \in H : IF m \in S[r] THEN U[m] \subseteq S[r] ELSE U[m] = S[m]

\* A rotation moves nothing in or out of the subtree it is about, and touches
\* nothing outside the tree.
LEMMA TurnKeeps ==
    ASSUME NEW t, NEW H, NEW S, Search(t, H, S), Tidy(t, H), NEW n \in H, NEW side \in Sides,
           NEW c, c = t.link[n][Opposite(side)], c # NULL,
           NEW u \in AvlTrees, Rotated(t, u, n, side, c)
    PROVE  Kept(H, S, Turned(t, S, n, side, c), n) /\ Tidy(u, H) /\ c \in S[n]
<1> DEFINE U == Turned(t, S, n, side, c)
<1>1. Opposite(side) \in Sides /\ Opposite(Opposite(side)) = side
  BY SidesAre
<1>2. c \in H /\ c \in Nodes /\ c \in S[n] /\ S[c] \subseteq S[n] /\ n \in S[n] /\ c # n
  BY <1>1, ChildIs
<1>3. Span(S, t.link[n][side]) \subseteq S[n]
  BY ChildIs DEF Span
<1>4. Span(S, t.link[c][side]) \subseteq S[n]
  <2>1. Span(S, t.link[c][side]) \subseteq S[c]
    BY <1>2, ChildIs DEF Span
  <2> QED BY <2>1, <1>2
<1>5. H \subseteq Nodes
  BY DEF Search, Keyed
<1>6. Kept(H, S, U, n)
  <2> SUFFICES ASSUME NEW m \in H
               PROVE  IF m \in S[n] THEN U[m] \subseteq S[n] ELSE U[m] = S[m]
    BY DEF Kept
  <2>0. m \in Nodes
    BY <1>5
  <2>1. CASE m = c
    <3>1. U[m] = S[n]
      BY <2>0, <2>1 DEF Turned
    <3> QED BY <3>1, <2>1, <1>2
  <2>2. CASE m = n
    <3>1. U[m] = {n} \cup Span(S, t.link[n][side]) \cup Span(S, t.link[c][side])
      BY <2>0, <2>2, <1>2 DEF Turned
    <3> QED BY <3>1, <2>2, <1>2, <1>3, <1>4
  <2>3. CASE m # c /\ m # n
    <3>1. U[m] = S[m]
      BY <2>0, <2>3 DEF Turned
    <3>2. m \in S[n] => S[m] \subseteq S[n]
      BY SpanDown
    <3> QED BY <3>1, <3>2
  <2> QED BY <2>1, <2>2, <2>3
<1>7. Tidy(u, H)
  <2> SUFFICES ASSUME NEW x \in Nodes \ H
               PROVE  /\ \A d \in Sides : u.link[x][d] = NULL
                      /\ u.parent[x] = NULL /\ u.key[x] = NULL /\ u.height[x] = 0
    BY DEF Tidy
  <2>1. /\ \A d \in Sides : t.link[x][d] = NULL
        /\ t.parent[x] = NULL /\ t.key[x] = NULL /\ t.height[x] = 0
    BY DEF Tidy
  <2>2. x # n /\ x # c /\ n # NULL
    BY <1>2, <1>5, NodesAssumption
  <2>3. x # t.link[c][side]
    <3>1. t.link[c][side] # NULL => t.link[c][side] \in H
      BY <1>2, ChildIs
    <3> QED BY <3>1, NodesAssumption
  <2>4. \A d \in Sides : u.link[x][d] = NULL
    BY <2>1, <2>2 DEF Rotated
  <2>5. u.parent[x] = NULL /\ u.key[x] = NULL /\ u.height[x] = 0
    BY <2>1, <2>2, <2>3 DEF Rotated
  <2> QED BY <2>4, <2>5
<1> QED BY <1>2, <1>6, <1>7

\* The turn at r: u has top at the place of r, all even below, and W gives the
\* heights.
Settled(t, u, H, S, U, r, top, V, W) ==
    /\ Search(u, H, U) /\ Tidy(u, H) /\ u.key = t.key
    /\ top \in S[r] /\ u.parent[top] = t.parent[r]
    /\ Kept(H, S, U, r)
    /\ \A m \in H \ S[r], d \in Sides :
          u.link[m][d] = IF t.link[m][d] = r THEN top ELSE t.link[m][d]
    /\ W \in [Pointer -> Nat] /\ W[NULL] = 0
    /\ \A m \in S[r] : W[m] = u.height[m] /\ Even(u, W, m)
    /\ \A m \in Nodes \ S[r] : W[m] = V[m] /\ u.height[m] = t.height[m]

\* The heights after a turn at r.
After(u, S, r, V) == [m \in Pointer |-> IF m \in S[r] THEN u.height[m] ELSE V[m]]

\* It is enough to look at the nodes K that got new children.
LEMMA SettledIs ==
    ASSUME NEW t, NEW H, NEW S, Search(t, H, S), Tidy(t, H), NEW r \in H,
           NEW V \in [Pointer -> Nat], V[NULL] = 0,
           \A m \in S[r] : m # r => V[m] = t.height[m] /\ Even(t, V, m),
           NEW K \in SUBSET S[r], r \in K, \A m \in K : m # r => t.parent[m] \in K,
           NEW top \in K, NEW u, NEW U, Search(u, H, U), Tidy(u, H), u.key = t.key,
           u.parent[top] = t.parent[r], Kept(H, S, U, r),
           \A m \in Nodes : m \notin K =>
              /\ \A d \in Sides : u.link[m][d] = IF t.link[m][d] = r THEN top ELSE t.link[m][d]
              /\ u.height[m] = t.height[m],
           \A m \in K : Even(u, After(u, S, r, V), m)
    PROVE  Settled(t, u, H, S, U, r, top, V, After(u, S, r, V))
<1> DEFINE W == After(u, S, r, V)
<1>1. S[r] \subseteq H /\ H \subseteq Nodes /\ Nodes \subseteq Pointer /\ NULL \in Pointer
  BY DEF Search, Sorted, Keyed, Pointer
<1>2. NULL \notin Nodes
  BY NodesAssumption
<1>3. \A m \in Nodes : u.height[m] \in Nat
  BY TreeFields DEF Search
<1>4. W \in [Pointer -> Nat] /\ W[NULL] = 0
  BY <1>1, <1>2, <1>3 DEF After
<1>5. \A m \in S[r] : W[m] = u.height[m]
  BY <1>1 DEF After
<1>6. \A m \in Nodes \ S[r] : W[m] = V[m]
  BY <1>1 DEF After
<1>7. \A m \in Nodes : m \notin K => W[m] = V[m] 
  BY <1>5, <1>6
<1>8. ASSUME NEW m \in S[r], m \notin K
      PROVE  Even(u, W, m)
  <2>1. m \in H /\ m \in Nodes /\ m # r
    BY <1>1, <1>8
  <2>2. Even(t, V, m)
    BY <2>1
  <2>3. ASSUME NEW d \in Sides
        PROVE  u.link[m][d] = t.link[m][d] /\ W[t.link[m][d]] = V[t.link[m][d]]
    <3>1. CASE t.link[m][d] = NULL
      <4>1. u.link[m][d] = t.link[m][d]
        BY <2>1, <3>1, <1>1, <1>2, <1>8
      <4> QED BY <4>1, <3>1, <1>4
    <3>2. CASE t.link[m][d] # NULL
      <4>1. /\ t.link[m][d] \in Nodes /\ t.parent[t.link[m][d]] = m
            /\ t.link[m][d] \in S[t.link[m][d]] /\ S[t.link[m][d]] \subseteq S[m]
        BY <2>1, <3>2, ChildIs
      <4>2. t.link[m][d] # r
        <5>1. SUFFICES ASSUME t.link[m][d] = r PROVE FALSE
          OBVIOUS
        <5>2. m \notin S[r]
          BY <4>1, <5>1, <2>1, <1>2, ParentIs
        <5> QED BY <5>2
      <4>3. t.link[m][d] \notin K
        BY <4>1, <4>2, <1>8
      <4> QED BY <4>1, <4>2, <4>3, <2>1, <1>7, <1>8
    <3> QED BY <3>1, <3>2
  <2>4. W[m] = V[m]
    BY <2>1, <1>7, <1>8
  <2> HIDE DEF W
  <2> QED BY <2>2, <2>3, <2>4, SidesAre DEF Even
<1>9. \A m \in S[r] : Even(u, W, m)
  BY <1>8
<1>10. \A m \in H \ S[r], d \in Sides :
          u.link[m][d] = IF t.link[m][d] = r THEN top ELSE t.link[m][d]
  BY <1>1
<1>11. \A m \in Nodes \ S[r] : u.height[m] = t.height[m]
  OBVIOUS
<1> HIDE DEF W
<1> QED BY <1>4, <1>5, <1>6, <1>9, <1>10, <1>11 DEF Settled, W

----------------------------------------------------------------------------
\* V gives the heights below r, and all there is even.
EvenBelow(t, S, r, V) ==
    /\ V \in [Pointer -> Nat] /\ V[NULL] = 0
    /\ \A m \in S[r] : m # r => V[m] = t.height[m] /\ Even(t, V, m)

\* Below r the tree has the heights of V.
LEMMA BelowIs ==
    ASSUME NEW t, NEW H, NEW S, Search(t, H, S), NEW r \in H, NEW V, EvenBelow(t, S, r, V),
           NEW m \in S[r], NEW d \in Sides, NEW y, y = t.link[m][d]
    PROVE  /\ Height(t, y) = V[y] /\ V[y] \in Nat
           /\ y # NULL => y \in S[r] /\ y # r /\ y # m /\ y \in H /\ t.parent[y] = m
<1>1. S[r] \subseteq H /\ H \subseteq Nodes
  BY DEF Search, Sorted, Keyed
<1>2. t \in AvlTrees /\ m \in H
  BY <1>1 DEF Search
<1>3. y \in Pointer /\ V[y] \in Nat
  BY <1>1, <1>2, TreeFields DEF EvenBelow
<1>4. CASE y = NULL
  BY <1>4, <1>3 DEF Height, EvenBelow
<1>5. CASE y # NULL
  <2>1. y \in H /\ t.parent[y] = m /\ y # m /\ y \in S[y] /\ S[y] \subseteq S[m] /\ m \notin S[y]
    BY <1>2, <1>5, ChildIs
  <2>2. S[m] \subseteq S[r]
    BY SpanDown
  <2>3. y \in S[r]
    BY <2>1, <2>2
  <2>4. y # r
    <3>1. SUFFICES ASSUME y = r PROVE FALSE
      OBVIOUS
    <3> QED BY <2>1, <3>1
  <2> QED BY <2>1, <2>3, <2>4, <1>3, <1>5 DEF Height, EvenBelow
<1> QED BY <1>4, <1>5

\* The height a over even subtrees of heights x and y.
Over(a, x, y) == a = 1 + Greater(x, y) /\ x <= 1 + y /\ y <= 1 + x

\* From either side.
LEMMA EvenIs ==
    ASSUME NEW t, NEW V, NEW n, NEW d \in Sides,
           NEW x \in Nat, x = V[t.link[n][d]], NEW y \in Nat, y = V[t.link[n][Opposite(d)]]
    PROVE  Even(t, V, n) <=> Over(V[n], x, y)
<1>1. \A e \in Sides : e = d \/ e = Opposite(d)
  BY SidesAre
<1>2. Opposite(d) \in Sides /\ Opposite(Opposite(d)) = d
  BY SidesAre
<1>3. Greater(x, y) = Greater(y, x)
  BY GreaterIs
<1>4. Even(t, V, n) <=>
        /\ V[n] = 1 + Greater(x, y) /\ x <= 1 + y
        /\ V[n] = 1 + Greater(y, x) /\ y <= 1 + x
  BY <1>1, <1>2 DEF Even
<1> QED BY <1>3, <1>4 DEF Over

\* u evens r out, with height h.
Levels(t, u, H, S, r, top, V, h) ==
    \E U, W : Settled(t, u, H, S, U, r, top, V, W) /\ W[top] = h

\* A single rotation evens r out.
LEMMA TurnOnce ==
    ASSUME NEW t, NEW H, NEW S, Search(t, H, S), Tidy(t, H), NEW r \in H, NEW V,
           EvenBelow(t, S, r, V), NEW side \in Sides, NEW c, c = t.link[r][side], c # NULL,
           V[c] = 2 + V[t.link[r][Opposite(side)]],
           V[t.link[c][side]] >= V[t.link[c][Opposite(side)]]
    PROVE  Levels(t, Rotate(t, r, Opposite(side)), H, S, r, c, V,
                  IF V[t.link[c][side]] = V[t.link[c][Opposite(side)]] THEN 1 + V[c] ELSE V[c])
<1> DEFINE opp == Opposite(side)
           u == Rotate(t, r, opp)
           U == Turned(t, S, r, opp, c)
           W == After(u, S, r, V)
           x == t.link[c][side]
           i == t.link[c][opp]
           o == t.link[r][opp]
<1>1. opp \in Sides /\ Opposite(opp) = side /\ opp # side
  BY SidesAre
<1>2. u \in AvlTrees /\ Rotated(t, u, r, opp, c)
  BY <1>1, RotateIs
<1>3. Search(u, H, U) /\ r # c /\ c \in H
  BY <1>1, <1>2, Turn
<1>4. Kept(H, S, U, r) /\ Tidy(u, H) /\ c \in S[r]
  BY <1>1, <1>2, TurnKeeps
<1>5. r \in S[r] /\ S[r] \subseteq H /\ H \subseteq Nodes /\ NULL \notin Nodes
  BY NodesAssumption DEF Search, Sorted, Keyed
<1>6. V \in [Pointer -> Nat] /\ V[NULL] = 0
      /\ \A m \in S[r] : m # r => V[m] = t.height[m] /\ Even(t, V, m)
  BY DEF EvenBelow
<1>7. /\ Height(t, x) = V[x] /\ V[x] \in Nat
      /\ x # NULL => x \in S[r] /\ x # r /\ x # c
  BY <1>4, BelowIs
<1>8. /\ Height(t, i) = V[i] /\ V[i] \in Nat
      /\ i # NULL => i \in S[r] /\ i # r /\ i # c
  BY <1>1, <1>4, BelowIs
<1>9. /\ Height(t, o) = V[o] /\ V[o] \in Nat
      /\ o # NULL => o \in S[r] /\ o # r 
  BY <1>1, <1>5, BelowIs
<1>10. o # NULL => o # c
  BY TwoChildren
<1>11. V[c] = 1 + Greater(V[x], V[i]) /\ V[x] <= 1 + V[i] /\ V[i] <= 1 + V[x]
  <2>1. Even(t, V, c)
    BY <1>3, <1>4, <1>6
  <2>2. Over(V[c], V[x], V[i])
    BY <2>1, <1>7, <1>8, EvenIs
  <2> QED BY <2>2 DEF Over
<1>12. u.link[r][side] = i /\ u.link[r][opp] = o /\ u.link[c][opp] = r /\ u.link[c][side] = x
  <2>1. r \in Nodes /\ c \in Nodes
    BY <1>3, <1>5
  <2>2. t.parent[r] # r /\ t.parent[r] # c
    <3>1. CASE t.parent[r] = NULL
      BY <2>1, <3>1, <1>5
    <3>2. CASE t.parent[r] # NULL
      <4>1. t.parent[r] # r /\ t.parent[r] \notin S[r]
        BY <3>2, ParentIs
      <4> QED BY <4>1, <1>4
    <3> QED BY <3>1, <3>2
  <2> QED BY <1>1, <1>2, <1>3, <2>1, <2>2 DEF Rotated
<1>13. u.height[r] = 1 + Greater(V[o], V[i])
       /\ u.height[c] = 1 + Greater(V[x], 1 + Greater(V[o], V[i]))
  <2>1. r \in Nodes /\ c \in Nodes
    BY <1>3, <1>5
  <2>2. LowHeight(t, r, opp, c) = 1 + Greater(V[o], V[i])
    BY <1>8, <1>9 DEF LowHeight
  <2>3. HighHeight(t, r, opp, c) = 1 + Greater(V[x], 1 + Greater(V[o], V[i]))
    BY <2>2, <1>1, <1>7 DEF HighHeight
  <2> QED BY <2>1, <2>2, <2>3, <1>2, <1>3, Zenon DEF Rotated
<1>14. \A m \in Nodes : m # r /\ m # c => u.height[m] = t.height[m]
  BY <1>2 DEF Rotated
<1>15. W[NULL] = 0 /\ W[r] = u.height[r] /\ W[c] = u.height[c]
       /\ \A m \in S[r] : m # r /\ m # c => W[m] = V[m]
  BY <1>4, <1>5, <1>6, <1>14 DEF After, Pointer
<1>16. W[x] = V[x] /\ W[i] = V[i] /\ W[o] = V[o]
  BY <1>6, <1>7, <1>8, <1>9, <1>10, <1>15
<1>17. V[c] = 2 + V[o] /\ V[x] >= V[i]
  OBVIOUS
<1> HIDE DEF W, u, U, x, i, o
<1>18. /\ V[c] = 1 + V[x] /\ V[x] = 1 + V[o] /\ (V[i] = V[x] \/ V[i] + 1 = V[x])
  BY <1>7, <1>8, <1>9, <1>11, <1>17 DEF Greater
<1>19. W[r] = 1 + V[i] /\ W[c] = 2 + V[i] 
  BY <1>7, <1>8, <1>9, <1>13, <1>15, <1>18 DEF Greater
<1>20. Even(u, W, r)
  <2>1. W[u.link[r][side]] = V[i] /\ W[u.link[r][opp]] = V[o]
    BY <1>12, <1>16
  <2>2. W[r] = 1 + Greater(V[i], V[o]) /\ V[i] <= 1 + V[o] /\ V[o] <= 1 + V[i]
    BY <1>8, <1>9, <1>7, <1>18, <1>19 DEF Greater
  <2>3. Over(W[r], V[i], V[o])
    BY <2>2 DEF Over
  <2> QED BY <2>1, <2>3, <1>8, <1>9, EvenIs
<1>21. Even(u, W, c)
  <2>1. W[u.link[c][side]] = V[x] /\ W[u.link[c][opp]] = W[r]
    BY <1>12, <1>16
  <2>2. W[c] = 1 + Greater(V[x], W[r]) /\ V[x] <= 1 + W[r] /\ W[r] <= 1 + V[x] /\ W[r] \in Nat
    BY <1>8, <1>7, <1>18, <1>19 DEF Greater
  <2>3. Over(W[c], V[x], W[r])
    BY <2>2 DEF Over
  <2> QED BY <2>1, <2>2, <2>3, <1>7, EvenIs
<1>22. \A m \in Nodes : m \notin {r, c} =>
              /\ \A d \in Sides : u.link[m][d] = IF t.link[m][d] = r THEN c ELSE t.link[m][d]
              /\ u.height[m] = t.height[m]
  <2> SUFFICES ASSUME NEW m \in Nodes, m # r, m # c
               PROVE  \A d \in Sides : u.link[m][d] = IF t.link[m][d] = r THEN c ELSE t.link[m][d]
    BY <1>14
  <2> TAKE d \in Sides
  <2>1. t.link[m][d] = r => m = t.parent[r]
    <3>1. CASE m \in H
      BY <3>1, <1>5, ChildIs
    <3>2. CASE m \notin H
      BY <3>2, <1>5 DEF Tidy
    <3> QED BY <3>1, <3>2
  <2> QED BY <2>1, <1>2 DEF Rotated
<1>23. u.parent[c] = t.parent[r] /\ u.key = t.key
  BY <1>2, <1>3, <1>5 DEF Rotated
<1>24. \A m \in {r, c} : m # r => t.parent[m] \in {r, c}
  BY ChildIs
<1>25. Settled(t, u, H, S, U, r, c, V, W)
  <2>1. \A m \in {r, c} : Even(u, W, m)
    BY <1>20, <1>21
  <2>2. {r, c} \in SUBSET S[r]
    BY <1>4, <1>5
  <2> HIDE DEF opp
  <2> QED BY <2>1, <2>2, <1>3, <1>4, <1>6, <1>22, <1>23, <1>24, SettledIs DEF W
<1>26. W[c] = IF V[x] = V[i] THEN 1 + V[c] ELSE V[c]
  BY <1>18, <1>19, <1>7, <1>8
<1> QED BY <1>25, <1>26, Zenon DEF x, i, u, Levels

----------------------------------------------------------------------------

\* What two rotations keep.
LEMMA KeptTwice ==
    ASSUME NEW t, NEW H, NEW S, Search(t, H, S), NEW r \in H, NEW c \in S[r], r \notin S[c],
           NEW U1, Kept(H, S, U1, c), NEW U2, Kept(H, U1, U2, r)
    PROVE  Kept(H, S, U2, r)
<1>1. S[c] \subseteq S[r]
  BY SpanDown
<1>2. U1[r] = S[r]
  BY DEF Kept
<1> SUFFICES ASSUME NEW m \in H
             PROVE  IF m \in S[r] THEN U2[m] \subseteq S[r] ELSE U2[m] = S[m]
  BY DEF Kept
<1>3. IF m \in U1[r] THEN U2[m] \subseteq U1[r] ELSE U2[m] = U1[m]
  BY DEF Kept
<1>4. m \notin S[c] => U1[m] = S[m]
  BY DEF Kept
<1> QED BY <1>1, <1>2, <1>3, <1>4

\* What the two rotations do to the links and heights.
Twice(t, u, r, side, c, g) ==
    /\ u.link[c][side] = t.link[c][side]
    /\ u.link[c][Opposite(side)] = t.link[g][side]
    /\ u.link[g][side] = c /\ u.link[g][Opposite(side)] = r
    /\ u.link[r][side] = t.link[g][Opposite(side)]
    /\ u.link[r][Opposite(side)] = t.link[r][Opposite(side)]
    /\ \A m \in Nodes : m \notin {r, c, g} =>
          /\ \A d \in Sides : u.link[m][d] = IF t.link[m][d] = r THEN g ELSE t.link[m][d]
          /\ u.height[m] = t.height[m]
    /\ u.parent[g] = t.parent[r] /\ u.key = t.key

\* The heights.
TwiceHeights(u, V, r, side, c, g, x, a, b, o) ==
    /\ u.height[c] = 1 + Greater(V[x], V[a])
    /\ u.height[r] = 1 + Greater(V[o], V[b])
    /\ u.height[g] = 1 + Greater(1 + Greater(V[x], V[a]), 1 + Greater(V[o], V[b]))

\* A double rotation, with all it writes.
LEMMA TwiceIs ==
    ASSUME NEW t, NEW H, NEW S, Search(t, H, S), Tidy(t, H), NEW r \in H, NEW V,
           EvenBelow(t, S, r, V), NEW side \in Sides, NEW c, c = t.link[r][side], c # NULL,
           NEW g, g = t.link[c][Opposite(side)], g # NULL,
           NEW u, u = Rotate(Rotate(t, c, side), r, Opposite(side))
    PROVE  /\ \E U : Search(u, H, U) /\ Kept(H, S, U, r)
           /\ Tidy(u, H) /\ Twice(t, u, r, side, c, g)
           /\ TwiceHeights(u, V, r, side, c, g, t.link[c][side], t.link[g][side],
                           t.link[g][Opposite(side)], t.link[r][Opposite(side)])
           /\ c \in S[r] /\ g \in S[r] /\ t.parent[c] = r /\ t.parent[g] = c
           /\ g # c /\ g # r /\ c # r
<1> DEFINE opp == Opposite(side)
           v  == Rotate(t, c, side)
           w  == Rotate(v, r, opp)
           U1 == Turned(t, S, c, side, g)
           U2 == Turned(v, U1, r, opp, g)
           x == t.link[c][side]
           a == t.link[g][side]
           b == t.link[g][opp]
           o == t.link[r][opp]
<1>1. opp \in Sides /\ Opposite(opp) = side /\ opp # side /\ \A d \in Sides : d = side \/ d = opp
  BY SidesAre
<1>2. r \in S[r] /\ S[r] \subseteq H /\ H \subseteq Nodes /\ NULL \notin Nodes
  BY NodesAssumption DEF Search, Sorted, Keyed
<1>3. c \in S[r] /\ c # r /\ c \in H /\ t.parent[c] = r
  BY <1>2, BelowIs
<1>4. g \in S[r] /\ g # r /\ g # c /\ g \in H /\ t.parent[g] = c
  BY <1>1, <1>3, BelowIs
<1>5. r \notin S[c]
  BY ChildIs
<1>6. v \in AvlTrees /\ Rotated(t, v, c, side, g)
  BY <1>3, RotateIs
<1>7. Search(v, H, U1)
  BY <1>3, <1>6, Turn
<1>8. Kept(H, S, U1, c) /\ Tidy(v, H)
  BY <1>3, <1>6, TurnKeeps
<1>9. Height(t, x) = V[x] /\ (x # NULL => x \in H /\ x # r /\ t.parent[x] = c)
  BY <1>3, BelowIs
<1>0. ASSUME NEW m \in S[r], NEW d \in Sides
      PROVE  /\ Height(t, t.link[m][d]) = V[t.link[m][d]]
             /\ t.link[m][d] # NULL =>
                   /\ t.link[m][d] \in H /\ t.link[m][d] # r /\ t.link[m][d] # m
                   /\ t.parent[t.link[m][d]] = m
  BY BelowIs
<1>10. Height(t, a) = V[a] /\ (a # NULL => a \in H /\ a # r /\ a # g /\ t.parent[a] = g)
  BY <1>0, <1>4, Zenon
<1>11. Height(t, b) = V[b] /\ (b # NULL => b \in H /\ b # r /\ b # g /\ t.parent[b] = g)
  BY <1>0, <1>1, <1>4, Zenon
<1>12. Height(t, o) = V[o] /\ (o # NULL => o \in H /\ o # r /\ t.parent[o] = r)
  BY <1>1, <1>2, BelowIs
<1>13. o # NULL => o # c
  BY TwoChildren
<1>14. r \in Nodes /\ c \in Nodes /\ g \in Nodes
  BY <1>2, <1>3, <1>4
<1>15. /\ v.link[c][side] = x /\ v.link[c][opp] = a /\ v.link[g][side] = c /\ v.link[g][opp] = b
       /\ v.link[r][side] = g /\ v.link[r][opp] = o
  <2>1. \A y \in Nodes, d \in Sides :
          v.link[y][d] = IF y = c /\ d = opp THEN a
                         ELSE IF y = g /\ d = side THEN c
                         ELSE IF y = t.parent[c] /\ t.link[y][d] = c THEN g
                         ELSE t.link[y][d]
    BY <1>6, Zenon DEF Rotated
  <2>2. v.link[c][side] = x /\ v.link[c][opp] = a
    BY <2>1, <1>1, <1>3, <1>4, <1>14, Zenon
  <2>3. v.link[g][side] = c /\ v.link[g][opp] = b
    BY <2>1, <1>1, <1>3, <1>4, <1>14, Zenon
  <2>4. v.link[r][side] = g
    BY <2>1, <1>1, <1>3, <1>4, <1>14, Zenon
  <2>5. v.link[r][opp] = o
    <3>1. t.link[r][opp] # c
      BY <1>13
    <3>2. r # c /\ opp # side /\ t.link[r][opp] # c
      BY <1>1, <1>3, <1>4, <3>1
    <3> HIDE DEF opp
    <3> QED BY <2>1, <3>2, <1>1, <1>14
  <2> QED BY <2>2, <2>3, <2>4, <2>5
<1>16. v.parent[r] = t.parent[r] /\ v.key = t.key
  <2>1. v.parent[r] = t.parent[r]
    BY <1>2, <1>3, <1>4, <1>6, <1>10, <1>14, Zenon DEF Rotated
  <2>2. v.key = t.key
    BY <1>6, Zenon DEF Rotated
  <2> QED BY <2>1, <2>2
<1>17. \A m \in Nodes : m \notin {r, c, g} =>
          v.height[m] = t.height[m] /\ \A d \in Sides : v.link[m][d] = t.link[m][d]
  <2>1. \A m \in Nodes : m \notin {r, c, g} => v.height[m] = t.height[m]
    BY <1>6, Zenon DEF Rotated
  <2>2. \A m \in Nodes, d \in Sides : m \notin {r, c, g} => v.link[m][d] = t.link[m][d]
    BY <1>3, <1>6, ZenonT(30) DEF Rotated
  <2> QED BY <2>1, <2>2
<1>18. v.height[c] = 1 + Greater(V[x], V[a])
  <2>1. LowHeight(t, c, side, g) = 1 + Greater(V[x], V[a])
    BY <1>9, <1>10, Zenon DEF LowHeight
  <2> QED BY <2>1, <1>4, <1>6, <1>14, Zenon DEF Rotated
<1>19. Height(v, o) = V[o] /\ Height(v, b) = V[b] /\ Height(v, c) = 1 + Greater(V[x], V[a])
  <2>1. o # NULL => o \in Nodes /\ o # r /\ o # c /\ o # g
    BY <1>2, <1>3, <1>4, <1>12, <1>13
  <2>2. b # NULL => b \in Nodes /\ b # r /\ b # c /\ b # g
    <3>1. SUFFICES ASSUME b # NULL, b = c \/ b = g PROVE FALSE
      BY <1>2, <1>11, Zenon
    <3>2. b # g
      BY <1>11, <3>1, Zenon
    <3>3. b = c /\ g = r
      BY <3>1, <3>2, <1>3, <1>11, Zenon
    <3> QED BY <3>3, <1>4
  <2>3. c # NULL
    OBVIOUS
  <2> QED BY <2>1, <2>2, <2>3, <1>11, <1>12, <1>17, <1>18, Zenon DEF Height
<1> HIDE DEF v, U1
<1>20. w \in AvlTrees /\ Rotated(v, w, r, opp, g)
  BY <1>1, <1>7, <1>15, RotateIs
<1>21. Search(w, H, U2)
  BY <1>1, <1>7, <1>15, <1>20, Turn, Zenon
<1>22. Kept(H, U1, U2, r) /\ Tidy(w, H)
  BY <1>1, <1>7, <1>8, <1>15, <1>20, TurnKeeps, Zenon
<1>23. Kept(H, S, U2, r)
  BY <1>3, <1>5, <1>8, <1>22, KeptTwice
<1>24. t.parent[r] # r /\ t.parent[r] # c /\ t.parent[r] # g
  <2>1. CASE t.parent[r] = NULL
    BY <2>1, <1>2, <1>14
  <2>2. CASE t.parent[r] # NULL
    BY <2>2, <1>2, <1>3, <1>4, ParentIs
  <2> QED BY <2>1, <2>2
<1> HIDE DEF w, U2
<1>25. /\ w.link[r][side] = b /\ w.link[r][opp] = o /\ w.link[g][opp] = r /\ w.link[g][side] = c
       /\ w.link[c][side] = x /\ w.link[c][opp] = a
  BY <1>1, <1>3, <1>4, <1>14, <1>15, <1>16, <1>20, <1>24, ZenonT(30) DEF Rotated
<1>26. w.parent[g] = t.parent[r] /\ w.key = t.key
  BY <1>4, <1>14, <1>16, <1>20, Zenon DEF Rotated
<1>27. LowHeight(v, r, opp, g) = 1 + Greater(V[o], V[b])
  BY <1>15, <1>19, Zenon DEF LowHeight
<1>28. HighHeight(v, r, opp, g) = 1 + Greater(1 + Greater(V[x], V[a]), 1 + Greater(V[o], V[b]))
  BY <1>1, <1>15, <1>19, <1>27, Zenon DEF HighHeight
<1>29. TwiceHeights(w, V, r, side, c, g, x, a, b, o)
  BY <1>3, <1>4, <1>14, <1>18, <1>20, <1>27, <1>28, Zenon DEF Rotated, TwiceHeights
<1>30. \A m \in Nodes : m \notin {r, c, g} =>
              /\ \A d \in Sides : w.link[m][d] = IF t.link[m][d] = r THEN g ELSE t.link[m][d]
              /\ w.height[m] = t.height[m]
  <2> SUFFICES ASSUME NEW m \in Nodes, m \notin {r, c, g}
               PROVE  /\ \A d \in Sides : w.link[m][d] = IF t.link[m][d] = r THEN g ELSE t.link[m][d]
                      /\ w.height[m] = t.height[m]
    OBVIOUS
  <2>1. w.height[m] = t.height[m]
    BY <1>17, <1>20, Zenon DEF Rotated
  <2> SUFFICES ASSUME NEW d \in Sides
               PROVE  w.link[m][d] = IF t.link[m][d] = r THEN g ELSE t.link[m][d]
    BY <2>1
  <2>2. t.link[m][d] = r => m = t.parent[r]
    <3>1. CASE m \in H
      BY <3>1, <1>2, <1>14, ChildIs
    <3>2. CASE m \notin H
      BY <3>2, <1>2, <1>14 DEF Tidy
    <3> QED BY <3>1, <3>2
  <2>3. v.link[m][d] = t.link[m][d] /\ m # r /\ m # g
    BY <1>17
  <2>4. w.link[m][d] = IF m = v.parent[r] /\ v.link[m][d] = r THEN g ELSE v.link[m][d]
    BY <2>3, <1>20, Zenon DEF Rotated
  <2> QED BY <2>2, <2>3, <2>4, <1>16
<1>31. Twice(t, w, r, side, c, g)
  BY <1>25, <1>26, <1>30, Zenon DEF Twice
<1>32. u = w
  BY DEF w, v
<1> QED BY <1>3, <1>4, <1>21, <1>22, <1>23, <1>29, <1>31, <1>32, Zenon

----------------------------------------------------------------------------
\* A double rotation evens r out.
LEMMA TurnTwice ==
    ASSUME NEW t, NEW H, NEW S, Search(t, H, S), Tidy(t, H), NEW r \in H, NEW V,
           EvenBelow(t, S, r, V), NEW side \in Sides, NEW c, c = t.link[r][side], c # NULL,
           V[c] = 2 + V[t.link[r][Opposite(side)]],
           V[t.link[c][side]] < V[t.link[c][Opposite(side)]],
           NEW g, g = t.link[c][Opposite(side)]
    PROVE  /\ g # NULL
           /\ Levels(t, Rotate(Rotate(t, c, side), r, Opposite(side)), H, S, r, g, V, V[c])
<1> DEFINE opp == Opposite(side)
           u == Rotate(Rotate(t, c, side), r, opp)
           W == After(u, S, r, V)
           x == t.link[c][side]
           a == t.link[g][side]
           b == t.link[g][opp]
           o == t.link[r][opp]
<1>1. opp \in Sides /\ Opposite(opp) = side /\ opp # side
  BY SidesAre
<1>2. r \in S[r] /\ S[r] \subseteq H /\ H \subseteq Nodes /\ NULL \notin Nodes
  BY NodesAssumption DEF Search, Sorted, Keyed
<1>3. V \in [Pointer -> Nat] /\ V[NULL] = 0
      /\ \A m \in S[r] : m # r => V[m] = t.height[m] /\ Even(t, V, m)
  BY DEF EvenBelow
<1>4. ASSUME NEW m \in S[r], NEW d \in Sides
      PROVE  /\ V[t.link[m][d]] \in Nat
             /\ t.link[m][d] # NULL =>
                   /\ t.link[m][d] \in S[r] /\ t.link[m][d] # r /\ t.link[m][d] # m
                   /\ t.parent[t.link[m][d]] = m
  BY BelowIs
<1>5. c \in S[r] /\ c # r
  BY <1>2, <1>4
<1>6. V[x] \in Nat /\ V[g] \in Nat
  BY <1>1, <1>4, <1>5
<1>7. g # NULL
  <2>1. SUFFICES ASSUME g = NULL PROVE FALSE
    OBVIOUS
  <2> QED BY <2>1, <1>3, <1>6
<1>8. /\ \E U : Search(u, H, U) /\ Kept(H, S, U, r)
      /\ Tidy(u, H) /\ Twice(t, u, r, side, c, g)
      /\ TwiceHeights(u, V, r, side, c, g, x, a, b, o)
      /\ c \in S[r] /\ g \in S[r] /\ t.parent[c] = r /\ t.parent[g] = c
      /\ g # c /\ g # r /\ c # r
  BY <1>7, TwiceIs
<1>9. PICK U : Search(u, H, U) /\ Kept(H, S, U, r)
  BY <1>8, Zenon
<1>10. /\ V[a] \in Nat /\ V[b] \in Nat /\ V[o] \in Nat
       /\ x # NULL => x \in S[r] /\ x # r /\ x # c /\ t.parent[x] = c
       /\ a # NULL => a \in S[r] /\ a # r /\ a # g /\ t.parent[a] = g
       /\ b # NULL => b \in S[r] /\ b # r /\ b # g /\ t.parent[b] = g
       /\ o # NULL => o \in S[r] /\ o # r /\ t.parent[o] = r
  BY <1>1, <1>2, <1>4, <1>8, ZenonT(30)
<1>11. o # NULL => o # c
  BY TwoChildren
<1>12. x # NULL => x # g
  <2>1. c \in H
    BY <1>2, <1>5
  <2> QED BY <1>7, <2>1, TwoChildren
<1>13. V[c] = 1 + Greater(V[x], V[g]) /\ V[x] <= 1 + V[g] /\ V[g] <= 1 + V[x]
  <2>1. Even(t, V, c)
    BY <1>3, <1>5
  <2>2. Over(V[c], V[x], V[g])
    BY <2>1, <1>6, EvenIs
  <2> QED BY <2>2 DEF Over
<1>14. V[g] = 1 + Greater(V[a], V[b]) /\ V[a] <= 1 + V[b] /\ V[b] <= 1 + V[a]
  <2>1. Even(t, V, g)
    BY <1>3, <1>8, Zenon
  <2>2. Over(V[g], V[a], V[b])
    BY <2>1, <1>10, EvenIs, Zenon
  <2> QED BY <2>2, Zenon DEF Over
<1>15. V[c] = 2 + V[o] /\ V[x] < V[g]
  OBVIOUS
<1>16. /\ u.link[c][side] = x /\ u.link[c][opp] = a
       /\ u.link[g][side] = c /\ u.link[g][opp] = r
       /\ u.link[r][side] = b /\ u.link[r][opp] = o
       /\ u.parent[g] = t.parent[r] /\ u.key = t.key
  BY <1>8, Zenon DEF Twice
<1>17. \A m \in Nodes : m \notin {r, c, g} =>
          /\ \A d \in Sides : u.link[m][d] = IF t.link[m][d] = r THEN g ELSE t.link[m][d]
          /\ u.height[m] = t.height[m]
  BY <1>8, Zenon DEF Twice
<1>18. /\ u.height[c] = 1 + Greater(V[x], V[a])
       /\ u.height[r] = 1 + Greater(V[o], V[b])
       /\ u.height[g] = 1 + Greater(u.height[c], u.height[r])
  BY <1>8, Zenon DEF TwiceHeights
<1>19. /\ W[NULL] = 0 /\ W[r] = u.height[r] /\ W[c] = u.height[c] /\ W[g] = u.height[g]
       /\ \A m \in S[r] : m \notin {r, c, g} => W[m] = V[m]
  BY <1>2, <1>3, <1>8, <1>17, Zenon DEF After, Pointer
<1>20. W[x] = V[x] /\ W[a] = V[a] /\ W[b] = V[b] /\ W[o] = V[o]
  <2> HIDE DEF W, u, x, a, b, o, opp
  <2>1. x # NULL => x # r /\ x # c /\ x # g
    BY <1>10, <1>12
  <2>2. a # NULL => a # r /\ a # c /\ a # g
    BY <1>8, <1>10
  <2>3. b # NULL => b # r /\ b # c /\ b # g
    BY <1>8, <1>10
  <2>4. o # NULL => o # r /\ o # c /\ o # g
    BY <1>8, <1>10, <1>11, Zenon
  <2>5. W[NULL] = V[NULL]
    BY <1>3, <1>19
  <2> QED BY <2>1, <2>2, <2>3, <2>4, <2>5, <1>10, <1>19
<1> HIDE DEF W, u, x, a, b, o, opp
<1>21. V[g] = 1 + V[x] /\ V[c] = 2 + V[x] /\ V[o] = V[x]
  BY <1>6, <1>10, <1>13, <1>15 DEF Greater
<1>22. /\ V[a] <= V[x] /\ V[b] <= V[x] /\ V[x] <= 1 + V[a] /\ V[x] <= 1 + V[b]
  BY <1>6, <1>10, <1>14, <1>21 DEF Greater
<1>23. W[c] = 1 + V[x] /\ W[r] = 1 + V[x] /\ W[g] = 2 + V[x]
  BY <1>6, <1>10, <1>18, <1>19, <1>21, <1>22 DEF Greater
<1>24. Even(u, W, c)
  <2>1. Over(W[c], V[x], V[a])
    BY <1>6, <1>10, <1>22, <1>23 DEF Greater, Over
  <2> QED BY <2>1, <1>6, <1>10, <1>16, <1>20, EvenIs, Zenon DEF opp
<1>25. Even(u, W, r)
  <2>1. Over(W[r], V[b], V[o])
    BY <1>6, <1>10, <1>21, <1>22, <1>23 DEF Greater, Over
  <2> QED BY <2>1, <1>6, <1>10, <1>16, <1>20, EvenIs, Zenon DEF opp
<1>26. Even(u, W, g)
  <2>1. Over(W[g], W[c], W[r]) /\ W[c] \in Nat /\ W[r] \in Nat
    BY <1>6, <1>23 DEF Greater, Over
  <2> QED BY <2>1, <1>16, EvenIs, Zenon DEF opp
<1>27. Settled(t, u, H, S, U, r, g, V, W)
  <2>1. \A m \in {r, c, g} : Even(u, W, m)
    BY <1>24, <1>25, <1>26
  <2>2. {r, c, g} \in SUBSET S[r]
    BY <1>2, <1>8
  <2>3. \A m \in {r, c, g} : m # r => t.parent[m] \in {r, c, g}
    BY <1>8
  <2> QED BY <2>1, <2>2, <2>3, <1>3, <1>8, <1>9, <1>16, <1>17, SettledIs, Zenon DEF W
<1>28. W[g] = V[c]
  BY <1>21, <1>23
<1> QED BY <1>7, <1>27, <1>28, Zenon DEF u, opp, Levels

----------------------------------------------------------------------------
\* How a turn may change the height V had for r: W has it for top.
Grows(u, V, W, r, top, delete) ==
    IF delete THEN W[top] = V[r] \/ W[top] = V[r] - 1
    ELSE \/ W[top] = V[r]
         \/ W[top] = V[r] + 1 /\ W[u.link[top]["left"]] # W[u.link[top]["right"]]

\* The climb goes on at the parent.
LEMMA Upwards ==
    ASSUME NEW t, NEW H, NEW S, Search(t, H, S), NEW r, NEW delete \in BOOLEAN, NEW V,
           Heights(t, H, S, r, delete, V), r # NULL,
           NEW u, NEW U, NEW top, NEW W, Settled(t, u, H, S, U, r, top, V, W),
           Grows(u, V, W, r, top, delete), NEW p, p = u.parent[top]
    PROVE  Heights(u, H, U, p, delete /\ p # NULL, W)
<1>0. S[r] \subseteq H /\ H \subseteq Nodes /\ NULL \notin Nodes /\ r \in H /\ r \in S[r]
  BY NodesAssumption DEF Search, Sorted, Keyed, Heights
<1>1. p = t.parent[r]
  BY DEF Settled
<1>2. W \in [Pointer -> Nat] /\ W[NULL] = 0
  BY DEF Settled
<1>3. \A m \in S[r] : W[m] = u.height[m] /\ Even(u, W, m)
  BY DEF Settled
<1>4. \A m \in Nodes \ S[r] : W[m] = V[m] /\ u.height[m] = t.height[m]
  BY DEF Settled
<1>5. \A m \in H \ S[r], d \in Sides :
          u.link[m][d] = IF t.link[m][d] = r THEN top ELSE t.link[m][d]
  BY DEF Settled
<1>6. \A m \in H : IF m \in S[r] THEN U[m] \subseteq S[r] ELSE U[m] = S[m]
  BY DEF Settled, Kept
<1>7. V \in [Pointer -> Nat] /\ V[NULL] = 0
      /\ (\A m \in H : r \notin S[m] => V[m] = t.height[m])
      /\ (\A m \in H : m # r => Even(t, V, m))
  BY DEF Heights
<1>8. CASE p = NULL
  <2>1. r = t.root
    BY <1>0, <1>1, <1>8 DEF Search, Linked
  <2>2. S[r] = H
    BY <1>0, <2>1 DEF Search, Sorted, Span
  <2> QED BY <1>2, <1>3, <1>8, <2>2 DEF Heights
<1>9. CASE p # NULL
  <2>1. p \in H /\ p \in Nodes /\ p # r /\ p \notin S[r]
    BY <1>0, <1>1, <1>9, ParentIs
  <2>2. PICK side \in Sides : t.link[p][side] = r /\ t.link[p][Opposite(side)] # r
    BY <1>0, <1>1, <1>9, ParentIs
  <2>3. ASSUME NEW m \in H \ S[r], NEW d \in Sides, t.link[m][d] # r
        PROVE  u.link[m][d] = t.link[m][d] /\ W[t.link[m][d]] = V[t.link[m][d]]
    <3>1. u.link[m][d] = t.link[m][d]
      BY <1>5, <2>3
    <3>2. CASE t.link[m][d] = NULL
      BY <3>1, <3>2, <1>2, <1>7
    <3>3. CASE t.link[m][d] # NULL
      <4>1. t.link[m][d] \in Nodes /\ t.parent[t.link[m][d]] = m
        BY <3>3, ChildIs
      <4>2. t.link[m][d] \notin S[r]
        <5>1. SUFFICES ASSUME t.link[m][d] \in S[r] PROVE FALSE
          OBVIOUS
        <5>2. t.parent[t.link[m][d]] \in S[r]
          BY <5>1, <2>3, <1>0, SpanUp
        <5> QED BY <5>2, <4>1
      <4> QED BY <3>1, <4>1, <4>2, <1>4
    <3> QED BY <3>2, <3>3
  <2>4. ASSUME NEW m \in H, p \notin U[m]
        PROVE  W[m] = u.height[m]
    <3>1. CASE m \in S[r]
      BY <3>1, <1>3
    <3>2. CASE m \notin S[r]
      <4>1. U[m] = S[m]
        BY <3>2, <1>6
      <4>2. r \notin S[m]
        <5>1. SUFFICES ASSUME r \in S[m] PROVE FALSE
          OBVIOUS
        <5>2. r # m
          BY <3>2, <1>0
        <5>3. t.parent[r] \in S[m]
          BY <5>1, <5>2, SpanUp
        <5> QED BY <5>3, <1>1, <2>4, <4>1
      <4> QED BY <3>2, <4>2, <1>0, <1>4, <1>7
    <3> QED BY <3>1, <3>2
  <2>5. ASSUME NEW m \in H, m # p
        PROVE  Even(u, W, m)
    <3>1. CASE m \in S[r]
      BY <3>1, <1>3
    <3>2. CASE m \notin S[r]
      <4>1. Even(t, V, m) /\ W[m] = V[m]
        BY <3>2, <1>0, <1>4, <1>7
      <4>2. \A d \in Sides : t.link[m][d] # r
        <5> SUFFICES ASSUME NEW d \in Sides, t.link[m][d] = r PROVE FALSE
          OBVIOUS
        <5>1. t.parent[r] = m
          BY <1>0, ChildIs
        <5> QED BY <5>1, <1>1, <2>5
      <4>3. \A d \in Sides : u.link[m][d] = t.link[m][d] /\ W[t.link[m][d]] = V[t.link[m][d]]
        BY <2>3, <3>2, <4>2
      <4> QED BY <4>1, <4>3, SidesAre DEF Even
    <3> QED BY <3>1, <3>2
  <2>6. Bent(u, W, p, delete, side, V[r])
    <3> DEFINE b == t.link[p][Opposite(side)]
    <3>1. Opposite(side) \in Sides /\ Opposite(Opposite(side)) = side
      BY SidesAre
    <3>2. u.link[p][side] = top
      BY <1>5, <2>1, <2>2
    <3>3. u.link[p][Opposite(side)] = b /\ W[b] = V[b]
      BY <3>1, <2>1, <2>2, <2>3
    <3>4. W[p] = V[p]
      BY <1>4, <2>1
    <3>5. /\ V[p] = 1 + Greater(V[r], V[b]) /\ V[r] <= 1 + V[b] /\ V[b] <= 1 + V[r]
      <4>1. Even(t, V, p)
        BY <1>7, <2>1
      <4>2. /\ V[p] = 1 + Greater(V[t.link[p][side]], V[b])
            /\ V[t.link[p][side]] <= 1 + V[b]
        BY <4>1 DEF Even
      <4>3. V[b] <= 1 + V[t.link[p][Opposite(Opposite(side))]]
        BY <4>1, <3>1 DEF Even
      <4> QED BY <4>2, <4>3, <3>1, <2>2
    <3>6. IF delete THEN W[top] = V[r] \/ W[top] = V[r] - 1
          ELSE \/ W[top] = V[r]
               \/ /\ W[top] = V[r] + 1
                  /\ W[u.link[top]["left"]] # W[u.link[top]["right"]]
      BY DEF Grows
    <3> HIDE DEF b
    <3> QED BY <3>2, <3>3, <3>4, <3>5, <3>6 DEF Bent
  <2>7. V[r] \in Nat
    BY <1>0, <1>7 DEF Pointer
  <2>8. (delete /\ p # NULL) = delete
    BY <1>9
  <2>9. \E d \in Sides, h \in Nat : Bent(u, W, p, delete, d, h)
    BY <2>6, <2>7
  <2> QED BY <1>2, <1>9, <2>1, <2>4, <2>5, <2>8, <2>9 DEF Heights
<1> QED BY <1>8, <1>9

\* Heights below r.
LEMMA BelowEven ==
    ASSUME NEW t, NEW H, NEW S, Search(t, H, S), NEW r, NEW delete, NEW V,
           Heights(t, H, S, r, delete, V), r # NULL
    PROVE  EvenBelow(t, S, r, V) /\ r \in H
<1>1. r \in H /\ S[r] \subseteq H
  BY DEF Search, Sorted, Keyed, Heights
<1>2. ASSUME NEW m \in S[r], m # r
      PROVE  r \notin S[m]
  <2>1. PICK d \in Sides : t.link[r][d] # NULL /\ m \in S[t.link[r][d]]
    BY <1>1, <1>2, SpanIs
  <2>2. t.link[r][d] \in H /\ r \notin S[t.link[r][d]]
    BY <1>1, <2>1, ChildIs
  <2>3. S[m] \subseteq S[t.link[r][d]]
    BY <2>1, <2>2, SpanDown
  <2> QED BY <2>2, <2>3
<1> QED BY <1>1, <1>2 DEF EvenBelow, Heights

----------------------------------------------------------------------------
\* u is t with height h at n.
Measured(t, u, n, h) ==
    /\ u.root = t.root /\ u.link = t.link /\ u.parent = t.parent /\ u.key = t.key
    /\ \A x \in Nodes : u.height[x] = IF x = n THEN h ELSE t.height[x]

\* Recalculating a height writes that height only.
LEMMA RecalculateIs ==
    ASSUME NEW t \in AvlTrees, NEW n \in Nodes,
           NEW l, l = t.link[n]["left"], NEW r, r = t.link[n]["right"],
           NEW u, u = cuAvlTreeNodeRecalculateHeight(t, n)
    PROVE  /\ u \in AvlTrees
           /\ Measured(t, u, n, 1 + Greater(Height(t, l), Height(t, r)))
<1>0. \A x \in Nodes, d \in Sides : t.link[x][d] \in Pointer
  BY TreeFields
<1>1. l \in Pointer /\ r \in Pointer
  BY <1>0 DEF Sides
<1>2. Height(t, l) \in Nat /\ Height(t, r) \in Nat
  BY <1>1, HeightIs
<1>3. Taller(t, n) = 1 + Greater(Height(t, l), Height(t, r))
  BY DEF Taller
<1>4. Taller(t, n) \in Nat
  BY <1>2, <1>3, GreaterIs
<1> DEFINE v == [t EXCEPT !.height[n] = Taller(t, n)]
<1>5. /\ v \in AvlTrees /\ v.root = t.root /\ v.link = t.link
      /\ v.parent = t.parent /\ v.key = t.key
      /\ \A x \in Nodes : v.height[x] = IF x = n THEN Taller(t, n) ELSE t.height[x]
  BY <1>4, SetHeight
<1>6. u = v
  BY DEF cuAvlTreeNodeRecalculateHeight
<1> HIDE DEF v
<1> QED BY <1>3, <1>5, <1>6 DEF Measured

\* Heights are of no account to the search order.
LEMMA SearchMeasured ==
    ASSUME NEW t, NEW H, NEW S, Search(t, H, S), Tidy(t, H),
           NEW u \in AvlTrees, NEW n \in H, NEW h, Measured(t, u, n, h)
    PROVE  Search(u, H, S) /\ Tidy(u, H)
<1>1. u.root = t.root /\ u.link = t.link /\ u.parent = t.parent /\ u.key = t.key
      /\ \A x \in Nodes : x # n => u.height[x] = t.height[x]
  BY DEF Measured
<1>2. Keyed(u, H)
  BY <1>1 DEF Search, Keyed
<1>3. Linked(u, H)
  BY <1>1 DEF Search, Linked
<1>4. Sorted(u, H, S)
  BY <1>1 DEF Search, Sorted, Past, Val
<1>5. Tidy(u, H)
  BY <1>1 DEF Tidy
<1> QED BY <1>2, <1>3, <1>4, <1>5 DEF Search

\* A turn that finds r even only sets its height.
LEMMA Stay ==
    ASSUME NEW t, NEW H, NEW S, Search(t, H, S), Tidy(t, H), NEW r \in H, NEW V,
           EvenBelow(t, S, r, V),
           NEW l, l = t.link[r]["left"], NEW y, y = t.link[r]["right"],
           V[l] <= 1 + V[y], V[y] <= 1 + V[l]
    PROVE  /\ \E W : /\ Settled(t, cuAvlTreeNodeRecalculateHeight(t, r), H, S, S, r, r, V, W)
                     /\ W[r] = 1 + Greater(V[l], V[y]) /\ W[l] = V[l] /\ W[y] = V[y]
           /\ cuAvlTreeNodeRecalculateHeight(t, r).link = t.link
           /\ cuAvlTreeNodeRecalculateHeight(t, r).parent = t.parent
<1> DEFINE u == cuAvlTreeNodeRecalculateHeight(t, r)
           W == After(u, S, r, V)
<1>1. r \in S[r] /\ S[r] \subseteq H /\ H \subseteq Nodes /\ NULL \notin Nodes /\ t \in AvlTrees
  BY NodesAssumption DEF Search, Sorted, Keyed
<1>2. V \in [Pointer -> Nat] /\ V[NULL] = 0
      /\ \A m \in S[r] : m # r => V[m] = t.height[m] /\ Even(t, V, m)
  BY DEF EvenBelow
<1>3. "left" \in Sides /\ "right" \in Sides /\ Opposite("left") = "right"
  BY DEF Sides, Opposite
<1>4. Height(t, l) = V[l] /\ V[l] \in Nat /\ (l # NULL => l \in S[r] /\ l # r)
  BY <1>1, <1>3, BelowIs
<1>5. Height(t, y) = V[y] /\ V[y] \in Nat /\ (y # NULL => y \in S[r] /\ y # r)
  BY <1>1, <1>3, BelowIs
<1>6. u \in AvlTrees /\ Measured(t, u, r, 1 + Greater(V[l], V[y]))
  BY <1>1, <1>4, <1>5, RecalculateIs
<1>7. Search(u, H, S) /\ Tidy(u, H)
  BY <1>6, SearchMeasured
<1>8. Kept(H, S, S, r)
  BY SpanDown DEF Kept
<1> HIDE DEF u
<1>9. u.link = t.link /\ u.parent = t.parent /\ u.key = t.key
      /\ u.height[r] = 1 + Greater(V[l], V[y])
      /\ \A m \in Nodes : m # r => u.height[m] = t.height[m]
  BY <1>1, <1>6 DEF Measured
<1>10. W[r] = 1 + Greater(V[l], V[y]) /\ W[l] = V[l] /\ W[y] = V[y]
  BY <1>1, <1>2, <1>4, <1>5, <1>9 DEF After, Pointer
<1> HIDE DEF W
<1>11. Even(u, W, r)
  <2>1. Over(W[r], V[l], V[y])
    BY <1>10 DEF Over
  <2>2. V[l] = W[u.link[r]["left"]] /\ V[y] = W[u.link[r][Opposite("left")]]
    BY <1>3, <1>9, <1>10
  <2> QED BY <2>1, <2>2, <1>3, <1>4, <1>5, EvenIs
<1>12. \A m \in Nodes : m \notin {r} =>
              /\ \A d \in Sides : u.link[m][d] = IF t.link[m][d] = r THEN r ELSE t.link[m][d]
              /\ u.height[m] = t.height[m]
  BY <1>9
<1>13. Settled(t, u, H, S, S, r, r, V, W)
  <2>1. \A m \in {r} : Even(u, W, m)
    BY <1>11
  <2>2. {r} \in SUBSET S[r] /\ \A m \in {r} : m # r => t.parent[m] \in {r}
    BY <1>1
  <2>3. u.parent[r] = t.parent[r] /\ u.key = t.key
    BY <1>9
  <2> QED BY <2>1, <2>2, <2>3, <1>2, <1>7, <1>8, <1>12, SettledIs DEF W
<1> QED BY <1>9, <1>10, <1>13 DEF u

\* After a rotation the height of the top is right already.
LEMMA NothingToSet ==
    ASSUME NEW t, NEW H, NEW S, Search(t, H, S), NEW r \in H, NEW V,
           NEW u, NEW U, NEW top, NEW W, Settled(t, u, H, S, U, r, top, V, W)
    PROVE  cuAvlTreeNodeRecalculateHeight(u, top) = u
<1>1. S[r] \subseteq H /\ H \subseteq Nodes /\ NULL \notin Nodes
  BY NodesAssumption DEF Search, Sorted, Keyed
<1>2. Search(u, H, U) /\ top \in S[r] /\ Kept(H, S, U, r) /\ W[NULL] = 0
      /\ (\A m \in S[r] : W[m] = u.height[m]) /\ Even(u, W, top)
  BY DEF Settled
<1>3. u \in AvlTrees /\ top \in H /\ top \in Nodes
  BY <1>1, <1>2 DEF Search
<1>4. ASSUME NEW d \in Sides
      PROVE  Height(u, u.link[top][d]) = W[u.link[top][d]]
  <2>1. CASE u.link[top][d] = NULL
    BY <2>1, <1>2 DEF Height
  <2>2. CASE u.link[top][d] # NULL
    <3>1. u.link[top][d] \in U[top]
      BY <1>2, <1>3, <2>2, ChildIs
    <3>2. U[top] \subseteq S[r]
      BY <1>2, <1>3 DEF Kept
    <3> QED BY <3>1, <3>2, <1>2, <2>2 DEF Height
  <2> QED BY <2>1, <2>2
<1>5. Taller(u, top) = W[top]
  <2>1. W[top] = 1 + Greater(W[u.link[top]["left"]], W[u.link[top]["right"]])
    BY <1>2 DEF Even, Sides, Opposite
  <2>2. "left" \in Sides /\ "right" \in Sides
    BY DEF Sides
  <2> QED BY <2>1, <2>2, <1>4 DEF Taller
<1>6. Taller(u, top) = u.height[top]
  BY <1>2, <1>5
<1>7. [u.height EXCEPT ![top] = u.height[top]] = u.height
  BY <1>3 DEF AvlTrees
<1>8. [u EXCEPT !.height = u.height] = u
  BY <1>3 DEF AvlTrees
<1> QED BY <1>6, <1>7, <1>8 DEF cuAvlTreeNodeRecalculateHeight

----------------------------------------------------------------------------
\* The rotations even r out.
LEMMA LevelIs ==
    ASSUME NEW t, NEW H, NEW S, Search(t, H, S), Tidy(t, H), NEW r \in H, NEW V,
           EvenBelow(t, S, r, V), NEW side \in Sides, NEW c, c = t.link[r][side],
           V[c] = 2 + V[t.link[r][Opposite(side)]],
           NEW x, x = t.link[c][side], NEW i, i = t.link[c][Opposite(side)],
           NEW delete \in BOOLEAN, V[x] = V[i] => delete,
           NEW turn, turn = Level(t, r, side, delete)
    PROVE  /\ c \in S[r] /\ c # r
           /\ Levels(t, turn.tree, H, S, r, turn.top, V, IF V[x] = V[i] THEN 1 + V[c] ELSE V[c])
<1> DEFINE opp == Opposite(side)
<1>1. opp \in Sides /\ Opposite(opp) = side
  BY SidesAre
<1>2. r \in S[r] /\ S[r] \subseteq H /\ H \subseteq Nodes /\ NULL \notin Nodes
  BY NodesAssumption DEF Search, Sorted, Keyed
<1>3. V \in [Pointer -> Nat] /\ V[NULL] = 0
      /\ \A m \in S[r] : m # r => V[m] = t.height[m] /\ Even(t, V, m)
  BY DEF EvenBelow
<1>4. V[t.link[r][opp]] \in Nat
  BY <1>1, <1>2, BelowIs
<1>5. c # NULL
  BY <1>3, <1>4
<1>6. c \in S[r] /\ c # r /\ c \in H
  BY <1>2, <1>5, BelowIs
<1>7. Height(t, x) = V[x] /\ V[x] \in Nat
  BY <1>6, BelowIs
<1>8. Height(t, i) = V[i] /\ V[i] \in Nat
  BY <1>1, <1>6, BelowIs
<1>9. V[c] = 1 + Greater(V[x], V[i]) /\ V[x] <= 1 + V[i] /\ V[i] <= 1 + V[x]
  <2>1. Even(t, V, c)
    BY <1>3, <1>6
  <2>2. Over(V[c], V[x], V[i])
    BY <2>1, <1>7, <1>8, EvenIs
  <2> QED BY <2>2 DEF Over
<1>10. Lean(t, c, side) = V[x] - V[i]
  BY <1>7, <1>8 DEF Lean
<1>11. CASE V[x] >= V[i]
  <2>1. Lean(t, c, side) = 1 \/ (Lean(t, c, side) = 0 /\ delete)
    BY <1>7, <1>8, <1>9, <1>10, <1>11
  <2>2. turn = [tree |-> Rotate(t, r, opp), top |-> c]
    BY <2>1 DEF Level
  <2>3. turn.tree = Rotate(t, r, opp) /\ turn.top = c
    BY <2>2
  <2>4. Levels(t, Rotate(t, r, opp), H, S, r, c, V, IF V[x] = V[i] THEN 1 + V[c] ELSE V[c])
    BY <1>5, <1>11, TurnOnce
  <2> QED BY <2>3, <2>4, <1>6, Zenon
<1>12. CASE V[x] < V[i]
  <2>1. Lean(t, c, side) = -1 /\ V[x] # V[i]
    BY <1>7, <1>8, <1>9, <1>10, <1>12
  <2>2. turn = [tree |-> Rotate(Rotate(t, c, side), r, opp), top |-> i]
    BY <2>1 DEF Level
  <2>3. turn.tree = Rotate(Rotate(t, c, side), r, opp) /\ turn.top = i
    BY <2>2
  <2>4. Levels(t, Rotate(Rotate(t, c, side), r, opp), H, S, r, i, V, V[c])
    BY <1>5, <1>12, TurnTwice
  <2> QED BY <2>1, <2>3, <2>4, <1>6
<1> QED BY <1>7, <1>8, <1>11, <1>12

\* A turn at r, before the height of its top is set.
Turns(t, r, delete) ==
    LET tall == {side \in Sides : Lean(t, r, side) = 2}
    IN  IF tall = {} THEN {[tree |-> t, top |-> r]}
        ELSE {Level(t, r, side, delete) : side \in tall}

\* u has r evened out, its height growing by 1 at most.
Evens(t, u, H, S, r, top, V, delete) ==
    \E U, W : Settled(t, u, H, S, U, r, top, V, W) /\ Grows(u, V, W, r, top, delete)

\* A turn evens r out, its height growing by 1 at most.
LEMMA TurnIs ==
    ASSUME NEW t, NEW H, NEW S, Search(t, H, S), Tidy(t, H), NEW r, NEW delete \in BOOLEAN, NEW V,
           Heights(t, H, S, r, delete, V), r # NULL,
           NEW turn \in Turns(t, r, delete),
           NEW u, u = cuAvlTreeNodeRecalculateHeight(turn.tree, turn.top)
    PROVE  /\ Evens(t, u, H, S, r, turn.top, V, delete)
           /\ u.parent = turn.tree.parent
<1>1. EvenBelow(t, S, r, V) /\ r \in H
  BY BelowEven
<1>2. PICK side \in Sides, h \in Nat : Bent(t, V, r, delete, side, h)
  BY DEF Heights
<1> DEFINE opp == Opposite(side)
           c == t.link[r][side]
           o == t.link[r][opp]
           a == V[c]
           b == V[o]
           tall == {d \in Sides : Lean(t, r, d) = 2}
<1>3. opp \in Sides /\ Opposite(opp) = side /\ \A d \in Sides : d = side \/ d = opp
  BY SidesAre
<1>4. r \in S[r]
  BY <1>1 DEF Search, Sorted
<1>5. Height(t, c) = a /\ a \in Nat
  BY <1>1, <1>4, BelowIs
<1>6. Height(t, o) = b /\ b \in Nat
  BY <1>1, <1>3, <1>4, BelowIs
<1>7. /\ V[r] = 1 + Greater(h, b) /\ h <= 1 + b /\ b <= 1 + h /\ V[r] \in Nat
      /\ IF delete THEN a = h \/ a = h - 1
              ELSE \/ a = h
                   \/ a = h + 1 /\ (h = 0 \/ V[t.link[c]["left"]] # V[t.link[c]["right"]])
  <2>1. /\ V[r] = 1 + Greater(h, b) /\ h <= 1 + b /\ b <= 1 + h
        /\ IF delete THEN a = h \/ a = h - 1
              ELSE \/ a = h
                   \/ a = h + 1 /\ (h = 0 \/ V[t.link[c]["left"]] # V[t.link[c]["right"]])
    BY <1>2 DEF Bent
  <2>2. Greater(h, b) \in Nat
    BY <1>6, GreaterIs
  <2> QED BY <2>1, <2>2
<1>8. Lean(t, r, side) = a - b /\ Lean(t, r, opp) = b - a
  BY <1>3, <1>5, <1>6 DEF Lean
<1>9. CASE tall = {}
  <2>1. turn.tree = t /\ turn.top = r
    BY <1>9 DEF Turns
  <2>2. a - b # 2 /\ b - a # 2
    BY <1>3, <1>8, <1>9
  <2>3. a <= 1 + b /\ b <= 1 + a
    BY <2>2, <1>5, <1>6, <1>7
  <2> DEFINE l == t.link[r]["left"]
             y == t.link[r]["right"]
  <2>4. (l = c /\ y = o) \/ (l = o /\ y = c)
    BY DEF Sides, Opposite
  <2>5. V[l] <= 1 + V[y] /\ V[y] <= 1 + V[l]
    BY <2>3, <2>4
  <2>6. u = cuAvlTreeNodeRecalculateHeight(t, r)
    BY <2>1
  <2>7. PICK W : /\ Settled(t, cuAvlTreeNodeRecalculateHeight(t, r), H, S, S, r, r, V, W)
                 /\ W[r] = 1 + Greater(V[l], V[y]) /\ W[l] = V[l] /\ W[y] = V[y]
    BY <1>1, <2>5, Stay
  <2>8. /\ cuAvlTreeNodeRecalculateHeight(t, r).link = t.link
        /\ cuAvlTreeNodeRecalculateHeight(t, r).parent = t.parent
    BY <1>1, <2>5, Stay
  <2>9. W[r] = 1 + Greater(a, b)
    BY <2>4, <2>7, <1>5, <1>6, GreaterIs
  <2>10. u.link[r]["left"] = l /\ u.link[r]["right"] = y
    BY <2>6, <2>8
  <2>11. a # b => W[l] # W[y]
    BY <2>4, <2>7
  <2> HIDE DEF a, b, l, y
  <2>12. Grows(u, V, W, r, r, delete)
    <3>1. CASE delete
      <4>1. W[r] = V[r] \/ W[r] = V[r] - 1
        BY <3>1, <2>9, <1>5, <1>6, <1>7 DEF Greater
      <4> QED BY <3>1, <4>1 DEF Grows
    <3>2. CASE ~ delete
      <4>1. W[r] = V[r] \/ (W[r] = V[r] + 1 /\ a # b)
        BY <3>2, <2>9, <1>5, <1>6, <1>7 DEF Greater
      <4> QED BY <3>2, <4>1, <2>10, <2>11 DEF Grows
    <3> QED BY <3>1, <3>2
  <2> QED BY <2>1, <2>6, <2>7, <2>8, <2>12 DEF Evens
<1>10. CASE tall # {}
  <2>1. PICK s \in Sides : Lean(t, r, s) = 2 /\ turn = Level(t, r, s, delete)
    BY <1>10 DEF Turns
  <2> DEFINE d == t.link[r][s]
             e == t.link[r][Opposite(s)]
             x == t.link[d][s]
             i == t.link[d][Opposite(s)]
  <2>2. (V[x] # V[i]) => V[t.link[d]["left"]] # V[t.link[d]["right"]]
    BY DEF Sides, Opposite
  <2>3. (V[x] = V[i]) => V[t.link[d]["left"]] = V[t.link[d]["right"]]
    BY DEF Sides, Opposite
  <2> HIDE DEF x, i, a, b
  <2>4. CASE s = side
    <3>1. a - b = 2 /\ d = c /\ e = o
      BY <2>1, <2>4, <1>8
    <3>2. V[d] = 2 + V[e]
      BY <3>1, <1>5, <1>6 DEF a, b
    <3>3. ~ delete /\ V[x] # V[i] /\ V[r] = a
      <4>1. ~ delete /\ a = h + 1 /\ h # 0 /\ V[r] = a
        BY <3>1, <1>5, <1>6, <1>7 DEF Greater
      <4> QED BY <4>1, <1>7, <2>3, <3>1
    <3>0. Levels(t, turn.tree, H, S, r, turn.top, V, IF V[x] = V[i] THEN 1 + V[d] ELSE V[d])
      BY <1>1, <2>1, <3>2, <3>3, LevelIs DEF x, i
    <3>4. PICK U, W : /\ Settled(t, turn.tree, H, S, U, r, turn.top, V, W)
                      /\ W[turn.top] = IF V[x] = V[i] THEN 1 + V[d] ELSE V[d]
      BY <3>0 DEF Levels
    <3>5. u = turn.tree
      BY <1>1, <3>4, NothingToSet
    <3>6. Grows(u, V, W, r, turn.top, delete)
      BY <3>1, <3>3, <3>4 DEF Grows, a
    <3> QED BY <3>4, <3>5, <3>6 DEF Evens
  <2>5. CASE s = opp
    <3>1. b - a = 2 /\ d = o /\ e = c
      BY <2>1, <2>5, <1>8, <1>3
    <3>2. V[d] = 2 + V[e]
      BY <3>1, <1>5, <1>6 DEF a, b
    <3>3. delete /\ V[r] = 1 + b
      BY <3>1, <1>5, <1>6, <1>7 DEF Greater
    <3>9. V[x] = V[i] => delete
      BY <3>3
    <3> HIDE DEF opp, d, c, o
    <3>0. Levels(t, turn.tree, H, S, r, turn.top, V, IF V[x] = V[i] THEN 1 + V[d] ELSE V[d])
      BY <1>1, <2>1, <3>2, <3>9, LevelIs DEF x, i, d, e
    <3>4. PICK U, W : /\ Settled(t, turn.tree, H, S, U, r, turn.top, V, W)
                      /\ W[turn.top] = IF V[x] = V[i] THEN 1 + V[d] ELSE V[d]
      BY <3>0 DEF Levels
    <3>5. u = turn.tree
      BY <1>1, <3>4, NothingToSet
    <3>6. Grows(u, V, W, r, turn.top, delete)
      <4>1. V[d] = b
        BY <3>1 DEF b
      <4>2. W[turn.top] = V[r] \/ W[turn.top] = V[r] - 1
        BY <4>1, <3>3, <3>4, <1>6
      <4> QED BY <4>2, <3>3 DEF Grows
    <3> QED BY <3>4, <3>5, <3>6 DEF Evens
  <2> QED BY <2>1, <2>4, <2>5, <1>3
<1> QED BY <1>9, <1>10

\* u is t after a turn at r, to go on at q.
Climbed(t, u, H, S, r, q, delete) ==
    \E V, U, W, top : /\ Settled(t, u, H, S, U, r, top, V, W)
                      /\ Heights(u, H, U, q, delete, W)
                      /\ q = u.parent[top]

\* A turn of the climb.
LEMMA ClimbIs ==
    ASSUME NEW H, NEW S, Search(tree, H, S), Tidy(tree, H), isDelete \in BOOLEAN, NEW V,
           Heights(tree, H, S, rebalance, isDelete, V), cuAvlTreeNodeRebalance
    PROVE  Climbed(tree, tree', H, S, rebalance, rebalance', isDelete')
<1>1. rebalance # NULL /\ isDelete' = (isDelete /\ rebalance' # NULL)
  BY DEF cuAvlTreeNodeRebalance
<1>2. PICK turn \in Turns(tree, rebalance, isDelete) :
              /\ tree' = cuAvlTreeNodeRecalculateHeight(turn.tree, turn.top)
              /\ rebalance' = turn.tree.parent[turn.top]
  BY DEF cuAvlTreeNodeRebalance, Turns
<1>3. /\ Evens(tree, tree', H, S, rebalance, turn.top, V, isDelete)
      /\ tree'.parent = turn.tree.parent
  BY <1>1, <1>2, TurnIs
<1>4. PICK U, W : /\ Settled(tree, tree', H, S, U, rebalance, turn.top, V, W)
                  /\ Grows(tree', V, W, rebalance, turn.top, isDelete)
  BY <1>3 DEF Evens
<1>5. rebalance' = tree'.parent[turn.top]
  BY <1>2, <1>3
<1>6. Heights(tree', H, U, rebalance', isDelete /\ rebalance' # NULL, W)
  BY <1>1, <1>4, <1>5, Upwards
<1> QED BY <1>1, <1>4, <1>5, <1>6 DEF Climbed

----------------------------------------------------------------------------
\* Between calls V gives all heights.
LEMMA HeightsAtRest ==
    ASSUME NEW t, NEW H, NEW S, Search(t, H, S), NEW delete, NEW V,
           Heights(t, H, S, NULL, delete, V)
    PROVE  /\ V \in [Pointer -> Nat] /\ V[NULL] = 0
           /\ \A m \in H : V[m] = t.height[m] /\ Even(t, V, m)
<1>1. \A m \in H : S[m] \subseteq Nodes /\ m \in Nodes
  BY DEF Search, Sorted, Keyed
<1> QED BY <1>1, NodesAssumption DEF Heights

\* There are heights.
HasHeights(t, H, S, r, delete) == \E V : Heights(t, H, S, r, delete, V)

\* A new leaf bends its parent.
LEMMA HookedHeights ==
    ASSUME NEW t, NEW H, NEW S, Search(t, H, S), Tidy(t, H), NEW delete, NEW V,
           Heights(t, H, S, NULL, delete, V), NEW n \in Nodes, n \notin H,
           NEW p, IF H = {} THEN p = NULL ELSE p \in H,
           NEW side \in Sides, p # NULL => t.link[p][side] = NULL,
           NEW k, NEW u, Hooked(t, u, n, p, side, k), NEW U
    PROVE  Tidy(u, H \cup {n}) /\ HasHeights(u, H \cup {n}, U, p, FALSE)
<1> DEFINE W == [x \in Pointer |-> IF x = n THEN 1 ELSE V[x]]
<1>1. H \subseteq Nodes /\ NULL \notin Nodes
  BY NodesAssumption DEF Search, Keyed
<1>2. V \in [Pointer -> Nat] /\ V[NULL] = 0 /\ \A m \in H : V[m] = t.height[m] /\ Even(t, V, m)
  BY HeightsAtRest
<1>3. W \in [Pointer -> Nat] /\ W[NULL] = 0 /\ W[n] = 1 /\ \A x \in Pointer : x # n => W[x] = V[x]
  BY <1>1, <1>2 DEF Pointer
<1> HIDE DEF W
<1>4. /\ \A d \in Sides : u.link[n][d] = NULL
      /\ \A x \in Nodes, d \in Sides :
            x # n => u.link[x][d] = IF x = p /\ d = side THEN n ELSE t.link[x][d]
      /\ u.height[n] = 1
      /\ \A x \in Nodes : x # n => /\ u.parent[x] = t.parent[x]
                                   /\ u.height[x] = t.height[x]
                                   /\ u.key[x] = t.key[x]
  BY DEF Hooked
<1>5. Tidy(u, H \cup {n})
  <2> SUFFICES ASSUME NEW x \in Nodes \ (H \cup {n})
               PROVE  /\ \A d \in Sides : u.link[x][d] = NULL
                      /\ u.parent[x] = NULL /\ u.key[x] = NULL /\ u.height[x] = 0
    BY DEF Tidy
  <2>1. x # n /\ x # p /\ x \notin H
    BY <1>1
  <2>2. /\ \A d \in Sides : t.link[x][d] = NULL
        /\ t.parent[x] = NULL /\ t.key[x] = NULL /\ t.height[x] = 0
    BY <2>1 DEF Tidy
  <2> QED BY <1>4, <2>1, <2>2
<1>6. \A m \in H, d \in Sides : W[t.link[m][d]] = V[t.link[m][d]] /\ V[t.link[m][d]] \in Nat
  <2> SUFFICES ASSUME NEW m \in H, NEW d \in Sides
               PROVE  W[t.link[m][d]] = V[t.link[m][d]] /\ V[t.link[m][d]] \in Nat
    OBVIOUS
  <2>1. t.link[m][d] = NULL \/ t.link[m][d] \in H
    BY ChildIs
  <2> QED BY <2>1, <1>1, <1>2, <1>3 DEF Pointer
<1>7. \A m \in H : W[m] = V[m] /\ W[m] = u.height[m]
  BY <1>1, <1>2, <1>3, <1>4 DEF Pointer
<1>8. ASSUME NEW m \in H, m # p
      PROVE  Even(u, W, m)
  <2>1. \A d \in Sides : u.link[m][d] = t.link[m][d]
    BY <1>1, <1>4, <1>8
  <2> QED BY <2>1, <1>2, <1>6, <1>7, SidesAre DEF Even
<1>9. Even(u, W, n)
  <2>1. Greater(0, 0) = 0
    BY DEF Greater
  <2> QED BY <2>1, <1>3, <1>4, SidesAre DEF Even
<1>10. ASSUME p # NULL
       PROVE  p \in H /\ Bent(u, W, p, FALSE, side, 0)
  <2>1. p \in H /\ p \in Nodes /\ p # n
    BY <1>1, <1>10
  <2>2. u.link[p][side] = n
    BY <2>1, <1>4
  <2>3. Opposite(side) \in Sides /\ Opposite(side) # side /\ Opposite(Opposite(side)) = side
    BY SidesAre
  <2> DEFINE b == t.link[p][Opposite(side)]
  <2>4. u.link[p][Opposite(side)] = b /\ W[b] = V[b] /\ V[b] \in Nat
    BY <2>1, <2>3, <1>4, <1>6
  <2>5. V[p] = 1 + Greater(0, V[b]) /\ V[b] <= 1 + 0
    <3>1. Even(t, V, p)
      BY <2>1, <1>2
    <3>2. t.link[p][side] = NULL
      BY <1>10
    <3>3. V[p] = 1 + Greater(V[t.link[p][side]], V[b])
      BY <3>1 DEF Even
    <3>4. V[b] <= 1 + V[t.link[p][Opposite(Opposite(side))]]
      BY <3>1, <2>3 DEF Even
    <3> QED BY <3>2, <3>3, <3>4, <2>3, <1>2
  <2>6. W[p] = V[p]
    BY <2>1, <1>7
  <2> HIDE DEF b
  <2> QED BY <2>1, <2>2, <2>4, <2>5, <2>6, <1>3 DEF Bent
<1>11. \A m \in H \cup {n} : W[m] = u.height[m] /\ (m # p => Even(u, W, m))
  BY <1>3, <1>4, <1>7, <1>8, <1>9
<1>12. p # NULL => p \in H \cup {n} /\ \E d \in Sides, h \in Nat : Bent(u, W, p, FALSE, d, h)
  BY <1>10
<1>13. Heights(u, H \cup {n}, U, p, FALSE, W)
  BY <1>3, <1>11, <1>12 DEF Heights
<1> QED BY <1>5, <1>13 DEF HasHeights

----------------------------------------------------------------------------
\* u is t without n, s at its place and c at that of s.
Moved(t, u, H, n, s, c) ==
    /\ \A m \in H, d \in Sides : m # n /\ m # s =>
          u.link[m][d] = IF t.link[m][d] = s THEN c
                         ELSE IF t.link[m][d] = n THEN s ELSE t.link[m][d]
    /\ \A d \in Sides : u.link[s][d] = IF t.link[n][d] = s THEN c ELSE t.link[n][d]
    /\ u.height = t.height

\* What is outside H holds nothing.
Outside(u, H) ==
    \A x \in Nodes \ H : /\ \A d \in Sides : u.link[x][d] = NULL
                        /\ u.parent[x] = NULL /\ u.key[x] = NULL /\ u.height[x] = 0

\* Moving a child up, by the fields of the tree.
LEMMA MovedIs ==
    ASSUME NEW t, NEW H, NEW S, Search(t, H, S), Tidy(t, H), NEW n \in H, NEW s \in H, s # n,
           n \notin S[s],
           NEW side \in Sides, NEW c, c = t.link[s][side],
           NEW t1, Replaced(t, t1, s, c), NEW u, Renamed(t1, u, n, s)
    PROVE  /\ Moved(t, u, H, n, s, c)
           /\ Outside(u, H)
<1>1. H \subseteq Nodes /\ NULL \notin Nodes /\ n \in Nodes /\ s \in Nodes
  BY NodesAssumption DEF Search, Keyed
<1>2. /\ \A x \in Nodes, d \in Sides :
            t1.link[x][d] = IF x = t.parent[s] /\ t.link[x][d] = s THEN c ELSE t.link[x][d]
      /\ \A x \in Nodes : t1.parent[x] = IF x = c THEN t.parent[s] ELSE t.parent[x]
      /\ t1.height = t.height /\ t1.key = t.key
  BY DEF Replaced
<1>3. /\ \A x \in Nodes, d \in Sides :
            u.link[x][d] = IF x = s THEN t1.link[n][d]
                           ELSE IF x = t1.parent[n] /\ t1.link[x][d] = n THEN s ELSE t1.link[x][d]
      /\ \A x \in Nodes :
            u.parent[x] = IF x = s THEN t1.parent[n]
                          ELSE IF \E d \in Sides : t1.link[n][d] = x THEN s ELSE t1.parent[x]
      /\ u.height = t1.height /\ u.key = t1.key
  BY DEF Renamed
<1>4. \A m \in H, d \in Sides : /\ t.link[m][d] = s => m = t.parent[s]
                                /\ t.link[m][d] = n => m = t.parent[n]
  <2>1. s # NULL /\ n # NULL
    BY <1>1
  <2> QED BY <2>1, ChildIs
<1>5. c # NULL => c \in H /\ c \in S[s]
  <2>1. ASSUME c # NULL PROVE c \in H /\ c \in S[c] /\ S[c] \subseteq S[s]
    BY <2>1, ChildIs
  <2> QED BY <2>1
<1>6. c # n
  <2>1. n # NULL
    BY <1>1
  <2> QED BY <1>5, <2>1
<1>7. t1.parent[n] = t.parent[n]
  BY <1>1, <1>2, <1>6
<1>8. \A m \in H, d \in Sides : t1.link[m][d] = IF t.link[m][d] = s THEN c ELSE t.link[m][d]
  BY <1>1, <1>2, <1>4
<1>9. ASSUME NEW m \in H, NEW d \in Sides, m # n, m # s
      PROVE  u.link[m][d] = IF t.link[m][d] = s THEN c
                            ELSE IF t.link[m][d] = n THEN s ELSE t.link[m][d]
  <2>1. u.link[m][d] = IF m = t.parent[n] /\ t1.link[m][d] = n THEN s ELSE t1.link[m][d]
    BY <1>1, <1>3, <1>7, <1>9
  <2>2. t1.link[m][d] = IF t.link[m][d] = s THEN c ELSE t.link[m][d]
    BY <1>8
  <2> QED BY <2>1, <2>2, <1>4, <1>6
<1>10. \A d \in Sides : u.link[s][d] = IF t.link[n][d] = s THEN c ELSE t.link[n][d]
  BY <1>1, <1>3, <1>8
<1>11. Moved(t, u, H, n, s, c)
  BY <1>2, <1>3, <1>9, <1>10 DEF Moved
<1>12. ASSUME NEW x \in Nodes \ H
       PROVE  /\ \A d \in Sides : u.link[x][d] = NULL
              /\ u.parent[x] = NULL /\ u.key[x] = NULL /\ u.height[x] = 0
  <2>1. /\ \A d \in Sides : t.link[x][d] = NULL
        /\ t.parent[x] = NULL /\ t.key[x] = NULL /\ t.height[x] = 0
    BY DEF Tidy
  <2>2. x # n /\ x # s /\ x # c /\ x # NULL
    BY <1>1, <1>5
  <2>3. \A d \in Sides : t1.link[x][d] = NULL
    BY <2>1, <1>1, <1>2
  <2>4. \A d \in Sides : u.link[x][d] = NULL
    BY <2>2, <2>3, <1>1, <1>3
  <2>5. \A d \in Sides : t1.link[n][d] # x
    <3>1. \A d \in Sides : t.link[n][d] # x
      BY <2>2, ChildIs
    <3> QED BY <3>1, <2>2, <1>8
  <2>6. u.parent[x] = NULL
    BY <2>1, <2>2, <2>5, <1>2, <1>3
  <2>7. u.key[x] = NULL /\ u.height[x] = 0
    BY <2>1, <1>2, <1>3
  <2> QED BY <2>4, <2>6, <2>7
<1> QED BY <1>11, <1>12 DEF Outside

\* The removal of a node with two children bends the parent of its successor,
\* or the successor itself.
LEMMA MovedHeights ==
    ASSUME NEW t, NEW H, NEW S, Search(t, H, S), NEW delete, NEW V,
           Heights(t, H, S, NULL, delete, V), NEW n \in H, NEW s \in H, s # n, s \in S[n],
           NEW side \in Sides, t.link[s][Opposite(side)] = NULL, NEW c, c = t.link[s][side],
           NEW u, Moved(t, u, H, n, s, c),
           NEW r, r = ClimbFrom(t, n, s)
    PROVE  /\ HasHeights(u, H \ {n}, Swapped(Without(S, s), n, s), r, TRUE)
           /\ r # NULL
<1> DEFINE W == [x \in Pointer |-> IF x = s THEN V[n] ELSE V[x]]
           q == t.parent[s]
           U == Swapped(Without(S, s), n, s)
<1>1. H \subseteq Nodes /\ NULL \notin Nodes /\ n \in Nodes /\ s \in Nodes
  BY NodesAssumption DEF Search, Keyed
<1>2. V \in [Pointer -> Nat] /\ V[NULL] = 0 /\ \A m \in H : V[m] = t.height[m] /\ Even(t, V, m)
  BY HeightsAtRest
<1>3. W \in [Pointer -> Nat] /\ W[NULL] = 0 /\ W[s] = V[n] /\ \A x \in Pointer : x # s => W[x] = V[x]
  BY <1>1, <1>2 DEF Pointer
<1> HIDE DEF W
<1>4. q # NULL /\ q \in S[n] /\ q \in H /\ q # s
  <2>1. q # NULL /\ q \in S[n]
    BY SpanUp
  <2> QED BY <2>1, ParentIs
<1>5. \E d \in Sides : t.link[q][d] = s /\ t.link[q][Opposite(d)] # s
  BY <1>4, ParentIs
<1>6. \A m \in H, d \in Sides : /\ t.link[m][d] \in Pointer
                                /\ t.link[m][d] = s => m = q
  <2> TAKE m \in H, d \in Sides
  <2>1. t.link[m][d] = NULL \/ (t.link[m][d] \in H /\ t.parent[t.link[m][d]] = m)
    BY ChildIs
  <2> QED BY <2>1, <1>1 DEF Pointer
<1>7. /\ \A m \in H, d \in Sides : m # n /\ m # s =>
            u.link[m][d] = IF t.link[m][d] = s THEN c
                           ELSE IF t.link[m][d] = n THEN s ELSE t.link[m][d]
      /\ \A d \in Sides : u.link[s][d] = IF t.link[n][d] = s THEN c ELSE t.link[n][d]
      /\ u.height = t.height
  BY DEF Moved
<1>8. c \in Pointer /\ c # s /\ V[c] \in Nat /\ W[c] = V[c]
  <2>1. c = NULL \/ (c \in H /\ c # s)
    BY ChildIs
  <2> QED BY <2>1, <1>1, <1>2, <1>3 DEF Pointer
<1>9. V[s] = 1 + V[c] /\ V[s] \in Nat
  <2>1. Even(t, V, s)
    BY <1>2
  <2>2. V[s] = 1 + Greater(V[c], V[NULL])
    BY <2>1 DEF Even
  <2> QED BY <2>2, <1>2, <1>8 DEF Greater
<1>10. \A m \in H, d \in Sides : m # n /\ m # s /\ t.link[m][d] # s =>
          W[u.link[m][d]] = V[t.link[m][d]]
  BY <1>3, <1>6, <1>7
<1>11. \A d \in Sides : t.link[n][d] # s => u.link[s][d] = t.link[n][d] /\ W[u.link[s][d]] = V[t.link[n][d]]
  BY <1>3, <1>6, <1>7
<1>12. \A m \in H : m # s => W[m] = V[m] /\ W[m] = u.height[m]
  BY <1>1, <1>2, <1>3, <1>7 DEF Pointer
<1>13. ASSUME NEW m \in H, m # n, m # s, m # q
       PROVE  Even(u, W, m)
  <2>1. \A d \in Sides : W[u.link[m][d]] = V[t.link[m][d]]
    BY <1>6, <1>10, <1>13
  <2>2. Even(t, V, m) /\ W[m] = V[m]
    BY <1>2, <1>12, <1>13
  <2> QED BY <2>1, <2>2, SidesAre DEF Even
<1>19. r = IF q # n THEN q ELSE s
  BY DEF ClimbFrom
<1>14. r \in H \ {n}
  BY <1>4, <1>19
<1>15. r \in U[s]
  <2>1. U[s] = ((S[n] \ {s}) \ {n}) \cup {s}
    <3>1. n \in S[n]
      BY DEF Search, Sorted
    <3>2. Without(S, s)[n] = S[n] \ {s}
      BY <1>1 DEF Without
    <3> QED BY <1>1, <3>1, <3>2 DEF Swapped, Swap
  <2> QED BY <2>1, <1>4, <1>19
<1>16. CASE q # n
  <2>1. r = q
    BY <1>16, <1>19
  <2>2. \A d \in Sides : t.link[n][d] # s
    BY <1>6, <1>16
  <2>3. Even(u, W, s)
    <3>1. \A d \in Sides : W[u.link[s][d]] = V[t.link[n][d]]
      BY <2>2, <1>11
    <3>2. Even(t, V, n) /\ W[s] = V[n]
      BY <1>2, <1>3
    <3> QED BY <3>1, <3>2, SidesAre DEF Even
  <2>4. PICK e \in Sides : t.link[q][e] = s /\ t.link[q][Opposite(e)] # s
    BY <1>5
  <2>5. Opposite(e) \in Sides /\ Opposite(Opposite(e)) = e
    BY SidesAre
  <2>6. Bent(u, W, q, TRUE, e, V[s])
    <3>1. u.link[q][e] = c
      BY <1>4, <1>7, <1>16, <2>4
    <3>2. W[u.link[q][Opposite(e)]] = V[t.link[q][Opposite(e)]]
      BY <1>4, <1>10, <1>16, <2>4, <2>5
    <3>3. W[q] = V[q]
      BY <1>4, <1>12
    <3>4. /\ V[q] = 1 + Greater(V[s], V[t.link[q][Opposite(e)]])
          /\ V[s] <= 1 + V[t.link[q][Opposite(e)]]
          /\ V[t.link[q][Opposite(e)]] <= 1 + V[s]
      <4>1. Even(t, V, q)
        BY <1>2, <1>4
      <4>2. /\ V[q] = 1 + Greater(V[t.link[q][e]], V[t.link[q][Opposite(e)]])
            /\ V[t.link[q][e]] <= 1 + V[t.link[q][Opposite(e)]]
        BY <4>1 DEF Even
      <4>3. V[t.link[q][Opposite(e)]] <= 1 + V[t.link[q][Opposite(Opposite(e))]]
        BY <4>1, <2>5 DEF Even
      <4> QED BY <4>2, <4>3, <2>4, <2>5
    <3>5. W[c] = V[s] - 1
      BY <1>8, <1>9
    <3> QED BY <3>1, <3>2, <3>3, <3>4, <3>5 DEF Bent
  <2>7. \A m \in H \ {n} : m # r => Even(u, W, m)
    BY <2>1, <2>3, <1>13
  <2>8. \A m \in H \ {n} : r \notin U[m] => W[m] = u.height[m]
    BY <1>12, <1>15
  <2>9. \E d \in Sides, h \in Nat : Bent(u, W, r, TRUE, d, h)
    BY <2>1, <2>6, <1>9
  <2> HIDE DEF U
  <2>10. Heights(u, H \ {n}, U, r, TRUE, W)
    BY <1>3, <1>14, <2>7, <2>8, <2>9 DEF Heights
  <2> QED BY <2>10, <1>1, <1>14 DEF HasHeights, U
<1>17. CASE q = n
  <2>1. r = s
    BY <1>17, <1>19
  <2>4. PICK e \in Sides : t.link[n][e] = s /\ t.link[n][Opposite(e)] # s
    BY <1>5, <1>17
  <2>5. Opposite(e) \in Sides /\ Opposite(Opposite(e)) = e
    BY SidesAre
  <2>6. Bent(u, W, s, TRUE, e, V[s])
    <3>1. u.link[s][e] = c
      BY <1>7, <2>4
    <3>2. W[u.link[s][Opposite(e)]] = V[t.link[n][Opposite(e)]]
      BY <1>11, <2>4, <2>5
    <3>4. /\ V[n] = 1 + Greater(V[s], V[t.link[n][Opposite(e)]])
          /\ V[s] <= 1 + V[t.link[n][Opposite(e)]]
          /\ V[t.link[n][Opposite(e)]] <= 1 + V[s]
      <4>1. Even(t, V, n)
        BY <1>2
      <4>2. /\ V[n] = 1 + Greater(V[t.link[n][e]], V[t.link[n][Opposite(e)]])
            /\ V[t.link[n][e]] <= 1 + V[t.link[n][Opposite(e)]]
        BY <4>1 DEF Even
      <4>3. V[t.link[n][Opposite(e)]] <= 1 + V[t.link[n][Opposite(Opposite(e))]]
        BY <4>1, <2>5 DEF Even
      <4> QED BY <4>2, <4>3, <2>4, <2>5
    <3>5. W[c] = V[s] - 1
      BY <1>8, <1>9
    <3> QED BY <3>1, <3>2, <3>4, <3>5, <1>3 DEF Bent
  <2>7. \A m \in H \ {n} : m # r => Even(u, W, m)
    BY <2>1, <1>13, <1>17
  <2>8. \A m \in H \ {n} : r \notin U[m] => W[m] = u.height[m]
    BY <1>12, <1>15
  <2>9. \E d \in Sides, h \in Nat : Bent(u, W, r, TRUE, d, h)
    BY <2>1, <2>6, <1>9
  <2> HIDE DEF U
  <2>10. Heights(u, H \ {n}, U, r, TRUE, W)
    BY <1>3, <1>14, <2>7, <2>8, <2>9 DEF Heights
  <2> QED BY <2>10, <1>1, <1>14 DEF HasHeights, U
<1> QED BY <1>16, <1>17

----------------------------------------------------------------------------
\* u is t without n, c at its place.
Raised(t, u, H, n, c) ==
    /\ \A m \in H, d \in Sides : m # n =>
          u.link[m][d] = IF t.link[m][d] = n THEN c ELSE t.link[m][d]
    /\ u.height = t.height

\* Putting the successor in the place of n, by the fields of the tree.
LEMMA RaisedIs ==
    ASSUME NEW t, NEW H, NEW S, Search(t, H, S), Tidy(t, H), NEW n \in H,
           NEW side \in Sides, NEW c, c = t.link[n][side],
           NEW u, Replaced(t, u, n, c)
    PROVE  /\ Raised(t, u, H, n, c)
           /\ Outside(u, H)
<1>1. H \subseteq Nodes /\ NULL \notin Nodes /\ n \in Nodes
  BY NodesAssumption DEF Search, Keyed
<1>2. /\ \A x \in Nodes, d \in Sides :
            u.link[x][d] = IF x = t.parent[n] /\ t.link[x][d] = n THEN c ELSE t.link[x][d]
      /\ \A x \in Nodes : u.parent[x] = IF x = c THEN t.parent[n] ELSE t.parent[x]
      /\ u.height = t.height /\ u.key = t.key
  BY DEF Replaced
<1>3. \A m \in H, d \in Sides : t.link[m][d] = n => m = t.parent[n]
  <2>1. n # NULL
    BY <1>1
  <2> QED BY <2>1, ChildIs
<1>4. Raised(t, u, H, n, c)
  BY <1>1, <1>2, <1>3 DEF Raised
<1>5. ASSUME NEW x \in Nodes \ H
      PROVE  /\ \A d \in Sides : u.link[x][d] = NULL
             /\ u.parent[x] = NULL /\ u.key[x] = NULL /\ u.height[x] = 0
  <2>1. /\ \A d \in Sides : t.link[x][d] = NULL
        /\ t.parent[x] = NULL /\ t.key[x] = NULL /\ t.height[x] = 0
    BY DEF Tidy
  <2>2. x # c
    <3>1. c # NULL => c \in H
      BY ChildIs
    <3> QED BY <3>1, <1>1
  <2> QED BY <2>1, <2>2, <1>1, <1>2
<1> QED BY <1>4, <1>5 DEF Outside

\* The removal of a node with one child bends the child, that of a leaf its
\* parent.
LEMMA RaisedHeights ==
    ASSUME NEW t, NEW H, NEW S, Search(t, H, S), NEW delete, NEW V,
           Heights(t, H, S, NULL, delete, V), NEW n \in H,
           NEW side \in Sides, t.link[n][Opposite(side)] = NULL, NEW c, c = t.link[n][side],
           NEW u, Raised(t, u, H, n, c),
           NEW r, r = IF c # NULL THEN c ELSE t.parent[n]
    PROVE  HasHeights(u, H \ {n}, Without(S, n), r, TRUE)
<1> DEFINE W == [x \in Pointer |-> IF x = c /\ c # NULL THEN V[n] ELSE V[x]]
           U == Without(S, n)
<1>1. H \subseteq Nodes /\ NULL \notin Nodes /\ n \in Nodes /\ n # NULL
  BY NodesAssumption DEF Search, Keyed
<1>2. V \in [Pointer -> Nat] /\ V[NULL] = 0 /\ \A m \in H : V[m] = t.height[m] /\ Even(t, V, m)
  BY HeightsAtRest
<1>3. /\ W \in [Pointer -> Nat] /\ W[NULL] = 0 /\ (c # NULL => W[c] = V[n])
      /\ \A x \in Pointer : x # c => W[x] = V[x]
  <2>1. c # NULL => c \in H
    BY ChildIs
  <2> QED BY <2>1, <1>1, <1>2 DEF Pointer
<1> HIDE DEF W
<1>4. \A m \in H, d \in Sides :
         /\ t.link[m][d] \in Pointer
         /\ t.link[m][d] # NULL => t.link[m][d] \in H /\ t.parent[t.link[m][d]] = m
  <2> TAKE m \in H, d \in Sides
  <2>1. t.link[m][d] = NULL \/ (t.link[m][d] \in H /\ t.parent[t.link[m][d]] = m)
    BY ChildIs
  <2> QED BY <2>1, <1>1 DEF Pointer
<1>5. /\ \A m \in H, d \in Sides : m # n =>
            u.link[m][d] = IF t.link[m][d] = n THEN c ELSE t.link[m][d]
      /\ u.height = t.height
  BY DEF Raised
<1>6. V[n] = 1 + V[c] /\ V[c] \in Nat /\ V[c] <= 1 /\ V[n] \in Nat
  <2>1. Even(t, V, n)
    BY <1>2
  <2>2. V[n] = 1 + Greater(V[c], V[NULL]) /\ V[c] <= 1 + V[NULL]
    BY <2>1 DEF Even
  <2>3. V[c] \in Nat
    BY <1>2, <1>4
  <2> QED BY <2>2, <2>3, <1>2 DEF Greater
<1>7. \A m \in H \ {n} : m # c => W[m] = V[m] /\ W[m] = u.height[m]
  BY <1>1, <1>2, <1>3, <1>5 DEF Pointer
<1>8. CASE c # NULL
  <2>1. c \in H /\ c # n /\ r = c /\ c \in S[c] /\ n \notin S[c] /\ t.parent[c] = n
    BY <1>8, ChildIs
  <2>11. n \in S[n]
    BY DEF Search, Sorted
  <2>2. ASSUME NEW m \in H \ {n}, NEW d \in Sides
        PROVE  W[u.link[m][d]] = V[t.link[m][d]] /\ (m = c => u.link[m][d] = t.link[m][d])
    <3>1. t.link[m][d] # c
      BY <1>4, <1>8, <2>1
    <3>2. u.link[m][d] = IF t.link[m][d] = n THEN c ELSE t.link[m][d]
      BY <1>5
    <3>3. m = c => t.link[m][d] # n
      <4> SUFFICES ASSUME m = c, t.link[m][d] = n PROVE FALSE
        OBVIOUS
      <4>1. t.parent[n] = c
        BY <1>1, <1>4
      <4>2. c \notin S[n]
        BY <4>1, <1>8, ParentIs
      <4>3. c \in S[n]
        BY <2>1, <1>8, ChildIs
      <4> QED BY <4>2, <4>3
    <3>4. t.link[m][d] = n => W[u.link[m][d]] = V[t.link[m][d]]
      BY <3>2, <1>3, <1>8
    <3>5. t.link[m][d] # n => W[u.link[m][d]] = V[t.link[m][d]]
      BY <3>1, <3>2, <1>3, <1>4
    <3> QED BY <3>2, <3>3, <3>4, <3>5
  <2>3. ASSUME NEW m \in H \ {n}, m # r
        PROVE  Even(u, W, m)
    <3>1. Even(t, V, m) /\ W[m] = V[m]
      BY <1>2, <1>7, <2>1, <2>3
    <3> QED BY <3>1, <2>2, SidesAre DEF Even
  <2>4. Bent(u, W, c, TRUE, "left", 1)
    <3>1. Opposite("left") = "right" /\ "left" \in Sides /\ "right" \in Sides
      BY DEF Sides, Opposite
    <3>2. W[u.link[c]["left"]] = V[t.link[c]["left"]] /\ W[u.link[c]["right"]] = V[t.link[c]["right"]]
      BY <2>1, <2>2, <3>1
    <3>3. V[t.link[c]["left"]] \in Nat /\ V[t.link[c]["right"]] \in Nat
      BY <2>1, <3>1, <1>2, <1>4
    <3>4. V[c] = 1 + Greater(V[t.link[c]["left"]], V[t.link[c]["right"]])
      <4>1. Even(t, V, c)
        BY <1>2, <2>1
      <4> QED BY <4>1, <3>1 DEF Even
    <3>5. V[t.link[c]["left"]] = 0 /\ V[t.link[c]["right"]] = 0 /\ V[c] = 1
      <4> DEFINE a == V[t.link[c]["left"]]  b == V[t.link[c]["right"]]  v == V[c]
      <4>1. a \in Nat /\ b \in Nat /\ v = 1 + Greater(a, b) /\ v <= 1
        BY <3>3, <3>4, <1>6
      <4> HIDE DEF a, b, v
      <4>2. Greater(a, b) \in Nat /\ Greater(a, b) >= a /\ Greater(a, b) >= b
        BY <4>1, GreaterIs
      <4>3. a = 0 /\ b = 0 /\ Greater(a, b) = 0
        BY <4>1, <4>2 DEF Greater
      <4> QED BY <4>1, <4>3 DEF a, b, v
    <3>6. W[c] = 2 /\ Greater(1, 0) = 1
      <4>1. W[c] = V[n]
        BY <1>3, <1>8
      <4>2. V[n] = 2
        BY <3>5, <1>6
      <4>3. Greater(1, 0) = 1
        BY DEF Greater
      <4> QED BY <4>1, <4>2, <4>3
    <3> QED BY <3>1, <3>2, <3>5, <3>6 DEF Bent
  <2>5. ASSUME NEW m \in H \ {n}, r \notin U[m]
        PROVE  W[m] = u.height[m]
    <3>1. c \in U[c]
      BY <2>1, <1>1 DEF Without
    <3>2. m # c
      BY <3>1, <2>1, <2>5
    <3> QED BY <3>2, <1>7
  <2>6. r \in H \ {n}
    BY <2>1
  <2>7. \E d \in Sides, h \in Nat : Bent(u, W, r, TRUE, d, h)
    <3>1. "left" \in Sides /\ 1 \in Nat
      BY DEF Sides
    <3> QED BY <3>1, <2>1, <2>4
  <2> HIDE DEF U
  <2>8. Heights(u, H \ {n}, U, r, TRUE, W)
    BY <1>3, <2>3, <2>5, <2>6, <2>7 DEF Heights
  <2> QED BY <2>8 DEF HasHeights, U
<1>9. CASE c = NULL
  <2>1. r = t.parent[n] /\ V[n] = 1
    BY <1>2, <1>6, <1>9
  <2>2. W[NULL] = V[NULL] /\ \A x \in Pointer : W[x] = V[x]
    BY <1>2, <1>3, <1>9
  <2>3. ASSUME NEW m \in H \ {n}, NEW d \in Sides, t.link[m][d] # n
        PROVE  u.link[m][d] = t.link[m][d] /\ W[u.link[m][d]] = V[t.link[m][d]]
    BY <2>2, <2>3, <1>4, <1>5
  <2>4. ASSUME NEW m \in H \ {n}, m # r
        PROVE  Even(u, W, m)
    <3>1. \A d \in Sides : t.link[m][d] # n
      BY <1>1, <1>4, <2>1, <2>4
    <3>2. Even(t, V, m) /\ W[m] = V[m]
      BY <1>1, <1>2, <2>2 DEF Pointer
    <3> QED BY <3>1, <3>2, <2>3, SidesAre DEF Even
  <2>5. ASSUME NEW m \in H \ {n}
        PROVE  W[m] = u.height[m]
    BY <1>1, <1>2, <1>5, <2>2 DEF Pointer
  <2>6. ASSUME r # NULL
        PROVE  r \in H \ {n} /\ \E d \in Sides, h \in Nat : Bent(u, W, r, TRUE, d, h)
    <3>1. r \in H /\ r # n
      BY <2>1, <2>6, ParentIs
    <3>2. PICK e \in Sides : t.link[r][e] = n /\ t.link[r][Opposite(e)] # n
      BY <2>1, <2>6, ParentIs
    <3>3. Opposite(e) \in Sides /\ Opposite(Opposite(e)) = e
      BY SidesAre
    <3>4. u.link[r][e] = NULL
      BY <3>1, <3>2, <1>5, <1>9
    <3>5. W[u.link[r][Opposite(e)]] = V[t.link[r][Opposite(e)]]
      BY <2>3, <3>1, <3>2, <3>3
    <3>6. W[r] = V[r]
      BY <3>1, <1>1, <2>2 DEF Pointer
    <3>7. /\ V[r] = 1 + Greater(V[n], V[t.link[r][Opposite(e)]])
          /\ V[n] <= 1 + V[t.link[r][Opposite(e)]]
          /\ V[t.link[r][Opposite(e)]] <= 1 + V[n]
      <4>1. Even(t, V, r)
        BY <1>2, <3>1
      <4>2. /\ V[r] = 1 + Greater(V[t.link[r][e]], V[t.link[r][Opposite(e)]])
            /\ V[t.link[r][e]] <= 1 + V[t.link[r][Opposite(e)]]
        BY <4>1 DEF Even
      <4>3. V[t.link[r][Opposite(e)]] <= 1 + V[t.link[r][Opposite(Opposite(e))]]
        BY <4>1, <3>3 DEF Even
      <4> QED BY <4>2, <4>3, <3>2, <3>3
    <3>8. W[NULL] = V[n] - 1
      BY <2>1, <1>3
    <3>9. Bent(u, W, r, TRUE, e, V[n])
      BY <3>4, <3>5, <3>6, <3>7, <3>8 DEF Bent
    <3> QED BY <3>1, <3>9, <1>6
  <2> HIDE DEF U
  <2>7. Heights(u, H \ {n}, U, r, TRUE, W)
    BY <1>3, <2>4, <2>5, <2>6 DEF Heights
  <2> QED BY <2>7 DEF HasHeights, U
<1> QED BY <1>8, <1>9

----------------------------------------------------------------------------
\* v is t with n off, to climb from r.
Unhooked(t, v, H, n, r) ==
    /\ v \in AvlTrees /\ v.key = t.key /\ v.height = t.height
    /\ Outside(v, H)
    /\ \E U : Search(v, H \ {n}, U) /\ HasHeights(v, H \ {n}, U, r, TRUE)

\* Hooking off a node with two children leaves heights for the climb.
LEMMA UnhookTwo ==
    ASSUME NEW t, NEW H, NEW S, Search(t, H, S), Tidy(t, H), NEW delete, NEW V,
           Heights(t, H, S, NULL, delete, V), NEW n \in H,
           NEW s \in H, s # n, s \in S[n], n \notin S[s],
           NEW c, c = t.link[s]["right"], t.link[s]["left"] = NULL,
           NEW t1, Replaced(t, t1, s, c), NEW v \in AvlTrees, Renamed(t1, v, n, s),
           Search(v, H \ {n}, Swapped(Without(S, s), n, s)),
           NEW r, r = ClimbFrom(t, n, s)
    PROVE  Unhooked(t, v, H, n, r)
<1>1. "right" \in Sides /\ Opposite("right") = "left"
  BY DEF Sides, Opposite
<1>2. Moved(t, v, H, n, s, c) /\ Outside(v, H)
  BY <1>1, MovedIs
<1>5. t.link[s][Opposite("right")] = NULL
  BY <1>1
<1>3. HasHeights(v, H \ {n}, Swapped(Without(S, s), n, s), r, TRUE)
  BY <1>1, <1>2, <1>5, MovedHeights
<1>4. v.key = t.key /\ v.height = t.height
  BY DEF Replaced, Renamed
<1> QED BY <1>2, <1>3, <1>4 DEF Unhooked

\* Hooking off a node with one child, or none, does too.
LEMMA UnhookOne ==
    ASSUME NEW t, NEW H, NEW S, Search(t, H, S), Tidy(t, H), NEW delete, NEW V,
           Heights(t, H, S, NULL, delete, V), NEW n \in H,
           NEW side \in Sides, t.link[n][Opposite(side)] = NULL, NEW c, c = t.link[n][side],
           NEW v \in AvlTrees, Replaced(t, v, n, c), Search(v, H \ {n}, Without(S, n)),
           NEW r, r = IF c # NULL THEN c ELSE t.parent[n]
    PROVE  Unhooked(t, v, H, n, r)
<1>2. Raised(t, v, H, n, c) /\ Outside(v, H)
  BY RaisedIs
<1>3. HasHeights(v, H \ {n}, Without(S, n), r, TRUE)
  BY <1>2, RaisedHeights
<1>4. v.key = t.key /\ v.height = t.height
  BY DEF Replaced
<1> QED BY <1>2, <1>3, <1>4 DEF Unhooked

\* Hooking off a node, in either case.
LEMMA HookOffIs ==
    ASSUME NEW t, NEW H, NEW S, Search(t, H, S), Tidy(t, H), NEW delete, NEW V,
           Heights(t, H, S, NULL, delete, V), NEW n \in H
    PROVE  Unhooked(t, HookOff(t, n).tree, H, n, HookOff(t, n).rebalance)
<1> DEFINE l == t.link[n]["left"]
           y == t.link[n]["right"]
           v == HookOff(t, n).tree
           r == HookOff(t, n).rebalance
<1>1. /\ "left" \in Sides /\ "right" \in Sides
      /\ Opposite("left") = "right" /\ Opposite("right") = "left"
  BY DEF Sides, Opposite
<1>2. CASE l # NULL /\ y # NULL
  <2> SUFFICES ASSUME NEW s, s = Outermost(t, y, "left"), NEW c, c = t.link[s]["right"],
                      NEW t1, t1 = Replace(t, s, c), NEW v0, v0 = v, NEW r0, r0 = r
               PROVE  Unhooked(t, v0, H, n, r0)
    OBVIOUS
  <2>1. s \in H /\ s # n /\ s \in S[y] /\ y \in H /\ t.link[s]["left"] = NULL
    BY <1>2, SuccessorIs
  <2>5. OffTwo(t, t1, v0, H, S, n, s, c, HookOff(t, n).rebalance)
    BY <1>2, HookOffTwo
  <2>2. /\ t1 \in AvlTrees /\ Replaced(t, t1, s, c)
        /\ v0 \in AvlTrees /\ Renamed(t1, v0, n, s)
        /\ Search(v0, H \ {n}, Swapped(Without(S, s), n, s))
    BY <2>5 DEF OffTwo
  <2>4. r0 = ClimbFrom(t, n, s)
    BY <2>5 DEF OffTwo
  <2>3. s \in S[n] /\ n \notin S[s]
    <3>1. S[y] \subseteq S[n] /\ n \notin S[y]
      BY <1>1, <1>2, ChildIs
    <3>2. S[s] \subseteq S[y]
      BY <2>1, SpanDown
    <3> QED BY <3>1, <3>2, <2>1
  <2> HIDE DEF v, r
  <2> QED BY <2>1, <2>2, <2>3, <2>4, UnhookTwo
<1>3. ASSUME NEW side \in Sides, t.link[n][Opposite(side)] = NULL
      PROVE  Unhooked(t, v, H, n, r)
  <2> DEFINE c == t.link[n][side]
             U == Without(S, n)
  <2>1. /\ v \in AvlTrees /\ Replaced(t, v, n, c)
        /\ Search(v, H \ {n}, U)
        /\ r = IF c # NULL THEN c ELSE t.parent[n]
    BY <1>3, HookOffOne
  <2> HIDE DEF v, r
  <2> QED BY <2>1, <1>3, UnhookOne
<1> HIDE DEF v, r
<1>4. l = NULL => Unhooked(t, v, H, n, r)
  BY <1>1, <1>3
<1>5. y = NULL => Unhooked(t, v, H, n, r)
  BY <1>1, <1>3
<1> QED BY <1>2, <1>4, <1>5 DEF v, r

\* What is written in a node outside the tree is of no account to its heights.
LEMMA HeightsKept ==
    ASSUME NEW t, NEW H, NEW S, Search(t, H, S), NEW r, NEW V, Heights(t, H, S, r, TRUE, V),
           NEW n \in Nodes, n \notin H, NEW u, NEW p, NEW h, NEW k, Written(t, u, n, p, h, k)
    PROVE  Heights(u, H, S, r, TRUE, V)
<1>1. H \subseteq Nodes
  BY DEF Search, Keyed
<1>2. \A x \in H : u.link[x] = t.link[x] /\ u.height[x] = t.height[x]
  BY <1>1 DEF Written
<1>3. /\ V \in [Pointer -> Nat] /\ V[NULL] = 0
      /\ \A m \in H : r \notin S[m] => V[m] = t.height[m]
      /\ \A m \in H : m # r => Even(t, V, m)
      /\ r # NULL => r \in H /\ \E side \in Sides, h1 \in Nat : Bent(t, V, r, TRUE, side, h1)
  BY DEF Heights
<1>4. \A m \in H : m # r => Even(u, V, m)
  BY <1>2, <1>3 DEF Even
<1>5. r # NULL => r \in H /\ \E side \in Sides, h1 \in Nat : Bent(u, V, r, TRUE, side, h1)
  <2> SUFFICES ASSUME r # NULL
               PROVE  r \in H /\ \E side \in Sides, h1 \in Nat : Bent(u, V, r, TRUE, side, h1)
    OBVIOUS
  <2>1. PICK side \in Sides, h1 \in Nat : Bent(t, V, r, TRUE, side, h1)
    BY <1>3
  <2>2. u.link[r] = t.link[r] /\ r \in H
    BY <1>2, <1>3
  <2>3. Bent(u, V, r, TRUE, side, h1)
    BY <2>1, <2>2 DEF Bent
  <2> QED BY <2>2, <2>3
<1> QED BY <1>2, <1>3, <1>4, <1>5 DEF Heights

\* u is t without n.
Removed(t, u, H, n, r, delete) ==
    /\ u \in AvlTrees
    /\ u.key[n] = NULL /\ u.height[n] = 0
    /\ \A x \in Nodes : x # n => u.key[x] = t.key[x] /\ u.height[x] = t.height[x]
    /\ Tidy(u, H \ {n})
    /\ \E U : Search(u, H \ {n}, U) /\ HasHeights(u, H \ {n}, U, r, delete)

\* For the climb the node it starts from tells whether it is a delete.
LEMMA NoDelete ==
    ASSUME NEW t, NEW H, NEW S, NEW r, NEW V, Heights(t, H, S, r, TRUE, V)
    PROVE  Heights(t, H, S, r, (r # NULL), V)
<1>1. CASE r # NULL
  <2>1. (r # NULL) = TRUE
    BY <1>1
  <2> QED BY <2>1, Zenon
<1>2. CASE r = NULL
  BY <1>2 DEF Heights
<1> QED BY <1>1, <1>2

\* Removing a node, its clearing included.
LEMMA RemoveIs ==
    ASSUME NEW H, NEW S, Search(tree, H, S), Tidy(tree, H), NEW delete, NEW V,
           Heights(tree, H, S, NULL, delete, V), NEW n \in H, cuAvlTreeNodeRemove(n)
    PROVE  Removed(tree, tree', H, n, rebalance', isDelete') /\ isDelete' = (rebalance' # NULL)
<1> DEFINE v == HookOff(tree, n).tree
           r == HookOff(tree, n).rebalance
           u == [v EXCEPT !.link[n] = Leaf, !.parent[n] = NULL, !.key[n] = NULL, !.height[n] = 0]
<1>1. H \subseteq Nodes /\ n \in Nodes
  BY DEF Search, Keyed
<1>2. Unhooked(tree, v, H, n, r)
  BY HookOffIs
<1>3. tree' = u /\ rebalance' = r /\ isDelete' = (r # NULL)
  BY DEF cuAvlTreeNodeRemove
<1> HIDE DEF v, r
<1>4. v \in AvlTrees /\ v.key = tree.key /\ v.height = tree.height
      /\ \A x \in Nodes \ H : /\ \A d \in Sides : v.link[x][d] = NULL
                            /\ v.parent[x] = NULL /\ v.key[x] = NULL /\ v.height[x] = 0
  BY <1>2 DEF Unhooked, Outside
<1>5. PICK U : Search(v, H \ {n}, U) /\ HasHeights(v, H \ {n}, U, r, TRUE)
  BY <1>2 DEF Unhooked
<1>6. PICK W : Heights(v, H \ {n}, U, r, TRUE, W)
  BY <1>5 DEF HasHeights
<1>7. u \in AvlTrees /\ Written(v, u, n, NULL, 0, NULL)
  BY <1>1, <1>4, WipeIs, Zenon
<1> HIDE DEF u
<1>8. n \notin H \ {n}
  OBVIOUS
<1>9. Search(u, H \ {n}, U)
  BY <1>5, <1>7, <1>8, SearchKept
<1>10. Heights(u, H \ {n}, U, r, TRUE, W)
  BY <1>1, <1>5, <1>6, <1>7, <1>8, HeightsKept
<1>11. HasHeights(u, H \ {n}, U, r, (r # NULL))
  <2>1. Heights(u, H \ {n}, U, r, (r # NULL), W)
    BY <1>10, NoDelete
  <2> QED BY <2>1 DEF HasHeights
<1>12. /\ \A d \in Sides : u.link[n][d] = NULL
       /\ u.parent[n] = NULL /\ u.height[n] = 0 /\ u.key[n] = NULL
       /\ \A x \in Nodes : x # n => /\ u.link[x] = v.link[x] /\ u.parent[x] = v.parent[x]
                                    /\ u.height[x] = v.height[x] /\ u.key[x] = v.key[x]
  BY <1>7 DEF Written
<1>13. Tidy(u, H \ {n})
  <2> SUFFICES ASSUME NEW x \in Nodes, x \notin H \ {n}
               PROVE  /\ \A d \in Sides : u.link[x][d] = NULL
                      /\ u.parent[x] = NULL /\ u.key[x] = NULL /\ u.height[x] = 0
    BY DEF Tidy
  <2>1. CASE x = n
    BY <2>1, <1>12
  <2>2. CASE x # n
    BY <2>2, <1>4, <1>12
  <2> QED BY <2>1, <2>2
<1>14. \A x \in Nodes : x # n => u.key[x] = tree.key[x] /\ u.height[x] = tree.height[x]
  BY <1>4, <1>12
<1>15. Removed(tree, u, H, n, r, (r # NULL))
  BY <1>7, <1>9, <1>11, <1>12, <1>13, <1>14 DEF Removed
<1> QED BY <1>3, <1>15

----------------------------------------------------------------------------
(***************************************************************************)
(* The invariant of the tree.                                              *)
(***************************************************************************)

\* No node is higher than there are nodes.
LEMMA LowIs ==
    ASSUME NEW t, NEW H, NEW S, Search(t, H, S), NEW r, NEW delete, NEW V,
           Heights(t, H, S, r, delete, V)
    PROVE  \A n \in H : r \notin S[n] => t.height[n] <= Cardinality(Nodes)
<1> DEFINE G == {n \in H : r \notin S[n] => V[n] <= Cardinality(S[n])}
<1>1. H \subseteq Nodes /\ NULL \notin Nodes /\ IsFiniteSet(Nodes)
  BY NodesAssumption DEF Search, Keyed
<1>2. /\ V \in [Pointer -> Nat] /\ V[NULL] = 0
      /\ \A m \in H : r \notin S[m] => V[m] = t.height[m]
      /\ \A m \in H : m # r => Even(t, V, m)
  BY DEF Heights
<1>3. \A n \in H : IsFiniteSet(S[n]) /\ Cardinality(S[n]) \in Nat /\ Cardinality(S[n]) <= Cardinality(H)
  BY SpanSizes
<1>4. \A n \in H, side \in Sides : t.link[n][side] # NULL =>
                 /\ t.link[n][side] \in H
                 /\ Cardinality(S[t.link[n][side]]) < Cardinality(S[n])
  BY SpanSizes
<1>5. IsFiniteSet(H) /\ Cardinality(H) \in Nat
  BY SpanSizes
<1>6. Cardinality(H) <= Cardinality(Nodes) /\ Cardinality(Nodes) \in Nat
  BY <1>1, FS_Subset, FS_CardinalityType
<1>7. ASSUME NEW n \in H, \A side \in Sides : t.link[n][side] # NULL => t.link[n][side] \in G
      PROVE  n \in G
  <2> SUFFICES ASSUME r \notin S[n]
               PROVE  V[n] <= Cardinality(S[n])
    OBVIOUS
  <2>1. n \in S[n] /\ n # r
    BY DEF Search, Sorted
  <2>2. Cardinality(S[n]) # 0
    BY <2>1, <1>3, FS_EmptySet
  <2>3. ASSUME NEW side \in Sides
        PROVE  V[t.link[n][side]] \in Nat /\ V[t.link[n][side]] + 1 <= Cardinality(S[n])
    <3>1. CASE t.link[n][side] = NULL
      BY <3>1, <2>2, <1>2, <1>3
    <3>2. CASE t.link[n][side] # NULL
      <4>1. t.link[n][side] \in H /\ Cardinality(S[t.link[n][side]]) < Cardinality(S[n])
        BY <3>2, <1>4
      <4>2. S[t.link[n][side]] \subseteq S[n]
        BY <3>2, ChildIs
      <4>3. V[t.link[n][side]] <= Cardinality(S[t.link[n][side]])
        BY <3>2, <4>1, <4>2, <1>7
      <4>4. V[t.link[n][side]] \in Nat
        BY <4>1, <1>1, <1>2 DEF Pointer
      <4> QED BY <4>1, <4>3, <4>4, <1>3
    <3> QED BY <3>1, <3>2
  <2>4. V[n] = 1 + Greater(V[t.link[n]["left"]], V[t.link[n]["right"]])
    <3>1. Even(t, V, n)
      BY <2>1, <1>2
    <3> QED BY <3>1 DEF Even, Sides, Opposite
  <2>5. "left" \in Sides /\ "right" \in Sides
    BY DEF Sides
  <2> QED BY <2>3, <2>4, <2>5, <1>3 DEF Greater
<1> HIDE DEF G
<1>8. \A n \in H : n \in G
  BY <1>7, LeavesToRoot
<1>9. ASSUME NEW n \in H, r \notin S[n]
      PROVE  t.height[n] <= Cardinality(Nodes)
  <2>1. V[n] <= Cardinality(S[n]) /\ V[n] = t.height[n] /\ V[n] \in Nat
    BY <1>8, <1>9, <1>1, <1>2 DEF G, Pointer
  <2> QED BY <2>1, <1>3, <1>5, <1>6
<1> QED BY <1>9

\* The tree while a call is under way, r being where its climb is.
TreeInv(t, H, r, delete) ==
    /\ H = Held(t)
    /\ Tidy(t, H)
    /\ \A n \in Nodes : t.height[n] <= Cardinality(Nodes)
    /\ \E S : Search(t, H, S) /\ HasHeights(t, H, S, r, delete)

\* The empty tree.
LEMMA EmptyIs ==
    TreeInv(Empty, {}, NULL, FALSE)
<1> DEFINE S == [n \in Nodes |-> {}]
           V == [x \in Pointer |-> 0]
<1>1. /\ Empty.root = NULL
      /\ \A n \in Nodes : /\ \A d \in Sides : Empty.link[n][d] = NULL
                          /\ Empty.parent[n] = NULL /\ Empty.height[n] = 0
                          /\ Empty.key[n] = NULL
  BY DEF Empty, Leaf
<1>2. Empty \in AvlTrees
  BY DEF Empty, Leaf, AvlTrees, Pointer
<1>3. Held(Empty) = {}
  BY <1>1 DEF Held
<1>4. Tidy(Empty, {})
  BY <1>1 DEF Tidy
<1>5. Search(Empty, {}, S)
  <2>1. Keyed(Empty, {})
    BY DEF Keyed
  <2>2. Linked(Empty, {})
    BY <1>1 DEF Linked
  <2>3. Sorted(Empty, {}, S)
    BY <1>1 DEF Sorted, Span
  <2> QED BY <2>1, <2>2, <2>3, <1>2 DEF Search
<1>6. Heights(Empty, {}, S, NULL, FALSE, V)
  BY DEF Heights, Pointer
<1>7. \A n \in Nodes : Empty.height[n] <= Cardinality(Nodes)
  <2>1. Cardinality(Nodes) \in Nat
    BY NodesAssumption, FS_CardinalityType
  <2> QED BY <2>1, <1>1
<1> QED BY <1>3, <1>4, <1>5, <1>6, <1>7 DEF TreeInv, HasHeights

\* Inserting keeps the invariant of the tree.
LEMMA HookOnKeeps ==
    ASSUME NEW H, TreeInv(tree, H, NULL, isDelete), NEW n \in Nodes, n \notin H,
           NEW k \in Addrs, Existing(tree, k) = NULL, HookOn(n, k)
    PROVE  /\ TreeInv(tree', H \cup {n}, rebalance', isDelete')
           /\ isDelete' = FALSE /\ tree' \in AvlTrees /\ rebalance' \in Pointer
           /\ tree'.key[n] = k /\ \A x \in Nodes : x # n => tree'.key[x] = tree.key[x]
<1>1. PICK S : Search(tree, H, S) /\ HasHeights(tree, H, S, NULL, isDelete)
  BY DEF TreeInv
<1>2. PICK V : Heights(tree, H, S, NULL, isDelete, V)
  BY <1>1 DEF HasHeights
<1>3. Tidy(tree, H) /\ H = Held(tree) /\ \A x \in Nodes : tree.height[x] <= Cardinality(Nodes)
  BY DEF TreeInv
<1>4. PICK p \in Pointer, side \in Sides :
              /\ IF H = {} THEN p = NULL ELSE p \in H
              /\ p # NULL => tree.link[p][side] = NULL
              /\ tree' \in AvlTrees /\ Hooked(tree, tree', n, p, side, k)
              /\ Search(tree', H \cup {n}, Grown(S, H, n, p))
              /\ rebalance' = p /\ isDelete' = FALSE
  BY <1>1, <1>3, HookOnIs
<1>5. Tidy(tree', H \cup {n}) /\ HasHeights(tree', H \cup {n}, Grown(S, H, n, p), p, FALSE)
  BY <1>1, <1>2, <1>3, <1>4, HookedHeights
<1>6. /\ tree'.key[n] = k /\ tree'.height[n] = 1
      /\ \A x \in Nodes : x # n => tree'.key[x] = tree.key[x] /\ tree'.height[x] = tree.height[x]
  BY <1>4 DEF Hooked
<1>7. Held(tree') = H \cup {n}
  <2>1. k # NULL
    BY NodesAssumption
  <2> QED BY <2>1, <1>3, <1>6 DEF Held
<1>8. \A x \in Nodes : tree'.height[x] <= Cardinality(Nodes)
  <2>1. Cardinality(Nodes) \in Nat /\ Cardinality(Nodes) # 0
    BY NodesAssumption, FS_CardinalityType, FS_EmptySet
  <2> QED BY <2>1, <1>3, <1>6
<1>9. TreeInv(tree', H \cup {n}, rebalance', isDelete')
  BY <1>4, <1>5, <1>7, <1>8 DEF TreeInv
<1> QED BY <1>4, <1>6, <1>9

\* Removing keeps it.
LEMMA RemoveKeeps ==
    ASSUME NEW H, TreeInv(tree, H, NULL, isDelete), NEW n \in H, cuAvlTreeNodeRemove(n)
    PROVE  /\ TreeInv(tree', H \ {n}, rebalance', isDelete')
           /\ isDelete' \in BOOLEAN /\ tree' \in AvlTrees
           /\ tree'.key[n] = NULL /\ \A x \in Nodes : x # n => tree'.key[x] = tree.key[x]
<1>1. PICK S : Search(tree, H, S) /\ HasHeights(tree, H, S, NULL, isDelete)
  BY DEF TreeInv
<1>2. PICK V : Heights(tree, H, S, NULL, isDelete, V)
  BY <1>1 DEF HasHeights
<1>3. Tidy(tree, H) /\ H = Held(tree) /\ \A x \in Nodes : tree.height[x] <= Cardinality(Nodes)
  BY DEF TreeInv
<1>4. Removed(tree, tree', H, n, rebalance', isDelete') /\ isDelete' = (rebalance' # NULL)
  BY <1>1, <1>2, <1>3, RemoveIs
<1>5. /\ tree' \in AvlTrees /\ tree'.key[n] = NULL /\ tree'.height[n] = 0
      /\ \A x \in Nodes : x # n => tree'.key[x] = tree.key[x] /\ tree'.height[x] = tree.height[x]
      /\ Tidy(tree', H \ {n})
      /\ \E U : Search(tree', H \ {n}, U) /\ HasHeights(tree', H \ {n}, U, rebalance', isDelete')
  BY <1>4 DEF Removed
<1>6. Held(tree') = H \ {n}
  BY <1>3, <1>5 DEF Held
<1>7. \A x \in Nodes : tree'.height[x] <= Cardinality(Nodes)
  <2>1. Cardinality(Nodes) \in Nat
    BY NodesAssumption, FS_CardinalityType
  <2> QED BY <2>1, <1>3, <1>5
<1>8. TreeInv(tree', H \ {n}, rebalance', isDelete')
  BY <1>5, <1>6, <1>7 DEF TreeInv
<1> QED BY <1>4, <1>5, <1>8

\* A turn of the climb keeps it.
LEMMA ClimbKeeps ==
    ASSUME NEW H, TreeInv(tree, H, rebalance, isDelete), isDelete \in BOOLEAN,
           cuAvlTreeNodeRebalance
    PROVE  /\ TreeInv(tree', H, rebalance', isDelete')
           /\ isDelete' \in BOOLEAN /\ tree' \in AvlTrees /\ tree'.key = tree.key
<1>1. PICK S : Search(tree, H, S) /\ HasHeights(tree, H, S, rebalance, isDelete)
  BY DEF TreeInv
<1>2. PICK V : Heights(tree, H, S, rebalance, isDelete, V)
  BY <1>1 DEF HasHeights
<1>3. Tidy(tree, H) /\ H = Held(tree) /\ \A x \in Nodes : tree.height[x] <= Cardinality(Nodes)
  BY DEF TreeInv
<1>12. Climbed(tree, tree', H, S, rebalance, rebalance', isDelete')
  BY <1>1, <1>2, <1>3, ClimbIs
<1>4. PICK V1, U, W, top : /\ Settled(tree, tree', H, S, U, rebalance, top, V1, W)
                       /\ Heights(tree', H, U, rebalance', isDelete', W)
                       /\ rebalance' = tree'.parent[top]
  BY <1>12 DEF Climbed
<1>5. isDelete' \in BOOLEAN /\ rebalance # NULL
  BY DEF cuAvlTreeNodeRebalance
<1>6. /\ Search(tree', H, U) /\ Tidy(tree', H) /\ tree'.key = tree.key
      /\ top \in S[rebalance] /\ tree'.parent[top] = tree.parent[rebalance]
      /\ Kept(H, S, U, rebalance)
      /\ \A m \in Nodes \ S[rebalance] : tree'.height[m] = tree.height[m]
  BY <1>4 DEF Settled
<1>7. tree' \in AvlTrees
  BY <1>6 DEF Search
<1>8. HasHeights(tree', H, U, rebalance', isDelete')
  BY <1>4 DEF HasHeights
<1>9. Held(tree') = H
  BY <1>3, <1>6 DEF Held
<1>10. \A x \in Nodes : tree'.height[x] <= Cardinality(Nodes)
  <2> SUFFICES ASSUME NEW x \in Nodes
               PROVE  tree'.height[x] <= Cardinality(Nodes)
    OBVIOUS
  <2>1. CASE x \notin H
    <3>1. tree'.height[x] = 0
      BY <2>1, <1>6 DEF Tidy
    <3>2. Cardinality(Nodes) \in Nat
      BY NodesAssumption, FS_CardinalityType
    <3> QED BY <3>1, <3>2
  <2>2. CASE x \in H /\ x \notin S[rebalance]
    BY <2>2, <1>3, <1>6
  <2>3. CASE x \in H /\ x \in S[rebalance]
    <3>1. rebalance' = tree.parent[rebalance]
      BY <1>4, <1>6
    <3>2. rebalance' \notin U[x]
      <4>1. U[x] \subseteq S[rebalance]
        BY <2>3, <1>6 DEF Kept
      <4>2. rebalance \in H /\ NULL \notin S[rebalance]
        BY <1>1, <1>2, <1>5, NodesAssumption DEF Heights, Search, Keyed, Sorted
      <4>3. rebalance' # NULL => rebalance' \notin S[rebalance]
        BY <1>1, <3>1, <4>2, ParentIs
      <4> QED BY <4>1, <4>2, <4>3
    <3> QED BY <2>3, <3>2, <1>4, <1>6, LowIs
  <2> QED BY <2>1, <2>2, <2>3
<1>11. TreeInv(tree', H, rebalance', isDelete')
  BY <1>6, <1>8, <1>9, <1>10 DEF TreeInv
<1> QED BY <1>5, <1>6, <1>7, <1>11

----------------------------------------------------------------------------
(***************************************************************************)
(* The invariant of the tracker.                                           *)
(***************************************************************************)

\* Every registered node stands for a range a caller may register, and one
\* that cuiAddrTrackerRegisterNode has accepted.
FromRanges ==
    \A n \in Inserted :
       \E r \in Ranges : /\ r.node = n /\ r.addr = addr(n) /\ r.size = size[n]
                         /\ r.addr >= Lo /\ Wrap(r.addr + r.size) <= AfterHi

IInv ==
    /\ TreeInv(tree, Inserted, rebalance, isDelete)
    /\ isDelete \in BOOLEAN
    /\ size \in [Nodes -> 0 .. (2 ^ Width - 1)]
    /\ afterHi \in {0, AfterHi}
    /\ exited \in BOOLEAN
    /\ afterHi = 0 => Inserted = {}
    /\ FromRanges

\* The nodes in the tree.
LEMMA InsertedIs ==
    Inserted = Held(tree)
  BY DEF Inserted, Held

\* The invariant holds at first.
LEMMA InitIInv ==
    ASSUME Init
    PROVE  IInv
<1>1. tree = Empty /\ rebalance = NULL /\ isDelete = FALSE /\ afterHi = 0 /\ exited = FALSE
      /\ size = [n \in Nodes |-> 0]
  BY DEF Init, AvlInit
<1>2. TreeInv(tree, {}, rebalance, isDelete)
  BY <1>1, EmptyIs
<1>3. Inserted = {}
  BY <1>2, InsertedIs DEF TreeInv
<1>4. 0 \in 0 .. (2 ^ Width - 1)
  BY WidthAssumption, PowerType
<1>5. size \in [Nodes -> 0 .. (2 ^ Width - 1)]
  BY <1>1, <1>4
<1> QED BY <1>1, <1>2, <1>3, <1>5 DEF IInv, FromRanges

Entered(n, k) ==
    /\ TreeInv(tree', Inserted \cup {n}, rebalance', isDelete')
    /\ isDelete' = FALSE
    /\ tree'.key[n] = k /\ \A x \in Nodes : x # n => tree'.key[x] = tree.key[x]

\* What HookOn leaves, by the name of the tree's own nodes.
LEMMA HookOnEnters ==
    ASSUME TreeInv(tree, Inserted, NULL, isDelete), NEW n \in Nodes, n \notin Inserted,
           NEW k \in Addrs, Existing(tree, k) = NULL, HookOn(n, k)
    PROVE  Entered(n, k)
<1> DEFINE H == Inserted
<1>1. TreeInv(tree, H, NULL, isDelete) /\ n \notin H
  OBVIOUS
<1> HIDE DEF H
<1>2. /\ TreeInv(tree', H \cup {n}, rebalance', isDelete')
      /\ isDelete' = FALSE /\ tree' \in AvlTrees /\ rebalance' \in Pointer
      /\ tree'.key[n] = k /\ \A x \in Nodes : x # n => tree'.key[x] = tree.key[x]
  BY <1>1, HookOnKeeps
<1> QED BY <1>2 DEF Entered, H

\* What registering adds.
LEMMA EnterKeeps ==
    ASSUME IInv, NEW r \in Ranges, MayRegister(r), Enter(r)
    PROVE  /\ IInv' /\ Inserted' = Inserted \cup {r.node} /\ r.node \in Nodes \ Inserted
           /\ addr(r.node)' = r.addr /\ \A n \in Inserted : addr(n)' = addr(n)
<1>1. /\ rebalance = NULL /\ afterHi # 0 /\ r.node \notin Inserted
      /\ r.addr >= Lo /\ Wrap(r.addr + r.size) <= afterHi
      /\ Existing(tree, r.addr) = NULL /\ HookOn(r.node, r.addr)
      /\ size' = [size EXCEPT ![r.node] = r.size]
      /\ UNCHANGED <<afterHi, exited>>
  BY DEF MayRegister, Enter, Accepted, Ready, cuiAddrTrackerIsInitialized, Registered
<1>2. r.node \in Nodes /\ r.size \in 0 .. (2 ^ Width - 1) /\ r.addr \in Addrs
  BY RangesAssumption DEF Addrs
<1>3. TreeInv(tree, Inserted, NULL, isDelete)
  BY <1>1 DEF IInv
<1>13. Entered(r.node, r.addr)
  <2> DEFINE n == r.node  k == r.addr
  <2>1. n \in Nodes /\ n \notin Inserted /\ k \in Addrs /\ Existing(tree, k) = NULL /\ HookOn(n, k)
    BY <1>1, <1>2
  <2> HIDE DEF n, k
  <2>2. Entered(n, k)
    BY <2>1, <1>3, HookOnEnters
  <2> QED BY <2>2 DEF n, k
<1>4. /\ TreeInv(tree', Inserted \cup {r.node}, rebalance', isDelete')
      /\ isDelete' = FALSE
      /\ tree'.key[r.node] = r.addr /\ \A x \in Nodes : x # r.node => tree'.key[x] = tree.key[x]
  BY <1>13 DEF Entered
<1>5. Inserted' = Inserted \cup {r.node}
  <2>1. Inserted' = Held(tree')
    BY DEF Inserted, Held
  <2> QED BY <2>1, <1>4 DEF TreeInv
<1>6. Inserted \subseteq Nodes
  BY DEF Inserted
<1>7. addr(r.node)' = r.addr /\ \A n \in Inserted : addr(n)' = addr(n)
  BY <1>1, <1>4, <1>6 DEF addr
<1>8. size' \in [Nodes -> 0 .. (2 ^ Width - 1)] /\ size'[r.node] = r.size
      /\ \A n \in Inserted : size'[n] = size[n]
  BY <1>1, <1>2, <1>6 DEF IInv
<1>9. afterHi' = AfterHi /\ afterHi' \in {0, AfterHi} /\ afterHi' # 0 /\ exited' \in BOOLEAN
  BY <1>1 DEF IInv
<1>10. FromRanges'
  <2>1. ASSUME NEW n \in Inserted'
        PROVE  \E q \in Ranges : /\ q.node = n /\ q.addr = tree'.key[n] /\ q.size = size'[n]
                                 /\ q.addr >= Lo /\ Wrap(q.addr + q.size) <= AfterHi
    <3>1. CASE n = r.node
      BY <3>1, <1>1, <1>4, <1>8, <1>9
    <3>2. CASE n # r.node
      <4>1. n \in Inserted
        BY <3>2, <1>5
      <4> QED BY <4>1, <1>7, <1>8 DEF IInv, FromRanges, addr
    <3> QED BY <3>1, <3>2
  <2> QED BY <2>1 DEF FromRanges, addr
<1>11. TreeInv(tree, Inserted, rebalance, isDelete)'
  BY <1>4, <1>5
<1>12. IInv'
  BY <1>4, <1>8, <1>9, <1>10, <1>11 DEF IInv
<1> QED BY <1>1, <1>2, <1>5, <1>7, <1>12

\* What unregistering takes away.
LEMMA UnregisterKeeps ==
    ASSUME IInv, NEW n \in Nodes, cuiAddrTrackerUnregisterNode(n)
    PROVE  /\ IInv' /\ n \in Inserted /\ Inserted' = Inserted \ {n}
           /\ \A x \in Inserted \ {n} : addr(x)' = addr(x)
<1>1. /\ rebalance = NULL /\ n \in Inserted /\ cuAvlTreeNodeRemove(n)
      /\ size' = [size EXCEPT ![n] = 0]
      /\ UNCHANGED <<afterHi, exited>>
  BY DEF cuiAddrTrackerUnregisterNode, Ready, Registered
<1>2. TreeInv(tree, Inserted, NULL, isDelete)
  BY <1>1 DEF IInv
<1>3. /\ TreeInv(tree', Inserted \ {n}, rebalance', isDelete')
      /\ isDelete' \in BOOLEAN
      /\ \A x \in Nodes : x # n => tree'.key[x] = tree.key[x]
  BY <1>1, <1>2, RemoveKeeps
<1>4. Inserted' = Inserted \ {n}
  <2>1. Inserted' = Held(tree')
    BY DEF Inserted, Held
  <2> QED BY <2>1, <1>3 DEF TreeInv
<1>5. Inserted \subseteq Nodes
  BY DEF Inserted
<1>6. \A x \in Inserted \ {n} : addr(x)' = addr(x)
  BY <1>3, <1>5 DEF addr
<1>7. size' \in [Nodes -> 0 .. (2 ^ Width - 1)] /\ \A x \in Inserted \ {n} : size'[x] = size[x]
  <2>1. 0 \in 0 .. (2 ^ Width - 1)
    BY WidthAssumption, PowerType
  <2> QED BY <2>1, <1>1, <1>5 DEF IInv
<1>8. FromRanges'
  <2>1. ASSUME NEW x \in Inserted'
        PROVE  \E q \in Ranges : /\ q.node = x /\ q.addr = tree'.key[x] /\ q.size = size'[x]
                                 /\ q.addr >= Lo /\ Wrap(q.addr + q.size) <= AfterHi
    <3>1. x \in Inserted \ {n}
      BY <1>4
    <3>2. tree'.key[x] = tree.key[x] /\ size'[x] = size[x]
      BY <3>1, <1>3, <1>5, <1>7
    <3> QED BY <3>1, <3>2 DEF IInv, FromRanges, addr
  <2> QED BY <2>1 DEF FromRanges, addr
<1>9. TreeInv(tree, Inserted, rebalance, isDelete)'
  BY <1>3, <1>4
<1>10. afterHi' \in {0, AfterHi} /\ exited' \in BOOLEAN /\ (afterHi' = 0 => Inserted' = {})
  BY <1>1, <1>4 DEF IInv
<1>11. IInv'
  BY <1>3, <1>7, <1>8, <1>9, <1>10 DEF IInv
<1> QED BY <1>1, <1>4, <1>6, <1>11

\* A turn of the climb keeps the invariant and all registered ranges.
LEMMA ClimbKeepsIInv ==
    ASSUME IInv, Climb
    PROVE  /\ IInv' /\ Inserted' = Inserted
           /\ \A x \in Inserted : addr(x)' = addr(x)
<1>1. cuAvlTreeNodeRebalance /\ UNCHANGED <<size, afterHi, exited>>
  BY DEF Climb
<1>2. TreeInv(tree, Inserted, rebalance, isDelete) /\ isDelete \in BOOLEAN
  BY DEF IInv
<1>3. /\ TreeInv(tree', Inserted, rebalance', isDelete')
      /\ isDelete' \in BOOLEAN /\ tree'.key = tree.key
  BY <1>1, <1>2, ClimbKeeps
<1>4. Inserted' = Inserted
  BY <1>3 DEF Inserted
<1>5. \A x \in Inserted : addr(x)' = addr(x)
  BY <1>3 DEF addr
<1>6. FromRanges'
  BY <1>1, <1>3, <1>4 DEF IInv, FromRanges, addr
<1>7. TreeInv(tree, Inserted, rebalance, isDelete)'
  BY <1>3, <1>4
<1>8. IInv'
  BY <1>1, <1>3, <1>4, <1>6, <1>7 DEF IInv
<1> QED BY <1>4, <1>5, <1>8

\* Initializing and deinitializing write an empty tree over an empty one.
LEMMA EmptyKeeps ==
    ASSUME IInv, tree' = Empty, rebalance = NULL, Inserted = {}, afterHi' \in {0, AfterHi},
           UNCHANGED <<rebalance, isDelete, size, exited>>
    PROVE  IInv' /\ Inserted' = {}
<1>1. TreeInv(tree', {}, NULL, FALSE)
  BY EmptyIs
<1>2. Inserted' = {}
  <2>1. Inserted' = Held(tree')
    BY DEF Inserted, Held
  <2> QED BY <2>1, <1>1 DEF TreeInv
<1>3. TreeInv(tree', {}, NULL, isDelete)
  BY <1>1 DEF TreeInv, HasHeights, Heights
<1>4. TreeInv(tree, Inserted, rebalance, isDelete)'
  BY <1>2, <1>3
<1>5. FromRanges'
  BY <1>2 DEF FromRanges
<1> QED BY <1>2, <1>4, <1>5 DEF IInv

\* A step leaves the tracker as it is or adds or removes one node.
LEMMA NextKeeps ==
    ASSUME IInv, [Next]_vars
    PROVE  IInv'
<1>1. CASE cuiAddrTrackerInit
  <2>1. Inserted = {} /\ rebalance = NULL /\ tree' = Empty /\ afterHi' = AfterHi
        /\ UNCHANGED <<rebalance, isDelete, size, exited>>
    BY <1>1 DEF cuiAddrTrackerInit, cuiAddrTrackerIsInitialized, IInv, Ready
  <2> QED BY <2>1, EmptyKeeps
<1>2. CASE cuiAddrTrackerDeinit
  <2>1. Inserted = {} /\ rebalance = NULL /\ tree' = Empty /\ afterHi' = 0
        /\ UNCHANGED <<rebalance, isDelete, size, exited>>
    BY <1>2 DEF cuiAddrTrackerDeinit, Registered, Ready
  <2> QED BY <2>1, EmptyKeeps
<1>3. ASSUME UNCHANGED vars
      PROVE  IInv'
  BY <1>3 DEF vars, IInv, FromRanges, Inserted, addr
<1>4. ASSUME Exit
      PROVE  IInv'
  BY <1>4 DEF Exit, IInv, FromRanges, Inserted, addr
<1>5. ASSUME NEW r \in Ranges, cuiAddrTrackerRegisterNodeOrReturnExisting(r)
      PROVE  IInv'
  BY <1>3, <1>4, <1>5, EnterKeeps DEF cuiAddrTrackerRegisterNodeOrReturnExisting, ReturnExisting
<1>6. ASSUME NEW r \in Ranges, cuiAddrTrackerRegisterNode(r)
      PROVE  IInv'
  BY <1>4, <1>6, EnterKeeps DEF cuiAddrTrackerRegisterNode
<1>7. ASSUME NEW n \in Nodes, cuiAddrTrackerUnregisterNode(n)
      PROVE  IInv'
  BY <1>7, UnregisterKeeps
<1>8. CASE Climb
  BY <1>8, ClimbKeepsIInv
<1> QED BY <1>1, <1>2, <1>3, <1>5, <1>6, <1>7, <1>8 DEF Next

\* The invariant.
THEOREM Invariant == Spec => []IInv
<1>1. Init => IInv
  BY InitIInv
<1>2. IInv /\ [Next]_vars => IInv'
  BY NextKeeps
<1> QED BY <1>1, <1>2, PTL DEF Spec

\* TypeOK of the tracker.
LEMMA TypeIs ==
    ASSUME IInv
    PROVE  TypeOK
<1>1. PICK S : Search(tree, Inserted, S) /\ HasHeights(tree, Inserted, S, rebalance, isDelete)
  BY DEF IInv, TreeInv
<1>2. tree \in AvlTrees /\ Inserted \subseteq Nodes
  BY <1>1 DEF Search, Keyed
<1>3. rebalance \in Pointer
  <2>1. rebalance # NULL => rebalance \in Inserted
    BY <1>1 DEF HasHeights, Heights
  <2> QED BY <2>1, <1>2 DEF Pointer
<1>4. \A n \in Nodes : tree.height[n] \in 0 .. Cardinality(Nodes)
  <2>1. Cardinality(Nodes) \in Nat
    BY NodesAssumption, FS_CardinalityType
  <2>2. \A n \in Nodes : tree.height[n] \in Nat /\ tree.height[n] <= Cardinality(Nodes)
    BY <1>2 DEF IInv, TreeInv, AvlTrees
  <2> QED BY <2>1, <2>2
<1>5. tree \in [root   : Pointer,
                 link   : [Nodes -> [Sides -> Pointer]],
                 parent : [Nodes -> Pointer],
                 height : [Nodes -> 0 .. Cardinality(Nodes)],
                 key    : [Nodes -> Addrs \cup {NULL}]]
  BY <1>2, <1>4 DEF AvlTrees
<1>6. AvlTypeOK
  BY <1>3, <1>5 DEF IInv, AvlTypeOK
<1> QED BY <1>6 DEF IInv, TypeOK

\* Every state of the tracker has the types of TypeOK: no node is higher than
\* there are nodes.
THEOREM TypeCorrect == Spec => []TypeOK
<1>1. IInv => TypeOK
  BY TypeIs
<1> QED BY <1>1, Invariant, PTL

----------------------------------------------------------------------------
(***************************************************************************)
(* The walk in order.                                                      *)
(***************************************************************************)

\* s has the nodes of M, each once, in the order of their keys.
Lists(t, s, M) ==
    /\ s \in Seq(Nodes) /\ Range(s) = M
    /\ \A i, j \in 1 .. Len(s) : i < j => Val(t, s[i]) < Val(t, s[j])

\* Two lists with a node between them.
LEMMA JoinSeq ==
    ASSUME NEW l \in Seq(Nodes), NEW n \in Nodes, NEW r \in Seq(Nodes),
           NEW s, s = l \o <<n>> \o r
    PROVE  /\ s \in Seq(Nodes) /\ Len(s) = Len(l) + 1 + Len(r)
           /\ \A i \in 1 .. Len(l) : s[i] = l[i]
           /\ s[Len(l) + 1] = n
           /\ \A i \in 1 .. Len(r) : s[Len(l) + 1 + i] = r[i]
<1> DEFINE a == l \o <<n>>
<1>1. a \in Seq(Nodes) /\ Len(a) = Len(l) + 1 /\ a[Len(l) + 1] = n
      /\ \A i \in 1 .. Len(l) : a[i] = l[i]
  OBVIOUS
<1>2. s = a \o r
  OBVIOUS
<1> HIDE DEF a
<1>3. s \in Seq(Nodes) /\ Len(s) = Len(a) + Len(r)
      /\ (\A i \in 1 .. Len(a) : s[i] = a[i])
      /\ (\A i \in 1 .. Len(r) : s[Len(a) + i] = r[i])
  BY <1>1, <1>2
<1>4. Len(l) \in Nat /\ Len(r) \in Nat
  OBVIOUS
<1> QED BY <1>1, <1>3, <1>4

\* The places of the joined list.
LEMMA JoinPlaces ==
    ASSUME NEW l \in Seq(Nodes), NEW n \in Nodes, NEW r \in Seq(Nodes),
           NEW s, s = l \o <<n>> \o r, NEW i \in 1 .. Len(s)
    PROVE  \/ i \in 1 .. Len(l) /\ s[i] = l[i]
           \/ i = Len(l) + 1 /\ s[i] = n
           \/ i - (Len(l) + 1) \in 1 .. Len(r) /\ s[i] = r[i - (Len(l) + 1)]
<1>1. /\ Len(s) = Len(l) + 1 + Len(r)
      /\ \A j \in 1 .. Len(l) : s[j] = l[j]
      /\ s[Len(l) + 1] = n
      /\ \A j \in 1 .. Len(r) : s[Len(l) + 1 + j] = r[j]
  BY JoinSeq
<1>2. Len(l) \in Nat /\ Len(r) \in Nat
  OBVIOUS
<1>3. CASE i <= Len(l)
  BY <1>1, <1>2, <1>3
<1>4. CASE i = Len(l) + 1
  BY <1>1, <1>4
<1>5. CASE i > Len(l) + 1
  <2>1. i - (Len(l) + 1) \in 1 .. Len(r) /\ i = Len(l) + 1 + (i - (Len(l) + 1))
    BY <1>1, <1>2, <1>5
  <2>2. s[Len(l) + 1 + (i - (Len(l) + 1))] = r[i - (Len(l) + 1)]
    BY <1>1, <2>1
  <2> QED BY <2>1, <2>2
<1> QED BY <1>2, <1>3, <1>4, <1>5

\* Two ordered lists with a node between them make one.
LEMMA JoinIs ==
    ASSUME NEW t, NEW l, NEW r, NEW L, NEW R, NEW n \in Nodes,
           Lists(t, l, L), Lists(t, r, R),
           \A m \in L \cup {n} \cup R : Val(t, m) \in Int,
           \A m \in L : Val(t, m) < Val(t, n),
           \A m \in R : Val(t, n) < Val(t, m)
    PROVE  Lists(t, l \o <<n>> \o r, {n} \cup L \cup R)
<1> DEFINE s == l \o <<n>> \o r
<1>1. /\ l \in Seq(Nodes) /\ r \in Seq(Nodes) /\ Range(l) = L /\ Range(r) = R
      /\ \A i, j \in 1 .. Len(l) : i < j => Val(t, l[i]) < Val(t, l[j])
      /\ \A i, j \in 1 .. Len(r) : i < j => Val(t, r[i]) < Val(t, r[j])
  BY DEF Lists
<1>2. (\A i \in 1 .. Len(l) : l[i] \in L) /\ (\A i \in 1 .. Len(r) : r[i] \in R)
  BY <1>1 DEF Range
<1>3. /\ s \in Seq(Nodes) /\ Len(s) = Len(l) + 1 + Len(r)
      /\ \A i \in 1 .. Len(l) : s[i] = l[i]
      /\ s[Len(l) + 1] = n
      /\ \A i \in 1 .. Len(r) : s[Len(l) + 1 + i] = r[i]
  BY <1>1, JoinSeq
<1>4. \A i \in 1 .. Len(s) :
           \/ i \in 1 .. Len(l) /\ s[i] = l[i]
           \/ i = Len(l) + 1 /\ s[i] = n
           \/ i - (Len(l) + 1) \in 1 .. Len(r) /\ s[i] = r[i - (Len(l) + 1)]
  BY <1>1, JoinPlaces
<1>5. Len(l) \in Nat /\ Len(r) \in Nat
  BY <1>1
<1> HIDE DEF s
<1>6. Range(s) = {n} \cup L \cup R
  <2>1. DOMAIN s = 1 .. Len(s) /\ DOMAIN l = 1 .. Len(l) /\ DOMAIN r = 1 .. Len(r)
    BY <1>1, <1>3
  <2>2. \A x \in Range(s) : x \in {n} \cup L \cup R
    BY <1>2, <1>4, <2>1 DEF Range
  <2>3. ASSUME NEW x \in {n} \cup L \cup R
        PROVE  \E i \in 1 .. Len(s) : s[i] = x
    <3>1. CASE x = n
      BY <3>1, <1>3, <1>5
    <3>2. CASE x \in L
      <4>1. PICK i \in 1 .. Len(l) : l[i] = x
        BY <3>2, <1>1, <2>1 DEF Range
      <4> QED BY <4>1, <1>3, <1>5
    <3>3. CASE x \in R
      <4>1. PICK i \in 1 .. Len(r) : r[i] = x
        BY <3>3, <1>1, <2>1 DEF Range
      <4>2. Len(l) + 1 + i \in 1 .. Len(s) /\ s[Len(l) + 1 + i] = x
        BY <4>1, <1>3, <1>5
      <4> QED BY <4>2
    <3> QED BY <3>1, <3>2, <3>3
  <2>4. \A x \in {n} \cup L \cup R : x \in Range(s)
    BY <2>1, <2>3 DEF Range
  <2> QED BY <2>2, <2>4
<1>7. ASSUME NEW i \in 1 .. Len(s), NEW j \in 1 .. Len(s), i < j
      PROVE  Val(t, s[i]) < Val(t, s[j])
  <2>1. CASE i \in 1 .. Len(l) /\ s[i] = l[i]
    <3>1. s[i] \in L
      BY <2>1, <1>2
    <3>2. CASE j \in 1 .. Len(l) /\ s[j] = l[j]
      BY <2>1, <3>2, <1>1, <1>7
    <3>3. CASE j = Len(l) + 1 /\ s[j] = n
      BY <3>1, <3>3
    <3>4. CASE j - (Len(l) + 1) \in 1 .. Len(r) /\ s[j] = r[j - (Len(l) + 1)]
      <4>1. s[j] \in R
        BY <3>4, <1>2
      <4>2. Val(t, s[i]) \in Int /\ Val(t, s[j]) \in Int /\ Val(t, n) \in Int
            /\ Val(t, s[i]) < Val(t, n) /\ Val(t, n) < Val(t, s[j])
        BY <3>1, <4>1
      <4> QED BY <4>2
    <3> QED BY <3>2, <3>3, <3>4, <1>4
  <2>2. CASE i = Len(l) + 1 /\ s[i] = n
    <3>1. j - (Len(l) + 1) \in 1 .. Len(r) /\ s[j] = r[j - (Len(l) + 1)]
      BY <2>2, <1>4, <1>5, <1>7
    <3> QED BY <2>2, <3>1, <1>2
  <2>3. CASE i - (Len(l) + 1) \in 1 .. Len(r) /\ s[i] = r[i - (Len(l) + 1)]
    <3>1. j - (Len(l) + 1) \in 1 .. Len(r) /\ s[j] = r[j - (Len(l) + 1)]
      BY <2>3, <1>4, <1>5, <1>7
    <3>2. i - (Len(l) + 1) < j - (Len(l) + 1)
      BY <1>5, <1>7
    <3> QED BY <2>3, <3>1, <3>2, <1>1
  <2> QED BY <2>1, <2>2, <2>3, <1>4
<1> QED BY <1>3, <1>6, <1>7 DEF Lists, s

\* The function that InOrder defines.
OrderBody(t, f) ==
    [n \in Pointer |->
        IF n = NULL THEN <<>>
        ELSE f[t.link[n]["left"]] \o <<n>> \o f[t.link[n]["right"]]]

\* There is one.
LEMMA OrderExists ==
    ASSUME NEW t, NEW H, NEW S, Search(t, H, S), Tidy(t, H)
    PROVE  \E f : f = OrderBody(t, f)
<1> DEFINE V == Seq(Nodes)
           D == [Pointer -> V]
           Go(n, f) == IF n = NULL THEN <<>>
                       ELSE f[t.link[n]["left"]] \o <<n>> \o f[t.link[n]["right"]]
           step == [n \in Pointer |-> [f \in D |-> Go(n, f)]]
<1>1. PICK rank \in [Pointer -> Nat] :
         \A m \in Nodes, d \in Sides : rank[t.link[m][d]] < rank[m]
  BY Ranks
<1>2. \A n \in Pointer : n # NULL => n \in Nodes
  BY DEF Pointer
<1>3. \A n \in Nodes, d \in Sides : t.link[n][d] \in Pointer /\ rank[t.link[n][d]] < rank[n]
  BY <1>1, TreeFields DEF Search
<1>4. "left" \in Sides /\ "right" \in Sides
  BY DEF Sides
<1>5. \A n \in Pointer, f \in D : Go(n, f) \in V
  <2>1. ASSUME NEW n \in Pointer, NEW f \in D, n # NULL
        PROVE  f[t.link[n]["left"]] \o <<n>> \o f[t.link[n]["right"]] \in V
    <3>1. n \in Nodes /\ t.link[n]["left"] \in Pointer /\ t.link[n]["right"] \in Pointer
      BY <2>1, <1>2, <1>3, <1>4
    <3>2. f[t.link[n]["left"]] \in Seq(Nodes) /\ f[t.link[n]["right"]] \in Seq(Nodes)
      BY <3>1
    <3> QED BY <3>1, <3>2
  <2>2. <<>> \in V
    OBVIOUS
  <2> QED BY <2>1, <2>2
<1>6. ASSUME NEW n \in Pointer, NEW f \in D, NEW h \in D,
             \A y \in Pointer : rank[y] < rank[n] => f[y] = h[y]
      PROVE  Go(n, f) = Go(n, h)
  <2>1. CASE n = NULL
    BY <2>1
  <2>2. CASE n # NULL
    <3>1. n \in Nodes
      BY <2>2, <1>2
    <3>2. f[t.link[n]["left"]] = h[t.link[n]["left"]]
          /\ f[t.link[n]["right"]] = h[t.link[n]["right"]]
      BY <3>1, <1>3, <1>4, <1>6
    <3> QED BY <2>2, <3>2
  <2> QED BY <2>1, <2>2
<1>12. V # {}
  <2>1. <<>> \in V
    OBVIOUS
  <2> QED BY <2>1
<1> HIDE DEF V
<1> HIDE DEF Go
<1>7. step \in [Pointer -> [D -> V]]
  <2> HIDE DEF D
  <2> QED BY <1>5
<1>8. \A n \in Pointer, f \in D : step[n][f] = Go(n, f)
  OBVIOUS
<1> HIDE DEF step
<1>9. LooksDown(Pointer, V, rank, step)
  BY <1>6, <1>8 DEF LooksDown
<1>10. PICK f \in D : Recursive(f, Pointer, step)
  BY <1>1, <1>7, <1>9, <1>12, RecursionExists
<1>11. \A n \in Pointer : f[n] = OrderBody(t, f)[n]
  BY <1>8, <1>10 DEF Recursive, OrderBody, Go
<1> QED BY <1>11 DEF OrderBody, D

\* The walk lists what is in the tree.
LEMMA InOrderLists ==
    ASSUME NEW t, NEW H, NEW S, Search(t, H, S), Tidy(t, H)
    PROVE  Lists(t, InOrder(t), H)
<1> DEFINE F == CHOOSE f : f = OrderBody(t, f)
<1>1. F = OrderBody(t, F)
  BY OrderExists
<1>2. InOrder(t) = F[t.root]
  BY DEF InOrder, OrderBody
<1> HIDE DEF F
<1>3. /\ F[NULL] = <<>>
      /\ \A n \in Nodes : F[n] = F[t.link[n]["left"]] \o <<n>> \o F[t.link[n]["right"]]
  <2> DEFINE B == OrderBody(t, F)
  <2>1. B[NULL] = <<>>
        /\ \A n \in Nodes : B[n] = F[t.link[n]["left"]] \o <<n>> \o F[t.link[n]["right"]]
    BY NodesAssumption, Zenon DEF OrderBody, Pointer
  <2>2. F = B
    BY <1>1
  <2> HIDE DEF B
  <2>3. F[NULL] = B[NULL] /\ \A n \in Nodes : F[n] = B[n]
    BY <2>2
  <2> QED BY <2>1, <2>3
<1>4. Lists(t, <<>>, {})
  BY DEF Lists, Range
<1> DEFINE G == {n \in H : Lists(t, F[n], S[n])}
<1>5. ASSUME NEW n \in H, \A side \in Sides : t.link[n][side] # NULL => t.link[n][side] \in G
      PROVE  n \in G
  <2> DEFINE l == t.link[n]["left"]  r == t.link[n]["right"]
  <2>0. "left" \in Sides /\ "right" \in Sides
    BY DEF Sides
  <2>1. Lists(t, F[l], Span(S, l)) /\ Lists(t, F[r], Span(S, r))
    <3>1. l # NULL => Lists(t, F[l], S[l])
      BY <1>5, <2>0
    <3>2. r # NULL => Lists(t, F[r], S[r])
      BY <1>5, <2>0
    <3> QED BY <3>1, <3>2, <1>3, <1>4 DEF Span
  <2>2. /\ S[n] = {n} \cup Span(S, l) \cup Span(S, r)
        /\ \A m \in Span(S, l) : Past(t, "left", n, m)
        /\ \A m \in Span(S, r) : Past(t, "right", n, m)
    BY <2>0 DEF Search, Sorted
  <2>3. n \in Nodes /\ S[n] \subseteq H
    BY DEF Search, Sorted, Keyed
  <2>4. F[n] = F[l] \o <<n>> \o F[r]
    BY <1>3, <2>3
  <2> HIDE DEF l, r
  <2>5. \A m \in Span(S, l) \cup {n} \cup Span(S, r) : Val(t, m) \in Int
    BY <2>2, <2>3, SignedIs DEF Val, Search, Keyed
  <2>6. /\ \A m \in Span(S, l) : Val(t, m) < Val(t, n)
        /\ \A m \in Span(S, r) : Val(t, n) < Val(t, m)
    BY <2>2 DEF Past
  <2>7. Lists(t, F[l] \o <<n>> \o F[r], {n} \cup Span(S, l) \cup Span(S, r))
    BY <2>1, <2>3, <2>5, <2>6, JoinIs
  <2> QED BY <2>2, <2>4, <2>7
<1> HIDE DEF G
<1>6. \A n \in H : n \in G
  BY <1>5, LeavesToRoot
<1>7. Span(S, t.root) = H /\ (t.root # NULL => t.root \in H)
  BY DEF Search, Sorted, Linked
<1>8. CASE t.root = NULL
  BY <1>2, <1>3, <1>4, <1>7, <1>8 DEF Span
<1>9. CASE t.root # NULL
  BY <1>2, <1>6, <1>7, <1>9 DEF Span, G
<1> QED BY <1>8, <1>9

----------------------------------------------------------------------------
(***************************************************************************)
(* The tree's pointers and its order.                                      *)
(***************************************************************************)

\* The pointers of a search tree agree.
LEMMA LinksAre ==
    ASSUME NEW H, H = Inserted, NEW S, Search(tree, H, S), Tidy(tree, H)
    PROVE  SearchTree
<1>1. Lists(tree, InOrder(tree), H)
  BY InOrderLists
<1>2. /\ H \subseteq Nodes /\ NULL \notin H /\ tree \in AvlTrees
      /\ \A n \in H : tree.key[n] \in Addrs
  BY NodesAssumption DEF Search, Keyed
<1>3. /\ tree.root # NULL => tree.root \in H /\ tree.parent[tree.root] = NULL
      /\ \A n \in H, side \in Sides :
            tree.link[n][side] # NULL =>
               tree.link[n][side] \in H /\ tree.parent[tree.link[n][side]] = n
  BY DEF Search, Linked
<1>4. ASSUME NEW n \in H, tree.link[n]["left"] = tree.link[n]["right"]
      PROVE  tree.link[n] = Leaf
  <2>1. "left" \in Sides /\ "right" \in Sides /\ Opposite("left") = "right"
    BY DEF Sides, Opposite
  <2>2. tree.link[n]["left"] = NULL
    <3>1. SUFFICES ASSUME tree.link[n]["left"] # NULL
                   PROVE  FALSE
      OBVIOUS
    <3>2. \A c, d : c = tree.link[n]["left"] /\ c # NULL /\ d = tree.link[n][Opposite("left")]
                       /\ d # NULL => c # d
      BY <2>1, TwoChildren
    <3> QED BY <2>1, <3>1, <3>2, <1>4
  <2>3. tree.link[n] \in [Sides -> Pointer]
    BY <1>2 DEF AvlTrees
  <2>4. \A side \in Sides : tree.link[n][side] = NULL
    BY <2>2, <1>4 DEF Sides
  <2> QED BY <2>3, <2>4 DEF Leaf
<1>5. LinksAgree
  <2>1. Range(InOrder(tree)) = H
    BY <1>1 DEF Lists
  <2>2. \A n \in H, side \in Sides : tree.link[n][side] # NULL =>
            tree.link[n][side] # tree.root
    BY <1>2, <1>3
  <2> QED BY <1>3, <1>4, <2>1, <2>2 DEF LinksAgree
<1>6. KeysAscend
  <2> DEFINE s == InOrder(tree)
  <2>1. /\ s \in Seq(Nodes) /\ Range(s) = H
        /\ \A i, j \in 1 .. Len(s) : i < j => Val(tree, s[i]) < Val(tree, s[j])
    BY <1>1 DEF Lists
  <2> HIDE DEF s
  <2>2. ASSUME NEW i \in 1 .. (Len(s) - 1)
        PROVE  cuiAddrTrackerCompare(tree.key[s[i]], tree.key[s[i + 1]]) < 0
    <3>1. i \in 1 .. Len(s) /\ i + 1 \in 1 .. Len(s) /\ i < i + 1
      BY <2>1
    <3>2. s[i] \in H /\ s[i + 1] \in H
      BY <2>1, <3>1 DEF Range
    <3>3. Val(tree, s[i]) < Val(tree, s[i + 1])
      BY <2>1, <3>1
    <3>4. Signed(tree.key[s[i]]) \in Int /\ Signed(tree.key[s[i + 1]]) \in Int
      BY <1>2, <3>2, SignedIs
    <3> QED BY <3>3, <3>4 DEF Val, cuiAddrTrackerCompare
  <2> QED BY <2>2 DEF KeysAscend, s
<1> QED BY <1>5, <1>6 DEF SearchTree

\* Whatever is registered and unregistered, and between the turns of a climb,
\* the pointers agree and the keys ascend.
THEOREM StaysSearchTree == Spec => []SearchTree
<1>1. IInv => SearchTree
  <2> SUFFICES ASSUME IInv
               PROVE  SearchTree
    OBVIOUS
  <2>1. PICK S : Search(tree, Inserted, S)
    BY DEF IInv, TreeInv
  <2>2. Tidy(tree, Inserted)
    BY DEF IInv, TreeInv
  <2> DEFINE H == Inserted
  <2>3. Search(tree, H, S) /\ Tidy(tree, H) /\ H = Inserted
    BY <2>1, <2>2
  <2> HIDE DEF H
  <2> QED BY <2>3, LinksAre
<1> QED BY <1>1, Invariant, PTL

----------------------------------------------------------------------------
(***************************************************************************)
(* Balance.                                                                *)
(***************************************************************************)

\* The sets that OnTheWayUp goes through.
Above(t, M) == M \cup {t.parent[n] : n \in M \ {NULL}}

UpBody(t, r, f) == [i \in Nat |-> IF i = 0 THEN {r} ELSE Above(t, f[i - 1])]

\* They exist.
LEMMA UpExists ==
    ASSUME NEW t \in AvlTrees, NEW r \in Pointer
    PROVE  \E f : f = UpBody(t, r, f)
<1> DEFINE D == SUBSET Pointer
           step == [M \in D |-> Above(t, M)]
           a == {r}
<1>1. a \in D
  OBVIOUS
<1>2. step \in [D -> D] /\ \A M \in D : step[M] = Above(t, M)
  <2>1. ASSUME NEW M \in D
        PROVE  Above(t, M) \in D
    <3>1. \A n \in M \ {NULL} : n \in Nodes /\ t.parent[n] \in Pointer
      BY TreeFields DEF Pointer
    <3> QED BY <3>1 DEF Above
  <2> HIDE DEF D
  <2> QED BY <2>1
<1> HIDE DEF step, D, a
<1>3. PICK f \in [Nat -> D] : Walks(f, a, step)
  BY <1>1, <1>2, WalkExists
<1>4. f[0] = a /\ \A i \in Nat : i # 0 => f[i] = Above(t, f[i - 1])
  <2>1. \A i \in Nat : i # 0 => i - 1 \in Nat
    OBVIOUS
  <2> QED BY <1>2, <1>3, <2>1 DEF Walks
<1>5. \A i \in Nat : f[i] = UpBody(t, r, f)[i]
  BY <1>4 DEF UpBody, a
<1> QED BY <1>3, <1>5 DEF UpBody

\* Whoever has r below it is on the way up.
LEMMA WayUp ==
    ASSUME NEW t, NEW H, NEW S, Search(t, H, S), NEW r \in H,
           NEW F, F = UpBody(t, r, F), NEW m \in H, r \in S[m]
    PROVE  m \in F[Cardinality(Nodes)]
<1>1. /\ F[0] = {r}
      /\ \A i \in Nat : F[i + 1] = Above(t, F[i])
  <2> DEFINE B == UpBody(t, r, F)
  <2>1. B[0] = {r}
    BY DEF UpBody
  <2>2. ASSUME NEW i \in Nat
        PROVE  B[i + 1] = Above(t, F[i])
    <3>1. i + 1 \in Nat /\ i + 1 # 0 /\ (i + 1) - 1 = i
      OBVIOUS
    <3>2. B[i + 1] = Above(t, F[(i + 1) - 1])
      BY <3>1 DEF UpBody
    <3> QED BY <3>1, <3>2
  <2>3. F = B
    OBVIOUS
  <2> HIDE DEF B
  <2>4. F[0] = B[0] /\ \A i \in Nat : F[i + 1] = B[i + 1]
    BY <2>3
  <2> QED BY <2>1, <2>2, <2>4
<1>2. \A i \in Nat : F[i] \subseteq F[i + 1]
  BY <1>1 DEF Above
<1>3. /\ \A n \in H : IsFiniteSet(S[n]) /\ Cardinality(S[n]) \in Nat /\ Cardinality(S[n]) <= Cardinality(H)
      /\ \A n \in H, side \in Sides : t.link[n][side] # NULL =>
            /\ t.link[n][side] \in H
            /\ Cardinality(S[t.link[n][side]]) < Cardinality(S[n])
  BY SpanSizes
<1>4. \A n \in H : n \in Nodes /\ n # NULL /\ n \in S[n]
  BY NodesAssumption DEF Search, Sorted, Keyed
<1> DEFINE Reached(k) == \A n \in H : r \in S[n] /\ Cardinality(S[n]) <= k => n \in F[k]
           T == {k \in Nat : r \in F[k] /\ Reached(k)}
<1>5. 0 \in T
  <2>1. \A n \in H : Cardinality(S[n]) # 0
    BY <1>3, <1>4, FS_EmptySet
  <2>2. \A n \in H : ~ (Cardinality(S[n]) <= 0)
    BY <1>3, <2>1
  <2> QED BY <1>1, <2>2
<1>6. ASSUME NEW k \in T
      PROVE  k + 1 \in T
  <2>1. r \in F[k + 1]
    BY <1>2
  <2>2. ASSUME NEW n \in H, r \in S[n], Cardinality(S[n]) <= k + 1
        PROVE  n \in F[k + 1]
    <3>1. CASE r = n
      BY <2>1, <3>1
    <3>2. CASE r # n
      <4>1. PICK side \in Sides : t.link[n][side] # NULL /\ r \in S[t.link[n][side]]
        BY <2>2, <3>2, SpanIs
      <4>2. \A c : c = t.link[n][side] /\ c # NULL => c \in H /\ t.parent[c] = n
        BY ChildIs
      <4>3. PICK c : c = t.link[n][side]
        OBVIOUS
      <4>4. c \in H /\ t.parent[c] = n /\ r \in S[c] /\ Cardinality(S[c]) < Cardinality(S[n])
        BY <4>1, <4>2, <4>3, <1>3
      <4>5. Cardinality(S[c]) <= k
        BY <4>4, <2>2, <1>3
      <4>6. c \in F[k] /\ c # NULL
        BY <4>4, <4>5, <1>4
      <4>7. k \in Nat
        OBVIOUS
      <4>8. t.parent[c] \in Above(t, F[k])
        BY <4>6 DEF Above
      <4> QED BY <4>4, <4>7, <4>8, <1>1
    <3> QED BY <3>1, <3>2
  <2> QED BY <2>1, <2>2
<1>7. T = Nat
  <2> HIDE DEF Reached
  <2>1. T \in SUBSET Nat
    OBVIOUS
  <2> HIDE DEF T
  <2> QED BY <1>5, <1>6, <2>1, AllNumbers
<1>8. Cardinality(H) <= Cardinality(Nodes) /\ Cardinality(Nodes) \in Nat /\ Cardinality(H) \in Nat
  <2>1. H \subseteq Nodes
    BY <1>4
  <2> QED BY <2>1, NodesAssumption, FS_Subset, FS_CardinalityType
<1>9. Cardinality(S[m]) <= Cardinality(Nodes)
  BY <1>3, <1>8
<1> QED BY <1>7, <1>8, <1>9

\* OnTheWayUp has every node that the climb is below.
LEMMA OnTheWayUpHas ==
    ASSUME NEW H, NEW S, Search(tree, H, S), rebalance \in H,
           NEW m \in H, rebalance \in S[m]
    PROVE  m \in OnTheWayUp
<1> DEFINE F == CHOOSE f : f = UpBody(tree, rebalance, f)
<1>1. F = UpBody(tree, rebalance, F)
  <2>1. tree \in AvlTrees /\ rebalance \in Pointer
    BY DEF Search, Keyed, Pointer
  <2> QED BY <2>1, UpExists
<1>2. OnTheWayUp = F[Cardinality(Nodes)]
  BY DEF OnTheWayUp, UpBody, Above
<1> HIDE DEF F
<1> DEFINE r == rebalance
<1>3. r \in H /\ r \in S[m] /\ F = UpBody(tree, r, F)
  BY <1>1
<1> HIDE DEF r
<1>4. m \in F[Cardinality(Nodes)]
  BY <1>3, WayUp
<1> QED BY <1>2, <1>4

\* What the heights say of the balance.
LEMMA BalanceIs ==
    ASSUME NEW H, NEW S, Search(tree, H, S), NEW V,
           NEW r, Heights(tree, H, S, r, isDelete, V)
    PROVE  /\ \A n \in H : r \notin S[n] =>
                 tree.height[n] = Taller(tree, n) /\ Lean(tree, n, "left") \in -1 .. 1
           /\ r # NULL => Lean(tree, r, "left") \in -2 .. 2
<1>1. /\ V \in [Pointer -> Nat] /\ V[NULL] = 0
      /\ \A m \in H : r \notin S[m] => V[m] = tree.height[m]
      /\ \A m \in H : m # r => Even(tree, V, m)
      /\ r # NULL => r \in H /\ \E side \in Sides, h \in Nat : Bent(tree, V, r, isDelete, side, h)
  BY DEF Heights
<1>2. /\ H \subseteq Nodes /\ NULL \notin Nodes /\ tree \in AvlTrees
      /\ \A n \in H : n \in S[n]
  BY NodesAssumption DEF Search, Sorted, Keyed
<1>3. "left" \in Sides /\ "right" \in Sides /\ Opposite("left") = "right" /\ Opposite("right") = "left"
  BY DEF Sides, Opposite
<1>4. ASSUME NEW n \in H, NEW d \in Sides, r \notin S[n] \/ r = n
      PROVE  /\ Height(tree, tree.link[n][d]) = V[tree.link[n][d]]
             /\ V[tree.link[n][d]] \in Nat
  <2> DEFINE c == tree.link[n][d]
  <2>1. c \in Pointer
    BY <1>2, TreeFields
  <2>2. CASE c = NULL
    BY <2>1, <2>2, <1>1 DEF Height
  <2>3. CASE c # NULL
    <3>1. \A x : x = tree.link[n][d] /\ x # NULL => x \in H /\ S[x] \subseteq S[n] /\ n \notin S[x]
      BY ChildIs
    <3>2. c \in H /\ r \notin S[c]
      BY <2>3, <3>1, <1>4
    <3> QED BY <2>1, <2>3, <3>2, <1>1 DEF Height
  <2> QED BY <2>2, <2>3
<1>5. ASSUME NEW n \in H, r \notin S[n]
      PROVE  tree.height[n] = Taller(tree, n) /\ Lean(tree, n, "left") \in -1 .. 1
  <2>1. n # r /\ Even(tree, V, n) /\ V[n] = tree.height[n]
    BY <1>1, <1>2, <1>5
  <2> DEFINE a == V[tree.link[n]["left"]]  b == V[tree.link[n]["right"]]
  <2>2. /\ Height(tree, tree.link[n]["left"]) = a /\ a \in Nat
        /\ Height(tree, tree.link[n]["right"]) = b /\ b \in Nat
    BY <1>3, <1>4, <1>5
  <2>3. tree.height[n] = 1 + Greater(a, b) /\ a <= 1 + b /\ b <= 1 + a
    BY <2>1, <1>3 DEF Even
  <2> HIDE DEF a, b
  <2>4. Lean(tree, n, "left") = a - b
    BY <2>2, <1>3 DEF Lean
  <2>5. Taller(tree, n) = 1 + Greater(a, b)
    BY <2>2 DEF Taller
  <2> QED BY <2>2, <2>3, <2>4, <2>5
<1>6. ASSUME r # NULL
      PROVE  Lean(tree, r, "left") \in -2 .. 2
  <2>1. PICK side \in Sides, h \in Nat : Bent(tree, V, r, isDelete, side, h)
    BY <1>1, <1>6
  <2> DEFINE a == V[tree.link[r][side]]  b == V[tree.link[r][Opposite(side)]]
  <2>2. Opposite(side) \in Sides
    BY SidesAre
  <2>3. /\ Height(tree, tree.link[r][side]) = a /\ a \in Nat
        /\ Height(tree, tree.link[r][Opposite(side)]) = b /\ b \in Nat
    BY <2>2, <1>1, <1>4, <1>6
  <2>4. h <= 1 + b /\ b <= 1 + h /\ (a = h \/ a = h - 1 \/ a = h + 1)
    BY <2>1 DEF Bent
  <2> HIDE DEF a, b
  <2>5. Lean(tree, r, "left") = a - b \/ Lean(tree, r, "left") = b - a
    BY <2>3 DEF Lean, Sides, Opposite
  <2> QED BY <2>3, <2>4, <2>5
<1> QED BY <1>5, <1>6

\* A node that the climb is not at and not below has the height of its subtree,
\* and its subtrees differ by at most 1.
LEMMA BalancedIs ==
    ASSUME IInv
    PROVE  Balanced
<1> DEFINE H == Inserted
<1>1. PICK S : Search(tree, H, S) /\ HasHeights(tree, H, S, rebalance, isDelete)
  BY DEF IInv, TreeInv
<1> HIDE DEF H
<1>2. PICK V : Heights(tree, H, S, rebalance, isDelete, V)
  BY <1>1 DEF HasHeights
<1> DEFINE r == rebalance
<1>3. Heights(tree, H, S, r, isDelete, V)
  BY <1>2
<1> HIDE DEF r
<1>4. /\ \A n \in H : r \notin S[n] =>
                 tree.height[n] = Taller(tree, n) /\ Lean(tree, n, "left") \in -1 .. 1
      /\ r # NULL => Lean(tree, r, "left") \in -2 .. 2
  BY <1>1, <1>3, BalanceIs
<1>5. ASSUME NEW n \in H, n \notin OnTheWayUp
      PROVE  r \notin S[n]
  <2>1. S[n] \subseteq H
    BY <1>1 DEF Search, Sorted, Keyed
  <2> QED BY <1>1, <1>5, <2>1, OnTheWayUpHas DEF r
<1> QED BY <1>4, <1>5 DEF Balanced, r, H

\* After every call every node has the height of its subtree and its subtrees
\* differ by at most 1, and during the climb every node that is not on its way.
THEOREM StaysBalanced == Spec => []Balanced
<1>1. IInv => Balanced
  BY BalancedIs
<1> QED BY <1>1, Invariant, PTL

----------------------------------------------------------------------------
(***************************************************************************)
(* The index.                                                              *)
(***************************************************************************)

\* What a step does to the registered nodes.
Stays    == Inserted' = Inserted /\ \A x \in Inserted : addr(x)' = addr(x)
Gains(n) == /\ n \notin Inserted /\ Inserted' = Inserted \cup {n}
            /\ \A x \in Inserted : addr(x)' = addr(x)
Loses(n) == /\ n \in Inserted /\ Inserted' = Inserted \ {n}
            /\ \A x \in Inserted \ {n} : addr(x)' = addr(x)

\* Every step leaves them as they are, or adds one, or takes one away.
LEMMA StepIs ==
    ASSUME IInv, [Next]_vars
    PROVE  Stays \/ \E n \in Nodes : Gains(n) \/ Loses(n)
<1>1. ASSUME tree' = tree
      PROVE  Stays
  BY <1>1 DEF Stays, Inserted, addr
<1>2. ASSUME Inserted = {}, tree' = Empty
      PROVE  Stays
  <2>1. Held(Empty) = {}
    BY EmptyIs DEF TreeInv
  <2> QED BY <2>1, <1>2 DEF Stays, Inserted, Held
<1>3. CASE cuiAddrTrackerInit
  <2>1. Inserted = {} /\ tree' = Empty
    BY <1>3 DEF cuiAddrTrackerInit, cuiAddrTrackerIsInitialized, IInv
  <2> QED BY <2>1, <1>2
<1>4. CASE cuiAddrTrackerDeinit
  <2>1. Inserted = {} /\ tree' = Empty
    BY <1>4 DEF cuiAddrTrackerDeinit, Registered
  <2> QED BY <2>1, <1>2
<1>5. ASSUME NEW r \in Ranges, MayRegister(r), Enter(r)
      PROVE  \E n \in Nodes : Gains(n)
  <2>1. r.node \in Nodes /\ Gains(r.node)
    BY <1>5, EnterKeeps DEF Gains
  <2> QED BY <2>1
<1>6. ASSUME NEW r \in Ranges, cuiAddrTrackerRegisterNodeOrReturnExisting(r)
      PROVE  Stays \/ \E n \in Nodes : Gains(n)
  <2>1. MayRegister(r) /\ (Enter(r) \/ tree' = tree)
    BY <1>6 DEF cuiAddrTrackerRegisterNodeOrReturnExisting, ReturnExisting, Exit, vars
  <2> QED BY <2>1, <1>1, <1>5
<1>7. ASSUME NEW r \in Ranges, cuiAddrTrackerRegisterNode(r)
      PROVE  Stays \/ \E n \in Nodes : Gains(n)
  <2>1. MayRegister(r) /\ (Enter(r) \/ tree' = tree)
    BY <1>7 DEF cuiAddrTrackerRegisterNode, Exit
  <2> QED BY <2>1, <1>1, <1>5
<1>8. ASSUME NEW n \in Nodes, cuiAddrTrackerUnregisterNode(n)
      PROVE  Loses(n)
  BY <1>8, UnregisterKeeps DEF Loses
<1>9. CASE Climb
  BY <1>9, ClimbKeepsIInv DEF Stays
<1>10. CASE UNCHANGED vars
  BY <1>10, <1>1 DEF vars
<1> QED BY <1>3, <1>4, <1>6, <1>7, <1>8, <1>9, <1>10 DEF Next

\* The walk in order has the registered nodes.
LEMMA OrderHas ==
    ASSUME NEW t, NEW H, H = Held(t), NEW S, Search(t, H, S), Tidy(t, H)
    PROVE  Range(InOrder(t)) = H
BY InOrderLists DEF Lists

\* Registering files one range and unregistering takes one out: neither
\* rotations nor removals from the middle lose another or give it another
\* address.
THEOREM ImplementsIndex == Spec => KeepsIndex
<1> DEFINE Filed == [n \in Range(InOrder(tree)) |-> addr(n)]
<1>1. IInv => Range(InOrder(tree)) = Inserted
  <2> SUFFICES ASSUME IInv
               PROVE  Range(InOrder(tree)) = Inserted
    OBVIOUS
  <2>1. Tidy(tree, Held(tree)) /\ \E S : Search(tree, Held(tree), S)
    BY InsertedIs DEF IInv, TreeInv
  <2> QED BY <2>1, OrderHas, InsertedIs
<1>2. IInv' => Range(InOrder(tree')) = Inserted'
  <2> SUFFICES ASSUME IInv'
               PROVE  Range(InOrder(tree')) = Inserted'
    OBVIOUS
  <2>1. Inserted' = Held(tree')
    BY DEF Inserted, Held
  <2>2. Tidy(tree', Held(tree')) /\ \E S : Search(tree', Held(tree'), S)
    BY <2>1 DEF IInv, TreeInv
  <2> QED BY <2>1, <2>2, OrderHas
<1>3. IInv' => \A n \in Inserted' : tree'.key[n] \in Addrs
  <2> SUFFICES ASSUME IInv'
               PROVE  \A n \in Inserted' : tree'.key[n] \in Addrs
    OBVIOUS
  <2>1. \E S : Search(tree', Inserted', S)
    BY DEF IInv, TreeInv
  <2> QED BY <2>1 DEF Search, Keyed
<1>4. Init => Index!Init
  <2> SUFFICES ASSUME Init
               PROVE  Index!Init
    OBVIOUS
  <2>1. IInv /\ tree = Empty
    BY InitIInv DEF Init, AvlInit
  <2>2. Inserted = {}
    BY <2>1, EmptyIs DEF TreeInv, Inserted, Held
  <2> QED BY <1>1, <2>1, <2>2 DEF Index!Init
<1>5. IInv /\ IInv' /\ [Next]_vars => [Index!Next]_Filed
  <2> SUFFICES ASSUME IInv, IInv', [Next]_vars
               PROVE  [Index!Next]_Filed
    OBVIOUS
  <2>1. /\ Filed = [n \in Inserted |-> tree.key[n]]
        /\ Filed' = [n \in Inserted' |-> tree'.key[n]]
    BY <1>1, <1>2 DEF addr
  <2>2. CASE Stays
    BY <2>1, <2>2 DEF Stays, addr
  <2>3. ASSUME NEW n \in Nodes, Gains(n)
        PROVE  Index!Next
    <3>1. Index!Insert(n)
      BY <2>1, <2>3, <1>1, <1>2, <1>3 DEF Gains, addr, Index!Insert
    <3> QED BY <3>1 DEF Index!Next
  <2>4. ASSUME NEW n \in Nodes, Loses(n)
        PROVE  Index!Next
    <3>1. Index!Remove(n)
      BY <2>1, <2>4, <1>1, <1>2 DEF Loses, addr, Index!Remove
    <3> QED BY <3>1 DEF Index!Next
  <2> QED BY <2>2, <2>3, <2>4, StepIs
<1> QED BY <1>4, <1>5, Invariant, PTL DEF Spec, KeepsIndex, Index!Spec

----------------------------------------------------------------------------
(***************************************************************************)
(* The queries.                                                            *)
(***************************************************************************)

\* Remainders.
LEMMA WrapIs ==
    ASSUME NEW a \in 0 .. (2 ^ Width - 1), NEW b \in 0 .. (2 ^ Width - 1)
    PROVE  /\ Wrap(a + b) \in Nat /\ Wrap(a + b) <= a + b
           /\ a + b < 2 ^ Width => Wrap(a + b) = a + b
           /\ a + b >= 2 ^ Width => Wrap(a + b) < a
<1> DEFINE M == 2 ^ Width
<1>1. M \in Nat \ {0}
  BY WidthAssumption, PowerType
<1>2. Wrap(a + b) = (a + b) % M /\ a \in 0 .. (M - 1) /\ b \in 0 .. (M - 1)
  BY DEF Wrap
<1> HIDE DEF M
<1>3. \A C \in Nat \ {0} : \A x \in 0 .. (C - 1) : x % C = x /\ (x + C) % C = x
  OBVIOUS
<1>4. CASE a + b < M
  <2>1. a + b \in 0 .. (M - 1)
    BY <1>1, <1>2, <1>4
  <2>2. (a + b) % M = a + b
    BY <1>1, <1>3, <2>1
  <2> QED BY <1>1, <1>2, <1>4, <2>1, <2>2 DEF M
<1>5. CASE a + b >= M
  <2>1. (a + b) - M \in 0 .. (M - 1) /\ ((a + b) - M) + M = a + b
    BY <1>1, <1>2, <1>5
  <2>2. (a + b) % M = (a + b) - M
    BY <1>1, <1>3, <2>1
  <2> QED BY <1>1, <1>2, <1>5, <2>1, <2>2 DEF M
<1> QED BY <1>1, <1>2, <1>4, <1>5

\* The registered nodes between calls.
LEMMA RegisteredAre ==
    ASSUME IInv
    PROVE  /\ Tidy(tree, Registered) /\ \E S : Search(tree, Registered, S)
           /\ Registered \subseteq Nodes /\ NULL \notin Nodes
           /\ \A n \in Registered : /\ addr(n) \in Addrs /\ addr(n) \in 0 .. (2 ^ Width - 1)
                                    /\ size[n] \in 0 .. (2 ^ Width - 1)
                                    /\ Signed(addr(n)) \in Int /\ Val(tree, n) = Signed(addr(n))
<1>1. Tidy(tree, Registered) /\ \E S : Search(tree, Registered, S)
  BY DEF IInv, TreeInv, Registered
<1>2. Registered \subseteq Nodes /\ NULL \notin Nodes /\ \A n \in Registered : addr(n) \in Addrs
  BY <1>1, NodesAssumption DEF Search, Keyed, addr
<1>3. \A n \in Registered : addr(n) \in 0 .. (2 ^ Width - 1) /\ size[n] \in 0 .. (2 ^ Width - 1)
  BY <1>2, DifferenceAssumption DEF IInv
<1>4. \A n \in Registered : Signed(addr(n)) \in Int /\ Val(tree, n) = Signed(addr(n))
  BY <1>2, SignedIs DEF Val, addr
<1> QED BY <1>1, <1>2, <1>3, <1>4

\* The comparison is the order of the tree.
LEMMA ComparesPast ==
    ASSUME IInv, NEW m \in Registered, NEW n \in Registered
    PROVE  /\ cuiAddrTrackerCompare(addr(m), addr(n)) > 0 <=> Past(tree, "right", n, m)
           /\ cuiAddrTrackerCompare(addr(m), addr(n)) > 0 <=> Past(tree, "left", m, n)
BY RegisteredAre DEF cuiAddrTrackerCompare, Past

\* Successor and predecessor.
LEMMA NeighboursAre ==
    ASSUME NEW t, NEW H, NEW S, Search(t, H, S), Tidy(t, H), NEW n \in H,
           NEW next, next = cuAvlTreeNodeInOrderSuccessor(t, n)
    PROVE  IF next = NULL THEN \A x \in H : ~ Past(t, "right", n, x)
           ELSE /\ next \in H /\ Past(t, "right", n, next)
                /\ \A x \in H : Past(t, "right", n, x) => x = next \/ Past(t, "right", next, x)
                /\ cuAvlTreeNodeInOrderPredecessor(t, next) = n
<1>0. "right" \in Sides /\ "left" \in Sides /\ Opposite("right") = "left" /\ Opposite("left") = "right"
  BY DEF Sides, Opposite
<1>1. next = Neighbour(t, n, "right")
  BY DEF cuAvlTreeNodeInOrderSuccessor
<1>2. IF next = NULL THEN \A x \in H : ~ Past(t, "right", n, x)
      ELSE /\ next \in H /\ Past(t, "right", n, next)
           /\ \A x \in H : Past(t, "right", n, x) => x = next \/ Past(t, "right", next, x)
  BY <1>0, <1>1, NeighbourIs
<1>3. ASSUME next # NULL
      PROVE  cuAvlTreeNodeInOrderPredecessor(t, next) = n
  <2> DEFINE p == Neighbour(t, next, "left")
  <2>1. next \in H
    BY <1>2, <1>3
  <2>2. IF p = NULL THEN \A x \in H : ~ Past(t, "left", next, x)
        ELSE /\ p \in H /\ Past(t, "left", next, p)
             /\ \A x \in H : Past(t, "left", next, x) => x = p \/ Past(t, "left", p, x)
    <3>1. \A a : a = p =>
             IF a = NULL THEN \A x \in H : ~ Past(t, "left", next, x)
             ELSE /\ a \in H /\ Past(t, "left", next, a)
                  /\ \A x \in H : Past(t, "left", next, x) => x = a \/ Past(t, "left", a, x)
      BY <1>0, <2>1, NeighbourIs
    <3> QED BY <3>1
  <2>3. cuAvlTreeNodeInOrderPredecessor(t, next) = p
    BY DEF cuAvlTreeNodeInOrderPredecessor
  <2> HIDE DEF p
  <2>4. Past(t, "left", next, n)
    BY <1>2, <1>3 DEF Past
  <2>5. p \in H /\ Past(t, "left", next, p) /\ (n = p \/ Past(t, "left", p, n))
    BY <2>2, <2>4
  <2>6. ~ Past(t, "left", p, n)
    <3>1. SUFFICES ASSUME Past(t, "left", p, n)
                   PROVE  FALSE
      OBVIOUS
    <3>2. Past(t, "right", n, p)
      BY <3>1 DEF Past
    <3>3. p = next \/ Past(t, "right", next, p)
      BY <3>2, <1>2, <1>3, <2>5
    <3>4. Val(t, p) \in Int /\ Val(t, next) \in Int
      BY <2>1, <2>5, SignedIs DEF Search, Keyed, Val
    <3> QED BY <2>5, <3>3, <3>4 DEF Past
  <2> QED BY <2>3, <2>5, <2>6
<1> QED BY <1>2, <1>3

\* The limits of cuiAddrTrackerNodeGetNextWithLimit.
LEMMA LimitsAre ==
    ASSUME IInv, NEW n \in Registered, NEW limit \in Probes,
           NEW next, next = cuiAddrTrackerNodeNext(n),
           next # NULL => next \in Registered /\ Past(tree, "right", n, next)
    PROVE  /\ cuiAddrTrackerNodeGetNextWithLimit(n, limit, FALSE) =
                 IF next = NULL THEN NULL ELSE IF addr(next) < limit THEN next ELSE NULL
           /\ \A near : near = cuiAddrTrackerNodeGetNextWithLimit(n, limit, TRUE) =>
                 (near # NULL /\ InLowerHalf => addr(near) = addr(n) + size[n])
<1>1. next = cuAvlTreeNodeInOrderSuccessor(tree, n)
  BY DEF cuiAddrTrackerNodeNext
<1>2. limit \in Nat
  BY DifferenceAssumption DEF Addrs
<1>3. next # NULL => addr(next) \in Nat
  BY RegisteredAre
<1>4. cuiAddrTrackerNodeGetNextWithLimit(n, limit, FALSE) =
         IF next = NULL THEN NULL ELSE IF addr(next) < limit THEN next ELSE NULL
  BY <1>1, <1>2, <1>3 DEF cuiAddrTrackerNodeGetNextWithLimit
<1>5. ASSUME NEW near, near = cuiAddrTrackerNodeGetNextWithLimit(n, limit, TRUE),
             near # NULL, InLowerHalf
      PROVE  addr(near) = addr(n) + size[n]
  <2>1. near = next /\ next # NULL /\ addr(next) = Wrap(addr(n) + size[n])
    BY <1>1, <1>5 DEF cuiAddrTrackerNodeGetNextWithLimit
  <2>2. addr(n) < addr(next)
    BY <2>1, <1>5, RegisteredAre DEF Past, InLowerHalf, Signed
  <2>3. addr(n) \in 0 .. (2 ^ Width - 1) /\ size[n] \in 0 .. (2 ^ Width - 1) /\ addr(next) \in Nat
    BY <2>1, <1>3, RegisteredAre
  <2> DEFINE a == addr(n)  b == size[n]  M == 2 ^ Width
  <2>4. /\ a + b < M => Wrap(a + b) = a + b
        /\ a + b >= M => Wrap(a + b) < a
    BY <2>3, WrapIs
  <2>5. M \in Nat
    BY WidthAssumption, PowerType
  <2> HIDE DEF M
  <2> QED BY <2>1, <2>2, <2>3, <2>4, <2>5
<1> QED BY <1>4, <1>5

\* The neighbours in order, from the invariant.
LEMMA NextIs ==
    ASSUME IInv
    PROVE  NextInOrder
<1> DEFINE H == Registered
<1>1. /\ Tidy(tree, H) /\ H \subseteq Nodes /\ NULL \notin Nodes
  BY RegisteredAre
<1>2. PICK S : Search(tree, H, S)
  BY RegisteredAre
<1> SUFFICES ASSUME NEW n \in H
             PROVE  LET next  == cuiAddrTrackerNodeNext(n)
                        above == {m \in H : cuiAddrTrackerCompare(addr(m), addr(n)) > 0}
                    IN  /\ IF above = {} THEN next = NULL
                           ELSE /\ next \in above
                                /\ \A m \in above \ {next} :
                                      cuiAddrTrackerCompare(addr(m), addr(next)) > 0
                                /\ cuAvlTreeNodeInOrderPredecessor(tree, next) = n
                        /\ \A limit \in Probes :
                              /\ cuiAddrTrackerNodeGetNextWithLimit(n, limit, FALSE) =
                                    IF next = NULL THEN NULL
                                    ELSE IF addr(next) < limit THEN next ELSE NULL
                              /\ LET near == cuiAddrTrackerNodeGetNextWithLimit(n, limit, TRUE)
                                 IN  near # NULL /\ InLowerHalf => addr(near) = addr(n) + size[n]
  BY DEF NextInOrder
<1> DEFINE next == cuiAddrTrackerNodeNext(n)
           above == {m \in H : cuiAddrTrackerCompare(addr(m), addr(n)) > 0}
<1>3. \A m \in H, x \in H :
         cuiAddrTrackerCompare(addr(m), addr(x)) > 0 <=> Past(tree, "right", x, m)
  BY ComparesPast
<1>4. next = cuAvlTreeNodeInOrderSuccessor(tree, n)
  BY DEF cuiAddrTrackerNodeNext
<1>5. above = {m \in H : Past(tree, "right", n, m)}
  BY <1>3
<1>6. \A limit \in Probes :
         (next # NULL => next \in H /\ Past(tree, "right", n, next)) =>
            /\ cuiAddrTrackerNodeGetNextWithLimit(n, limit, FALSE) =
                  IF next = NULL THEN NULL ELSE IF addr(next) < limit THEN next ELSE NULL
            /\ \A near : near = cuiAddrTrackerNodeGetNextWithLimit(n, limit, TRUE) =>
                  (near # NULL /\ InLowerHalf => addr(near) = addr(n) + size[n])
  BY LimitsAre
<1> HIDE DEF H, next, above
<1>7. IF next = NULL THEN \A x \in H : ~ Past(tree, "right", n, x)
      ELSE /\ next \in H /\ Past(tree, "right", n, next)
           /\ \A x \in H : Past(tree, "right", n, x) => x = next \/ Past(tree, "right", next, x)
           /\ cuAvlTreeNodeInOrderPredecessor(tree, next) = n
  BY <1>1, <1>2, <1>4, NeighboursAre
<1>8. /\ above = {} => next = NULL
      /\ above # {} => /\ next \in above
                       /\ \A m \in above \ {next} :
                             cuiAddrTrackerCompare(addr(m), addr(next)) > 0
                       /\ cuAvlTreeNodeInOrderPredecessor(tree, next) = n
  BY <1>3, <1>5, <1>7
<1>9. \A limit \in Probes :
         /\ cuiAddrTrackerNodeGetNextWithLimit(n, limit, FALSE) =
               IF next = NULL THEN NULL ELSE IF addr(next) < limit THEN next ELSE NULL
         /\ \A near : near = cuiAddrTrackerNodeGetNextWithLimit(n, limit, TRUE) =>
               (near # NULL /\ InLowerHalf => addr(near) = addr(n) + size[n])
  BY <1>6, <1>7
<1> QED BY <1>8, <1>9 DEF H, next, above

\* From every node the next one is the nearest above it, and its predecessor is
\* the way back; with a limit and for adjacent ranges too.
THEOREM NextIsNearest == Spec => []NextInOrder
<1>1. IInv => NextInOrder
  BY NextIs
<1> QED BY <1>1, Invariant, PTL

\* What FindNode does at each node.
NodeDir(a)   == [n \in Nodes |-> Side(cuiAddrTrackerNodeCompare(a, n))]
NodeAt(a)    == {n \in Nodes : cuiAddrTrackerNodeCompare(a, n) = 0}

\* The walk of FindNode.
LEMMA FindNodeWalks ==
    ASSUME NEW H, NEW S, Search(tree, H, S), Tidy(tree, H), NEW a
    PROVE  \E F : /\ WalksDown(tree, F, NodeDir(a), NodeAt(a), NodeAt(a))
                  /\ cuiAddrTrackerFindNode(a) = F[tree.root]
<1> DEFINE E(f) ==
              [n \in Pointer |->
                  IF n = NULL THEN NULL
                  ELSE LET below == IF cuiAddrTrackerNodeCompare(a, n) = 0 THEN NULL
                                    ELSE f[tree.link[n][Side(cuiAddrTrackerNodeCompare(a, n))]]
                       IN  IF below = NULL /\ cuiAddrTrackerNodeCompare(a, n) = 0
                           THEN n ELSE below]
           B(f) == BestBody(tree, NodeDir(a), NodeAt(a), NodeAt(a), f)
           g    == CHOOSE f : f = E(f)
<1>1. cuiAddrTrackerFindNode(a) = g[tree.root]
  BY DEF cuiAddrTrackerFindNode, Find, Best
<1>2. ASSUME NEW f PROVE E(f) = B(f)
  <2>1. \A n \in Nodes :
           Onward(tree, f, NodeDir(a), NodeAt(a), n)
              = IF cuiAddrTrackerNodeCompare(a, n) = 0 THEN NULL
                ELSE f[tree.link[n][Side(cuiAddrTrackerNodeCompare(a, n))]]
    BY DEF Onward, NodeDir, NodeAt
  <2>2. \A n \in Pointer : E(f)[n] = B(f)[n]
    BY <2>1 DEF BestBody, NodeAt, Pointer
  <2> QED BY <2>2 DEF BestBody
<1>3. \E f : f = B(f)
  <2> DEFINE dir == NodeDir(a)  at == NodeAt(a)
  <2>1. dir \in [Nodes -> Sides]
    BY DEF NodeDir, Side, Sides
  <2> HIDE DEF dir, at
  <2>2. \E f : f = BestBody(tree, dir, at, at, f)
    BY <2>1, DownExists
  <2> QED BY <2>2 DEF dir, at
<1> HIDE DEF E, B
<1>4. g = E(g)
  BY <1>2, <1>3
<1> HIDE DEF g
<1>5. WalksDown(tree, g, NodeDir(a), NodeAt(a), NodeAt(a))
  BY <1>2, <1>4, DownIs DEF B
<1> QED BY <1>1, <1>5

\* A search for an address.
LEMMA FindsRange ==
    ASSUME IInv, Disjoint, NEW a \in Probes
    PROVE  /\ cuiAddrTrackerFindNode(a) # NULL => cuiAddrTrackerFindNode(a) \in Holders(a)
           /\ InLowerHalf /\ Holders(a) # {} => cuiAddrTrackerFindNode(a) # NULL
<1> DEFINE H == Registered  dir == NodeDir(a)  at == NodeAt(a)
<1>1. /\ Tidy(tree, H) /\ H \subseteq Nodes /\ NULL \notin Nodes
      /\ \A n \in H : /\ addr(n) \in 0 .. (2 ^ Width - 1) /\ size[n] \in 0 .. (2 ^ Width - 1)
                      /\ Val(tree, n) = Signed(addr(n))
  BY RegisteredAre
<1>2. PICK S : Search(tree, H, S)
  BY RegisteredAre
<1>3. PICK F : WalksDown(tree, F, dir, at, at) /\ cuiAddrTrackerFindNode(a) = F[tree.root]
  BY <1>1, <1>2, FindNodeWalks
<1>4. dir \in [Nodes -> Sides]
  BY DEF NodeDir, Side, Sides
<1>5. a \in Nat
  BY DifferenceAssumption DEF Addrs
<1>6. ASSUME NEW n \in H
      PROVE  /\ addr(n) \in Nat /\ size[n] \in Nat /\ Wrap(addr(n) + size[n]) \in Nat
             /\ Wrap(addr(n) + size[n]) <= addr(n) + size[n]
             /\ addr(n) + size[n] < 2 ^ Width => Wrap(addr(n) + size[n]) = addr(n) + size[n]
  BY <1>1, WrapIs
<1>7. ASSUME NEW n \in H
      PROVE  n \in at <=> a >= addr(n) /\ a < Wrap(addr(n) + size[n])
  BY <1>1 DEF NodeAt, cuiAddrTrackerNodeCompare
<1>8. \A n \in H : n \in at => n \in Holders(a)
  <2> SUFFICES ASSUME NEW n \in H, n \in at
               PROVE  a \in addr(n) .. (addr(n) + size[n] - 1)
    BY DEF Holders
  <2> QED BY <1>5, <1>6, <1>7
<1>9. ASSUME NEW x \in H, NEW m \in Holders(a), NEW d \in Sides, Past(tree, d, x, m), InLowerHalf
      PROVE  x \notin at /\ dir[x] = d
  <2>1. m \in H /\ addr(m) <= a /\ a < addr(m) + size[m] /\ addr(m) \in Nat /\ size[m] \in Nat
    BY <1>5, <1>6 DEF Holders
  <2>2. IF d = "left" THEN addr(m) < addr(x) ELSE addr(x) < addr(m)
    BY <2>1, <1>1, <1>9 DEF Past, InLowerHalf, Signed
  <2>3. x \in Nodes /\ addr(x) \in Nat /\ size[x] \in Nat
        /\ Wrap(addr(x) + size[x]) \in Nat /\ Wrap(addr(x) + size[x]) <= addr(x) + size[x]
    BY <1>1, <1>6
  <2>4. CASE d = "left"
    <3>1. addr(m) + size[m] <= addr(x)
      BY <2>1, <2>2, <2>4, <1>9 DEF Disjoint
    <3>2. a < addr(x)
      BY <2>1, <2>3, <3>1, <1>5
    <3>3. cuiAddrTrackerNodeCompare(a, x) = -1
      BY <2>3, <3>2, <1>5 DEF cuiAddrTrackerNodeCompare
    <3> QED BY <2>3, <2>4, <3>3 DEF NodeDir, NodeAt, Side
  <2>5. CASE d = "right"
    <3>1. addr(x) + size[x] <= addr(m)
      BY <2>1, <2>2, <2>5, <1>9 DEF Disjoint
    <3>2. a >= addr(x) /\ ~ (a < Wrap(addr(x) + size[x])) /\ ~ (a < addr(x))
      BY <2>1, <2>3, <3>1, <1>5
    <3>3. cuiAddrTrackerNodeCompare(a, x) = 1
      BY <2>3, <3>2, <1>5 DEF cuiAddrTrackerNodeCompare
    <3> QED BY <2>3, <2>5, <3>3 DEF NodeDir, NodeAt, Side
  <2> QED BY <2>4, <2>5 DEF Sides
<1>10. ASSUME NEW m \in Holders(a), InLowerHalf
       PROVE  m \in H /\ m \in at
  <2>1. m \in H /\ addr(m) <= a /\ a < addr(m) + size[m]
    BY <1>5, <1>6 DEF Holders
  <2>2. Wrap(addr(m) + size[m]) = addr(m) + size[m]
    BY <2>1, <1>6, <1>10 DEF Disjoint
  <2> QED BY <2>1, <2>2, <1>7
<1> HIDE DEF H, dir, at
<1>11. F[tree.root] # NULL => F[tree.root] \in H /\ F[tree.root] \in at
  BY <1>2, <1>3, <1>4, SteersTo
<1>12. ASSUME NEW m \in Holders(a), InLowerHalf
       PROVE  F[tree.root] # NULL
  <2>1. m \in H /\ m \in at
    BY <1>10, <1>12
  <2>2. ASSUME NEW x \in H, m \in S[x], m # x
        PROVE  x \notin at /\ m \in Span(S, tree.link[x][dir[x]])
    <3>1. PICK d \in Sides : tree.link[x][d] # NULL /\ m \in S[tree.link[x][d]]
      BY <1>2, <2>2, SpanIs
    <3>2. m \in Span(S, tree.link[x][d])
      BY <3>1 DEF Span
    <3>3. Past(tree, d, x, m)
      BY <3>2, <1>2 DEF Search, Sorted
    <3> QED BY <3>2, <3>3, <1>9, <1>12
  <2> QED BY <2>1, <2>2, <1>2, <1>3, <1>4, SteersTo
<1> QED BY <1>3, <1>8, <1>11, <1>12

\* The search for an address finds the range that holds it, whatever the shape
\* of the tree, and never another.
THEOREM AddressesFound == Spec => [](Disjoint => FindNodeFindsRange)
<1>1. IInv => (Disjoint => FindNodeFindsRange)
  BY FindsRange DEF FindNodeFindsRange
<1> QED BY <1>1, Invariant, PTL

\* In the lower half the order of the tree is that of the addresses, and the
\* code's sums do not wrap.
LEMMA LowerHalf ==
    ASSUME IInv, InLowerHalf, Disjoint
    PROVE  /\ \A n \in Registered : /\ addr(n) \in Nat /\ size[n] \in Nat
                                    /\ Wrap(addr(n) + size[n]) = addr(n) + size[n]
           /\ \A m, n \in Registered : Past(tree, "right", m, n) <=> addr(m) < addr(n)
           /\ \A m, n \in Registered : Past(tree, "left", m, n) <=> addr(n) < addr(m)
           /\ \A a \in Nat, n \in Registered : a < 2 ^ (Width - 1) =>
                 cuiAddrTrackerCompare(a, addr(n)) = a - addr(n)
           /\ \A m, n \in Registered : addr(m) < addr(n) => addr(m) + size[m] <= addr(n)
<1>1. ASSUME NEW n \in Registered
      PROVE  /\ addr(n) \in Nat /\ size[n] \in Nat
             /\ Wrap(addr(n) + size[n]) = addr(n) + size[n]
             /\ Val(tree, n) = addr(n) /\ Signed(addr(n)) = addr(n)
  <2>1. addr(n) \in 0 .. (2 ^ Width - 1) /\ size[n] \in 0 .. (2 ^ Width - 1)
        /\ Val(tree, n) = Signed(addr(n))
    BY RegisteredAre
  <2>2. Wrap(addr(n) + size[n]) = addr(n) + size[n]
    BY <2>1, WrapIs DEF Disjoint
  <2>3. Signed(addr(n)) = addr(n)
    BY DEF InLowerHalf, Signed
  <2> QED BY <2>1, <2>2, <2>3
<1>2. \A a \in Nat, n \in Registered : a < 2 ^ (Width - 1) =>
                 cuiAddrTrackerCompare(a, addr(n)) = a - addr(n)
  BY <1>1 DEF cuiAddrTrackerCompare, Signed
<1> QED BY <1>1, <1>2 DEF Past, Disjoint

\* The first node from lo on.
LEMMA GEQFinds ==
    ASSUME IInv, InLowerHalf, Disjoint, NEW lo \in Nat, lo < 2 ^ (Width - 1),
           NEW n, n = cuAvlTreeNodeFindGEQ(tree, lo)
    PROVE  IF n = NULL THEN \A m \in Registered : addr(m) < lo
           ELSE /\ n \in Registered /\ addr(n) >= lo
                /\ \A m \in Registered : addr(m) >= lo => m = n \/ addr(n) < addr(m)
<1> DEFINE H == Registered  dir == KeyDir(tree, lo)  at == KeyAt(tree, lo)  pass == KeyFrom(tree, lo)
<1>1. /\ Tidy(tree, H) /\ H \subseteq Nodes /\ NULL \notin Nodes
  BY RegisteredAre
<1>2. PICK S : Search(tree, H, S)
  BY RegisteredAre
<1>3. PICK F : WalksDown(tree, F, dir, at, pass) /\ n = F[tree.root]
  BY <1>1, <1>2, GEQWalks
<1>4. dir \in [Nodes -> Sides]
  BY KeyDirIs
<1>5. ASSUME NEW m \in H
      PROVE  /\ m \in at <=> lo = addr(m)
             /\ m \in pass <=> lo <= addr(m)
             /\ dir[m] = IF lo < addr(m) THEN "left" ELSE "right"
             /\ addr(m) \in Nat
  <2>1. cuiAddrTrackerCompare(lo, tree.key[m]) = lo - addr(m) /\ addr(m) \in Nat /\ m \in Nodes
    BY <1>1, LowerHalf DEF addr
  <2> QED BY <2>1 DEF KeyDir, KeyAt, KeyFrom, Side
<1>6. \A a, b \in H : /\ Past(tree, "right", a, b) <=> addr(a) < addr(b)
                      /\ Past(tree, "left", a, b) <=> addr(b) < addr(a)
  BY LowerHalf
<1> DEFINE side == "right"
<1>7. side \in Sides /\ Opposite(side) = "left"
  BY DEF Sides, Opposite
<1>8. \A a \in H \cap pass, b \in H : Past(tree, side, a, b) => b \in pass
  BY <1>5, <1>6
<1>9. \A a \in H \cap at : /\ a \in pass
                           /\ \A b \in H : Past(tree, Opposite(side), a, b) => b \notin pass
  BY <1>5, <1>6, <1>7
<1>10. \A a \in H \ at : dir[a] = IF a \in pass THEN Opposite(side) ELSE side
  BY <1>5, <1>7
<1> HIDE DEF H, dir, at, pass, side
<1>11. IF F[tree.root] = NULL THEN H \cap pass = {}
       ELSE /\ F[tree.root] \in H \cap pass
            /\ \A m \in H \cap pass : m = F[tree.root] \/ Past(tree, side, F[tree.root], m)
  BY <1>2, <1>3, <1>4, <1>7, <1>8, <1>9, <1>10, FirstToPass
<1>12. CASE n = NULL
  <2>1. \A m \in H : addr(m) < lo
    BY <1>3, <1>5, <1>11, <1>12
  <2> QED BY <2>1, <1>12 DEF H
<1>13. CASE n # NULL
  <2>1. n \in H /\ addr(n) >= lo
    BY <1>3, <1>5, <1>11, <1>13
  <2>2. \A m \in H : addr(m) >= lo => m = n \/ Past(tree, side, n, m)
    BY <1>3, <1>5, <1>11, <1>13
  <2>3. \A m \in H : addr(m) >= lo => m = n \/ addr(n) < addr(m)
    BY <2>1, <2>2, <1>6 DEF side
  <2> QED BY <2>1, <2>3, <1>13 DEF H
<1> QED BY <1>12, <1>13

\* The last node up to a.
LEMMA LEQFinds ==
    ASSUME IInv, InLowerHalf, Disjoint, NEW a \in Nat, a < 2 ^ (Width - 1),
           NEW n, n = cuAvlTreeNodeFindLEQ(tree, a)
    PROVE  IF n = NULL THEN \A m \in Registered : addr(m) > a
           ELSE /\ n \in Registered /\ addr(n) <= a
                /\ \A m \in Registered : addr(m) <= a => m = n \/ addr(m) < addr(n)
<1> DEFINE H == Registered  dir == KeyDir(tree, a)  at == KeyAt(tree, a)  pass == KeyUpto(tree, a)
<1>1. /\ Tidy(tree, H) /\ H \subseteq Nodes /\ NULL \notin Nodes
  BY RegisteredAre
<1>2. PICK S : Search(tree, H, S)
  BY RegisteredAre
<1>3. PICK F : WalksDown(tree, F, dir, at, pass) /\ n = F[tree.root]
  BY <1>1, <1>2, LEQWalks
<1>4. dir \in [Nodes -> Sides]
  BY KeyDirIs
<1>5. ASSUME NEW m \in H
      PROVE  /\ m \in at <=> a = addr(m)
             /\ m \in pass <=> a >= addr(m)
             /\ dir[m] = IF a < addr(m) THEN "left" ELSE "right"
             /\ addr(m) \in Nat
  <2>1. cuiAddrTrackerCompare(a, tree.key[m]) = a - addr(m) /\ addr(m) \in Nat /\ m \in Nodes
    BY <1>1, LowerHalf DEF addr
  <2> QED BY <2>1 DEF KeyDir, KeyAt, KeyUpto, Side
<1>6. \A x, b \in H : /\ Past(tree, "right", x, b) <=> addr(x) < addr(b)
                      /\ Past(tree, "left", x, b) <=> addr(b) < addr(x)
  BY LowerHalf
<1> DEFINE side == "left"
<1>7. side \in Sides /\ Opposite(side) = "right"
  BY DEF Sides, Opposite
<1>8. \A x \in H \cap pass, b \in H : Past(tree, side, x, b) => b \in pass
  BY <1>5, <1>6
<1>9. \A x \in H \cap at : /\ x \in pass
                           /\ \A b \in H : Past(tree, Opposite(side), x, b) => b \notin pass
  BY <1>5, <1>6, <1>7
<1>10. \A x \in H \ at : dir[x] = IF x \in pass THEN Opposite(side) ELSE side
  BY <1>5, <1>7
<1> HIDE DEF H, dir, at, pass, side
<1>11. IF F[tree.root] = NULL THEN H \cap pass = {}
       ELSE /\ F[tree.root] \in H \cap pass
            /\ \A m \in H \cap pass : m = F[tree.root] \/ Past(tree, side, F[tree.root], m)
  BY <1>2, <1>3, <1>4, <1>7, <1>8, <1>9, <1>10, FirstToPass
<1>12. CASE n = NULL
  <2>1. \A m \in H : addr(m) > a
    BY <1>3, <1>5, <1>11, <1>12
  <2> QED BY <2>1, <1>12 DEF H
<1>13. CASE n # NULL
  <2>1. n \in H /\ addr(n) <= a
    BY <1>3, <1>5, <1>11, <1>13
  <2>2. \A m \in H : addr(m) <= a => m = n \/ Past(tree, side, n, m)
    BY <1>3, <1>5, <1>11, <1>13
  <2>3. \A m \in H : addr(m) <= a => m = n \/ addr(m) < addr(n)
    BY <2>1, <2>2, <1>6 DEF side
  <2> QED BY <2>1, <2>3, <1>13 DEF H
<1> QED BY <1>12, <1>13

\* The end of a registered range.
EndOf(n) == addr(n) + size[n]

\* The first range that lies between two limits.
LEMMA FirstInRange ==
    ASSUME IInv, InLowerHalf, Disjoint, NEW lo \in Nat, NEW hi \in Nat,
           lo < 2 ^ (Width - 1),
           NEW first, first = cuiAddrTrackerFindFirstNodeInRange(lo, hi),
           NEW inside, inside = {n \in Registered : addr(n) >= lo /\ EndOf(n) <= hi}
    PROVE  IF inside = {} THEN first = NULL
           ELSE first \in inside /\ \A n \in inside : addr(first) <= addr(n)
<1> DEFINE g == cuAvlTreeNodeFindGEQ(tree, lo)
<1>1. IF g = NULL THEN \A m \in Registered : addr(m) < lo
      ELSE /\ g \in Registered /\ addr(g) >= lo
           /\ \A m \in Registered : addr(m) >= lo => m = g \/ addr(g) < addr(m)
  BY GEQFinds
<1>2. first = IF g = NULL THEN NULL ELSE IF Wrap(addr(g) + size[g]) > hi THEN NULL ELSE g
  BY DEF cuiAddrTrackerFindFirstNodeInRange
<1> HIDE DEF g
<1>3. /\ \A n \in Registered : /\ addr(n) \in Nat /\ size[n] \in Nat
                               /\ Wrap(addr(n) + size[n]) = EndOf(n) /\ EndOf(n) = addr(n) + size[n]
      /\ \A m, n \in Registered : addr(m) < addr(n) => EndOf(m) <= addr(n)
  BY LowerHalf DEF EndOf
<1>4. NULL \notin Registered
  BY RegisteredAre
<1>5. CASE g = NULL
  <2>1. inside = {}
    BY <1>1, <1>3, <1>5
  <2> QED BY <2>1, <1>2, <1>5
<1>6. CASE g # NULL /\ EndOf(g) > hi
  <2>1. \A n \in inside : FALSE
    <3> SUFFICES ASSUME NEW n \in inside
                 PROVE  FALSE
      OBVIOUS
    <3>1. n \in Registered /\ addr(n) >= lo /\ EndOf(n) <= hi
      OBVIOUS
    <3>2. n = g \/ EndOf(g) <= addr(n)
      BY <3>1, <1>1, <1>3, <1>6
    <3>3. g \in Registered /\ EndOf(g) \in Nat /\ EndOf(n) \in Nat /\ addr(n) <= EndOf(n)
      BY <3>1, <1>1, <1>3, <1>6
    <3> QED BY <3>1, <3>2, <3>3, <1>3, <1>6
  <2> QED BY <2>1, <1>1, <1>2, <1>3, <1>6
<1>7. CASE g # NULL /\ ~ (EndOf(g) > hi)
  <2>1. first = g /\ g \in inside
    BY <1>1, <1>2, <1>3, <1>7
  <2>2. \A n \in inside : addr(g) <= addr(n)
    BY <1>1, <1>3, <1>7
  <2> QED BY <2>1, <2>2
<1> QED BY <1>5, <1>6, <1>7

\* Whether a range reaches between two limits.
LEMMA EmptyForRange ==
    ASSUME IInv, InLowerHalf, Disjoint, NEW lo \in Nat, NEW hi \in Nat,
           lo < hi, hi <= 2 ^ (Width - 1),
           NEW touching, touching = {n \in Registered : addr(n) < hi /\ EndOf(n) > lo}
    PROVE  cuiAddrTrackerIsEmptyForRange(lo, hi) <=> touching = {}
<1> DEFINE g == cuAvlTreeNodeFindLEQ(tree, hi - 1)
<1>0. 2 ^ (Width - 1) \in Nat
  BY WidthAssumption, PowerType
<1>1. IF g = NULL THEN \A m \in Registered : addr(m) > hi - 1
      ELSE /\ g \in Registered /\ addr(g) <= hi - 1
           /\ \A m \in Registered : addr(m) <= hi - 1 => m = g \/ addr(m) < addr(g)
  <2> DEFINE a == hi - 1  P == 2 ^ (Width - 1)
  <2>1. a \in Nat /\ a < P
    BY <1>0
  <2>2. g = cuAvlTreeNodeFindLEQ(tree, a)
    OBVIOUS
  <2> HIDE DEF a, g
  <2>3. IF g = NULL THEN \A m \in Registered : addr(m) > a
        ELSE /\ g \in Registered /\ addr(g) <= a
             /\ \A m \in Registered : addr(m) <= a => m = g \/ addr(m) < addr(g)
    BY <2>1, <2>2, LEQFinds
  <2> QED BY <2>3 DEF a
<1>2. cuiAddrTrackerIsEmptyForRange(lo, hi) <=> (g = NULL \/ Wrap(addr(g) + size[g]) <= lo)
  BY DEF cuiAddrTrackerIsEmptyForRange
<1> HIDE DEF g
<1>3. /\ \A n \in Registered : /\ addr(n) \in Nat /\ size[n] \in Nat
                               /\ Wrap(addr(n) + size[n]) = EndOf(n) /\ EndOf(n) = addr(n) + size[n]
      /\ \A m, n \in Registered : addr(m) < addr(n) => EndOf(m) <= addr(n)
  BY LowerHalf DEF EndOf
<1>4. CASE g = NULL
  <2>1. touching = {}
    BY <1>1, <1>3, <1>4
  <2> QED BY <2>1, <1>2, <1>4
<1>5. CASE g # NULL /\ EndOf(g) > lo
  <2>1. g \in touching
    BY <1>1, <1>3, <1>5
  <2>2. ~ (Wrap(addr(g) + size[g]) <= lo)
    BY <1>1, <1>3, <1>5
  <2> QED BY <2>1, <2>2, <1>2, <1>5
<1>6. CASE g # NULL /\ EndOf(g) <= lo
  <2>1. ASSUME NEW n \in touching
        PROVE  FALSE
    <3>1. n \in Registered /\ addr(n) < hi /\ EndOf(n) > lo
      OBVIOUS
    <3>2. n = g \/ EndOf(n) <= addr(g)
      BY <3>1, <1>1, <1>3, <1>6
    <3>3. g \in Registered /\ EndOf(g) \in Nat /\ EndOf(n) \in Nat /\ addr(g) <= EndOf(g) /\ addr(g) \in Nat
      BY <3>1, <1>1, <1>3, <1>6
    <3> QED BY <3>1, <3>2, <3>3, <1>6
  <2>2. Wrap(addr(g) + size[g]) <= lo
    BY <1>1, <1>3, <1>6
  <2> QED BY <2>1, <2>2, <1>2
<1>7. g # NULL => EndOf(g) \in Nat
  BY <1>1, <1>3
<1> QED BY <1>4, <1>5, <1>6, <1>7

\* The first range inside two limits is found, and whether there is a range
\* between them is told, by a look at one neighbour.
THEOREM RangesAnswered == Spec => [](Disjoint => RangeQueriesAnswer)
<1>1. ASSUME IInv, Disjoint
      PROVE  RangeQueriesAnswer
  <2> SUFFICES ASSUME InLowerHalf, NEW lo \in Probes, NEW hi \in Probes, lo < hi, hi <= 2 ^ (Width - 1)
               PROVE  LET inside   == {n \in Registered : addr(n) >= lo /\ EndOf(n) <= hi}
                          touching == {n \in Registered : addr(n) < hi /\ EndOf(n) > lo}
                          first    == cuiAddrTrackerFindFirstNodeInRange(lo, hi)
                      IN  /\ IF inside = {} THEN first = NULL
                             ELSE /\ first \in inside
                                  /\ \A n \in inside : addr(first) <= addr(n)
                          /\ cuiAddrTrackerIsEmptyForRange(lo, hi) <=> touching = {}
    BY DEF RangeQueriesAnswer, EndOf
  <2>1. lo \in Nat /\ hi \in Nat
    BY DifferenceAssumption DEF Addrs
  <2>2. lo < 2 ^ (Width - 1)
    <3>1. 2 ^ (Width - 1) \in Nat
      BY WidthAssumption, PowerType
    <3> QED BY <2>1, <3>1
  <2> DEFINE inside   == {n \in Registered : addr(n) >= lo /\ EndOf(n) <= hi}
             touching == {n \in Registered : addr(n) < hi /\ EndOf(n) > lo}
             first    == cuiAddrTrackerFindFirstNodeInRange(lo, hi)
  <2>3. inside = {n \in Registered : addr(n) >= lo /\ EndOf(n) <= hi}
    OBVIOUS
  <2>4. touching = {n \in Registered : addr(n) < hi /\ EndOf(n) > lo}
    OBVIOUS
  <2>5. first = cuiAddrTrackerFindFirstNodeInRange(lo, hi)
    OBVIOUS
  <2> HIDE DEF inside, touching, first
  <2>6. IF inside = {} THEN first = NULL
        ELSE first \in inside /\ \A n \in inside : addr(first) <= addr(n)
    BY <1>1, <2>1, <2>2, <2>3, <2>5, FirstInRange
  <2>7. cuiAddrTrackerIsEmptyForRange(lo, hi) <=> touching = {}
    BY <1>1, <2>1, <2>4, EmptyForRange
  <2> QED BY <2>6, <2>7 DEF inside, touching, first
<1>2. IInv => (Disjoint => RangeQueriesAnswer)
  BY <1>1
<1> QED BY <1>2, Invariant, PTL
=============================================================================
