------------------------------ MODULE RadixTree -----------------------------
(***************************************************************************)
(* utils/radix.c, pointer by pointer: a binary radix tree in which a parent *)
(* has a smaller key than its children, so that the first larger key met   *)
(* on the way down is the best fit.  Nodes of equal key hang in a ring off *)
(* the one that is in the tree (the primary).                              *)
(*                                                                         *)
(* A slot is a cell that holds a tree pointer: <<n, i>> is n->child[i],    *)
(* and <<NULL, 0>> is tree->root.  A loop of the code is a function of the *)
(* number of turns taken; each turn uses up one bit of the key, so         *)
(* KeyBits turns are enough for a walk that the assertions let through.    *)
(***************************************************************************)
EXTENDS Naturals, FiniteSets

CONSTANTS Nodes,       \* the CUradixNodes callers own
          NULL,
          KeyBits      \* tree->key_bits

ASSUME NodesAssumption == NULL \notin Nodes /\ IsFiniteSet(Nodes)
ASSUME BitsAssumption  == KeyBits \in Nat \ {0}

VARIABLE tree

ROOT    == <<NULL, 0>>
NOSLOT  == <<NULL, 1>>
Slots   == {ROOT} \cup (Nodes \X {0, 1})
Keys    == 0 .. (2 ^ KeyBits - 1)
Pointer == Nodes \cup {NULL}

TypeOK ==
    tree \in [at     : [Slots -> Pointer],             \* what a slot holds
              slot   : [Nodes -> Slots \cup {NOSLOT}], \* parent_to_self_ptr
              parent : [Nodes -> Pointer],
              next   : [Nodes -> Pointer],
              prev   : [Nodes -> Pointer],
              key    : [Nodes -> Keys]]

BitSet(key, bit) == (key \div 2 ^ bit) % 2

Child(t, n, i) == t.at[<<n, i>>]
Children(t, n) == {Child(t, n, 0), Child(t, n, 1)} \ {NULL}

\* The nodes a walk along child and next pointers from the root comes by.
Members(t) ==
    LET Reach[i \in 0 .. Cardinality(Nodes)] ==
            IF i = 0 THEN {t.at[ROOT]} \ {NULL}
            ELSE Reach[i - 1] \cup
                 UNION {Children(t, n) \cup ({t.next[n]} \ {NULL}) :
                        n \in Reach[i - 1]}
    IN  Reach[Cardinality(Nodes)]

----------------------------------------------------------------------------
(***************************************************************************)
(* The ring of nodes of one key.                                           *)
(***************************************************************************)

radixListInsert(t, node, head) ==
    LET prev == t.prev[head]
    IN  [t EXCEPT !.next = [@ EXCEPT ![prev] = node, ![node] = head],
                  !.prev = [@ EXCEPT ![node] = prev, ![head] = node]]

radixListRemove(t, node) ==
    [t EXCEPT !.prev[t.next[node]] = t.prev[node],
              !.next[t.prev[node]] = t.next[node]]

----------------------------------------------------------------------------
(***************************************************************************)
(* Moving nodes about in the tree.                                         *)
(***************************************************************************)

\* The slots of the adopted children are not told where they are now.
radixTreeReplaceNode_Slip(t, orig, repl) ==
    LET kids == Children(t, orig)
    IN  [t EXCEPT
           !.slot[repl] = t.slot[orig],
           !.parent = [n \in Nodes |->
                         CASE n = repl   -> t.parent[orig]
                           [] n \in kids -> repl
                           [] OTHER      -> t.parent[n]],
           !.at = [s \in Slots |->
                     CASE s = t.slot[orig] -> repl
                       [] s[1] = repl      -> t.at[<<orig, s[2]>>]
                       [] OTHER            -> t.at[s]]]

\* repl takes the place of orig; orig keeps pointing into the tree.
radixTreeReplaceNode(t, orig, repl) ==
    LET kids == Children(t, orig)
    IN  [t EXCEPT
           !.slot = [n \in Nodes |->
                       CASE n = repl   -> t.slot[orig]
                         [] n \in kids -> <<repl, t.slot[n][2]>>
                         [] OTHER      -> t.slot[n]],
           !.parent = [n \in Nodes |->
                         CASE n = repl   -> t.parent[orig]
                           [] n \in kids -> repl
                           [] OTHER      -> t.parent[n]],
           !.at = [s \in Slots |->
                     CASE s = t.slot[orig] -> repl
                       [] s[1] = repl      -> t.at[<<orig, s[2]>>]
                       [] OTHER            -> t.at[s]]]

\* The other child is not told who its parent is now.
radixTreeSwapParentWithChild_Slip(t, up, down) ==
    LET i       == IF Child(t, up, 1) = down THEN 1 ELSE 0
        other   == Child(t, up, 1 - i)
        adopted == Children(t, down)
    IN  [t EXCEPT
           !.slot = [n \in Nodes |->
                       CASE n = up         -> <<down, i>>
                         [] n = down       -> t.slot[up]
                         [] n = other      -> <<down, 1 - i>>
                         [] n \in adopted  -> <<up, t.slot[n][2]>>
                         [] OTHER          -> t.slot[n]],
           !.parent = [n \in Nodes |->
                         CASE n = up         -> down
                           [] n = down       -> t.parent[up]
                           [] n \in adopted  -> up
                           [] OTHER          -> t.parent[n]],
           !.at = [s \in Slots |->
                     CASE s = t.slot[up]      -> down
                       [] s = <<down, i>>     -> up
                       [] s = <<down, 1 - i>> -> other
                       [] s[1] = up           -> t.at[<<down, s[2]>>]
                       [] OTHER               -> t.at[s]]]

\* The child takes its parent's place and other child, the parent the child's
\* children.
radixTreeSwapParentWithChild(t, up, down) ==
    LET i       == IF Child(t, up, 1) = down THEN 1 ELSE 0
        other   == Child(t, up, 1 - i)
        adopted == Children(t, down)
    IN  [t EXCEPT
           !.slot = [n \in Nodes |->
                       CASE n = up         -> <<down, i>>
                         [] n = down       -> t.slot[up]
                         [] n = other      -> <<down, 1 - i>>
                         [] n \in adopted  -> <<up, t.slot[n][2]>>
                         [] OTHER          -> t.slot[n]],
           !.parent = [n \in Nodes |->
                         CASE n = up         -> down
                           [] n = down       -> t.parent[up]
                           [] n = other      -> down
                           [] n \in adopted  -> up
                           [] OTHER          -> t.parent[n]],
           !.at = [s \in Slots |->
                     CASE s = t.slot[up]      -> down
                       [] s = <<down, i>>     -> up
                       [] s = <<down, 1 - i>> -> other
                       [] s[1] = up           -> t.at[<<down, s[2]>>]
                       [] OTHER               -> t.at[s]]]

\* memset, then the key and a ring of one.
Fresh(t, node, key) ==
    [t EXCEPT !.at = [s \in Slots |-> IF s[1] = node THEN NULL ELSE t.at[s]],
              !.slot[node] = NOSLOT, !.parent[node] = NULL,
              !.next[node] = node, !.prev[node] = node, !.key[node] = key]

\* What the displaced node keeps of the tree is cleared.
Detach(t, node) ==
    [t EXCEPT !.at = [s \in Slots |-> IF s[1] = node THEN NULL ELSE t.at[s]],
              !.slot[node] = NOSLOT, !.parent[node] = NULL]

\* One turn of the insert loop, at the node cur that w.slot holds: w.node
\* takes cur's place if it has the smaller key, and the other one goes on
\* below, on the side its next bit says.
InsertTurn(w, bit) ==
    LET cur  == w.tree.at[w.slot]
        swap == w.tree.key[w.node] < w.tree.key[cur]
        top  == IF swap THEN w.node ELSE cur
        node == IF swap THEN cur ELSE w.node
        t    == IF swap THEN Detach(radixTreeReplaceNode(w.tree, cur, w.node), cur)
                ELSE w.tree
    IN  [tree |-> t, node |-> node, slot |-> <<top, BitSet(t.key[node], bit)>>]

\* Where the insert of key comes to rest: the loop goes on while the slot
\* holds a node of another key.
InsertWalk(t, n, key) ==
    LET Walk[i \in 0 .. KeyBits] ==
            IF i = 0
            THEN [tree |-> Fresh(t, n, key), node |-> n, slot |-> ROOT]
            ELSE LET w == Walk[i - 1] IN
                 IF w.tree.at[w.slot] # NULL
                       /\ w.tree.key[w.tree.at[w.slot]] # key
                 THEN InsertTurn(w, KeyBits - i) ELSE w
    IN  Walk[KeyBits]

\* parent is given the slot instead of the node the slot is in.
radixTreeInsert_Slip(t, n, key) ==
    LET w    == InsertWalk(t, n, key)
        held == w.tree.at[w.slot]
    IN  IF held # NULL
        THEN radixListInsert(w.tree, w.node, held)
        ELSE [w.tree EXCEPT !.at[w.slot] = w.node, !.slot[w.node] = w.slot,
                            !.parent[w.node] = w.slot]

radixTreeInsert(t, n, key) ==
    LET w    == InsertWalk(t, n, key)
        held == w.tree.at[w.slot]
    IN  IF held # NULL
        THEN radixListInsert(w.tree, w.node, held)
        ELSE [w.tree EXCEPT !.at[w.slot] = w.node, !.slot[w.node] = w.slot,
                            !.parent[w.node] = w.slot[1]]

\* The right child first.
SmallerChild_Slip(t, n) ==
    IF Child(t, n, 1) # NULL THEN Child(t, n, 1) ELSE Child(t, n, 0)

\* The left child if there is one: its keys are the smaller ones.
SmallerChild(t, n) ==
    IF Child(t, n, 0) # NULL THEN Child(t, n, 0) ELSE Child(t, n, 1)

\* Push the node below its smaller child until it is a leaf.
PushDown(t, node) ==
    LET Sunk[i \in 0 .. KeyBits] ==
            IF i = 0 THEN t
            ELSE LET u == Sunk[i - 1] IN
                 IF Children(u, node) = {} THEN u
                 ELSE radixTreeSwapParentWithChild(u, node, SmallerChild(u, node))
    IN  Sunk[KeyBits]

\* The primary leaves its ring without another node stepping up.
radixTreeRemove_Slip(t, node) ==
    IF t.next[node] = node \/ t.slot[node] # NOSLOT
    THEN LET leaf == PushDown(t, node)
         IN  [leaf EXCEPT !.at[leaf.slot[node]] = NULL]
    ELSE radixListRemove(t, node)

radixTreeRemove(t, node) ==
    IF t.next[node] = node
    THEN LET leaf == PushDown(t, node)
         IN  [leaf EXCEPT !.at[leaf.slot[node]] = NULL]
    ELSE radixListRemove(IF t.slot[node] = NOSLOT THEN t
                         ELSE [radixTreeReplaceNode(t, node, t.next[node])
                                 EXCEPT !.slot[node] = NOSLOT],
                         node)

\* The first right subtree passed by is kept instead of the latest.
radixTreeFindGEQ_Slip(t, key) ==
    LET Way[i \in 0 .. KeyBits] ==
            IF i = 0
            THEN [node |-> t.at[ROOT], found |-> NULL, gt_tree |-> NULL]
            ELSE LET w   == Way[i - 1]
                     bit == BitSet(key, KeyBits - i) IN
                 IF w.node = NULL \/ t.key[w.node] = key THEN w
                 ELSE [node    |-> Child(t, w.node, bit),
                       found   |-> IF t.key[w.node] > key
                                      /\ (w.found = NULL
                                          \/ t.key[w.node] < t.key[w.found])
                                   THEN w.node ELSE w.found,
                       gt_tree |-> IF bit = 0 /\ w.gt_tree = NULL
                                   THEN Child(t, w.node, 1) ELSE w.gt_tree]
        end == Way[KeyBits]
    IN  IF end.node # NULL /\ t.key[end.node] = key THEN end.node
        ELSE IF end.found # NULL THEN end.found
        ELSE end.gt_tree

\* The way down by the bits of key, with the best node met so far and the
\* latest right subtree passed by.
radixTreeFindGEQ(t, key) ==
    LET Way[i \in 0 .. KeyBits] ==
            IF i = 0
            THEN [node |-> t.at[ROOT], found |-> NULL, gt_tree |-> NULL]
            ELSE LET w   == Way[i - 1]
                     bit == BitSet(key, KeyBits - i) IN
                 IF w.node = NULL \/ t.key[w.node] = key THEN w
                 ELSE [node    |-> Child(t, w.node, bit),
                       found   |-> IF t.key[w.node] > key
                                      /\ (w.found = NULL
                                          \/ t.key[w.node] < t.key[w.found])
                                   THEN w.node ELSE w.found,
                       gt_tree |-> IF bit = 0 /\ Child(t, w.node, 1) # NULL
                                   THEN Child(t, w.node, 1) ELSE w.gt_tree]
        end == Way[KeyBits]
    IN  IF end.node # NULL /\ t.key[end.node] = key THEN end.node
        ELSE IF end.found # NULL THEN end.found
        ELSE end.gt_tree

----------------------------------------------------------------------------

Init ==
    tree = [at     |-> [s \in Slots |-> NULL],
            slot   |-> [n \in Nodes |-> NOSLOT],
            parent |-> [n \in Nodes |-> NULL],
            next   |-> [n \in Nodes |-> NULL],
            prev   |-> [n \in Nodes |-> NULL],
            key    |-> [n \in Nodes |-> 0]]

Insert(n, k) ==
    /\ n \notin Members(tree)
    /\ tree' = radixTreeInsert(tree, n, k)

\* The fields of a node outside the tree are dead, insert's memset comes before
\* any read of them: they are cleared here already, so that they do not tell
\* states apart.
Remove(n) ==
    /\ n \in Members(tree)
    /\ tree' = [Fresh(radixTreeRemove(tree, n), n, 0)
                  EXCEPT !.next[n] = NULL, !.prev[n] = NULL]

Next == \E n \in Nodes : Remove(n) \/ \E k \in Keys : Insert(n, k)

Spec == Init /\ [][Next]_tree

----------------------------------------------------------------------------
(***************************************************************************)
(* Properties.                                                             *)
(***************************************************************************)

Primary(n) == tree.slot[n] # NOSLOT

\* Slots, parent pointers and rings agree with each other through every swap
\* and replacement ("15 pointers need to be changed", radix.c:110).  A node
\* that is not primary has no tree links, which is what the assertions of
\* radixTreeReplaceNode ask of the node that steps up.
PointersAgree ==
    \A n \in Members(tree) :
        /\ IF Primary(n)
           THEN /\ tree.at[tree.slot[n]] = n
                /\ tree.parent[n] = tree.slot[n][1]
                /\ \A i \in {0, 1} : Child(tree, n, i) # NULL =>
                                        tree.slot[Child(tree, n, i)] = <<n, i>>
           ELSE tree.parent[n] = NULL /\ Children(tree, n) = {}
        /\ tree.prev[tree.next[n]] = n /\ tree.next[tree.prev[n]] = n
        /\ tree.key[tree.next[n]] = tree.key[n]

\* The nodes met when the bits of key say where to go.
Path(t, key) ==
    LET Down[i \in 0 .. KeyBits] ==
            IF i = 0 THEN t.at[ROOT]
            ELSE IF Down[i - 1] = NULL THEN NULL
                 ELSE Child(t, Down[i - 1], BitSet(key, KeyBits - i))
    IN  Down

\* "At each time, the key of a parent node is smaller than the key of its
\* children" (radix.c:156), and every key lies on the path its own bits give,
\* in one place: removing a node from the middle keeps the others findable.
KeysInPlace ==
    \A n \in Members(tree) :
        LET path == Path(tree, tree.key[n]) IN
        \E d \in 0 .. KeyBits :
            /\ path[d] # NULL /\ Primary(path[d])
            /\ tree.key[path[d]] = tree.key[n]
            /\ \A e \in 0 .. (d - 1) : tree.key[path[e]] < tree.key[n]

\* What an allocator relies on for best fit: the search returns a node of the
\* least key that reaches the one asked for, and none only if there is none.
FindGEQIsLeast ==
    \A k \in Keys :
        LET found == radixTreeFindGEQ(tree, k)
            geq   == {n \in Members(tree) : tree.key[n] >= k}
        IN  IF geq = {} THEN found = NULL
            ELSE /\ found \in geq
                 /\ \A n \in geq : tree.key[found] <= tree.key[n]

\* CU_ASSERT(cur_key_bit > 0) in the insert loop never fails: the bits of the
\* key last until a free slot or an equal key, however nodes were displaced.
InsertEndsInTime ==
    \A n \in Nodes \ Members(tree), k \in Keys :
        LET w == InsertWalk(tree, n, k)
        IN  w.tree.at[w.slot] # NULL => w.tree.key[w.tree.at[w.slot]] = k

\* An insert adds one node and a remove takes one away, under the key it was
\* filed with: no ring member and no subtree is lost on the way.
Index == INSTANCE SizeIndex WITH
    filed <- [n \in Members(tree) |-> tree.key[n]]

KeepsIndex == Index!Spec

\* "the latest gt_tree node ... will have the GEQ" (radix.c:248-250), for any
\* NvU64 an allocator may pass, also one wider than key_bits.
FindGEQReachesKey ==
    \A k \in 0 .. (2 ^ (KeyBits + 1) - 1) :
        LET found == radixTreeFindGEQ(tree, k)
        IN  found # NULL => tree.key[found] >= k
=============================================================================
