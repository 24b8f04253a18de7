------------------------------- MODULE AvlTree ------------------------------
(***************************************************************************)
(* utils/avl.c, pointer by pointer: the operations of the tree as actions  *)
(* for a module that instantiates this one.                                *)
(*                                                                         *)
(* An insert or a remove hooks the node on or off in one step and then     *)
(* climbs to the root, one turn of cuAvlTreeNodeRebalance a step:          *)
(* "rebalance" is the node the climb has reached, NULL between calls.      *)
(* "left" and "right" are fields of link[n], so that what the code writes  *)
(* twice, mirrored, is written once.                                       *)
(***************************************************************************)
EXTENDS Integers, FiniteSets, Sequences, Functions

CONSTANTS Nodes,            \* the CUavlTreeNodes callers own
          NULL,
          Keys,
          compare(_, _)     \* tree->compare: below, at or above 0

VARIABLES tree, rebalance, isDelete

avlVars == <<tree, rebalance, isDelete>>

Pointer == Nodes \cup {NULL}
Sides   == {"left", "right"}
Opposite(side) == IF side = "left" THEN "right" ELSE "left"
Leaf    == [side \in Sides |-> NULL]

AvlTypeOK ==
    /\ tree \in [root   : Pointer,
                 link   : [Nodes -> [Sides -> Pointer]],
                 parent : [Nodes -> Pointer],
                 height : [Nodes -> 0 .. Cardinality(Nodes)],
                 key    : [Nodes -> Keys \cup {NULL}]]
    /\ rebalance \in Pointer
    /\ isDelete \in BOOLEAN

----------------------------------------------------------------------------
(***************************************************************************)
(* Walks down.                                                             *)
(***************************************************************************)

\* cuAvlTreeNodeGetChild, as a side.
Side(order) == IF order < 0 THEN "left" ELSE "right"

\* The last node that passes the test, as "best" is kept, on the way from the
\* root to the node that compares equal or that has no child on the side to go
\* to.
Best(t, Order(_), Test(_)) ==
    LET From[n \in Pointer] ==
            IF n = NULL THEN NULL
            ELSE LET below == IF Order(n) = 0 THEN NULL
                              ELSE From[t.link[n][Side(Order(n))]]
                 IN  IF below = NULL /\ Test(n) THEN n ELSE below
    IN  From[t.root]

\* cuAvlTreeNodeFindWithComparator and ...WithNodeComparator.
Find(t, Order(_)) == Best(t, Order, LAMBDA n : Order(n) = 0)

\* "<" for "<=".
cuAvlTreeNodeFindGEQ_Slip(t, key) ==
    LET Order(n) == compare(key, t.key[n])
    IN  Best(t, Order, LAMBDA n : Order(n) < 0)

cuAvlTreeNodeFindGEQ(t, key) ==
    LET Order(n) == compare(key, t.key[n])
    IN  Best(t, Order, LAMBDA n : Order(n) <= 0)

cuAvlTreeNodeFindLEQ(t, key) ==
    LET Order(n) == compare(key, t.key[n])
    IN  Best(t, Order, LAMBDA n : Order(n) >= 0)

\* The outermost node on that side of the subtree of n.
Outermost(t, n, side) ==
    LET Down[m \in Nodes] ==
            IF t.link[m][side] = NULL THEN m ELSE Down[t.link[m][side]]
    IN  Down[n]

\* The first parent that has the node below on the other side.
Ancestor(t, n, side) ==
    LET Up[m \in Nodes] ==
            LET p == t.parent[m]
            IN  IF p = NULL \/ t.link[p][Opposite(side)] = m THEN p ELSE Up[p]
    IN  Up[n]

\* The climb is left out: a node without a right child has no successor.
Neighbour_Slip(t, n, side) ==
    IF t.link[n][side] # NULL
    THEN Outermost(t, t.link[n][side], Opposite(side))
    ELSE t.parent[n]

\* cuAvlTreeNodeInOrderSuccessor (side "right") and ...Predecessor ("left").
Neighbour(t, n, side) ==
    IF t.link[n][side] # NULL
    THEN Outermost(t, t.link[n][side], Opposite(side))
    ELSE Ancestor(t, n, side)

cuAvlTreeNodeInOrderSuccessor(t, n)   == Neighbour(t, n, "right")
cuAvlTreeNodeInOrderPredecessor(t, n) == Neighbour(t, n, "left")

----------------------------------------------------------------------------
(***************************************************************************)
(* Links and heights.                                                      *)
(***************************************************************************)

Height(t, n) == IF n = NULL THEN 0 ELSE t.height[n]

\* cuAvlTreeNodeGetBalance, seen from one side: how much taller that side is.
Lean(t, n, side) ==
    Height(t, t.link[n][side]) - Height(t, t.link[n][Opposite(side)])

Greater(i, j) == IF i > j THEN i ELSE j

Taller(t, n) == 1 + Greater(Height(t, t.link[n]["left"]), Height(t, t.link[n]["right"]))

cuAvlTreeNodeRecalculateHeight(t, n) == [t EXCEPT !.height[n] = Taller(t, n)]

SetParent(t, n, p) == IF n = NULL THEN t ELSE [t EXCEPT !.parent[n] = p]

\* The parent of the node that moves up is forgotten.
Replace_Slip(t, n, m) ==
    LET p == t.parent[n]
    IN  IF p = NULL THEN [t EXCEPT !.root = m]
        ELSE LET side == IF t.link[p]["left"] = n THEN "left" ELSE "right"
             IN  [t EXCEPT !.link[p][side] = m]

\* m gets the place of n: *cuAvlTreeNodeGetLinkPointer(n) and m->parent.
Replace(t, n, m) ==
    LET p == t.parent[n]
        up == SetParent(t, m, p)
    IN  IF p = NULL THEN [up EXCEPT !.root = m]
        ELSE LET side == IF t.link[p]["left"] = n THEN "left" ELSE "right"
             IN  [up EXCEPT !.link[p][side] = m]

\* m becomes the child of n on that side.
Adopt(t, n, side, m) == SetParent([t EXCEPT !.link[n][side] = m], m, n)

\* child->parent = node->parent is forgotten.
Rotate_Slip(t, n, side) ==
    LET child == t.link[n][Opposite(side)]
        inner == t.link[child][side]
        low   == 1 + Greater(Height(t, t.link[n][side]), Height(t, inner))
        high  == 1 + Greater(Height(t, t.link[child][Opposite(side)]), low)
        moved == Adopt(Adopt([Replace(t, n, child) EXCEPT !.parent[child] = n],
                             n, Opposite(side), inner), child, side, n)
    IN  [moved EXCEPT !.height[n] = low, !.height[child] = high]

\* cuAvlTreeNodeRotateRight (side "right") and ...RotateLeft: n goes down on
\* that side and its child on the other one comes up.
Rotate(t, n, side) ==
    LET child == t.link[n][Opposite(side)]
        inner == t.link[child][side]
        low   == 1 + Greater(Height(t, t.link[n][side]), Height(t, inner))
        high  == 1 + Greater(Height(t, t.link[child][Opposite(side)]), low)
        moved == Adopt(Adopt(Replace(t, n, child), n, Opposite(side), inner),
                       child, side, n)
    IN  [moved EXCEPT !.height[n] = low, !.height[child] = high]

\* One turn of the climb at n, with the taller side leaning by 2: the tree and
\* the node that is at the place of n now.
Level_Slip(t, n, side, delete) ==
    LET child == t.link[n][side]
        lean  == Lean(t, child, side)
    IN  IF lean = 1
        THEN [tree |-> Rotate(t, n, Opposite(side)), top |-> child]
        ELSE IF lean = -1
        THEN [tree |-> Rotate(Rotate(t, child, side), n, Opposite(side)),
              top  |-> t.link[child][Opposite(side)]]
        ELSE [tree |-> t, top |-> n]

Level(t, n, side, delete) ==
    LET child == t.link[n][side]
        lean  == Lean(t, child, side)
    IN  IF lean = 1 \/ (lean = 0 /\ delete)
        THEN [tree |-> Rotate(t, n, Opposite(side)), top |-> child]
        ELSE IF lean = -1
        THEN [tree |-> Rotate(Rotate(t, child, side), n, Opposite(side)),
              top  |-> t.link[child][Opposite(side)]]
        ELSE [tree |-> t, top |-> n]

----------------------------------------------------------------------------
(***************************************************************************)
(* The operations.                                                         *)
(***************************************************************************)

Empty == [root   |-> NULL,
          link   |-> [n \in Nodes |-> Leaf],
          parent |-> [n \in Nodes |-> NULL],
          height |-> [n \in Nodes |-> 0],
          key    |-> [n \in Nodes |-> NULL]]

AvlInit == tree = Empty /\ rebalance = NULL /\ isDelete = FALSE

\* The node an insert of key would return: one of that key.
Existing(t, key) == Find(t, LAMBDA n : compare(key, t.key[n]))

\* On whichever side is free.
HookOn_Slip(n, key) ==
    LET parent == Best(tree, LAMBDA m : compare(key, tree.key[m]), LAMBDA m : TRUE)
        fresh  == [tree EXCEPT !.link[n] = Leaf, !.key[n] = key, !.height[n] = 1,
                               !.parent[n] = parent]
    IN  /\ tree' = IF parent = NULL THEN [fresh EXCEPT !.root = n]
                   ELSE [fresh EXCEPT !.link[parent][IF tree.link[parent]["left"] = NULL
                                                    THEN "left" ELSE "right"] = n]
        /\ rebalance' = parent /\ isDelete' = FALSE

\* cuAvlTreeNodeInsertOrReturnExisting with no such node: below the last node
\* of the way down.
HookOn(n, key) ==
    LET parent == Best(tree, LAMBDA m : compare(key, tree.key[m]), LAMBDA m : TRUE)
        fresh  == [tree EXCEPT !.link[n] = Leaf, !.key[n] = key, !.height[n] = 1,
                               !.parent[n] = parent]
    IN  /\ tree' = IF parent = NULL THEN [fresh EXCEPT !.root = n]
                   ELSE [fresh EXCEPT !.link[parent][Side(compare(key, tree.key[parent]))] = n]
        /\ rebalance' = parent /\ isDelete' = FALSE

\* The right child of the successor is not moved up.
HookOff_Slip(t, n) ==
    LET l == t.link[n]["left"]
        r == t.link[n]["right"]
    IN  IF l # NULL /\ r # NULL
        THEN LET s  == Outermost(t, r, "left")
                 t1 == Replace(t, s, NULL)
                 t2 == Replace(t1, n, s)
                 t3 == Adopt(t2, s, "left", l)
             IN  [tree      |-> Adopt(t3, s, "right", t1.link[n]["right"]),
                  rebalance |-> IF t.parent[s] # n THEN t.parent[s] ELSE s]
        ELSE LET child == IF l # NULL THEN l ELSE r
             IN  [tree      |-> Replace(t, n, child),
                  rebalance |-> IF child # NULL THEN child ELSE t.parent[n]]

\* The tree without n and the node the climb starts from.  With two children
\* the successor s leaves its place, its right child moving up, and takes that
\* of n; if s is a child of n the climb starts from s itself.
HookOff(t, n) ==
    LET l == t.link[n]["left"]
        r == t.link[n]["right"]
    IN  IF l # NULL /\ r # NULL
        THEN LET s  == Outermost(t, r, "left")
                 t1 == Replace(t, s, t.link[s]["right"])
                 t2 == Replace(t1, n, s)
                 t3 == Adopt(t2, s, "left", l)
             IN  [tree      |-> Adopt(t3, s, "right", t1.link[n]["right"]),
                  rebalance |-> IF t.parent[s] # n THEN t.parent[s] ELSE s]
        ELSE LET child == IF l # NULL THEN l ELSE r
             IN  [tree      |-> Replace(t, n, child),
                  rebalance |-> IF child # NULL THEN child ELSE t.parent[n]]

\* Key and height of a node outside the tree are dead, the memset of the next
\* insert comes before any read of them: they are cleared here already, so
\* that they do not tell states apart.
cuAvlTreeNodeRemove(n) ==
    LET off == HookOff(tree, n)
    IN  /\ tree' = [off.tree EXCEPT !.link[n] = Leaf, !.parent[n] = NULL,
                                    !.key[n] = NULL, !.height[n] = 0]
        /\ rebalance' = off.rebalance
        /\ isDelete' = (off.rebalance # NULL)

\* One turn of the climb.  A singleton: TLC works the turn out once.
cuAvlTreeNodeRebalance ==
    /\ rebalance # NULL
    /\ LET tall == {side \in Sides : Lean(tree, rebalance, side) = 2}
       IN  \E turn \in IF tall = {} THEN {[tree |-> tree, top |-> rebalance]}
                       ELSE {Level(tree, rebalance, side, isDelete) : side \in tall} :
              /\ tree' = cuAvlTreeNodeRecalculateHeight(turn.tree, turn.top)
              /\ rebalance' = turn.tree.parent[turn.top]
    /\ isDelete' = (isDelete /\ rebalance' # NULL)

----------------------------------------------------------------------------
(***************************************************************************)
(* Properties.                                                             *)
(***************************************************************************)

\* The nodes callers have inserted and not removed.
Inserted == {n \in Nodes : tree.key[n] # NULL}

\* An in-order walk along the links.
InOrder(t) ==
    LET From[n \in Pointer] ==
            IF n = NULL THEN <<>>
            ELSE From[t.link[n]["left"]] \o <<n>> \o From[t.link[n]["right"]]
    IN  From[t.root]

\* What cuAvlTreeAssertValid asserts of the pointers, after every rotation and
\* removal, also while the climb is under way: a child and its parent name
\* each other, no node is the child of two, and none is cut off.
LinksAgree ==
    /\ tree.root # NULL => tree.parent[tree.root] = NULL
    /\ \A n \in Inserted :
          /\ \A side \in Sides :
                LET child == tree.link[n][side]
                IN  child # NULL => child # tree.root /\ tree.parent[child] = n
          /\ tree.link[n]["left"] = tree.link[n]["right"] => tree.link[n] = Leaf
    /\ Range(InOrder(tree)) = Inserted

\* The search order of tree->compare, of every node against the whole of both
\* its subtrees and not against its children only.
KeysAscend ==
    LET nodes == InOrder(tree)
    IN  \A i \in 1 .. (Len(nodes) - 1) :
            compare(tree.key[nodes[i]], tree.key[nodes[i + 1]]) < 0

\* Both, also between the turns of a climb.
SearchTree == LinksAgree /\ KeysAscend

\* The node the climb has reached and those above it.
OnTheWayUp ==
    LET Up[i \in Nat] ==
            IF i = 0 THEN {rebalance}
            ELSE LET below == Up[i - 1]
                 IN  below \cup {tree.parent[n] : n \in below \ {NULL}}
    IN  Up[Cardinality(Nodes)]

\* "CU_ASSERT(-2 < balance && 2 > balance)" and "height == node->height" of
\* every node the climb has passed or does not pass, so of all nodes between
\* calls, whatever was inserted and removed in whatever order.  Where the climb
\* is, the subtrees differ by at most 2.
Balanced ==
    /\ \A n \in Inserted \ OnTheWayUp :
          tree.height[n] = Taller(tree, n) /\ Lean(tree, n, "left") \in -1 .. 1
    /\ rebalance # NULL => Lean(tree, rebalance, "left") \in -2 .. 2
=============================================================================
