----------------------------- MODULE AddrTracker ----------------------------
(***************************************************************************)
(* utils/addrtracker.c: address ranges in an AVL tree, ordered by the      *)
(* signed difference of their addresses and searched for an address by     *)
(* unsigned comparison.  Nothing else may happen in the tracker while the  *)
(* climb of an insert or remove is under way: there is one thread.         *)
(***************************************************************************)
EXTENDS Integers, FiniteSets, Sequences

CONSTANTS Nodes, NULL,
          Ranges,        \* of [node, addr, size]: what callers may register
          Width,         \* bits of NvU64
          Lo, AfterHi,   \* of cuiAddrTrackerInit
          Probes         \* addresses and limits callers ask about

Addrs == Probes \cup {r.addr : r \in Ranges}

Wrap(n)   == n % 2 ^ Width
Signed(n) == IF n < 2 ^ (Width - 1) THEN n ELSE n - 2 ^ Width

ASSUME NodesAssumption == NULL \notin Nodes \cup Addrs /\ IsFiniteSet(Nodes)
ASSUME WidthAssumption == Width \in Nat \ {0}
ASSUME RangesAssumption ==
    \A r \in Ranges : r.node \in Nodes /\ r.size \in 0 .. (2 ^ Width - 1)
ASSUME BoundsAssumption ==
    Lo \in Nat /\ AfterHi \in Nat /\ Lo < AfterHi /\ AfterHi < 2 ^ Width
\* No two addresses in play are so far apart that the signed difference, which
\* the code computes without a test, would overflow.
ASSUME DifferenceAssumption ==
    /\ Addrs \subseteq 0 .. (2 ^ Width - 1)
    /\ \A a, b \in Addrs : Signed(a) - Signed(b) < 2 ^ (Width - 1)

\* Unsigned, as the search is.
cuiAddrTrackerCompare_Slip(a, b) == a - b

cuiAddrTrackerCompare(a, b) == Signed(a) - Signed(b)

VARIABLES tree, rebalance, isDelete,
          size,          \* node->size
          afterHi,       \* tracker->afterHi, 0: not initialized
          exited         \* by CU_ASSERT

INSTANCE AvlTree WITH Keys <- Addrs, compare <- cuiAddrTrackerCompare

vars == <<tree, rebalance, isDelete, size, afterHi, exited>>

addr(n) == tree.key[n]           \* the key is the pointer to node->addr

Registered == Inserted

TypeOK ==
    /\ AvlTypeOK
    /\ size \in [Nodes -> 0 .. (2 ^ Width - 1)]
    /\ afterHi \in {0, AfterHi}
    /\ exited \in BOOLEAN

----------------------------------------------------------------------------
(***************************************************************************)
(* The queries.                                                            *)
(***************************************************************************)

\* The end of the range counts as inside.
cuiAddrTrackerNodeCompare_Slip(a, n) ==
    IF a >= addr(n) /\ a <= Wrap(addr(n) + size[n]) THEN 0
    ELSE IF a < addr(n) THEN -1 ELSE 1

cuiAddrTrackerNodeCompare(a, n) ==
    IF a >= addr(n) /\ a < Wrap(addr(n) + size[n]) THEN 0
    ELSE IF a < addr(n) THEN -1 ELSE 1

cuiAddrTrackerFindNode(a) == Find(tree, LAMBDA n : cuiAddrTrackerNodeCompare(a, n))

cuiAddrTrackerFindFirstNodeInRange(lo, hi) ==
    LET n == cuAvlTreeNodeFindGEQ(tree, lo)
    IN  IF n = NULL THEN NULL
        ELSE IF Wrap(addr(n) + size[n]) > hi THEN NULL ELSE n

cuiAddrTrackerIsEmptyForRange(lo, hi) ==
    LET n == cuAvlTreeNodeFindLEQ(tree, hi - 1)
    IN  n = NULL \/ Wrap(addr(n) + size[n]) <= lo

cuiAddrTrackerNodeNext(n) == cuAvlTreeNodeInOrderSuccessor(tree, n)

cuiAddrTrackerNodeGetNextWithLimit(n, startsBefore, adjacentOnly) ==
    LET next == cuAvlTreeNodeInOrderSuccessor(tree, n)
    IN  IF next = NULL THEN NULL
        ELSE IF \/ addr(next) >= startsBefore
                \/ adjacentOnly /\ addr(next) # Wrap(addr(n) + size[n])
             THEN NULL ELSE next

----------------------------------------------------------------------------
(***************************************************************************)
(* The operations.                                                         *)
(***************************************************************************)

Init ==
    /\ AvlInit
    /\ size = [n \in Nodes |-> 0]
    /\ afterHi = 0
    /\ exited = FALSE

\* The caller's thread is not inside a call, and the program runs.
Ready == rebalance = NULL /\ ~ exited

cuiAddrTrackerIsInitialized == afterHi # 0

cuiAddrTrackerInit ==
    /\ Ready /\ ~ cuiAddrTrackerIsInitialized
    /\ tree' = Empty /\ afterHi' = AfterHi
    /\ UNCHANGED <<rebalance, isDelete, size, exited>>

\* Callers unregister everything first, as arena_destroy does.
cuiAddrTrackerDeinit ==
    /\ Ready /\ cuiAddrTrackerIsInitialized /\ Registered = {}
    /\ tree' = Empty /\ afterHi' = 0
    /\ UNCHANGED <<rebalance, isDelete, size, exited>>

MayRegister(r) ==
    /\ Ready /\ cuiAddrTrackerIsInitialized
    /\ r \in Ranges /\ r.node \notin Registered

\* CU_ASSERT(addr >= tracker->lo && addr + size <= tracker->afterHi); the sum
\* may wrap.
Accepted(r) == r.addr >= Lo /\ Wrap(r.addr + r.size) <= afterHi

Exit == exited' = TRUE /\ UNCHANGED <<tree, rebalance, isDelete, size, afterHi>>

\* A node for the address is there already: it is returned, and the memset
\* clears the one that was to be inserted.
ReturnExisting(r) ==
    /\ Accepted(r) /\ Existing(tree, r.addr) # NULL
    /\ UNCHANGED vars

\* The end of the range for its size.
Enter_Slip(r) ==
    /\ Accepted(r) /\ Existing(tree, r.addr) = NULL
    /\ HookOn(r.node, r.addr)
    /\ size' = [size EXCEPT ![r.node] = r.addr + r.size]
    /\ UNCHANGED <<afterHi, exited>>

Enter(r) ==
    /\ Accepted(r) /\ Existing(tree, r.addr) = NULL
    /\ HookOn(r.node, r.addr)
    /\ size' = [size EXCEPT ![r.node] = r.size]
    /\ UNCHANGED <<afterHi, exited>>

cuiAddrTrackerRegisterNodeOrReturnExisting(r) ==
    /\ MayRegister(r)
    /\ Enter(r) \/ ReturnExisting(r) \/ (~ Accepted(r) /\ Exit)

\* CU_ASSERT(existing == NULL).
cuiAddrTrackerRegisterNode(r) ==
    /\ MayRegister(r)
    /\ \/ Enter(r)
       \/ (~ Accepted(r) \/ Existing(tree, r.addr) # NULL) /\ Exit

\* The size of a node outside the tree is dead: cleared here, not in the code.
cuiAddrTrackerUnregisterNode(n) ==
    /\ Ready /\ n \in Registered
    /\ cuAvlTreeNodeRemove(n)
    /\ size' = [size EXCEPT ![n] = 0]
    /\ UNCHANGED <<afterHi, exited>>

\* The call that has begun goes on.
Climb == cuAvlTreeNodeRebalance /\ UNCHANGED <<size, afterHi, exited>>

Next ==
    \/ cuiAddrTrackerInit \/ cuiAddrTrackerDeinit
    \/ \E r \in Ranges : \/ cuiAddrTrackerRegisterNodeOrReturnExisting(r)
                         \/ cuiAddrTrackerRegisterNode(r)
    \/ \E n \in Nodes : cuiAddrTrackerUnregisterNode(n)
    \/ Climb

\* Callers need not call, but a thread inside a call runs on.
Fairness == WF_vars(Climb)

Spec == Init /\ [][Next]_vars /\ Fairness

----------------------------------------------------------------------------
(***************************************************************************)
(* Properties.                                                             *)
(***************************************************************************)

\* The unsigned half of the words in which both orders agree, where every
\* successful mmap lands.
InLowerHalf == \A n \in Registered : addr(n) < 2 ^ (Width - 1)

\* What mmap gives: ranges that do not overlap and do not wrap around.
Disjoint ==
    InLowerHalf =>
        /\ \A n \in Registered : addr(n) + size[n] < 2 ^ Width
        /\ \A m, n \in Registered : addr(m) < addr(n) => addr(m) + size[m] <= addr(n)

Holders(a) == {n \in Registered : a \in addr(n) .. (addr(n) + size[n] - 1)}

\* "Find the node which contains addr or NULL" (addrtracker.h:36): the search
\* compares with whole ranges in a tree ordered by their starts.  It finds the
\* range if all addresses are in the lower half; a MAP_FAILED that create_-
\* reservation has registered may hide it, but another range is never returned.
FindNodeFindsRange ==
    rebalance = NULL =>
        \A a \in Probes :
            LET found == cuiAddrTrackerFindNode(a)
            IN  /\ found # NULL => found \in Holders(a)
                /\ InLowerHalf /\ Holders(a) # {} => found # NULL

\* "Find the node with the lowest address which is completely contained in
\* [lo, afterHi)" and "True if there are no nodes in [lo, afterHi)": looking at
\* one neighbour of the limit is enough, as ranges are disjoint.
RangeQueriesAnswer ==
    rebalance = NULL /\ InLowerHalf =>
        \A lo, hi \in Probes : lo < hi /\ hi <= 2 ^ (Width - 1) =>
            LET End(n)   == addr(n) + size[n]
                inside   == {n \in Registered : addr(n) >= lo /\ End(n) <= hi}
                touching == {n \in Registered : addr(n) < hi /\ End(n) > lo}
                first    == cuiAddrTrackerFindFirstNodeInRange(lo, hi)
            IN  /\ IF inside = {} THEN first = NULL
                   ELSE /\ first \in inside
                        /\ \A n \in inside : addr(first) <= addr(n)
                /\ cuiAddrTrackerIsEmptyForRange(lo, hi) <=> touching = {}

\* "Find the next node in address order", also through nodes whose successor
\* is far above them, and after rotations; the predecessor is the way back.
NextInOrder ==
    rebalance = NULL =>
        \A n \in Registered :
            LET next  == cuiAddrTrackerNodeNext(n)
                above == {m \in Registered : cuiAddrTrackerCompare(addr(m), addr(n)) > 0}
            IN  /\ IF above = {} THEN next = NULL
                   ELSE /\ next \in above
                        /\ \A m \in above \ {next} :
                              cuiAddrTrackerCompare(addr(m), addr(next)) > 0
                        /\ cuAvlTreeNodeInOrderPredecessor(tree, next) = n
                /\ \A limit \in Probes :
                      /\ cuiAddrTrackerNodeGetNextWithLimit(n, limit, FALSE) =
                            IF next = NULL THEN NULL
                            ELSE IF addr(next) < limit THEN next ELSE NULL
                      /\ LET near == cuiAddrTrackerNodeGetNextWithLimit(n, limit, TRUE)
                         IN  near # NULL /\ InLowerHalf => addr(near) = addr(n) + size[n]

\* Registering adds one range and unregistering takes one away; no rotation and
\* no removal from the middle loses another or gives it another address.
Index == INSTANCE SizeIndex WITH
    Keys  <- Addrs,
    filed <- [n \in Range(InOrder(tree)) |-> addr(n)]

KeepsIndex == Index!Spec

\* The climb of every insert and remove comes to the root: the call returns.
CallsReturn == rebalance # NULL ~> rebalance = NULL
=============================================================================
