------------------------------ MODULE VaDefault -----------------------------
(***************************************************************************)
(* va_allocator_default.c: one reservation made by init_default_allocator, *)
(* cut into blocks by default_alloc and merged again by default_free, until *)
(* default_destroy.                                                        *)
(*                                                                         *)
(* "live" is not state of the program: it is what the callers hold, the    *)
(* size they asked for by the address they were given (0: not held).       *)
(***************************************************************************)
EXTENDS BlockHeap, FiniteSets

CONSTANTS Base,        \* where the kernel places the reservation
          Total,       \* VA_RESERVATION_SIZE
          Requests,    \* sizes callers ask for
          FreeArgs     \* addresses callers pass to va_free

ASSUME ReservationAssumption == Base \in Nat \ {0} /\ Total \in Nat \ {0}
ASSUME CallerAssumption == Requests \subseteq Nat /\ FreeArgs \subseteq Nat

VARIABLES impl,        \* "none", "ready" or "destroyed"
          reserved,    \* whether the reservation is mapped
          heap,        \* addr_list and size_tree
          used,        \* used_va_size
          live

vars == <<impl, reserved, heap, used, live>>

Limit == Base + Total
Addr  == Base .. (Limit - 1)

Nobody == [a \in Addr |-> 0]

TypeOK ==
    /\ impl \in {"none", "ready", "destroyed"}
    /\ reserved \in BOOLEAN
    /\ heap \in Heap(Addr)
    /\ used \in Nat
    /\ live \in [Addr -> Nat]

Init ==
    /\ impl = "none"
    /\ reserved = FALSE
    /\ heap = NoHeap(Addr)
    /\ used = 0
    /\ live = Nobody

\* The two calloc's or the mmap fail: init returns NULL, and what it had
\* reserved by then goes back.
InitFails ==
    /\ impl = "none"
    /\ reserved' = FALSE
    /\ UNCHANGED <<impl, heap, used, live>>

init_default_allocator ==
    /\ impl = "none"
    /\ impl' = "ready"
    /\ reserved' = TRUE
    /\ heap' = InitialHeap(Addr, Base, Total)
    /\ used' = 0
    /\ UNCHANGED live

\* size = 0, more than the reservation, nothing that fits, or no memory for
\* the block a split needs: 0 is returned before anything is written.
AllocRefused(size) ==
    /\ impl = "ready"
    /\ \/ size = 0 \/ size > Total
       \/ FindGEQ(heap, size) = {}
       \/ \E b \in FindGEQ(heap, size) : heap.size[b] > size
    /\ UNCHANGED vars

\* used_va_size takes the block's size before the split.
default_alloc_Slip(size) ==
    /\ impl = "ready"
    /\ size # 0 /\ size <= Total
    /\ \E b \in FindGEQ(heap, size) :
          /\ heap' = AllocateBlock(heap, b, size)
          /\ used' = used + heap.size[b]
          /\ live' = [live EXCEPT ![b] = size]
    /\ UNCHANGED <<impl, reserved>>

default_alloc(size) ==
    /\ impl = "ready"
    /\ size # 0 /\ size <= Total
    /\ \E b \in FindGEQ(heap, size) :
          /\ heap' = AllocateBlock(heap, b, size)
          /\ used' = used + heap'.size[b]
          /\ live' = [live EXCEPT ![b] = size]
    /\ UNCHANGED <<impl, reserved>>

\* The walk of insert_addr_list and of default_free from addr_list on, up to
\* the first block at which Stop holds: <<prev, current>> when it ends.
WalkList(h, Stop(_)) ==
    LET At[turn \in Nat] ==
            IF turn = 0 THEN <<NULL, h.head>>
            ELSE LET at == At[turn - 1]
                 IN  IF at[2] = NULL \/ Stop(at[2]) THEN at
                     ELSE <<at[2], h.addr_next[at[2]]>>
    IN  At[Cardinality(h.blocks)]

\* No block starts at addr, or it is free already.
FreeIgnored(addr) ==
    /\ impl = "ready"
    /\ addr \notin heap.blocks \ heap.free
    /\ UNCHANGED vars

\* used_va_size is lowered after the merge, by the merged size.
default_free_Slip(addr) ==
    /\ impl = "ready"
    /\ addr \in heap.blocks \ heap.free
    /\ heap' = FreeBlock(heap, addr)
    /\ LET at == Greatest({b \in heap'.blocks : b <= addr})
       IN  used' = used - heap'.size[at]
    /\ live' = [live EXCEPT ![addr] = 0]
    /\ UNCHANGED <<impl, reserved>>

default_free(addr) ==
    /\ impl = "ready"
    /\ addr \in heap.blocks \ heap.free
    /\ heap' = FreeBlock(heap, addr)
    /\ used' = used - heap.size[addr]
    /\ live' = [live EXCEPT ![addr] = 0]
    /\ UNCHANGED <<impl, reserved>>

\* The blocks are freed first and addr_list->start_addr is read from one of
\* them afterwards.  What munmap is given is then whatever the C allocator
\* left there: the old address, or something that is not the reservation.
default_destroy ==
    /\ impl = "ready"
    /\ impl' = "destroyed"
    /\ reserved' \in IF heap.head = NULL THEN {reserved} ELSE {reserved, FALSE}
    /\ heap' = NoHeap(Addr)
    /\ used' = 0
    /\ live' = Nobody

Next ==
    \/ InitFails
    \/ init_default_allocator
    \/ \E size \in Requests : AllocRefused(size) \/ default_alloc(size)
    \/ \E addr \in FreeArgs : FreeIgnored(addr) \/ default_free(addr)
    \/ default_destroy

Spec == Init /\ [][Next]_vars

----------------------------------------------------------------------------
(***************************************************************************)
(* Properties.                                                             *)
(***************************************************************************)

\* The blocks tile the reservation and the address list runs through all of
\* them in order, both ways: what the asserts of default_free (start of the
\* block = end of prev, end of the block = start of next) look at, for every
\* block at once.
BlocksTileReservation ==
    impl = "ready" => Tiled(heap, Base, Limit) /\ Linked(heap, Base, Limit)

\* default_free leaves no two free blocks side by side, whatever the order of
\* the frees: a split or a merge that forgets a neighbour shows here.
FreeNeighboursMerged == impl = "ready" => Coalesced(heap)

\* The size tree indexes the free blocks and only those, under their present
\* size: a merge that leaves a stale key, or a split that forgets to file the
\* rest, would make a later best fit hand out space in use.
SizeTreeIsFreeList == impl = "ready" => Filed(heap)

\* Every address a caller holds starts a used block of the size it asked for,
\* and every used block is held by a caller: no block is lost or shrunk by
\* what happens to its neighbours.
UsedBlocksAreLive ==
    \A a \in Addr :
        live[a] = IF a \in heap.blocks \ heap.free
                  THEN heap.size[a] ELSE 0

InUse == UNION {a .. (a + live[a] - 1) : a \in Addr}

\* va_allocator_get_used_size is the number of bytes callers hold, over any
\* sequence of splits, merges and ignored frees.
UsedSizeIsLiveBytes == used = Cardinality(InUse)

\* The walks along addr_list come to the blocks that the helpers of BlockHeap
\* name by address: a split finds the place of any new block between the ones
\* there are, and a free finds its block or the end, through whatever the links
\* have become by then.
WalksAgree ==
    impl = "ready" =>
        /\ \A b \in Addr \ heap.blocks :
              WalkList(heap, LAMBDA c : c >= b) =
                  <<Greatest(BlocksBelow(heap, b)), Least(BlocksFrom(heap, b))>>
        /\ \A addr \in FreeArgs :
              WalkList(heap, LAMBDA c : c = addr)[2] =
                  IF addr \in heap.blocks THEN addr ELSE NULL

\* README, "best fit": what default_alloc cuts comes from the least free
\* block of the address list that is large enough, wherever it lies, even
\* though only the size tree is consulted.
BestFitTaken ==
    [][\A a \in Addr :
          (live[a] = 0 /\ live'[a] # 0) =>
              /\ a \in heap.free
              /\ heap.size[a] >= live'[a]
              /\ \A b \in heap.free :
                    heap.size[b] >= live'[a] => heap.size[a] <= heap.size[b]]_vars

\* A step moves at most one caller's address, and the other callers keep
\* theirs: the allocator implements what VaSpec promises.
Promise == INSTANCE VaSpec WITH
    Sizes  <- Requests,
    mapped <- IF reserved THEN Addr ELSE {},
    live   <- [a \in {b \in Addr : live[b] # 0} |-> live[a]]

KeepsPromise == Promise!Spec

\* What destroying the allocator is for: the address space goes back.  It is
\* the block's "Starting address" (va_allocator_default.c:9) that FREE_VA is
\* meant to be given.
DestroyReleasesReservation == impl = "destroyed" => ~ reserved
=============================================================================
