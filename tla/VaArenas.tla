------------------------------- MODULE VaArenas -----------------------------
(***************************************************************************)
(* va_allocator_arenas.c: requests are sorted into arenas by size, an      *)
(* arena serves them from the reservations in its list and makes another   *)
(* when none of them can, and a free finds the reservation again through   *)
(* the address tracker.  The first arenas manage their reservations as     *)
(* slabs, the others as object allocators (BlockHeap).                     *)
(*                                                                         *)
(* A reservation is named by the address mmap gave it.  Two variables are  *)
(* not state of the program: "live" is what the callers hold, the size     *)
(* they asked for by the address they were given, and "faulted" the faults *)
(* that have happened so far.                                              *)
(***************************************************************************)
EXTENDS BlockHeap, FiniteSets, Sequences

CONSTANTS arena_info_table,   \* of [max_per_alloc_size, reservation_size]
          NumSlabs,           \* arenas up to this one are slab arenas
          Places,             \* where the kernel may put a reservation
          Width,              \* bits of uint64_t
          Requests,           \* sizes callers ask for
          Faults,             \* what may go wrong
          ExtraFrees          \* bound: how far free_blocks may run over

Arenas == DOMAIN arena_info_table

KeyBits == Width - 1             \* of a size tree: 63 of the 64 bits of a size

ASSUME WidthAssumption == Width \in Nat \ {0}
ASSUME TableAssumption ==
    /\ Arenas \subseteq Nat /\ Requests \subseteq 0 .. 2 ^ Width - 1
    /\ \A i \in Arenas : /\ arena_info_table[i].max_per_alloc_size \in Nat \ {0}
                         /\ arena_info_table[i].reservation_size \in Nat \ {0}
                         /\ arena_info_table[i].reservation_size < 2 ^ KeyBits
    /\ \A s \in Requests : \E i \in Arenas :
          arena_info_table[i].max_per_alloc_size >= s
ASSUME PlacesAssumption ==
    \A p \in Places, i \in Arenas :
        p \in Nat \ {0} /\ p + arena_info_table[i].reservation_size < 2 ^ Width - 1
ASSUME FaultsAssumption ==
    Faults \subseteq {"calloc", "mmap", "stray free", "inner free"}

VARIABLES impl,           \* "none", "ready", "destroyed" or "aborted" (assert)
          arenas,         \* arena |-> its list, from reservation_head on
          parent_arena,   \* reservation |-> arena
          strategy,       \* reservation |-> slab or heap
          res_tracker,    \* registered address |-> size
          total,          \* total_va_size
          used,           \* used_va_size
          live, faulted

vars == <<impl, arenas, parent_arena, strategy, res_tracker, total, used, live, faulted>>

Reservations == DOMAIN parent_arena
Wrap(n)      == n % 2 ^ Width
MAP_FAILED   == 2 ^ Width - 1

Size(i)         == arena_info_table[i].reservation_size
block_size(i)   == arena_info_table[i].max_per_alloc_size
Bits(i)         == 0 .. (Size(i) \div block_size(i) - 1)   \* blocks_per_slab
is_slab(i)      == i <= NumSlabs
Span(a, s)      == a .. (a + s - 1)

\* The address space that really is reserved.
Mapped == UNION {Span(r, Size(parent_arena[r])) :
                 r \in Reservations \ {MAP_FAILED}}

Slab(i) == [bitmap : SUBSET Bits(i), free_blocks : Nat]

TypeOK ==
    /\ impl \in {"none", "ready", "destroyed", "aborted"}
    /\ arenas \in [Arenas -> Seq(Reservations)]
    /\ \A r \in Reservations : parent_arena[r] \in Arenas
    /\ DOMAIN strategy = Reservations
    /\ \A r \in Reservations :
          LET i == parent_arena[r] IN
          strategy[r] \in IF is_slab(i) THEN Slab(i) ELSE Heap(Span(r, Size(i)))
    /\ DOMAIN res_tracker = Reservations
    /\ total \in 0 .. MAP_FAILED /\ used \in 0 .. MAP_FAILED
    /\ \A a \in DOMAIN live : live[a] \in Requests
    /\ faulted \subseteq Faults

----------------------------------------------------------------------------
(***************************************************************************)
(* The helpers.                                                            *)
(***************************************************************************)

\* ">" for ">=".
get_arena_idx_for_size_Slip(size) ==
    Least({i \in Arenas : arena_info_table[i].max_per_alloc_size > size})

get_arena_idx_for_size(size) ==
    Least({i \in Arenas : arena_info_table[i].max_per_alloc_size >= size})

initialize_slab(i) == [bitmap |-> {}, free_blocks |-> Cardinality(Bits(i))]

\* start_addr is left as calloc made it.
initialize_obj_allocator_Slip(r, i) ==
    [InitialHeap(Span(r, Size(i)), r, Size(i)) EXCEPT !.blocks = {0}, !.head = 0]

initialize_obj_allocator(r, i) == InitialHeap(Span(r, Size(i)), r, Size(i))

initialize_strategy(r, i) ==
    IF is_slab(i) THEN initialize_slab(i) ELSE initialize_obj_allocator(r, i)

\* The counter is not lowered.
allocate_from_slab_Slip(r, i, sa) ==
    LET clear == Bits(i) \ sa.bitmap
        bit   == Least(clear)
    IN  IF sa.free_blocks = 0 \/ clear = {} THEN {}
        ELSE {[addr     |-> Wrap(r + block_size(i) * bit),
               strategy |-> [sa EXCEPT !.bitmap = @ \cup {bit}]]}

\* What an allocation can return with the strategy it leaves; {} stands for
\* the return of 0.
allocate_from_slab(r, i, sa) ==
    LET clear == Bits(i) \ sa.bitmap
        bit   == Least(clear)
    IN  IF sa.free_blocks = 0 \/ clear = {} THEN {}
        ELSE {[addr     |-> Wrap(r + block_size(i) * bit),
               strategy |-> [bitmap      |-> sa.bitmap \cup {bit},
                             free_blocks |-> sa.free_blocks - 1]]}

FitsKey(size) == size < 2 ^ KeyBits

\* A size with a bit above the keys' is searched by its lower bits, on a path
\* where no key reaches it: the answer is the last right subtree passed, the
\* key of its root greater than the lower bits and than a key above it.
Misled(oa, size) ==
    LET filed == {b \in DOMAIN oa.key : oa.key[b] # 0}
    IN  {b \in filed : /\ oa.key[b] > size - 2 ^ KeyBits
                       /\ \E c \in filed : oa.key[c] < oa.key[b]}

\* What radixTreeFindGEQ may answer; for a size that does not fit it may also
\* answer with nothing.
FindBlock(oa, size) ==
    IF FitsKey(size) THEN FindGEQ(oa, size) ELSE Misled(oa, size)

allocate_from_obj_allocator(oa, size) ==
    {[addr |-> b, strategy |-> AllocateBlock(oa, b, size)] :
        b \in FindBlock(oa, size)}

allocate_from_reservation(r, i, s, size) ==
    IF is_slab(i) THEN allocate_from_slab(r, i, s)
    ELSE allocate_from_obj_allocator(s, size)

\* The reservation may answer 0: it has no room, the search goes astray, or
\* there is no memory for the block that a split needs.
MayRefuse(r, i, s, size) ==
    \/ allocate_from_reservation(r, i, s, size) = {}
    \/ /\ ~ is_slab(i)
       /\ FitsKey(size) => /\ "calloc" \in Faults
                           /\ \E b \in FindBlock(s, size) : s.size[b] > size

\* The bit is cleared and the block counted, set or not.
free_to_slab(sa, bit) ==
    [bitmap |-> sa.bitmap \ {bit}, free_blocks |-> sa.free_blocks + 1]

free_to_obj_allocator(oa, addr) ==
    IF addr \in oa.blocks \ oa.free THEN FreeBlock(oa, addr) ELSE oa

\* The offset is taken for the bit number.
free_to_strategy_Slip(r, addr) ==
    IF is_slab(parent_arena[r]) THEN free_to_slab(strategy[r], addr - r)
    ELSE free_to_obj_allocator(strategy[r], addr)

free_to_strategy(r, addr) ==
    LET i == parent_arena[r] IN
    IF is_slab(i)
    THEN free_to_slab(strategy[r], (addr - r) \div block_size(i))
    ELSE free_to_obj_allocator(strategy[r], addr)

\* mmap answers with any place that is not in use yet, or cannot.
RESERVE_VA(size) ==
    {p \in Places : Span(p, size) \cap Mapped = {}}
        \cup IF "mmap" \in Faults THEN {MAP_FAILED} ELSE {}

\* cuiAddrTrackerFindNode: the registered ranges addr lies in.
FindNode(addr) ==
    {r \in DOMAIN res_tracker : addr >= r /\ addr < Wrap(r + res_tracker[r])}

\* A registered MAP_FAILED, the last of all addresses, is the first in the
\* order of the tree: the search may turn away from the range above it.
MayMiss(addr) == FindNode(addr) = {} \/ MAP_FAILED \in DOMAIN res_tracker

\* The new reservation never becomes the head of the list.
Enlist_Slip(list, r) == list

Enlist(list, r) == <<r>> \o list

----------------------------------------------------------------------------
(***************************************************************************)
(* The operations.                                                         *)
(***************************************************************************)

NoneYet == [r \in {} |-> 0]

Init ==
    /\ impl = "none"
    /\ arenas = [i \in Arenas |-> <<>>]
    /\ parent_arena = NoneYet /\ strategy = NoneYet /\ res_tracker = NoneYet
    /\ total = 0 /\ used = 0
    /\ live = NoneYet /\ faulted = {}

\* After destroy, and when a failed assertion has ended the program.
AllGone ==
    /\ arenas' = [i \in Arenas |-> <<>>]
    /\ parent_arena' = NoneYet /\ strategy' = NoneYet /\ res_tracker' = NoneYet
    /\ total' = 0 /\ used' = 0
    /\ live' = NoneYet

init_arena_allocator ==
    /\ impl = "none"
    /\ impl' = "ready"
    /\ UNCHANGED <<arenas, parent_arena, strategy, res_tracker, total, used, live, faulted>>

\* arena_alloc counts the size asked for, whatever the block's size.
Hand(addr, size) ==
    /\ used' = Wrap(used + size)
    /\ live' = [a \in DOMAIN live \cup {addr} |->
                   IF a = addr THEN size ELSE live[a]]

\* "calloc" if a reservation with room was passed over.
Note(spoilt) == faulted' = IF spoilt THEN faulted \cup {"calloc"} ELSE faulted

Serves(r, i, size) == allocate_from_reservation(r, i, strategy[r], size) # {}

\* The walk along the list ends at the first reservation that serves.
AllocFromListed(size) ==
    LET i    == get_arena_idx_for_size(size)
        list == arenas[i]
    IN  /\ impl = "ready"
        /\ \E n \in DOMAIN list :
              /\ \A m \in 1 .. (n - 1) :
                    MayRefuse(list[m], i, strategy[list[m]], size)
              /\ \E got \in allocate_from_reservation(list[n], i,
                                                      strategy[list[n]], size) :
                    /\ strategy' = [strategy EXCEPT ![list[n]] = got.strategy]
                    /\ Hand(got.addr, size)
              /\ Note(\E m \in 1 .. (n - 1) : Serves(list[m], i, size))
        /\ UNCHANGED <<impl, arenas, parent_arena, res_tracker, total>>

\* Nothing in the list serves.
ListExhausted(size) ==
    LET i == get_arena_idx_for_size(size)
    IN  /\ impl = "ready"
        /\ \A n \in DOMAIN arenas[i] :
              MayRefuse(arenas[i][n], i, strategy[arenas[i][n]], size)

Joined(f, r, v) == [x \in DOMAIN f \cup {r} |-> IF x = r THEN v ELSE f[x]]

\* total_va_size is raised by what was asked for.
create_reservation_Slip(r, i, size) ==
    /\ arenas' = [arenas EXCEPT ![i] = Enlist(@, r)]
    /\ parent_arena' = Joined(parent_arena, r, i)
    /\ res_tracker' = Joined(res_tracker, r, Size(i))
    /\ total' = Wrap(total + size)

create_reservation(r, i, size) ==
    /\ arenas' = [arenas EXCEPT ![i] = Enlist(@, r)]
    /\ parent_arena' = Joined(parent_arena, r, i)
    /\ res_tracker' = Joined(res_tracker, r, Size(i))
    /\ total' = Wrap(total + Size(i))

\* The reservation with its strategy s serves, or stays in the list all the same.
ServeFromNew(r, s, size) ==
    LET i      == get_arena_idx_for_size(size)
        passed == \E n \in DOMAIN arenas[i] : Serves(arenas[i][n], i, size)
        gives  == allocate_from_reservation(r, i, s, size)
    IN  \/ \E got \in gives :
              /\ strategy' = Joined(strategy, r, got.strategy)
              /\ Hand(got.addr, size)
              /\ Note(passed)
        \/ /\ MayRefuse(r, i, s, size)
           /\ strategy' = Joined(strategy, r, s)
           /\ Note(passed \/ gives # {})
           /\ UNCHANGED <<used, live>>

\* CU_ASSERT(existing == NULL): MAP_FAILED is registered already.
AllocFromNew(size) ==
    LET i == get_arena_idx_for_size(size)
    IN  /\ ListExhausted(size)
        /\ \E r \in RESERVE_VA(Size(i)) :
              IF r \in DOMAIN res_tracker
              THEN impl' = "aborted" /\ AllGone /\ UNCHANGED faulted
              ELSE /\ create_reservation(r, i, size)
                   /\ ServeFromNew(r, initialize_strategy(r, i), size)
                   /\ UNCHANGED impl

\* A calloc of create_reservation fails: what was reserved goes back.
AllocRefused(size) ==
    /\ "calloc" \in Faults
    /\ ListExhausted(size)
    /\ Note(TRUE)
    /\ UNCHANGED <<impl, arenas, parent_arena, strategy, res_tracker, total, used, live>>

arena_alloc(size) ==
    AllocFromListed(size) \/ AllocFromNew(size) \/ AllocRefused(size)

\* A free of what nobody holds: of an address inside a slab block, which gives
\* that block back whoever holds it, or of any other.
FaultOf(addr) ==
    IF \E r \in FindNode(addr) :
          is_slab(parent_arena[r]) /\ (addr - r) % block_size(parent_arena[r]) # 0
    THEN "inner free" ELSE "stray free"

\* A caller frees what it holds or, as a fault, what nobody holds.
CallersFree(addr) ==
    \/ addr \in DOMAIN live
    \/ /\ FaultOf(addr) \in Faults
       /\ \A r \in FindNode(addr) :
             is_slab(parent_arena[r]) =>
                strategy[r].free_blocks < Cardinality(Bits(parent_arena[r])) + ExtraFrees

NoteFree(addr) ==
    faulted' = IF addr \in DOMAIN live THEN faulted ELSE faulted \cup {FaultOf(addr)}

\* used_va_size is lowered by node->size, the size of the reservation.
arena_free(addr) ==
    /\ impl = "ready"
    /\ CallersFree(addr)
    /\ \E r \in FindNode(addr) :
          /\ strategy' = [strategy EXCEPT ![r] = free_to_strategy(r, addr)]
          /\ used' = Wrap(used + 2 ^ Width - res_tracker[r])
    /\ live' = [a \in DOMAIN live \ {addr} |-> live[a]]
    /\ NoteFree(addr)
    /\ UNCHANGED <<impl, arenas, parent_arena, res_tracker, total>>

\* assert(0): the tracker knows of no reservation with this address.
FreeAborts(addr) ==
    /\ impl = "ready"
    /\ CallersFree(addr)
    /\ MayMiss(addr)
    /\ impl' = "aborted"
    /\ AllGone
    /\ NoteFree(addr)

BlocksInUse(r) == is_slab(parent_arena[r]) /\ strategy[r].bitmap # {}

\* All reservations are unmapped, arena by arena.
arena_destroy ==
    /\ impl = "ready"
    /\ ~ \E r \in Reservations : BlocksInUse(r)
    /\ impl' = "destroyed"
    /\ AllGone
    /\ UNCHANGED faulted

\* assert(!cubitvectorIsAnyBitSet(sa->bitmap)) in deinitialize_slab.
DestroyAborts ==
    /\ impl = "ready"
    /\ \E r \in Reservations : BlocksInUse(r)
    /\ impl' = "aborted"
    /\ AllGone
    /\ UNCHANGED faulted

\* Everything callers hold, and what lies around the reservations.
FreeArgs ==
    DOMAIN live \cup UNION {Span(p, Size(i)) : p \in Places, i \in Arenas}

Next ==
    \/ init_arena_allocator
    \/ \E size \in Requests : arena_alloc(size)
    \/ \E addr \in FreeArgs : arena_free(addr) \/ FreeAborts(addr)
    \/ arena_destroy
    \/ DestroyAborts

Spec == Init /\ [][Next]_vars

----------------------------------------------------------------------------
(***************************************************************************)
(* Properties.                                                             *)
(***************************************************************************)

\* What the strategy of r takes for allocated: address |-> size of the block.
Allocated(r) ==
    LET i == parent_arena[r]
        s == strategy[r]
    IN  IF is_slab(i)
        THEN [a \in {r + block_size(i) * b : b \in s.bitmap} |-> block_size(i)]
        ELSE [a \in s.blocks \ s.free |-> s.size[a]]

\* The blocks the reservations take for allocated are the ones callers hold:
\* none is lost by a free of its neighbour, none stays behind.  An object
\* block has the size asked for, a slab block at least that.  This is for callers
\* that free no address inside a slab block and ask for less than 2^KeyBits.
AllocatedBlocksAreLive ==
    /\ DOMAIN live = UNION {DOMAIN Allocated(r) : r \in Reservations}
    /\ \A r \in Reservations : \A a \in DOMAIN Allocated(r) :
          IF is_slab(parent_arena[r]) THEN live[a] <= Allocated(r)[a]
          ELSE live[a] = Allocated(r)[a]

\* free_blocks, which decides whether a slab is searched at all, counts the
\* clear bits as long as callers free what they hold.
SlabsCountTheirBits ==
    faulted \cap {"stray free", "inner free"} = {} =>
        \A r \in Reservations : is_slab(parent_arena[r]) =>
            strategy[r].free_blocks =
                Cardinality(Bits(parent_arena[r]) \ strategy[r].bitmap)

\* A reservation of an object arena is tiled by its blocks, with the list and
\* the size tree in step and free neighbours merged.
ObjectHeapsWellFormed ==
    \A r \in {q \in Reservations : ~ is_slab(parent_arena[q])} :
        LET limit == r + Size(parent_arena[r]) IN
        /\ Tiled(strategy[r], r, limit)
        /\ Linked(strategy[r], r, limit)
        /\ Coalesced(strategy[r])
        /\ Filed(strategy[r])

\* A reservation is in the list of its arena, once, and in no other, and what
\* is registered for it is its size: allocation (by list) and free (by
\* tracker) see the same reservations, and total_va_size adds them up.
ListsAndTrackerAgree ==
    /\ \A i \in Arenas :
          /\ {arenas[i][n] : n \in DOMAIN arenas[i]} =
                {r \in Reservations : parent_arena[r] = i}
          /\ \A m, n \in DOMAIN arenas[i] : arenas[i][m] = arenas[i][n] => m = n
    /\ \A r \in Reservations : res_tracker[r] = Size(parent_arena[r])
    /\ total = Cardinality(Mapped)

\* README, "Automatic selection of appropriate arena based on size": the free
\* of what a caller holds reaches exactly one reservation, of the smallest
\* size class that takes the size asked for.
FreeFindsItsClass ==
    \A a \in DOMAIN live :
        \E r \in Reservations :
            /\ FindNode(a) = {r}
            /\ live[a] <= arena_info_table[parent_arena[r]].max_per_alloc_size
            /\ \A i \in Arenas : i < parent_arena[r] =>
                  live[a] > arena_info_table[i].max_per_alloc_size

Room(r, size) ==
    IF is_slab(parent_arena[r])
    THEN strategy[r].bitmap # Bits(parent_arena[r])
    ELSE \E b \in strategy[r].free : strategy[r].size[b] >= size

\* As long as memory lasts, address space is reserved only if no reservation of
\* that arena has room for the request, however blocks were freed and merged
\* before, and also after a free of what was not held.
ReservesOnlyWhenFull ==
    []["calloc" \notin faulted' =>
       \A a \in DOMAIN live' \ DOMAIN live :
          \A new \in DOMAIN parent_arena' \ Reservations :
              \A r \in Reservations :
                  parent_arena[r] = parent_arena'[new] => ~ Room(r, live'[a])]_vars

\* The allocator implements what VaSpec promises: no two callers get the same
\* space, within a reservation or across them.
Promise == INSTANCE VaSpec WITH
    Addr   <- 0 .. MAP_FAILED,
    Sizes  <- Requests,
    mapped <- Mapped

KeepsPromise == Promise!Spec

InUse == UNION {Span(a, live[a]) : a \in DOMAIN live}

\* "Verify total used size matches our tracking": va_allocator_get_used_size
\* is the number of bytes callers hold.
UsedSizeMatchesTracking == used = Cardinality(InUse)

\* A request that cannot be served is answered with 0; any other answer is an
\* address with reserved space behind it.
AnswersAreReserved ==
    \A a \in DOMAIN live : Span(a, live[a]) \subseteq Mapped
=============================================================================
