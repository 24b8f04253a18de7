# The VA space allocator in TLA+

A verification project for the VA space allocator: a C library that reserves
ranges of virtual address space from the kernel and hands parts of them out. It
is sequential code (the lock calls of `addrtracker.c` are commented out). What
makes it hard is data that must stay in step over long sequences of calls: two
or three structures index the same blocks, blocks split and merge while they
are filed, and the radix tree rewires up to fifteen pointers in one step.

## The system

| Part | State | Operations | Talks to |
|---|---|---|---|
| Interface, `va_allocator.c` | handle -> ops of its type; one static `ops.impl` per type | init, destroy, alloc, free, sizes, print | either allocator through `ops` |
| Default allocator, `va_allocator_default.c` | one reservation, address list of blocks, size tree, `used_va_size` | init, alloc (best fit, split), free (merge), destroy | radix tree, mmap |
| Arena allocator, `va_allocator_arenas.c` | eight arenas, each a list of reservations; tracker; `total_va_size`, `used_va_size` | init, alloc (walk the list, reserve more), free (by tracker), destroy | slabs, object allocators, tracker, mmap |
| Slab (in the arena file) | bitmap and `free_blocks` of one reservation | allocate, free | bit vector |
| Object allocator (in the arena file) | block list and size tree of one reservation | allocate, free | radix tree |
| Radix tree, `radix.c` | tree of keys, parent smaller than children, a ring per key | insert, remove, find GEQ | - |
| Address tracker, `addrtracker.c` | address ranges in an AVL tree | register, unregister, find, range queries | AVL tree |
| AVL tree, `avl.c` | balanced tree | insert, remove, find, successor | - |
| Bit vector, `bitvector.c` | bits in 64-bit chunks | set, clear, find, ranges, grow | - |

Correctness, part by part:

* *Default allocator.* Blocks tile the reservation; list and tree describe the
  same blocks; free neighbours are merged; the accounting is exact; callers get
  disjoint space; destroy gives the reservation back.
* *Arena allocator.* The same within an object reservation; a slab's counter and
  bitmap agree; list and tracker agree; a free reaches the reservation the
  allocation came from; no reservation is made while another has room.
* *Interface.* A handle's calls reach the implementation made for it, and no
  implementation is lost or used after it is gone; a block stays in use until
  its holder gives it back; only a destroy with slab blocks in use ends the program.
* *Radix tree.* All pointers of a node agree, every key is where its bits lead,
  the search returns the least key that reaches.
* *AVL tree.* Links, order and balance survive every rotation and removal; no
  node is lost; the climb ends.
* *Address tracker.* It finds the range that holds an address, and its range
  queries answer what the set of ranges would.
* *Bit vector.* Updates and queries are those of a set of bits, whatever the
  storage and wherever in a chunk a range begins and ends.

The hard behaviours are listed, at the line where they bite, under `hazards` in
`PROJECT.json`: stale neighbours and keys during a split or merge, counters that
drift, `calloc`, `mmap` or init failing half way, pointers crossing in a swap,
integers wrapping, a tree rewired while it is climbed, masks at the boundary of
a chunk, and an `ops` struct several handles share.

## Modules

| Module | Stands for |
|---|---|
| `VaSpec` | the promise of `va_alloc`, `va_free` and destroy, whichever implementation answers |
| `BlockHeap` | the block bookkeeping shared line for line by both C files: operators from heap to heap |
| `VaDefault` | `va_allocator_default.c`, one action per operation; implements `VaSpec` |
| `VaArenas` | `va_allocator_arenas.c`, on `BlockHeap` for the object arenas; implements `VaSpec` |
| `VaAllocator` | `va_allocator.c` and the static `ops` structs |
| `SizeIndex`, `RadixTree` | what a size tree stores, and `radix.c` pointer by pointer; the second implements the first |
| `AvlTree`, `AddrTracker` | `avl.c` pointer by pointer, and `addrtracker.c` on it; together they implement `SizeIndex` with addresses for sizes |
| `BitVector` | `bitvector.c` with chunks of any width |
| `BlockHeapProofs`, `VaDefaultProofs`, `VaAllocatorProofs`, `VaArenasProofs`, `RadixTreeProofs`, `BitVectorProofs` | theorems about the module each is named for |
| `AddrTrackerProofs` | theorems about `AddrTracker` and the `AvlTree` below it |
| `NumberInduction` | lemmas the proofs share: induction over numbers and along pointers, loops, powers of two |
| `MC*` | instances for TLC |

`BlockHeap` names a block by its start address, keeps the C fields (`size`,
`is_free`, `addr_next`, `addr_prev`) and shows of the radix tree only the key
each block is filed under. The search is then "a filed block of the least key
that reaches the size"; that `radix.c` really answers this is
`FindGEQIsLeast` of `RadixTree`. Which of several blocks of one key comes first
is left open. `insert_addr_list` finds its place by address; that the walk along
the links comes to the same place, in every state, is `WalksAgree` of `VaDefault`.

`RadixTree` names a tree pointer's cell as a slot, `<<n, i>>` for
`n->child[i]`, so that `parent_to_self_ptr` is a slot too. Loops are functions
of the number of turns; each turn uses a bit of the key. A removed node's stale
fields are cleared at once; in C they stay until the `memset` of the next
insert, and nothing reads them in between.

In `VaArenas` a reservation is named by the address mmap gave; `strategy` is its
slab or heap. The walk along the list is the guard that every reservation before
the one that serves refuses. `Faults` says what may go wrong: `calloc` failing, `mmap`
failing, and two kinds of frees of what nobody holds. A *stray free* is of an
address outside the slabs or at the start of a slab block. An *inner free* is of
an address inside a slab block: `free_to_slab` rounds it down to the block's bit
and gives that block back, whoever holds it. The ownership of blocks cannot
survive that, so no run that is to pass allows it. `faulted` remembers what has
happened, so that a property can say "as long as callers free what they hold".
The size trees have 63-bit keys (`KeyBits`); a larger request is searched by its
lower bits and may be answered with a smaller block (`Misled`, finding 2).
The tracker is a set of ranges there and the bitmap of a slab a set of bits:
`AddrTracker` and `BitVector` show that the code's structures answer as these
sets do. `MayMiss` keeps the one exception, a registered `MAP_FAILED` that may
hide a range from the search. `live`, `faulted`, `made`, `held` and `lost` in
the modules are what callers hold and what has happened to it; they are not
state of the program.

`VaAllocator` only counts the blocks of an implementation, and `stopped` says
what ended the program: an assertion, or a pointer to nothing. A block goes back
to whatever implementation `ops.impl` names by then. If the one it came from is
gone, its address space was unmapped and mmap may have given it out again: the
later implementation then frees a block that somebody else holds
(`FreesReused`), and `lost` counts those. Destroying arenas stops the program if
one of the blocks in use is in a slab. Which ones are is not kept, so with any
blocks in use both `va_allocator_destroy` and `DestroyAborts` may happen.

`AvlTree` writes the mirrored halves of `avl.c` once: `left` and `right` are
fields of `link[n]`. An insert or a remove links the node in or out in one step
and then climbs, one turn of `cuAvlTreeNodeRebalance` a step, with `rebalance`
the node it has reached; nothing else may happen in between. The states within a
climb are states of the model because the assertions of `cuAvlTreeAssertValid`
are meant of the links then too, and because a wrong parent pointer shows as a
climb that does not end.

`BitVector` takes a chunk for the set of its bits that are 1 and keeps which kind
of storage the union holds. Shifts are the machine's, by the count modulo the
width. Callers grow vectors only to sizes that rounding up to chunks leaves
positive: of such sizes only `cubitvectorCreate` has a test.

Operators whose names end in `_Slip` are the code with a plausible mistake in
it; nothing uses them except the runs that try whether a property notices.

## Runs

| Run | Instance | What it shows |
|---|---|---|
| `default` | a reservation of 9 units, every request of 0 to 10, frees of every address in and around it | all properties of `VaDefault`, best fit, `VaSpec` |
| `default_destroy` | the same | **violation**: destroy reads the reservation's address from a freed block |
| `radix` | 4 nodes, 4-bit keys, all insert and remove sequences | pointers, key order, search, loop bound, `SizeIndex` |
| `radix_wide_key` | 3 nodes, 2-bit keys, searched with 3 bits | **violation**: a search may return a smaller key |
| `arenas` | a slab arena and an object arena, 3 places, requests 2, 3, 4, 7, calloc failing, stray and double frees | list, tracker, slabs, heaps, classes, when space is reserved, `VaSpec` |
| `arena_mmap_fails` | mmap may fail | **violation**: `MAP_FAILED` is taken for an address |
| `arena_used_size` | no faults | **violation**: `used_va_size` wraps |
| `interface` | 3 handles, 5 implementations, one open handle per type | handles reach their own implementation; nothing but an arena destroy with own blocks in use stops the program |
| `shared_ops` | the same, inits may overlap | what survives sharing: blocks are lost only to stale addresses, a living implementation that is reached has an owner |
| `overlapping_inits` | the same | **violation**: a later init redirects earlier handles |
| `tracker` | 9 nodes, 11 ranges, among them a second one for an address, one beyond the limit and `MAP_FAILED` | AVL links, order, balance; all queries; `SizeIndex`; calls return |
| `bitvector` | 2 vectors of 1 to 5 bits in chunks of 2 | storage and padding, updates and queries against sets |

Why the bounds are enough. Nine units leave room for four blocks and every
pattern of used and free neighbours around a freed one. Four bits are the least
for which the choice of the *latest* right subtree in the search matters, and
with four nodes a node is displaced by an insert, sinks on a remove and has a
sibling and grandchildren; rings of up to four nodes occur. Two arenas give each
strategy; a reservation of 6 units is served whole, as 3 + 3 or as 4 + 2; 7 is
refused by every reservation. Three places give lists of up to three
reservations, in one arena or in two. A request that needs a new reservation
when every place is taken is not made, or fails in `mmap` where the run allows
that fault. `MCView` leaves `used_va_size` out of what tells states of `arenas`
apart: nothing reads it but its getter, and it wraps through every value.
The words of
`VaArenas` have 4 or 5 bits, just above the address space in use, so that the
counters wrap. Bounds in the guards: `ExtraFrees` (how far
`free_blocks` may run over) and `MaxBlocks` (blocks in use, held or lost of one
implementation).
Nine nodes make AVL trees of four levels: every rotation, every kind of removal,
a climb that goes on above a rotation. A single removal that rotates at two
levels needs twelve nodes, too many here (more than a million states). Five bits
in chunks of two cover one, two and three chunks, the last one full or not, and
both sides of the inline limit; 31 bits of a 5-bit count round up to 0. Deadlock
is not checked where an allocator may be destroyed or stopped for good.

Fairness: only `AddrTracker` assumes any, weak fairness of `Climb`. A caller need
not call, but a thread inside a call is not blocked by anything (the locks are
commented out) and runs on; `CallsReturn` says that the call then ends. Elsewhere
a call is one step, nothing runs by itself, and no document promises that calls
happen. That the loops of `radix.c` end is the safety property `InsertEndsInTime`.

## Findings

1. `default_destroy` frees every block, then reads the address to unmap from one.
2. `radixTreeFindGEQ` with a key wider than `key_bits` may return a smaller key.
   The default allocator refuses such sizes; `arena_alloc` passes them on.
3. `create_reservation` tests mmap's answer for 0 instead of `MAP_FAILED`.
4. `arena_free` lowers `used_va_size` by the size of the whole reservation.
5. Both implementations of a type share one `ops.impl`: a second init takes
   over the first one's handle, which then is destroyed twice.

Seen and not claimed as findings: the README's "best-fit" of the object
allocator is best fit within a reservation and first fit across them; a request
larger than a reservation adds one each time it is tried; `va_alloc(0)` is
refused by one allocator and answered by the other; destroying arenas that have
slab blocks in use fails an assertion, while blocks in use elsewhere do not
matter; a block freed after its implementation was destroyed may be, by then,
somebody else's; a free of an address inside a slab block frees that block.

## Proofs

`BlockHeapProofs` proves, for any reservation and block sizes, that allocating
from a well-formed heap and freeing into it leave it well formed
(`AllocateKeepsHeap`, `FreeKeepsHeap`), with a lemma for each step of the code:
split, take, absorb, free.

`VaDefaultProofs` proves `Spec => []IInv` with

    IInv == TypeOK /\ HeapInv /\ IdleInv /\ live = UsedSizes(heap)
                   /\ used = Cardinality(Bytes(live))

where `HeapInv` is the conjunction `Tiled`, `Linked`, `Coalesced`, `Filed`. None
of the four is inductive alone: a merge is right only if the links lead to the
true neighbours (`Linked`), those are adjacent (`Tiled`), the tree entry it
removes is the right one (`Filed`), and the merged block touches no free block
because its outer neighbours were not free (`Coalesced` before). The byte count
needs that live blocks are disjoint. From `IInv` follow `TypeCorrect`, `Tiling`,
`Coalescing`, `Filing`, `Ownership`, `Accounting`, `BestFit`, `WalksByAddress`
and `Refinement` (`VaDefault` implements `VaSpec`), from the assumptions that the
reservation starts at a positive address and has a positive size. `WalksByAddress`
says of the walk along `addr_next` that it stops where the addresses say: on a
linked list the block it has reached is always the next by address.

`VaAllocatorProofs` proves three things for all callers. `ReachedImplHasOwner`
rests on an invariant (`OwnerInv`) that names only what has been made and only
under its own type. `TypeOK` and `HeldBlocksAreInUse` rest on `KeptInv`, which
gives each implementation a finite sum, over all handles, of the blocks that are
held of it, and bounds that sum by its own counter and the blocks lost to stale
addresses: a free through one of several handles that share an implementation
lowers the sum and one of these, a stale free moves one from the counter to
`lost`. For callers that open one
handle of a type at a time (`OneAtATime`) it also proves `HandleReachesItsImpl`,
`NoImplIsLost` and `StopsOnlyInUse`, from the one to one correspondence of open
handles, living implementations and held blocks, of which none is lost
(`OneInv`); the program ends only in `DestroyAborts`. These depend on one
another: destroy frees the right implementation only because the handle reaches
its own.

`VaArenasProofs` proves every property of the run `arenas` for all tables of
arenas, places, requests and word widths, with callocs that fail and stray
frees, from these assumptions on the use (`OrdinaryUse`):

- no mmap fails, because a registered `MAP_FAILED` breaks most of them (run
  `arena_mmap_fails`);
- no address inside a slab block is freed, which would give back somebody's block;
- object arenas are asked for more than 0 bytes, as a split for 0 would leave a
  block of no size, and for less than `2 ^ KeyBits`, as the search may answer
  others with less than was asked for.

Of the table it is assumed that classes and reservation sizes are positive, that
a reservation's size fits a key and that requests are words (`TableAssumption`),
and of the places that each leaves room below the last word
(`PlacesAssumption`). The invariant is `IInv == SpaceInv /\ BooksInv /\ RestInv`:

- `SpaceInv`: reservations lie apart (`Layout`), each is in order (`Orderly`),
  what they take for allocated is what callers hold, each block in a reservation
  of its class (`Backed`), and slabs count their bits (`Counted`) unless
  something was freed that was not held;
- `BooksInv`: lists (`Listed`), tracker (`Registered`) and total describe the
  same reservations.

The parts need one another: an address is held of one reservation only because
reservations lie apart; a free reaches that one because the tracker has the
sizes the lists' arenas have; its block number is right because the block has
the class of the arena. Orderly slabs have only `free_blocks` at least the number
of clear bits: a stray free raises the counter, and it is this inequality that
keeps a slab with a clear bit from being passed over (`Thrift`). The argument
has two parts: the first shows that one reservation gains or loses exactly one
block (`AllocKeeps`, `FreeKeeps`, from the theorems of `BlockHeapProofs` and
arithmetic on offsets). `FreeKeeps` holds of every address: the block lost is, in
a slab, the one whose space the address lies in, and in a heap the one that
starts there. The second shows that the others and the books stay in step.

`RadixTreeProofs` proves every property of the run `radix` for any finite set of
nodes and any number of bits in a key: the types, `PointersAgree`,
`KeysInPlace`, `FindGEQIsLeast`, `InsertEndsInTime`, and that `RadixTree`
implements `SizeIndex`. `BlockHeap` rests on the last two. The invariant is

    IInv == tree \in Trees /\ Linked(tree) /\ Shape(tree) /\ Rings(tree) /\ Headed(tree)

- `Linked`: a primary and its slot name each other, the slot names its parent,
  and a node outside the tree has no links;
- `Shape`: there is a depth for each node, one more than its parent's, such that
  node and parent agree in the bits of the key down to the parent's depth, the
  next bit is the side the node is on, and the parent's key is smaller;
- `Rings`: next and prev are inverse, and nodes of one key are one ring;
- `Headed`: of each key that is in a ring, one node is in the tree.

The depth is what makes the rest provable: it turns "on the path of its bits"
into a fact about a node and its parent, which a swap or a replacement can only
disturb near the nodes it moves. In the middle of a call the invariant does not
hold, and each loop has one of its own. While a node sinks to be removed, it is
given the key of the child it is swapped with, so that every other node stays in
its place (`Loose`, `Sinking`). While an insert goes down, the tree without the
carried node is in order and the carried node may hang from the slot reached
(`Hangs`, `Walking`); the walk has used one bit per turn, so that when none is
left the node met and the node carried would have the same key (`WalkEnds`). The
assertion `cur_key_bit > 0` is that lemma. The search keeps, of the nodes not yet
excluded, that those still below are better than those passed by (`SearchOK`).

`BitVectorProofs` proves the three properties of the run `bitvector` for chunks
of any width `2 ^ Width` and any sizes callers ask for: masks are sets of
positions, a range that crosses chunks is the union of what the first mask, the
whole chunks between and the last mask name (`UpdatesCorrect`), and a scan from
chunk to chunk stops at the chunk with the least or greatest such bit
(`QueriesCorrect`).

`AddrTrackerProofs` proves every safety property of the run `tracker`, and that
the tracker implements `SizeIndex`, for any finite set of nodes, any ranges and
any width of an address, in every state, those within a climb included. The
invariant, for the registered nodes `H` and a climb that has reached `r`, is

    \E S : Search(tree, H, S) /\ \E V : Heights(tree, H, S, r, isDelete, V)

and that nodes outside the tree hold nothing, that heights do not exceed the
number of nodes, and that what is registered is a range the caller may register
(`FromRanges`). Its two witnesses do the work:

- `S[n]` is the set of nodes at and below `n`. It turns "in order" into a fact
  about a node and its two children: what is below the left one is smaller, what
  is below the right one is greater. Links, parents and `S` say together that
  the pointers form one tree without a circle, which a local condition on
  pointers cannot. Each operation of `avl.c` is told node by node (`Replaced`,
  `Renamed`, `Rotated`, `Hooked`), and a lemma gives the `S` after it: a rotation
  changes `S` at two nodes, a removal takes one element out of each set above
  the node, putting the successor in the place of the removed node swaps the
  two in all of them.
- `V[n]` is the height of `n` as the climb knows it: the `height` field where the
  climb has been or does not come, the height before the call at `r` and above.
  Every node but `r` is `Even`: its height follows from its children's, which
  differ by at most one. `r` is `Bent`: it was even when one of its subtrees had
  the height `h`, and that subtree is now at most one higher (insert) or one
  lower (delete). After an insert a subtree that has grown leans to a side or is
  a leaf: this is what makes one rotation enough, and why the case that only a
  delete produces, a taller child that is balanced, must be told apart
  (`avl.c:202`). A turn makes the node it has reached even and leaves its parent
  bent in the same way, if at all.

`Balanced` is the invariant with the climb over. `NextInOrder`: the nearest
greater node is the outermost of the right subtree, or else the first ancestor
whose left subtree `n` is in, as what is not below a node lies on one side of
all that is (`Convex`). A search goes where all nodes that could pass its test
are, so that the last one that passed on the way is the nearest
(`AddressesFound`, `RangesAnswered`). These two are theorems about states in
which ranges in the lower half of the words do not overlap or wrap (`Disjoint`).
That is what mmap gives, the only source of the ranges (`create_reservation`
registers what mmap has returned, and nothing unmaps what is registered); the
tracker does not check it and gives other answers for ranges that overlap. On
the instance of the run it holds in every state, since the ranges are chosen so.
Assumed of the constants: the nodes are finite in number and an address has at
least one bit (`NodesAssumption`, `WidthAssumption`), sizes are words
(`RangesAssumption`), and addresses are close enough for the signed difference
to be defined (`DifferenceAssumption`).

The invariant is not evaluated by TLC, which would have to enumerate every `S`
and `V`; `SearchTree` and `Balanced`, which the run checks within climbs and
after them, are what it says of a tree.

`NumberInduction` holds what those proofs need to speak of loops. The library's
induction theorems take a predicate, which none of the provers can instantiate;
these speak of a set of numbers instead (`AllNumbers`, `UpThrough`) and follow
from the well-foundedness of `<`. A loop of the code, which a module writes as a
recursive function of the number of turns, then exists and is unique as far as it
goes (`TurnsExist`, `WalkExists`), so that an invariant of its turns holds at the
end. Where a function recurses along pointers, a rank, such as the number of nodes
below, takes the place of the number (`RankInduction`, `RecursionExists`).
`2 ^ n` is reached as the number of subsets of `1 .. n` (`PowerDoubles`).

Only model-checked: that a call of the tracker returns (`CallsReturn`), which is
liveness under fairness and outside the prover's reach. Every invariant and every
other temporal property of the passing runs is a theorem. `HandleReachesItsImpl`,
`NoImplIsLost` and `StopsOnlyInUse` need callers that open one handle of a type at a
time, and the properties of `arenas` need `OrdinaryUse`: the runs that expect a
violation show what happens without. `FindNodeFindsRange` and
`RangeQueriesAnswer` need ranges that are `Disjoint`.

## Not modelled

Printing, tests and benchmarks, and the debug-only walk `cuAvlTreeAssertValid`,
whose assertions are `SearchTree` and `Balanced`. The signed difference of two
addresses more than half the words apart is undefined in C and outside
`DifferenceAssumption`.
