------------------------------ MODULE BlockHeap -----------------------------
(***************************************************************************)
(* The block bookkeeping that va_allocator_default.c and the object        *)
(* strategy of va_allocator_arenas.c share line for line: va_block_t       *)
(* records linked into one list in address order, the free ones also filed *)
(* under their size in a radix tree.                                       *)
(*                                                                         *)
(* A block is named by its start address.  A heap is a record of           *)
(*   blocks     the blocks that exist (are calloc'ed),                     *)
(*   head       impl->addr_list / oa->addr_list,                           *)
(*   free       those of them with is_free set,                            *)
(*   size, addr_next, addr_prev   the other fields of va_block_t,          *)
(*   key        the key a block is filed under in size_tree, 0 if it is    *)
(*              not in the tree.                                           *)
(* The operators below are the helpers of the code, heap to heap.  An      *)
(* operator whose name ends in _Slip is the same helper with a plausible   *)
(* mistake; nothing uses it but the runs that try whether the properties   *)
(* would notice.                                                           *)
(***************************************************************************)
EXTENDS Naturals

NULL == 0                \* the null pointer, and va_alloc's failure value

\* The heaps whose blocks start at addresses in A.
Heap(A) == [blocks : SUBSET A, free : SUBSET A, head : A \cup {NULL},
            size : [A -> Nat],
            addr_next : [A -> A \cup {NULL}],
            addr_prev : [A -> A \cup {NULL}], key : [A -> Nat]]

Greatest(S) == IF S = {} THEN NULL ELSE CHOOSE x \in S : \A y \in S : y <= x
Least(S)    == IF S = {} THEN NULL ELSE CHOOSE x \in S : \A y \in S : x <= y

NoHeap(A) == [blocks |-> {}, free |-> {}, head |-> NULL,
              size |-> [a \in A |-> 0],
              addr_next |-> [a \in A |-> NULL],
              addr_prev |-> [a \in A |-> NULL], key |-> [a \in A |-> 0]]

\* One free block that spans the whole reservation.
InitialHeap(A, start, total) ==
    [NoHeap(A) EXCEPT !.blocks = {start}, !.free = {start}, !.head = start,
                      !.size[start] = total, !.key[start] = total]

BlocksBelow(h, b) == {c \in h.blocks : c < b}
BlocksFrom(h, b)  == {c \in h.blocks : c >= b}

\* node->field = v, under the code's test that node is not NULL.
SetLink(link, node, v) ==
    IF node = NULL THEN link ELSE [link EXCEPT ![node] = v]

\* prev->addr_next is left as it was.
insert_addr_list_Slip(h, b) ==
    LET current == Least(BlocksFrom(h, b))
        prev    == Greatest(BlocksBelow(h, b))
    IN  [h EXCEPT
           !.blocks = @ \cup {b},
           !.addr_next = [@ EXCEPT ![b] = current],
           !.addr_prev = SetLink([@ EXCEPT ![b] = prev], current, b),
           !.head = IF prev = NULL THEN b ELSE @]

\* The walk stops at the first block that does not start below b; in a list
\* kept in address order that is the least such block, and the one before it
\* the greatest that starts below b.
insert_addr_list(h, b) ==
    LET current == Least(BlocksFrom(h, b))
        prev    == Greatest(BlocksBelow(h, b))
    IN  [h EXCEPT
           !.blocks = @ \cup {b},
           !.addr_next = SetLink([@ EXCEPT ![b] = current], prev, b),
           !.addr_prev = SetLink([@ EXCEPT ![b] = prev], current, b),
           !.head = IF prev = NULL THEN b ELSE @]

\* The back link of the next block is forgotten.
remove_addr_list_Slip(h, b) ==
    LET prev == h.addr_prev[b]
        next == h.addr_next[b]
    IN  [h EXCEPT !.addr_next = SetLink(@, prev, next),
                  !.head = IF prev = NULL THEN next ELSE @]

remove_addr_list(h, b) ==
    LET prev == h.addr_prev[b]
        next == h.addr_next[b]
    IN  [h EXCEPT
           !.addr_next = SetLink(@, prev, next),
           !.addr_prev = SetLink(@, next, prev),
           !.head = IF prev = NULL THEN next ELSE @]

\* free(block): its fields are gone with it.
ReleaseBlock(h, b) ==
    [h EXCEPT !.blocks = @ \ {b}, !.free = @ \ {b}, !.size[b] = 0,
              !.addr_next[b] = NULL, !.addr_prev[b] = NULL]

\* radixTreeInsert and radixTreeRemove, seen from outside the tree.
FileBlock(h, b, k)  == [h EXCEPT !.key[b] = k]
UnfileBlock(h, b)   == [h EXCEPT !.key[b] = 0]

\* First fit: any block that is large enough.
FindGEQ_Slip(h, s) == {b \in DOMAIN h.key : h.key[b] # 0 /\ h.key[b] >= s}

\* radixTreeFindGEQ: a filed block whose key is the least that reaches s.
\* Which of several blocks of equal key comes first is the tree's affair.
FindGEQ(h, s) ==
    LET reaching == {b \in DOMAIN h.key : h.key[b] # 0 /\ h.key[b] >= s}
    IN  {b \in reaching : \A c \in reaching : h.key[b] <= h.key[c]}

\* "Update the best fit block's size to reflect this split" is left out.
SplitBlock_Slip(h, b, s) ==
    LET new == b + s
        cut == [h EXCEPT !.size[new] = h.size[b] - s, !.free = @ \cup {new}]
    IN  FileBlock(insert_addr_list(cut, new), new, h.size[b] - s)

\* best_fit keeps the first s units; the rest becomes a new free block.
SplitBlock(h, b, s) ==
    LET new == b + s
        cut == [h EXCEPT !.size = [@ EXCEPT ![new] = h.size[b] - s, ![b] = s],
                         !.free = @ \cup {new}]
    IN  FileBlock(insert_addr_list(cut, new), new, h.size[b] - s)

\* The block leaves the tree and stays marked free.
TakeBlock_Slip(h, b) == UnfileBlock(h, b)

TakeBlock(h, b) == UnfileBlock([h EXCEPT !.free = @ \ {b}], b)

AllocateBlock(h, b, s) ==
    TakeBlock(IF h.size[b] > s THEN SplitBlock(h, b, s) ELSE h, b)

\* The block that was free before stays in the tree.
Absorb_Slip(h, keep, gone, filed) ==
    LET grown == [h EXCEPT !.size[keep] = @ + h.size[gone]]
    IN  ReleaseBlock(remove_addr_list(grown, gone), gone)

\* keep grows over its successor gone; "filed" is the one of the two that was
\* free before, and so in the tree.
Absorb(h, keep, gone, filed) ==
    LET grown == [h EXCEPT !.size[keep] = @ + h.size[gone]]
    IN  ReleaseBlock(UnfileBlock(remove_addr_list(grown, gone), filed), gone)

\* "else if" for the second neighbour: a block between two free ones is
\* merged with the first only.
FreeBlock_Slip(h, b) ==
    LET prev  == h.addr_prev[b]
        next  == h.addr_next[b]
        freed == [h EXCEPT !.free = @ \cup {b}]
        back  == prev # NULL /\ prev \in freed.free
        forth == ~ back /\ next # NULL /\ next \in freed.free
        block == IF back THEN prev ELSE b
        h2    == IF back THEN Absorb(freed, prev, b, prev)
                 ELSE IF forth THEN Absorb(freed, b, next, next) ELSE freed
    IN  FileBlock(h2, block, h2.size[block])

\* prev and next are read before anything is unlinked.
FreeBlock(h, b) ==
    LET prev  == h.addr_prev[b]
        next  == h.addr_next[b]
        freed == [h EXCEPT !.free = @ \cup {b}]
        back  == prev # NULL /\ prev \in freed.free
        block == IF back THEN prev ELSE b
        h1    == IF back THEN Absorb(freed, prev, b, prev) ELSE freed
        h2    == IF next # NULL /\ next \in h1.free
                 THEN Absorb(h1, block, next, next) ELSE h1
    IN  FileBlock(h2, block, h2.size[block])

----------------------------------------------------------------------------
(***************************************************************************)
(* What makes a heap over [start, limit) well formed, in parts.            *)
(***************************************************************************)

\* Blocks follow one another without a gap or an overlap from start to limit.
Tiled(h, start, limit) ==
    /\ start \in h.blocks /\ h.free \subseteq h.blocks
    /\ \A a \in h.blocks :
          /\ h.size[a] > 0
          /\ a + h.size[a] \in h.blocks \cup {limit}
          /\ a >= start /\ a + h.size[a] <= limit
    /\ \A a, b \in h.blocks : a < b => a + h.size[a] <= b

\* The links run through exactly those blocks, in address order, both ways.
Linked(h, start, limit) ==
    /\ h.head = start
    /\ \A a \in h.blocks :
          /\ h.addr_next[a] = IF a + h.size[a] = limit THEN NULL
                              ELSE a + h.size[a]
          /\ \/ a = start /\ h.addr_prev[a] = NULL
             \/ /\ h.addr_prev[a] \in h.blocks
                /\ h.addr_prev[a] + h.size[h.addr_prev[a]] = a

\* No two free blocks touch: free always merges with both neighbours.
Coalesced(h) ==
    \A a, b \in h.free : b # a + h.size[a]

\* The tree holds the free blocks and nothing else, each under its size.
Filed(h) ==
    \A a \in DOMAIN h.key :
        h.key[a] = IF a \in h.free THEN h.size[a] ELSE 0
=============================================================================
