--------------------------- MODULE BlockHeapProofs --------------------------
(***************************************************************************)
(* What allocating and freeing a block does to a well-formed heap, for     *)
(* every size of reservation.  One lemma per helper of the code gives the  *)
(* fields it leaves; the two theorems at the end put them together.        *)
(***************************************************************************)
EXTENDS BlockHeap, TLAPS

\* A heap over [start, limit): typed, tiled, linked.
WellLinked(h, start, limit) ==
    /\ start \in Nat \ {0} /\ limit \in Nat
    /\ h \in Heap(start .. (limit - 1))
    /\ Tiled(h, start, limit)
    /\ Linked(h, start, limit)

\* What the invariants of an allocator at rest say of its heap.
WellFormed(h, start, limit) ==
    WellLinked(h, start, limit) /\ Coalesced(h) /\ Filed(h)

\* The used blocks, as the caller sees them: size by start, 0 elsewhere.
UsedSizes(h) ==
    [a \in DOMAIN h.size |-> IF a \in h.blocks \ h.free
                             THEN h.size[a] ELSE 0]

----------------------------------------------------------------------------

\* SetLink changes the link of one node, of none when the node is NULL.
LEMMA SetLinkPoints ==
    ASSUME NEW link, NEW node, NEW v, NULL \notin DOMAIN link
    PROVE  /\ DOMAIN SetLink(link, node, v) = DOMAIN link
           /\ \A a \in DOMAIN link :
                 (SetLink(link, node, v))[a]
                    = IF a = node THEN v ELSE link[a]
<1>1. CASE node = NULL
  BY <1>1 DEF SetLink
<1>2. CASE node # NULL
  BY <1>2 DEF SetLink
<1> QED
  BY <1>1, <1>2

\* Greatest picks the greatest member of a set that has one.
LEMMA GreatestIs ==
    ASSUME NEW S \in SUBSET Nat, NEW x \in S, \A y \in S : y <= x
    PROVE  Greatest(S) = x
<1>1. \A z \in S : (\A y \in S : y <= z) => z = x
  OBVIOUS
<1>2. S # {}
  OBVIOUS
<1>3. Greatest(S) = CHOOSE z \in S : \A y \in S : y <= z
  BY <1>2 DEF Greatest
<1> QED
  BY <1>1, <1>3

\* Least picks the least member of a set that has one.
LEMMA LeastIs ==
    ASSUME NEW S \in SUBSET Nat, NEW x \in S, \A y \in S : x <= y
    PROVE  Least(S) = x
<1>1. \A z \in S : (\A y \in S : z <= y) => z = x
  OBVIOUS
<1>2. S # {}
  OBVIOUS
<1>3. Least(S) = CHOOSE z \in S : \A y \in S : z <= y
  BY <1>2 DEF Least
<1> QED
  BY <1>1, <1>3

\* init: a single block that spans the reservation is a well-formed heap.
LEMMA InitialHeapWellFormed ==
    ASSUME NEW start \in Nat \ {0}, NEW total \in Nat \ {0}
    PROVE  LET h == InitialHeap(start .. (start + total - 1), start, total)
           IN  /\ WellFormed(h, start, start + total)
               /\ UsedSizes(h) = [a \in start .. (start + total - 1) |-> 0]
<1> DEFINE A == start .. (start + total - 1)
           h == InitialHeap(A, start, total)
<1>1. start \in A
  OBVIOUS
<1>2. /\ h.blocks = {start} /\ h.free = {start} /\ h.head = start
      /\ h.size = [a \in A |-> IF a = start THEN total ELSE 0]
      /\ h.addr_next = [a \in A |-> NULL]
      /\ h.addr_prev = [a \in A |-> NULL]
      /\ h.key = [a \in A |-> IF a = start THEN total ELSE 0]
  BY <1>1 DEF InitialHeap, NoHeap
<1>3. h \in Heap(A)
  BY <1>1 DEF Heap, InitialHeap, NoHeap
<1> HIDE DEF h
<1>4. Tiled(h, start, start + total)
  BY <1>1, <1>2 DEF Tiled
<1>5. Linked(h, start, start + total)
  BY <1>1, <1>2 DEF Linked, NULL
<1>6. Coalesced(h) /\ Filed(h)
  BY <1>1, <1>2 DEF Coalesced, Filed
<1>7. UsedSizes(h) = [a \in A |-> 0]
  BY <1>1, <1>2 DEF UsedSizes
<1>8. WellLinked(h, start, start + total)
  BY <1>3, <1>4, <1>5 DEF WellLinked
<1> QED
  BY <1>6, <1>7, <1>8 DEF WellFormed, h

\* The arithmetic of a tiled, linked heap, with the types the provers need.
LEMMA LinkedFacts ==
    ASSUME NEW start, NEW limit, NEW h, WellLinked(h, start, limit)
    PROVE  /\ start \in Nat \ {0} /\ limit \in Nat
           /\ start \in h.blocks /\ h.head = start
           /\ h.free \subseteq h.blocks
           /\ \A a \in h.blocks :
                 /\ a \in Nat /\ a # NULL /\ start <= a /\ a < limit
                 /\ h.size[a] \in Nat /\ h.size[a] > 0
                 /\ a + h.size[a] <= limit
                 /\ a + h.size[a] # limit => a + h.size[a] \in h.blocks
                 /\ h.addr_next[a] = IF a + h.size[a] = limit THEN NULL
                                     ELSE a + h.size[a]
                 /\ a # start => /\ h.addr_prev[a] \in h.blocks
                                 /\ h.addr_prev[a]
                                      + h.size[h.addr_prev[a]] = a
                 /\ a = start => h.addr_prev[a] = NULL
           /\ \A a, c \in h.blocks : a < c => a + h.size[a] <= c
<1> DEFINE A == start .. (limit - 1)
<1>1. /\ start \in Nat \ {0} /\ limit \in Nat
      /\ h.blocks \subseteq A /\ h.size \in [A -> Nat]
  BY DEF WellLinked, Heap
<1>2. \A a \in h.blocks :
         /\ a \in Nat /\ a # NULL /\ start <= a /\ a < limit
         /\ h.size[a] \in Nat /\ h.size[a] > 0
         /\ a + h.size[a] <= limit
         /\ a + h.size[a] # limit => a + h.size[a] \in h.blocks
  BY <1>1 DEF WellLinked, Tiled, NULL
<1>3. ASSUME NEW a \in h.blocks
      PROVE  /\ h.addr_next[a] = IF a + h.size[a] = limit THEN NULL
                                 ELSE a + h.size[a]
             /\ a # start => /\ h.addr_prev[a] \in h.blocks
                             /\ h.addr_prev[a] + h.size[h.addr_prev[a]] = a
  BY DEF WellLinked, Linked
<1>4. ASSUME NEW a \in h.blocks, a = start
      PROVE  h.addr_prev[a] = NULL
  <2>1. SUFFICES ASSUME h.addr_prev[a] \in h.blocks,
                        h.addr_prev[a] + h.size[h.addr_prev[a]] = a
                 PROVE  FALSE
    BY <1>4 DEF WellLinked, Linked
  <2> QED
    BY <1>1, <1>2, <1>4, <2>1
<1> QED
  BY <1>1, <1>2, <1>3, <1>4 DEF WellLinked, Tiled, Linked

\* insert_addr_list puts the rest of a split block right behind that block:
\* the walk ends at the block's old successor.
LEMMA SplitPosition ==
    ASSUME NEW start, NEW limit, NEW h, WellLinked(h, start, limit),
           NEW b \in h.blocks, NEW s \in Nat, 0 < s, s < h.size[b]
    PROVE  /\ b + s \in start .. (limit - 1) /\ b + s \notin h.blocks
           /\ Greatest(BlocksBelow(h, b + s)) = b
           /\ Least(BlocksFrom(h, b + s)) = h.addr_next[b]
<1> DEFINE new == b + s
           before == BlocksBelow(h, new)
           after  == BlocksFrom(h, new)
           n == b + h.size[b]
<1> USE DEF BlocksBelow, BlocksFrom
<1>1. /\ b \in Nat /\ start <= b /\ limit \in Nat /\ start \in Nat
      /\ h.size[b] \in Nat /\ n <= limit
      /\ \A c \in h.blocks : c \in Nat /\ c < limit /\ (b < c => n <= c)
  BY LinkedFacts
<1>2. new \in start .. (limit - 1) /\ new \notin h.blocks
  BY <1>1
<1>3. Greatest(before) = b
  <2>1. \A y \in before : y <= b
    BY <1>1
  <2>2. b \in before /\ before \in SUBSET Nat
    BY <1>1
  <2> QED
    BY <2>1, <2>2, GreatestIs
<1>4. CASE n = limit
  <2>1. after = {}
    BY <1>1, <1>4
  <2>2. h.addr_next[b] = NULL
    BY <1>4, LinkedFacts
  <2> QED
    BY <1>2, <1>3, <2>1, <2>2 DEF Least
<1>5. CASE n # limit
  <2>1. n \in h.blocks /\ h.addr_next[b] = n
    BY <1>5, LinkedFacts
  <2>2. n \in after /\ after \in SUBSET Nat /\ \A y \in after : n <= y
    BY <1>1, <2>1
  <2>3. Least(after) = n
    <3> HIDE DEF n, after
    <3> QED
      BY <2>2, LeastIs
  <2> QED
    BY <1>2, <1>3, <2>1, <2>3
<1> QED
  BY <1>4, <1>5

\* h2 is h with block b cut down to s and the rest put behind it, free.
CutOff(h2, h, b, s) ==
    LET new == b + s IN
    /\ h2.blocks = h.blocks \cup {new}
    /\ h2.free = h.free \cup {new}
    /\ h2.head = h.head
    /\ h2.size = [h.size EXCEPT ![new] = h.size[b] - s, ![b] = s]
    /\ h2.addr_next = [h.addr_next EXCEPT ![new] = h.addr_next[b], ![b] = new]
    /\ h2.addr_prev = SetLink([h.addr_prev EXCEPT ![new] = b],
                              h.addr_next[b], new)
    /\ h2.key = [h.key EXCEPT ![new] = h.size[b] - s]

\* The fields a split leaves.
LEMMA SplitFields ==
    ASSUME NEW start, NEW limit, NEW h, WellLinked(h, start, limit),
           NEW b \in h.blocks, NEW s \in Nat, 0 < s, s < h.size[b]
    PROVE  /\ SplitBlock(h, b, s) \in Heap(start .. (limit - 1))
           /\ CutOff(SplitBlock(h, b, s), h, b, s)
<1> DEFINE A    == start .. (limit - 1)
           new  == b + s
           rest == h.size[b] - s
           next == h.addr_next[b]
           cut  == [h EXCEPT !.size = [@ EXCEPT ![new] = rest, ![b] = s],
                             !.free = @ \cup {new}]
           ins  == insert_addr_list(cut, new)
           h2   == SplitBlock(h, b, s)
<1>1. /\ new \in A /\ b \in A /\ rest \in Nat /\ b # NULL
      /\ next \in A \cup {NULL} /\ h \in Heap(A)
  <2>1. new \in A
    BY SplitPosition
  <2>2. h \in Heap(A)
    BY DEF WellLinked
  <2>3. b \in A /\ rest \in Nat /\ b # NULL
    BY LinkedFacts
  <2>4. next \in A \cup {NULL}
    BY <2>2, <2>3 DEF Heap
  <2> QED
    BY <2>1, <2>2, <2>3, <2>4
<1>2. /\ cut \in Heap(A)
      /\ cut.blocks = h.blocks /\ cut.free = h.free \cup {new}
      /\ cut.head = h.head
      /\ cut.size = [h.size EXCEPT ![new] = rest, ![b] = s]
      /\ cut.addr_next = h.addr_next /\ cut.addr_prev = h.addr_prev
      /\ cut.key = h.key
  <2> HIDE DEF A, new, rest
  <2> QED
    BY <1>1 DEF Heap
<1> HIDE DEF cut
<1>3. /\ Greatest(BlocksBelow(cut, new)) = b
      /\ Least(BlocksFrom(cut, new)) = next
  <2>1. /\ BlocksBelow(cut, new) = BlocksBelow(h, new)
        /\ BlocksFrom(cut, new) = BlocksFrom(h, new)
    BY <1>2 DEF BlocksBelow, BlocksFrom
  <2> QED
    BY <2>1, SplitPosition
<1> HIDE DEF A, new, rest, next
<1>4. /\ ins.blocks = h.blocks \cup {new} /\ ins.free = h.free \cup {new}
      /\ ins.head = h.head /\ ins.key = h.key
      /\ ins.size = [h.size EXCEPT ![new] = rest, ![b] = s]
      /\ ins.addr_next = [h.addr_next EXCEPT ![new] = next, ![b] = new]
      /\ ins.addr_prev = SetLink([h.addr_prev EXCEPT ![new] = b], next, new)
      /\ ins \in Heap(A)
  <2>1. ins = [cut EXCEPT
                 !.blocks = @ \cup {new},
                 !.addr_next = SetLink([@ EXCEPT ![new] = next], b, new),
                 !.addr_prev = SetLink([@ EXCEPT ![new] = b], next, new),
                 !.head = IF b = NULL THEN new ELSE @]
    BY <1>3 DEF insert_addr_list
  <2>2. /\ SetLink([cut.addr_next EXCEPT ![new] = next], b, new)
             = [h.addr_next EXCEPT ![new] = next, ![b] = new]
        /\ SetLink([cut.addr_next EXCEPT ![new] = next], b, new)
             \in [A -> A \cup {NULL}]
    BY <1>1, <1>2 DEF SetLink, Heap
  <2>3. /\ SetLink([cut.addr_prev EXCEPT ![new] = b], next, new)
             = SetLink([h.addr_prev EXCEPT ![new] = b], next, new)
        /\ SetLink([cut.addr_prev EXCEPT ![new] = b], next, new)
             \in [A -> A \cup {NULL}]
    BY <1>1, <1>2 DEF SetLink, Heap
  <2> HIDE DEF ins
  <2> QED
    BY <1>1, <1>2, <2>1, <2>2, <2>3 DEF Heap
<1>5. h2 = [ins EXCEPT !.key[new] = rest]
  BY DEF SplitBlock, FileBlock, ins, cut, new, rest
<1> HIDE DEF ins, h2
<1>6. /\ h2 \in Heap(A)
      /\ h2.blocks = ins.blocks /\ h2.free = ins.free /\ h2.head = ins.head
      /\ h2.size = ins.size /\ h2.addr_next = ins.addr_next
      /\ h2.addr_prev = ins.addr_prev
      /\ h2.key = [h.key EXCEPT ![new] = rest]
  BY <1>1, <1>4, <1>5 DEF Heap
<1> QED
  BY <1>4, <1>6 DEF CutOff, h2, A, new, rest, next

\* A split keeps the reservation tiled and the list linked through it.
LEMMA SplitLinked ==
    ASSUME NEW start, NEW limit, NEW h, WellLinked(h, start, limit),
           NEW b \in h.blocks, NEW s \in Nat, 0 < s, s < h.size[b]
    PROVE  WellLinked(SplitBlock(h, b, s), start, limit)
<1> DEFINE A == start .. (limit - 1)
           new  == b + s
           rest == h.size[b] - s
           next == h.addr_next[b]
           h2 == SplitBlock(h, b, s)
<1>1. /\ h2 \in Heap(A)
      /\ h2.blocks = h.blocks \cup {new} /\ h2.free = h.free \cup {new}
      /\ h2.head = h.head
      /\ h2.size = [h.size EXCEPT ![new] = rest, ![b] = s]
      /\ h2.addr_next = [h.addr_next EXCEPT ![new] = next, ![b] = new]
      /\ h2.addr_prev = SetLink([h.addr_prev EXCEPT ![new] = b], next, new)
  <2>1. h2 \in Heap(A) /\ CutOff(h2, h, b, s)
    BY SplitFields
  <2> HIDE DEF h2
  <2> QED
    BY <2>1 DEF CutOff
<1>2. new \in A /\ new \notin h.blocks
  BY SplitPosition
<1>3. /\ start \in Nat \ {0} /\ limit \in Nat
      /\ h.size \in [A -> Nat] /\ h.addr_next \in [A -> A \cup {NULL}]
      /\ h.addr_prev \in [A -> A \cup {NULL}] /\ h.blocks \subseteq A
  BY DEF WellLinked, Heap
<1>4. /\ h2.size[new] = rest /\ h2.size[b] = s
      /\ h2.addr_next[new] = next /\ h2.addr_next[b] = new
      /\ \A a \in h.blocks \ {b} : /\ h2.size[a] = h.size[a]
                                   /\ h2.addr_next[a] = h.addr_next[a]
  BY <1>1, <1>2, <1>3
<1>5. /\ \A a \in h.blocks : a # next => h2.addr_prev[a] = h.addr_prev[a]
      /\ next # NULL => h2.addr_prev[next] = new
      /\ next # new => h2.addr_prev[new] = b
  <2>1. next \in A \cup {NULL} /\ NULL \notin A /\ b \in A
    BY <1>3 DEF NULL
  <2> HIDE DEF A, new, rest, next, h2
  <2> DEFINE back == [h.addr_prev EXCEPT ![new] = b]
  <2>2. /\ DOMAIN back = A /\ back[new] = b
        /\ \A a \in A : a # new => back[a] = h.addr_prev[a]
    BY <1>2, <1>3
  <2>3. h2.addr_prev = SetLink(back, next, new)
    BY <1>1
  <2> HIDE DEF back
  <2>4. \A a \in A :
           h2.addr_prev[a] = IF a = next THEN new ELSE back[a]
    BY <2>1, <2>2, <2>3, SetLinkPoints
  <2> QED
    BY <1>2, <1>3, <2>1, <2>2, <2>4
<1> HIDE DEF h2
<1>6. /\ start \in h.blocks /\ h.free \subseteq h.blocks
      /\ b \in Nat /\ rest \in Nat /\ rest > 0 /\ new + rest <= limit
      /\ start <= b /\ s \in Nat /\ s > 0 /\ new + rest = b + h.size[b]
  BY LinkedFacts
<1>7. Tiled(h2, start, limit)
  <2>1. ASSUME NEW a \in h2.blocks
        PROVE  /\ h2.size[a] > 0
               /\ a + h2.size[a] \in h2.blocks \cup {limit}
               /\ a >= start /\ a + h2.size[a] <= limit
    <3>1. CASE a = new
      BY <1>1, <1>4, <1>6, <3>1, LinkedFacts
    <3>2. CASE a = b
      BY <1>1, <1>4, <1>6, <3>2, LinkedFacts
    <3>3. CASE a \in h.blocks \ {b}
      <4>1. /\ h.size[a] > 0 /\ a >= start /\ a + h.size[a] <= limit
            /\ a + h.size[a] \in h.blocks \cup {limit}
        BY <3>3, LinkedFacts
      <4> QED
        BY <1>1, <1>4, <3>3, <4>1
    <3> QED
      BY <1>1, <3>1, <3>2, <3>3
  <2>2. ASSUME NEW a \in h2.blocks, NEW c \in h2.blocks, a < c
        PROVE  a + h2.size[a] <= c
    <3>1. CASE a = new
      BY <1>1, <1>4, <1>6, <2>2, <3>1, LinkedFacts
    <3>2. CASE a = b
      BY <1>1, <1>2, <1>4, <1>6, <2>2, <3>2, LinkedFacts
    <3>3. CASE a \in h.blocks \ {b}
      <4>1. CASE c = new
        <5>1. /\ a \in Nat /\ h.size[a] \in Nat /\ h.size[b] \in Nat
              /\ a < b => a + h.size[a] <= b
              /\ b < a => b + h.size[b] <= a
          BY <3>3, LinkedFacts
        <5>2. ~ b < a
          BY <1>6, <2>2, <4>1, <5>1
        <5>3. a < b /\ a + h.size[a] <= b /\ b <= new
          BY <1>6, <3>3, <5>1, <5>2
        <5>4. h2.size[a] = h.size[a]
          BY <1>4, <3>3
        <5> QED
          BY <1>6, <4>1, <5>1, <5>3, <5>4
      <4>2. CASE c \in h.blocks
        BY <1>4, <2>2, <3>3, <4>2, LinkedFacts
      <4> QED
        BY <1>1, <4>1, <4>2
    <3> QED
      BY <1>1, <3>1, <3>2, <3>3
  <2> QED
    BY <1>1, <1>6, <2>1, <2>2 DEF Tiled
<1>8. Linked(h2, start, limit)
  <2>1. h2.head = start
    BY <1>1, LinkedFacts
  <2>2. ASSUME NEW a \in h2.blocks
        PROVE  h2.addr_next[a] = IF a + h2.size[a] = limit THEN NULL
                                 ELSE a + h2.size[a]
    <3>1. CASE a = new
      BY <1>4, <1>6, <3>1, LinkedFacts
    <3>2. CASE a = b
      BY <1>2, <1>4, <1>6, <3>2
    <3>3. CASE a \in h.blocks \ {b}
      BY <1>4, <3>3, LinkedFacts
    <3> QED
      BY <1>1, <3>1, <3>2, <3>3
  <2>3. ASSUME NEW a \in h2.blocks
        PROVE  \/ a = start /\ h2.addr_prev[a] = NULL
               \/ /\ h2.addr_prev[a] \in h2.blocks
                  /\ h2.addr_prev[a] + h2.size[h2.addr_prev[a]] = a
    <3>1. CASE a = new
      <4>1. next # new
        BY <1>2, <1>6, LinkedFacts DEF NULL
      <4> QED
        BY <1>1, <1>4, <1>5, <3>1, <4>1
    <3>2. CASE a \in h.blocks /\ a = next
      <4>1. a = new + h2.size[new] /\ h2.addr_prev[a] = new
        BY <1>4, <1>5, <1>6, <3>2, LinkedFacts
      <4> QED
        BY <1>1, <4>1
    <3>3. CASE a \in h.blocks /\ a # next
      <4>1. h2.addr_prev[a] = h.addr_prev[a]
        BY <1>5, <3>3
      <4>2. CASE a = start
        BY <3>3, <4>1, <4>2, LinkedFacts
      <4>3. CASE a # start
        <5> DEFINE p == h.addr_prev[a]
        <5>1. p \in h.blocks /\ p + h.size[p] = a
          BY <3>3, <4>3, LinkedFacts
        <5>2. p # b
          <6> SUFFICES ASSUME p = b PROVE FALSE
            OBVIOUS
          <6>1. a # limit /\ a = b + h.size[b]
            BY <3>3, <5>1, LinkedFacts
          <6> QED
            BY <3>3, <6>1, LinkedFacts
        <5> QED
          BY <1>1, <1>4, <4>1, <5>1, <5>2
      <4> QED
        BY <4>2, <4>3
    <3> QED
      BY <1>1, <3>1, <3>2, <3>3
  <2> QED
    BY <2>1, <2>2, <2>3 DEF Linked
<1> QED
  BY <1>1, <1>3, <1>7, <1>8 DEF WellLinked, h2

\* Taking a block off the free list leaves its place in the list alone.
LEMMA TakeFields ==
    ASSUME NEW A, NEW h \in Heap(A), NEW b \in A
    PROVE  /\ TakeBlock(h, b) \in Heap(A)
           /\ TakeBlock(h, b).blocks = h.blocks
           /\ TakeBlock(h, b).free = h.free \ {b}
           /\ TakeBlock(h, b).head = h.head
           /\ TakeBlock(h, b).size = h.size
           /\ TakeBlock(h, b).addr_next = h.addr_next
           /\ TakeBlock(h, b).addr_prev = h.addr_prev
           /\ TakeBlock(h, b).key = [h.key EXCEPT ![b] = 0]
<1> DEFINE g == [h EXCEPT !.free = @ \ {b}]
<1>1. /\ g \in Heap(A) /\ g.blocks = h.blocks /\ g.free = h.free \ {b}
      /\ g.head = h.head /\ g.size = h.size /\ g.key = h.key
      /\ g.addr_next = h.addr_next /\ g.addr_prev = h.addr_prev
  BY DEF Heap
<1>2. TakeBlock(h, b) = [g EXCEPT !.key = [g.key EXCEPT ![b] = 0]]
  BY DEF TakeBlock, UnfileBlock
<1> HIDE DEF g
<1>3. [g.key EXCEPT ![b] = 0] \in [A -> Nat]
  BY <1>1 DEF Heap
<1> QED
  BY <1>1, <1>2, <1>3 DEF Heap

\* What Tiled and Linked look at decides them.
LEMMA SameListSameShape ==
    ASSUME NEW start, NEW limit, NEW h, WellLinked(h, start, limit),
           NEW g \in Heap(start .. (limit - 1)),
           g.blocks = h.blocks, g.head = h.head, g.size = h.size,
           g.addr_next = h.addr_next, g.addr_prev = h.addr_prev,
           g.free \subseteq g.blocks
    PROVE  WellLinked(g, start, limit)
BY DEF WellLinked, Tiled, Linked

\* va_alloc on a free block that is large enough keeps the heap well formed
\* and makes exactly that block used, under exactly the size asked for.
THEOREM AllocateKeepsHeap ==
    ASSUME NEW start, NEW limit, NEW h, WellFormed(h, start, limit),
           NEW b \in h.free, NEW s \in Nat, 0 < s, s <= h.size[b]
    PROVE  /\ WellFormed(AllocateBlock(h, b, s), start, limit)
           /\ UsedSizes(AllocateBlock(h, b, s))
                = [UsedSizes(h) EXCEPT ![b] = s]
           /\ AllocateBlock(h, b, s).size[b] = s
<1> DEFINE A == start .. (limit - 1)
           g == AllocateBlock(h, b, s)
<1>1. /\ WellLinked(h, start, limit) /\ Coalesced(h) /\ Filed(h)
      /\ h \in Heap(A) /\ b \in h.blocks /\ b \in A
      /\ h.free \subseteq h.blocks /\ h.blocks \subseteq A
  <2>1. WellLinked(h, start, limit) /\ Coalesced(h) /\ Filed(h)
    BY DEF WellFormed
  <2>2. h \in Heap(A) /\ h.free \subseteq h.blocks
    BY <2>1 DEF WellLinked, Tiled
  <2> QED
    BY <2>1, <2>2 DEF Heap
<1>2. /\ h.size \in [A -> Nat] /\ h.key \in [A -> Nat]
      /\ h.size[b] \in Nat
  BY <1>1 DEF Heap
<1>3. CASE h.size[b] = s
  <2>1. g = TakeBlock(h, b)
    BY <1>2, <1>3 DEF AllocateBlock
  <2>2. /\ g \in Heap(A) /\ g.blocks = h.blocks /\ g.free = h.free \ {b}
        /\ g.head = h.head /\ g.size = h.size
        /\ g.addr_next = h.addr_next /\ g.addr_prev = h.addr_prev
        /\ g.key = [h.key EXCEPT ![b] = 0]
    <3> HIDE DEF A
    <3> QED
      BY <1>1, <2>1, TakeFields
  <2> HIDE DEF g
  <2>3. WellLinked(g, start, limit)
    BY <1>1, <2>2, SameListSameShape
  <2>4. Coalesced(g)
    BY <1>1, <2>2 DEF Coalesced
  <2>5. Filed(g)
    BY <1>1, <1>2, <2>2 DEF Filed
  <2>6. UsedSizes(g) = [UsedSizes(h) EXCEPT ![b] = s]
    BY <1>1, <1>2, <1>3, <2>2 DEF UsedSizes
  <2> QED
    BY <1>3, <2>2, <2>3, <2>4, <2>5, <2>6 DEF WellFormed, g
<1>4. CASE s < h.size[b]
  <2> DEFINE h2 == SplitBlock(h, b, s)
             new == b + s
             rest == h.size[b] - s
  <2>1. g = TakeBlock(h2, b)
    BY <1>2, <1>4 DEF AllocateBlock
  <2>2. h2 \in Heap(A) /\ WellLinked(h2, start, limit)
    <3>1. h2 \in Heap(A)
      BY <1>1, <1>4, SplitFields
    <3>2. WellLinked(h2, start, limit)
      BY <1>1, <1>4, SplitLinked
    <3> QED
      BY <3>1, <3>2
  <2>3. /\ h2.blocks = h.blocks \cup {new} /\ h2.free = h.free \cup {new}
        /\ h2.size = [h.size EXCEPT ![new] = rest, ![b] = s]
        /\ h2.key = [h.key EXCEPT ![new] = rest]
    <3>1. CutOff(h2, h, b, s)
      BY <1>1, <1>4, SplitFields
    <3> HIDE DEF h2
    <3> QED
      BY <3>1 DEF CutOff
  <2>4. new \in A /\ new \notin h.blocks
    BY <1>1, <1>4, SplitPosition
  <2> HIDE DEF h2
  <2>5. /\ g \in Heap(A) /\ g.blocks = h2.blocks /\ g.free = h2.free \ {b}
        /\ g.head = h2.head /\ g.size = h2.size
        /\ g.addr_next = h2.addr_next /\ g.addr_prev = h2.addr_prev
        /\ g.key = [h2.key EXCEPT ![b] = 0]
    <3> HIDE DEF A
    <3> QED
      BY <1>1, <2>1, <2>2, TakeFields
  <2> HIDE DEF g
  <2>6. WellLinked(g, start, limit)
    BY <1>1, <2>2, <2>3, <2>5, SameListSameShape
  <2>7. /\ g.blocks = h.blocks \cup {new}
        /\ g.free = (h.free \cup {new}) \ {b}
        /\ new # b /\ rest \in Nat /\ rest > 0
        /\ g.size[new] = rest /\ g.size[b] = s
        /\ \A a \in A \ {b, new} : g.size[a] = h.size[a]
        /\ g.key[new] = rest /\ g.key[b] = 0
        /\ \A a \in A \ {b, new} : g.key[a] = h.key[a]
        /\ g.size \in [A -> Nat] /\ g.key \in [A -> Nat]
    <3>1. new # b /\ rest \in Nat /\ rest > 0
      BY <1>1, <1>2, <1>4, <2>4
    <3>2. g.size \in [A -> Nat] /\ g.key \in [A -> Nat]
      BY <2>5 DEF Heap
    <3> HIDE DEF new, rest, A
    <3>3. /\ g.blocks = h.blocks \cup {new}
          /\ g.free = (h.free \cup {new}) \ {b}
          /\ g.size = [h.size EXCEPT ![new] = rest, ![b] = s]
          /\ g.key = [[h.key EXCEPT ![new] = rest] EXCEPT ![b] = 0]
      BY <2>3, <2>5
    <3>4. /\ g.size[new] = rest /\ g.size[b] = s
          /\ \A a \in A \ {b, new} : g.size[a] = h.size[a]
      BY <1>1, <1>2, <2>4, <3>1, <3>3
    <3>5. /\ g.key[new] = rest /\ g.key[b] = 0
          /\ \A a \in A \ {b, new} : g.key[a] = h.key[a]
      BY <1>1, <1>2, <2>4, <3>1, <3>3
    <3> QED
      BY <3>1, <3>2, <3>3, <3>4, <3>5
  <2>8. Coalesced(g)
    <3> SUFFICES ASSUME NEW a \in g.free, NEW c \in g.free,
                        c = a + g.size[a]
                 PROVE  FALSE
      BY DEF Coalesced
    <3>1. new + rest = b + h.size[b]
      BY <1>1, <1>2, <2>4
    <3>2. CASE a = new
      <4>1. c # new
        BY <2>4, <2>7, <3>2
      <4>2. c \in h.free
        BY <2>7, <4>1
      <4> QED
        BY <1>1, <2>7, <3>1, <3>2, <4>2 DEF Coalesced
    <3>3. CASE a # new
      <4>1. a \in h.free /\ a # b /\ a \in h.blocks /\ g.size[a] = h.size[a]
        BY <1>1, <2>7, <3>3
      <4>2. c = new
        BY <1>1, <2>7, <4>1 DEF Coalesced
      <4>3. /\ a \in Nat /\ b \in Nat /\ h.size[a] \in Nat
            /\ a < b => a + h.size[a] <= b
            /\ b < a => b + h.size[b] <= a
        BY <1>1, <4>1, LinkedFacts
      <4> QED
        BY <1>2, <1>4, <4>1, <4>2, <4>3
    <3> QED
      BY <3>2, <3>3
  <2>9. Filed(g)
    <3> SUFFICES ASSUME NEW a \in A
                 PROVE  g.key[a] = IF a \in g.free THEN g.size[a] ELSE 0
      BY <2>7 DEF Filed
    <3>1. h.key[a] = IF a \in h.free THEN h.size[a] ELSE 0
      BY <1>1, <1>2 DEF Filed
    <3> HIDE DEF new, rest, A
    <3> QED
      BY <2>7, <3>1
  <2>10. UsedSizes(g) = [UsedSizes(h) EXCEPT ![b] = s]
    <3> HIDE DEF new, rest, A
    <3> QED
      BY <1>1, <1>2, <2>4, <2>7 DEF UsedSizes
  <2> QED
    BY <2>6, <2>7, <2>8, <2>9, <2>10 DEF WellFormed, g
<1> QED
  BY <1>2, <1>3, <1>4

----------------------------------------------------------------------------

\* g is h with the block "gone" merged into the block before it.
Merged(g, h, keep, gone, filed) ==
    /\ g.blocks = h.blocks \ {gone}
    /\ g.free = h.free \ {gone}
    /\ g.head = h.head
    /\ g.size = [h.size EXCEPT ![keep] = h.size[keep] + h.size[gone],
                              ![gone] = 0]
    /\ g.addr_next = [h.addr_next EXCEPT ![keep] = h.addr_next[gone],
                                        ![gone] = NULL]
    /\ g.addr_prev = [SetLink(h.addr_prev, h.addr_next[gone], keep)
                        EXCEPT ![gone] = NULL]
    /\ g.key = [h.key EXCEPT ![filed] = 0]

\* The fields a merge leaves: the block that goes is linked to the one that
\* stays, and never at the head of the list.
LEMMA AbsorbFields ==
    ASSUME NEW start, NEW limit, NEW h, WellLinked(h, start, limit),
           NEW keep \in h.blocks, NEW gone \in h.blocks,
           gone = keep + h.size[keep], NEW filed \in {keep, gone}
    PROVE  /\ Absorb(h, keep, gone, filed) \in Heap(start .. (limit - 1))
           /\ Merged(Absorb(h, keep, gone, filed), h, keep, gone, filed)
<1> DEFINE A     == start .. (limit - 1)
           sum   == h.size[keep] + h.size[gone]
           next  == h.addr_next[gone]
           grown == [h EXCEPT !.size[keep] = @ + h.size[gone]]
           out   == remove_addr_list(grown, gone)
           unf   == UnfileBlock(out, filed)
           g     == Absorb(h, keep, gone, filed)
<1>1. /\ h \in Heap(A) /\ keep \in A /\ gone \in A /\ sum \in Nat
      /\ keep # gone /\ keep # NULL /\ gone # NULL /\ filed \in A
      /\ next \in A \cup {NULL} /\ next # gone
  <2>1. h \in Heap(A)
    BY DEF WellLinked
  <2>2. keep \in A /\ gone \in A /\ next \in A \cup {NULL}
    BY <2>1 DEF Heap
  <2>3. sum \in Nat /\ keep # gone /\ keep # NULL /\ gone # NULL
    BY LinkedFacts
  <2>4. next # gone
    BY LinkedFacts
  <2> QED
    BY <2>1, <2>2, <2>3, <2>4
<1>2. h.addr_prev[gone] = keep
  <2> DEFINE p == h.addr_prev[gone]
  <2>1. gone # start
    BY LinkedFacts
  <2>2. p \in h.blocks /\ p + h.size[p] = gone
    BY <2>1, LinkedFacts
  <2>3. /\ p \in Nat /\ keep \in Nat
        /\ h.size[p] \in Nat /\ h.size[p] > 0
        /\ h.size[keep] \in Nat /\ h.size[keep] > 0
        /\ p < keep => p + h.size[p] <= keep
        /\ keep < p => keep + h.size[keep] <= p
    BY <2>2, LinkedFacts
  <2> QED
    BY <2>2, <2>3
<1> HIDE DEF A, sum, next
<1>3. /\ grown \in Heap(A)
      /\ grown.blocks = h.blocks /\ grown.free = h.free
      /\ grown.head = h.head /\ grown.key = h.key
      /\ grown.size = [h.size EXCEPT ![keep] = sum]
      /\ grown.addr_next = h.addr_next /\ grown.addr_prev = h.addr_prev
  <2>1. grown = [h EXCEPT !.size = [h.size EXCEPT ![keep] = sum]]
    BY <1>1 DEF Heap, sum
  <2>2. [h.size EXCEPT ![keep] = sum] \in [A -> Nat]
    BY <1>1 DEF Heap
  <2> HIDE DEF grown
  <2> QED
    BY <1>1, <2>1, <2>2 DEF Heap
<1> HIDE DEF grown
<1>4. /\ out \in Heap(A)
      /\ out.blocks = h.blocks /\ out.free = h.free
      /\ out.head = h.head /\ out.key = h.key
      /\ out.size = [h.size EXCEPT ![keep] = sum]
      /\ out.addr_next = [h.addr_next EXCEPT ![keep] = next]
      /\ out.addr_prev = SetLink(h.addr_prev, next, keep)
  <2>1. out = [grown EXCEPT
                 !.addr_next = [h.addr_next EXCEPT ![keep] = next],
                 !.addr_prev = SetLink(h.addr_prev, next, keep),
                 !.head = h.head]
    BY <1>1, <1>2, <1>3 DEF remove_addr_list, SetLink, next
  <2>2. /\ [h.addr_next EXCEPT ![keep] = next] \in [A -> A \cup {NULL}]
        /\ SetLink(h.addr_prev, next, keep) \in [A -> A \cup {NULL}]
    BY <1>1 DEF Heap, SetLink
  <2> HIDE DEF out
  <2> QED
    BY <1>1, <1>3, <2>1, <2>2 DEF Heap
<1> HIDE DEF out
<1>5. /\ unf \in Heap(A)
      /\ unf.blocks = h.blocks /\ unf.free = h.free
      /\ unf.head = h.head /\ unf.size = out.size
      /\ unf.addr_next = out.addr_next /\ unf.addr_prev = out.addr_prev
      /\ unf.key = [h.key EXCEPT ![filed] = 0]
  <2>1. unf = [out EXCEPT !.key = [h.key EXCEPT ![filed] = 0]]
    BY <1>4 DEF UnfileBlock
  <2>2. [h.key EXCEPT ![filed] = 0] \in [A -> Nat]
    BY <1>1 DEF Heap
  <2> HIDE DEF unf
  <2> QED
    BY <1>4, <2>1, <2>2 DEF Heap
<1>6. g = ReleaseBlock(unf, gone)
  BY DEF Absorb, grown, out
<1> HIDE DEF unf, g
<1>7. g = [unf EXCEPT !.blocks = h.blocks \ {gone}, !.free = h.free \ {gone},
                      !.size = [out.size EXCEPT ![gone] = 0],
                      !.addr_next = [out.addr_next EXCEPT ![gone] = NULL],
                      !.addr_prev = [out.addr_prev EXCEPT ![gone] = NULL]]
  BY <1>5, <1>6 DEF ReleaseBlock
<1>8. /\ [out.size EXCEPT ![gone] = 0] \in [A -> Nat]
      /\ [out.addr_next EXCEPT ![gone] = NULL] \in [A -> A \cup {NULL}]
      /\ [out.addr_prev EXCEPT ![gone] = NULL] \in [A -> A \cup {NULL}]
  BY <1>1, <1>4 DEF Heap
<1>9. /\ g \in Heap(A)
      /\ g.blocks = h.blocks \ {gone} /\ g.free = h.free \ {gone}
      /\ g.head = h.head /\ g.key = [h.key EXCEPT ![filed] = 0]
      /\ g.size = [out.size EXCEPT ![gone] = 0]
      /\ g.addr_next = [out.addr_next EXCEPT ![gone] = NULL]
      /\ g.addr_prev = [out.addr_prev EXCEPT ![gone] = NULL]
  BY <1>1, <1>5, <1>7, <1>8 DEF Heap
<1>10. /\ g.size = [h.size EXCEPT ![keep] = sum, ![gone] = 0]
       /\ g.addr_next = [h.addr_next EXCEPT ![keep] = next, ![gone] = NULL]
       /\ g.addr_prev = [SetLink(h.addr_prev, next, keep)
                            EXCEPT ![gone] = NULL]
  BY <1>4, <1>9
<1> QED
  BY <1>9, <1>10 DEF Merged, g, A, sum, next

\* A merge keeps the reservation tiled and the list linked through it.
LEMMA AbsorbLinked ==
    ASSUME NEW start, NEW limit, NEW h, WellLinked(h, start, limit),
           NEW keep \in h.blocks, NEW gone \in h.blocks,
           gone = keep + h.size[keep], NEW filed \in {keep, gone}
    PROVE  WellLinked(Absorb(h, keep, gone, filed), start, limit)
<1> DEFINE A    == start .. (limit - 1)
           sum  == h.size[keep] + h.size[gone]
           next == h.addr_next[gone]
           g    == Absorb(h, keep, gone, filed)
<1>1. g \in Heap(A) /\ Merged(g, h, keep, gone, filed)
  BY AbsorbFields
<1> HIDE DEF g
<1>2. /\ start \in Nat \ {0} /\ limit \in Nat
      /\ h.size \in [A -> Nat] /\ h.addr_next \in [A -> A \cup {NULL}]
      /\ h.addr_prev \in [A -> A \cup {NULL}] /\ h.blocks \subseteq A
      /\ next \in A \cup {NULL}
  BY DEF WellLinked, Heap
<1>3. /\ keep \in Nat /\ gone \in Nat /\ sum \in Nat /\ sum > 0
      /\ h.size[keep] \in Nat /\ h.size[gone] \in Nat
      /\ h.size[keep] > 0 /\ h.size[gone] > 0
      /\ keep # gone /\ keep >= start /\ gone # start
      /\ keep + sum = gone + h.size[gone] /\ keep + sum <= limit
      /\ keep + sum # limit => keep + sum \in h.blocks
      /\ next = IF keep + sum = limit THEN NULL ELSE keep + sum
      /\ next # gone /\ next # keep /\ start \in h.blocks
      /\ h.head = start /\ h.free \subseteq h.blocks
  BY LinkedFacts
<1>4. /\ g.blocks = h.blocks \ {gone} /\ g.free = h.free \ {gone}
      /\ g.head = h.head
      /\ g.size[keep] = sum /\ g.addr_next[keep] = next
      /\ \A a \in h.blocks \ {keep, gone} :
            g.size[a] = h.size[a] /\ g.addr_next[a] = h.addr_next[a]
  BY <1>1, <1>2, <1>3 DEF Merged
<1>5. /\ \A a \in h.blocks \ {gone} :
            a # next => g.addr_prev[a] = h.addr_prev[a]
      /\ next # NULL => g.addr_prev[next] = keep
  <2>1. g.addr_prev = [SetLink(h.addr_prev, next, keep)
                          EXCEPT ![gone] = NULL]
    BY <1>1 DEF Merged
  <2>2. h.blocks \ {gone} \subseteq A \ {gone} /\ NULL \notin A
    BY <1>2 DEF NULL
  <2>3. next # NULL => next \in A \ {gone}
    BY <1>2, <1>3
  <2> HIDE DEF A, sum, next
  <2>4. \A a \in A \ {gone} :
           g.addr_prev[a] = IF a = next THEN keep ELSE h.addr_prev[a]
    <3>1. DOMAIN h.addr_prev = A
      BY <1>2
    <3>2. /\ DOMAIN SetLink(h.addr_prev, next, keep) = A
          /\ \A a \in A : (SetLink(h.addr_prev, next, keep))[a]
                            = IF a = next THEN keep ELSE h.addr_prev[a]
      BY <2>2, <3>1, SetLinkPoints
    <3> QED
      BY <2>1, <3>2
  <2> QED
    BY <2>2, <2>3, <2>4
<1>6. ASSUME NEW a \in h.blocks \ {keep, gone}
      PROVE  /\ a \in Nat /\ h.size[a] \in Nat /\ h.size[a] > 0
             /\ a >= start /\ a + h.size[a] <= limit
             /\ a + h.size[a] # gone
             /\ a + h.size[a] # limit => a + h.size[a] \in h.blocks
             /\ a < keep => a + h.size[a] <= keep
             /\ keep < a => gone + h.size[gone] <= a
  <2>1. /\ a \in Nat /\ h.size[a] \in Nat /\ h.size[a] > 0
        /\ a >= start /\ a + h.size[a] <= limit
        /\ a + h.size[a] # limit => a + h.size[a] \in h.blocks
        /\ a < keep => a + h.size[a] <= keep
        /\ keep < a => keep + h.size[keep] <= a
        /\ gone < a => gone + h.size[gone] <= a
    BY LinkedFacts
  <2> HIDE DEF sum, next
  <2> QED
    BY <1>3, <2>1
<1>7. Tiled(g, start, limit)
  <2>1. ASSUME NEW a \in g.blocks
        PROVE  /\ g.size[a] > 0
               /\ a + g.size[a] \in g.blocks \cup {limit}
               /\ a >= start /\ a + g.size[a] <= limit
    <3>1. CASE a = keep
      <4> HIDE DEF sum, next
      <4> QED
        BY <1>3, <1>4, <3>1
    <3>2. CASE a # keep
      BY <1>4, <1>6, <3>2
    <3> QED
      BY <3>1, <3>2
  <2>2. ASSUME NEW a \in g.blocks, NEW c \in g.blocks, a < c
        PROVE  a + g.size[a] <= c
    <3>1. CASE a = keep
      <4> HIDE DEF sum, next
      <4> QED
        BY <1>3, <1>4, <1>6, <2>2, <3>1
    <3>2. CASE a # keep
      <4>1. g.size[a] = h.size[a] /\ a \in h.blocks /\ c \in h.blocks
        BY <1>4, <3>2
      <4> QED
        BY <2>2, <4>1, LinkedFacts
    <3> QED
      BY <3>1, <3>2
  <2>3. start \in g.blocks /\ g.free \subseteq g.blocks
    BY <1>3, <1>4
  <2> QED
    BY <2>1, <2>2, <2>3 DEF Tiled
<1>8. Linked(g, start, limit)
  <2>1. g.head = start
    BY <1>3, <1>4
  <2>2. ASSUME NEW a \in g.blocks
        PROVE  g.addr_next[a] = IF a + g.size[a] = limit THEN NULL
                                ELSE a + g.size[a]
    <3>1. CASE a = keep
      <4> HIDE DEF sum, next
      <4> QED
        BY <1>3, <1>4, <3>1
    <3>2. CASE a # keep
      <4>1. /\ g.size[a] = h.size[a] /\ a \in h.blocks
            /\ g.addr_next[a] = h.addr_next[a]
        BY <1>4, <3>2
      <4> QED
        BY <4>1, LinkedFacts
    <3> QED
      BY <3>1, <3>2
  <2>3. ASSUME NEW a \in g.blocks
        PROVE  \/ a = start /\ g.addr_prev[a] = NULL
               \/ /\ g.addr_prev[a] \in g.blocks
                  /\ g.addr_prev[a] + g.size[g.addr_prev[a]] = a
    <3>1. CASE a = next
      <4>1. a # NULL
        BY <1>4, LinkedFacts
      <4>2. g.addr_prev[a] = keep /\ a = keep + sum
        <5> HIDE DEF sum, next
        <5> QED
          BY <1>3, <1>5, <3>1, <4>1
      <4> QED
        BY <1>3, <1>4, <4>2
    <3>2. CASE a # next
      <4>1. g.addr_prev[a] = h.addr_prev[a] /\ a \in h.blocks
        BY <1>4, <1>5, <3>2
      <4>2. CASE a = start
        BY <4>1, <4>2, LinkedFacts
      <4>3. CASE a # start
        <5> DEFINE p == h.addr_prev[a]
        <5>1. p \in h.blocks /\ p + h.size[p] = a
          BY <4>1, <4>3, LinkedFacts
        <5>2. a \in Nat /\ a < limit /\ a # gone
          BY <1>4, <4>1, LinkedFacts
        <5> HIDE DEF p
        <5>3. p # gone
          <6> HIDE DEF sum, next
          <6> QED
            BY <1>3, <3>2, <5>1, <5>2
        <5>4. p # keep
          BY <5>1, <5>2
        <5> QED
          BY <1>4, <4>1, <5>1, <5>3, <5>4 DEF p
      <4> QED
        BY <4>2, <4>3
    <3> QED
      BY <3>1, <3>2
  <2> QED
    BY <2>1, <2>2, <2>3 DEF Linked
<1> QED
  BY <1>1, <1>2, <1>7, <1>8 DEF WellLinked, g

----------------------------------------------------------------------------

\* While free runs, block b is free but not filed, and may touch a free
\* neighbour; every other free block is filed and touches none.
Pending(h, b) ==
    /\ b \in h.free
    /\ \A a \in DOMAIN h.key :
          h.key[a] = IF a \in h.free \ {b} THEN h.size[a] ELSE 0
    /\ \A a, c \in h.free \ {b} : c # a + h.size[a]

\* A merge of the pending block with a free neighbour leaves the merged block
\* pending, and what the callers hold as it was.
LEMMA AbsorbKeepsPending ==
    ASSUME NEW start, NEW limit, NEW h, WellLinked(h, start, limit),
           NEW keep \in h.free, NEW gone \in h.free,
           gone = keep + h.size[keep],
           NEW b \in {keep, gone}, NEW filed \in {keep, gone}, b # filed,
           Pending(h, b)
    PROVE  LET g == Absorb(h, keep, gone, filed) IN
           /\ WellLinked(g, start, limit)
           /\ Pending(g, keep)
           /\ g.free = h.free \ {gone} /\ g.blocks = h.blocks \ {gone}
           /\ \A a \in h.blocks \ {keep, gone} : g.size[a] = h.size[a]
           /\ g.size[keep] = h.size[keep] + h.size[gone]
           /\ UsedSizes(g) = UsedSizes(h)
<1> DEFINE A == start .. (limit - 1)
           g == Absorb(h, keep, gone, filed)
<1>1. /\ keep \in h.blocks /\ gone \in h.blocks /\ h.free \subseteq h.blocks
      /\ keep # gone
      /\ h.blocks \subseteq A /\ h.size \in [A -> Nat] /\ h.key \in [A -> Nat]
  <2>1. keep \in h.blocks /\ gone \in h.blocks /\ h.free \subseteq h.blocks
    BY DEF WellLinked, Tiled
  <2>2. keep # gone
    BY <2>1, LinkedFacts
  <2> QED
    BY <2>1, <2>2 DEF WellLinked, Heap
<1>2. WellLinked(g, start, limit)
  BY <1>1, AbsorbLinked
<1>3. Merged(g, h, keep, gone, filed) /\ g \in Heap(A)
  BY <1>1, AbsorbFields
<1> HIDE DEF g, A
<1>4. /\ g.free = h.free \ {gone} /\ g.blocks = h.blocks \ {gone}
      /\ g.size = [h.size EXCEPT ![keep] = h.size[keep] + h.size[gone],
                                ![gone] = 0]
      /\ g.key = [h.key EXCEPT ![filed] = 0]
  BY <1>3 DEF Merged
<1>5. /\ \A a \in A \ {keep, gone} : g.size[a] = h.size[a]
      /\ g.size[keep] = h.size[keep] + h.size[gone]
  BY <1>1, <1>4
<1>6. Pending(g, keep)
  <2>1. ASSUME NEW a \in DOMAIN g.key
        PROVE  g.key[a] = IF a \in g.free \ {keep} THEN g.size[a] ELSE 0
    <3>1. h.key[a] = IF a \in h.free \ {b} THEN h.size[a] ELSE 0
      BY <1>1, <1>4 DEF Pending
    <3> QED
      BY <1>1, <1>4, <1>5, <3>1
  <2>2. ASSUME NEW a \in g.free \ {keep}, NEW c \in g.free \ {keep}
        PROVE  c # a + g.size[a]
    <3>1. a \in h.free \ {b} /\ c \in h.free \ {b} /\ g.size[a] = h.size[a]
      BY <1>1, <1>4, <1>5
    <3> QED
      BY <3>1 DEF Pending
  <2>3. keep \in g.free
    BY <1>1, <1>4
  <2> QED
    BY <2>1, <2>2, <2>3 DEF Pending
<1>7. UsedSizes(g) = UsedSizes(h)
  BY <1>1, <1>4, <1>5 DEF UsedSizes
<1> QED
  BY <1>1, <1>2, <1>4, <1>5, <1>6, <1>7 DEF g

\* Filing the pending block ends the free, if it touches no free block.
LEMMA FilePending ==
    ASSUME NEW start, NEW limit, NEW h, WellLinked(h, start, limit),
           NEW b, Pending(h, b),
           \A a \in h.free : a + h.size[a] # b /\ b + h.size[b] # a
    PROVE  /\ WellFormed(FileBlock(h, b, h.size[b]), start, limit)
           /\ UsedSizes(FileBlock(h, b, h.size[b])) = UsedSizes(h)
<1> DEFINE A == start .. (limit - 1)
           g == FileBlock(h, b, h.size[b])
<1>1. /\ h \in Heap(A) /\ b \in h.free /\ b \in A /\ h.free \subseteq A
      /\ h.free \subseteq h.blocks
      /\ h.size \in [A -> Nat] /\ h.key \in [A -> Nat]
  BY DEF WellLinked, Tiled, Heap, Pending
<1> HIDE DEF A
<1>2. [h.key EXCEPT ![b] = h.size[b]] \in [A -> Nat]
  BY <1>1
<1>3. g = [h EXCEPT !.key = [h.key EXCEPT ![b] = h.size[b]]]
  BY DEF FileBlock
<1> HIDE DEF g
<1>4. /\ g \in Heap(A) /\ g.blocks = h.blocks /\ g.free = h.free
      /\ g.head = h.head /\ g.size = h.size
      /\ g.addr_next = h.addr_next /\ g.addr_prev = h.addr_prev
      /\ g.key = [h.key EXCEPT ![b] = h.size[b]]
  BY <1>1, <1>2, <1>3 DEF Heap
<1>5. WellLinked(g, start, limit)
  BY <1>1, <1>4, SameListSameShape DEF A
<1>6. Coalesced(g)
  BY <1>4 DEF Coalesced, Pending
<1>7. Filed(g)
  BY <1>1, <1>4 DEF Filed, Pending
<1>8. UsedSizes(g) = UsedSizes(h)
  BY <1>4 DEF UsedSizes
<1> QED
  BY <1>5, <1>6, <1>7, <1>8 DEF WellFormed, g

\* va_free on a used block keeps the heap well formed and makes exactly that
\* block unused, whichever of its neighbours it is merged with.
THEOREM FreeKeepsHeap ==
    ASSUME NEW start, NEW limit, NEW h, WellFormed(h, start, limit),
           NEW b \in h.blocks \ h.free
    PROVE  /\ WellFormed(FreeBlock(h, b), start, limit)
           /\ UsedSizes(FreeBlock(h, b)) = [UsedSizes(h) EXCEPT ![b] = 0]
<1> DEFINE A     == start .. (limit - 1)
           prev  == h.addr_prev[b]
           next  == h.addr_next[b]
           freed == [h EXCEPT !.free = @ \cup {b}]
           back  == prev # NULL /\ prev \in freed.free
           block == IF back THEN prev ELSE b
           h1    == IF back THEN Absorb(freed, prev, b, prev) ELSE freed
           forth == next # NULL /\ next \in h1.free
           h2    == IF forth THEN Absorb(h1, block, next, next) ELSE h1
           used  == [UsedSizes(h) EXCEPT ![b] = 0]
<1>1. /\ WellLinked(h, start, limit) /\ Coalesced(h) /\ Filed(h)
      /\ h \in Heap(A) /\ b \in A
      /\ h.free \subseteq h.blocks /\ h.blocks \subseteq A
      /\ h.size \in [A -> Nat] /\ h.key \in [A -> Nat]
      /\ h.addr_next \in [A -> A \cup {NULL}]
  <2>1. WellLinked(h, start, limit) /\ Coalesced(h) /\ Filed(h)
    BY DEF WellFormed
  <2>2. h \in Heap(A) /\ h.free \subseteq h.blocks
    BY <2>1 DEF WellLinked, Tiled
  <2> QED
    BY <2>1, <2>2 DEF Heap
<1>2. /\ freed \in Heap(A) /\ freed.blocks = h.blocks
      /\ freed.free = h.free \cup {b} /\ freed.head = h.head
      /\ freed.size = h.size /\ freed.key = h.key
      /\ freed.addr_next = h.addr_next /\ freed.addr_prev = h.addr_prev
  <2> HIDE DEF A
  <2> QED
    BY <1>1 DEF Heap
<1>3. /\ b \in Nat /\ b # NULL /\ h.size[b] \in Nat /\ h.size[b] > 0
      /\ next = IF b + h.size[b] = limit THEN NULL ELSE b + h.size[b]
      /\ b # start => prev \in h.blocks /\ prev + h.size[prev] = b
      /\ b = start => prev = NULL
      /\ \A a \in h.blocks : a # NULL /\ a # limit /\ a \in Nat
                              /\ h.size[a] \in Nat /\ h.size[a] > 0
      /\ \A a, c \in h.blocks : a < c => a + h.size[a] <= c
  BY <1>1, LinkedFacts
<1> HIDE DEF A, freed
<1>4. WellLinked(freed, start, limit)
  BY <1>1, <1>2, SameListSameShape DEF A
<1>5. Pending(freed, b)
  BY <1>1, <1>2 DEF Pending, Filed, Coalesced
<1>6. UsedSizes(freed) = used
  BY <1>1, <1>2 DEF UsedSizes
<1> HIDE DEF prev, next, h1, h2, used
<1>7. /\ WellLinked(h1, start, limit) /\ Pending(h1, block)
      /\ UsedSizes(h1) = used
      /\ \A a \in h1.free : a + h1.size[a] # block
      /\ block \in Nat /\ h1.size[block] \in Nat
      /\ block + h1.size[block] = b + h.size[b]
  <2>1. CASE back
    <3>1. /\ prev \in freed.free /\ b \in freed.free
          /\ prev + freed.size[prev] = b /\ prev # b /\ prev \in h.blocks
      BY <1>2, <1>3, <2>1
    <3>2. h1 = Absorb(freed, prev, b, prev) /\ block = prev
      BY <2>1 DEF h1
    <3>3. /\ WellLinked(h1, start, limit) /\ Pending(h1, prev)
          /\ h1.free = freed.free \ {b}
          /\ \A a \in freed.blocks \ {prev, b} : h1.size[a] = freed.size[a]
          /\ h1.size[prev] = freed.size[prev] + freed.size[b]
          /\ UsedSizes(h1) = UsedSizes(freed)
      BY <1>4, <1>5, <3>1, <3>2, AbsorbKeepsPending
    <3>4. ASSUME NEW a \in h1.free, a + h1.size[a] = prev
          PROVE  FALSE
      <4>1. /\ a \in h.free /\ a # b /\ a \in h.blocks
            /\ prev \in h.free /\ prev \in Nat /\ a \in Nat
        BY <1>1, <1>2, <1>3, <3>1, <3>3
      <4>2. a # prev
        <5>1. h1.size[prev] \in Nat /\ h1.size[prev] > 0
          BY <1>2, <1>3, <3>1, <3>3
        <5> QED
          BY <3>4, <4>1, <5>1
      <4>3. a + h.size[a] = prev
        BY <1>2, <3>3, <3>4, <4>1, <4>2
      <4> QED
        BY <1>1, <4>1, <4>3 DEF Coalesced
    <3>5. /\ prev \in Nat /\ h1.size[prev] \in Nat
          /\ prev + h1.size[prev] = b + h.size[b]
      BY <1>2, <1>3, <3>1, <3>3
    <3> QED
      BY <1>6, <3>2, <3>3, <3>4, <3>5
  <2>2. CASE ~ back
    <3>1. h1 = freed /\ block = b
      BY <2>2 DEF h1
    <3>2. ASSUME NEW a \in freed.free, a + freed.size[a] = b
          PROVE  FALSE
      <4>1. a \in h.blocks /\ a \in Nat /\ h.size[a] \in Nat /\ h.size[a] > 0
        BY <1>1, <1>2, <1>3
      <4>2. a < b /\ a + h.size[a] = b
        BY <1>2, <1>3, <3>2, <4>1
      <4>3. b # start
        BY <1>1, <4>1, <4>2, LinkedFacts
      <4>4. prev \in h.blocks /\ prev + h.size[prev] = b /\ prev # NULL
        BY <1>3, <4>3
      <4>5. prev = a
        <5>1. prev \in Nat /\ h.size[prev] \in Nat /\ h.size[prev] > 0
          BY <1>3, <4>4
        <5>2. /\ prev < a => prev + h.size[prev] <= a
              /\ a < prev => a + h.size[a] <= prev
          BY <1>3, <4>1, <4>4
        <5> QED
          BY <4>1, <4>2, <4>4, <5>1, <5>2
      <4> QED
        BY <2>2, <4>4, <4>5
    <3> QED
      BY <1>2, <1>3, <1>4, <1>5, <1>6, <3>1, <3>2
  <2> QED
    BY <2>1, <2>2
<1> HIDE DEF block
<1>8. /\ block \in h1.free /\ h1.free \subseteq h1.blocks
      /\ \A a \in h1.blocks : /\ a # NULL /\ a \in Nat /\ a < limit
                               /\ h1.size[a] \in Nat /\ h1.size[a] > 0
  <2>1. block \in h1.free
    BY <1>7 DEF Pending
  <2> QED
    BY <1>7, <2>1, LinkedFacts
<1>9. /\ WellLinked(h2, start, limit) /\ Pending(h2, block)
      /\ UsedSizes(h2) = used
      /\ \A a \in h2.free : a + h2.size[a] # block /\ block + h2.size[block] # a
  <2>1. CASE forth
    <3>1. /\ next \in h1.free /\ next = block + h1.size[block]
          /\ next # block
      <4>1. next \in h1.free /\ next # NULL
        BY <2>1
      <4>2. next = b + h.size[b]
        BY <1>3, <4>1
      <4> QED
        BY <1>7, <1>8, <4>1, <4>2
    <3>2. h2 = Absorb(h1, block, next, next)
      BY <2>1 DEF h2
    <3>3. /\ WellLinked(h2, start, limit) /\ Pending(h2, block)
          /\ h2.free = h1.free \ {next}
          /\ \A a \in h1.blocks \ {block, next} : h2.size[a] = h1.size[a]
          /\ h2.size[block] = h1.size[block] + h1.size[next]
          /\ UsedSizes(h2) = UsedSizes(h1)
      <4> HIDE DEF back, forth, A
      <4>1. /\ WellLinked(h1, start, limit) /\ Pending(h1, block)
            /\ block \in h1.free /\ next \in h1.free
            /\ next = block + h1.size[block] /\ block # next
        BY <1>7, <1>8, <3>1
      <4> DEFINE g == Absorb(h1, block, next, next)
      <4>2. /\ WellLinked(g, start, limit) /\ Pending(g, block)
            /\ g.free = h1.free \ {next}
            /\ \A a \in h1.blocks \ {block, next} : g.size[a] = h1.size[a]
            /\ g.size[block] = h1.size[block] + h1.size[next]
            /\ UsedSizes(g) = UsedSizes(h1)
        BY <4>1, AbsorbKeepsPending
      <4> QED
        BY <3>2, <4>2
    <3>4. ASSUME NEW a \in h2.free
          PROVE  a + h2.size[a] # block /\ block + h2.size[block] # a
      <4>1. CASE a = block
        <5>1. /\ block \in Nat /\ h2.size[block] \in Nat
              /\ h2.size[block] > 0
          BY <1>8, <3>1, <3>3
        <5> QED
          BY <4>1, <5>1
      <4>2. CASE a # block
        <5>1. a \in h1.free /\ a # next /\ h2.size[a] = h1.size[a]
          BY <1>8, <3>3, <4>2
        <5>2. a + h2.size[a] # block
          BY <1>7, <5>1
        <5>3. next + h1.size[next] # a
          BY <1>7, <3>1, <4>2, <5>1 DEF Pending
        <5>4. block + h2.size[block] = next + h1.size[next]
          BY <1>8, <3>1, <3>3
        <5> QED
          BY <5>2, <5>3, <5>4
      <4> QED
        BY <4>1, <4>2
    <3> QED
      BY <1>7, <3>3, <3>4
  <2>2. CASE ~ forth
    <3>1. h2 = h1
      BY <2>2 DEF h2
    <3>2. ASSUME NEW a \in h1.free, block + h1.size[block] = a
          PROVE  FALSE
      <4>1. a \in h1.blocks /\ a < limit /\ a # NULL /\ a \in Nat
        BY <1>8
      <4>2. next = a
        BY <1>3, <1>7, <3>2, <4>1
      <4> QED
        BY <2>2, <4>1, <4>2
    <3> QED
      BY <1>7, <3>1, <3>2
  <2> QED
    BY <2>1, <2>2
<1>10. FreeBlock(h, b) = FileBlock(h2, block, h2.size[block])
  BY DEF FreeBlock, h2, h1, block, prev, next, freed
<1> HIDE DEF A, back, forth
<1>11. /\ WellFormed(FileBlock(h2, block, h2.size[block]), start, limit)
       /\ UsedSizes(FileBlock(h2, block, h2.size[block])) = UsedSizes(h2)
  <2>1. /\ WellLinked(h2, start, limit) /\ Pending(h2, block)
        /\ \A a \in h2.free : a + h2.size[a] # block /\ block + h2.size[block] # a
    BY <1>9
  <2> QED
    BY <2>1, FilePending
<1> QED
  BY <1>9, <1>10, <1>11 DEF used
=============================================================================
