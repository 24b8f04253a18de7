--------------------------- MODULE VaDefaultProofs --------------------------
(***************************************************************************)
(* VaDefault keeps its invariants, and VaSpec's promise, for every size of *)
(* reservation, every set of requests and every set of freed addresses.    *)
(***************************************************************************)
EXTENDS VaDefault, BlockHeapProofs, NumberInduction, FiniteSetTheorems

----------------------------------------------------------------------------
(***************************************************************************)
(* Counting the bytes in use.                                              *)
(***************************************************************************)

\* The bytes of the spans that f gives by their start.
Bytes(f) == UNION {a .. (a + f[a] - 1) : a \in DOMAIN f}

\* No span of f ends above n; no two of them meet.
EndsBy(f, n) == \A a \in DOMAIN f : f[a] # 0 => a + f[a] <= n
Apart(f) ==
    \A a, c \in DOMAIN f :
        (a # c /\ f[a] # 0 /\ f[c] # 0) => a + f[a] <= c \/ c + f[c] <= a

\* g gives b a span of s bytes where f gives none.
Extends(g, f, b, s) ==
    f[b] = 0 /\ g[b] = s /\ \A a \in DOMAIN f \ {b} : g[a] = f[a]

\* A span of s bytes where there was none, apart from the others, adds s.
LEMMA BytesAdd ==
    ASSUME NEW A \in SUBSET Nat, NEW n \in Nat, NEW f \in [A -> Nat],
           NEW g \in [A -> Nat], NEW b \in A, NEW s \in Nat \ {0},
           Extends(g, f, b, s), EndsBy(g, n), Apart(g)
    PROVE  /\ Cardinality(Bytes(f)) \in Nat
           /\ Cardinality(Bytes(g)) = Cardinality(Bytes(f)) + s
<1> DEFINE span == b .. (b + s - 1)
<1>1. /\ DOMAIN g = A /\ DOMAIN f = A /\ g[b] = s
      /\ f[b] = 0 /\ \A a \in A \ {b} : g[a] = f[a]
      /\ \A a \in A : a \in Nat /\ f[a] \in Nat
  BY DEF Extends
<1>2. ASSUME NEW x \in Bytes(f)
      PROVE  \E a \in A : /\ a # b /\ f[a] # 0 /\ g[a] = f[a]
                          /\ x \in Nat /\ a <= x /\ x < a + f[a]
  <2>1. PICK a \in A : x \in a .. (a + f[a] - 1)
    BY <1>1 DEF Bytes
  <2>2. x \in Nat /\ a <= x /\ x < a + f[a] /\ f[a] # 0
    BY <1>1, <2>1
  <2>3. a # b
    BY <1>1, <2>2
  <2>4. g[a] = f[a]
    BY <1>1, <2>3
  <2> QED
    BY <2>2, <2>3, <2>4
<1>3. IsFiniteSet(Bytes(f)) /\ Cardinality(Bytes(f)) \in Nat
  <2>1. ASSUME NEW x \in Bytes(f)
        PROVE  x \in 0 .. n
    <3>1. PICK a \in A : /\ f[a] # 0 /\ g[a] = f[a]
                         /\ x \in Nat /\ x < a + f[a]
      BY <1>2
    <3>2. a + f[a] <= n
      BY <1>1, <3>1 DEF EndsBy
    <3> QED
      BY <1>1, <3>1, <3>2
  <2>2. IsFiniteSet(0 .. n)
    BY FS_Interval
  <2>3. IsFiniteSet(Bytes(f))
    BY <2>1, <2>2, FS_Subset
  <2> QED
    BY <2>3, FS_CardinalityType
<1>4. IsFiniteSet(span) /\ Cardinality(span) = s
  <2> DEFINE e == b + s - 1
  <2>1. b \in Int /\ e \in Int
    OBVIOUS
  <2>2. e - b + 1 = s /\ (b > e => s = 0)
    OBVIOUS
  <2> HIDE DEF e
  <2>3. /\ IsFiniteSet(b .. e)
        /\ Cardinality(b .. e) = IF b > e THEN 0 ELSE e - b + 1
    BY <2>1, FS_Interval
  <2> QED
    BY <2>2, <2>3 DEF e
<1>5. Bytes(g) = Bytes(f) \cup span
  <2>1. ASSUME NEW x \in Bytes(g)
        PROVE  x \in Bytes(f) \cup span
    <3>1. PICK a \in A : x \in a .. (a + g[a] - 1)
      BY <1>1 DEF Bytes
    <3>2. CASE a = b
      BY <1>1, <3>1, <3>2
    <3>3. CASE a # b
      <4>1. x \in a .. (a + f[a] - 1)
        BY <1>1, <3>1, <3>3
      <4> QED
        BY <1>1, <4>1 DEF Bytes
    <3> QED
      BY <3>2, <3>3
  <2>2. ASSUME NEW x \in Bytes(f)
        PROVE  x \in Bytes(g)
    <3>1. PICK a \in A : /\ g[a] = f[a]
                         /\ x \in Nat /\ a <= x /\ x < a + f[a]
      BY <1>2
    <3>2. x \in a .. (a + g[a] - 1)
      BY <1>1, <3>1
    <3> QED
      BY <1>1, <3>2 DEF Bytes
  <2>3. ASSUME NEW x \in span
        PROVE  x \in Bytes(g)
    <3>1. x \in b .. (b + g[b] - 1)
      BY <1>1
    <3> QED
      BY <1>1, <3>1 DEF Bytes
  <2> QED
    BY <2>1, <2>2, <2>3
<1>6. Bytes(f) \cap span = {}
  <2> SUFFICES ASSUME NEW x \in Bytes(f), x \in span
               PROVE  FALSE
    OBVIOUS
  <2>1. PICK a \in A : /\ a # b /\ f[a] # 0 /\ g[a] = f[a]
                       /\ x \in Nat /\ a <= x /\ x < a + f[a]
    BY <1>2
  <2>2. a + f[a] <= b \/ b + s <= a
    BY <1>1, <2>1 DEF Apart
  <2>3. b <= x /\ x < b + s
    OBVIOUS
  <2> QED
    BY <1>1, <2>1, <2>2, <2>3
<1> HIDE DEF span
<1>7. Cardinality(Bytes(f) \cup span)
        = Cardinality(Bytes(f)) + Cardinality(span)
            - Cardinality(Bytes(f) \cap span)
  BY <1>3, <1>4, FS_Union
<1>8. Cardinality({}) = 0
  BY FS_EmptySet
<1>9. Cardinality(Bytes(f) \cup span) = Cardinality(Bytes(f)) + s - 0
  BY <1>4, <1>6, <1>7, <1>8
<1> HIDE DEF Bytes
<1>10. Cardinality(Bytes(f)) + s - 0 = Cardinality(Bytes(f)) + s
  BY <1>3
<1> QED
  BY <1>3, <1>5, <1>9, <1>10

\* What the callers of a well-linked heap hold lies in the reservation, and
\* no two of them overlap.
LEMMA UsedApart ==
    ASSUME NEW start, NEW limit, NEW h, WellLinked(h, start, limit)
    PROVE  EndsBy(UsedSizes(h), limit) /\ Apart(UsedSizes(h))
<1>1. ASSUME NEW a \in DOMAIN h.size, UsedSizes(h)[a] # 0
      PROVE  a \in h.blocks /\ UsedSizes(h)[a] = h.size[a]
  BY <1>1 DEF UsedSizes
<1>2. DOMAIN UsedSizes(h) = DOMAIN h.size
  BY DEF UsedSizes
<1>3. EndsBy(UsedSizes(h), limit)
  BY <1>1, <1>2, LinkedFacts DEF EndsBy
<1>4. Apart(UsedSizes(h))
  <2> SUFFICES ASSUME NEW a \in DOMAIN h.size, NEW c \in DOMAIN h.size,
                      a # c, UsedSizes(h)[a] # 0, UsedSizes(h)[c] # 0
               PROVE  \/ a + UsedSizes(h)[a] <= c
                      \/ c + UsedSizes(h)[c] <= a
    BY <1>2 DEF Apart
  <2>1. /\ a \in h.blocks /\ UsedSizes(h)[a] = h.size[a]
        /\ c \in h.blocks /\ UsedSizes(h)[c] = h.size[c]
    BY <1>1
  <2>2. a \in Nat /\ c \in Nat
    BY <2>1, LinkedFacts
  <2>3. a < c \/ c < a
    BY <2>2
  <2> QED
    BY <2>1, <2>3, LinkedFacts
<1> QED
  BY <1>3, <1>4

\* A free block that becomes used adds its size to the bytes in use; read
\* backwards, a used block that becomes free takes its size away.
LEMMA UsedBytesAdd ==
    ASSUME NEW start, NEW limit, NEW h, NEW g,
           WellLinked(h, start, limit), WellLinked(g, start, limit),
           NEW b \in start .. (limit - 1), NEW s \in Nat \ {0},
           Extends(UsedSizes(g), UsedSizes(h), b, s)
    PROVE  /\ Cardinality(Bytes(UsedSizes(h))) \in Nat
           /\ Cardinality(Bytes(UsedSizes(g)))
                = Cardinality(Bytes(UsedSizes(h))) + s
<1> DEFINE A == start .. (limit - 1)
           f == UsedSizes(h)
           u == UsedSizes(g)
<1>1. /\ A \in SUBSET Nat /\ limit \in Nat
      /\ f \in [A -> Nat] /\ u \in [A -> Nat]
  <2>1. /\ h \in Heap(A) /\ g \in Heap(A)
        /\ start \in Nat /\ limit \in Nat /\ A \in SUBSET Nat
    BY DEF WellLinked
  <2> QED
    BY <2>1 DEF Heap, UsedSizes
<1>2. b \in A /\ Extends(u, f, b, s)
  OBVIOUS
<1>3. EndsBy(u, limit) /\ Apart(u)
  BY UsedApart
<1> HIDE DEF A, f, u
<1>4. /\ Cardinality(Bytes(f)) \in Nat
      /\ Cardinality(Bytes(u)) = Cardinality(Bytes(f)) + s
  BY <1>1, <1>2, <1>3, BytesAdd
<1> QED
  BY <1>4 DEF f, u

----------------------------------------------------------------------------
(***************************************************************************)
(* The invariant.  The invariants the model is checked for are not         *)
(* inductive one by one: a merge keeps the tiling only if the links are    *)
(* right, and the count only if the tiling is.                             *)
(***************************************************************************)

HeapInv == impl = "ready" => reserved /\ WellFormed(heap, Base, Limit)

IdleInv == /\ impl # "ready" => heap = NoHeap(Addr)
           /\ impl = "none" => reserved = FALSE

IInv == /\ TypeOK
        /\ HeapInv
        /\ IdleInv
        /\ live = UsedSizes(heap)
        /\ used = Cardinality(Bytes(live))

\* An allocator with no blocks has no bytes in use.
LEMMA NothingUsed ==
    /\ UsedSizes(NoHeap(Addr)) = Nobody
    /\ Cardinality(Bytes(Nobody)) = 0
    /\ NoHeap(Addr) \in Heap(Addr) /\ Nobody \in [Addr -> Nat]
<1>1. UsedSizes(NoHeap(Addr)) = Nobody
  BY DEF UsedSizes, NoHeap, Nobody
<1>2. Bytes(Nobody) = {}
  <2> SUFFICES ASSUME NEW a \in Addr, NEW x \in a .. (a + 0 - 1)
               PROVE  FALSE
    BY DEF Bytes, Nobody
  <2>1. a \in Nat
    BY ReservationAssumption DEF Addr, Limit
  <2> QED
    BY <2>1
<1>3. NoHeap(Addr) \in Heap(Addr) /\ Nobody \in [Addr -> Nat]
  BY DEF NoHeap, Heap, Nobody
<1> QED
  BY <1>1, <1>2, <1>3, FS_EmptySet

\* radixTreeFindGEQ finds a free block that is large enough and no larger than
\* any other that is.
LEMMA FoundFits ==
    ASSUME NEW h, WellFormed(h, Base, Limit), NEW s \in Nat \ {0},
           NEW b \in FindGEQ(h, s)
    PROVE  /\ b \in h.free /\ b \in Addr /\ s <= h.size[b]
           /\ \A c \in h.free : s <= h.size[c] => h.size[b] <= h.size[c]
<1>1. h \in Heap(Addr) /\ Filed(h) /\ h.free \subseteq Addr
  BY DEF WellFormed, WellLinked, Heap, Addr
<1>2. /\ DOMAIN h.key = Addr /\ h.size \in [Addr -> Nat]
      /\ \A a \in Addr : h.key[a] = IF a \in h.free THEN h.size[a] ELSE 0
  BY <1>1 DEF Heap, Filed
<1>3. /\ b \in Addr /\ h.key[b] # 0 /\ h.key[b] >= s
      /\ \A c \in Addr : h.key[c] # 0 /\ h.key[c] >= s
                           => h.key[b] <= h.key[c]
  BY <1>2 DEF FindGEQ
<1> QED
  BY <1>1, <1>2, <1>3

\* Initially there is no reservation, no block and no caller.
LEMMA InitIInv == Init => IInv
<1> SUFFICES ASSUME Init PROVE IInv
  OBVIOUS
<1>1. TypeOK
  BY NothingUsed DEF Init, TypeOK
<1>2. HeapInv /\ IdleInv
  BY DEF Init, HeapInv, IdleInv
<1>3. live = UsedSizes(heap) /\ used = Cardinality(Bytes(live))
  BY NothingUsed DEF Init
<1> QED
  BY <1>1, <1>2, <1>3 DEF IInv

\* Every step keeps the invariant.
LEMMA NextIInv == IInv /\ [Next]_vars => IInv'
<1> SUFFICES ASSUME IInv, [Next]_vars PROVE IInv'
  OBVIOUS
<1>1. /\ TypeOK /\ HeapInv /\ IdleInv
      /\ live = UsedSizes(heap) /\ used = Cardinality(Bytes(live))
      /\ Base \in Nat \ {0} /\ Total \in Nat \ {0}
      /\ Limit = Base + Total /\ Addr = Base .. (Limit - 1)
      /\ Requests \subseteq Nat
  BY ReservationAssumption, CallerAssumption DEF IInv, Limit, Addr
<1>2. CASE InitFails
  BY <1>1, <1>2 DEF InitFails, IInv, TypeOK, HeapInv, IdleInv
<1>3. CASE init_default_allocator
  <2>1. /\ WellFormed(heap', Base, Limit) /\ UsedSizes(heap') = Nobody
    BY <1>1, <1>3, InitialHeapWellFormed DEF init_default_allocator, Nobody
  <2>2. heap' \in Heap(Addr)
    BY <1>1, <2>1 DEF WellFormed, WellLinked
  <2>3. live' = Nobody
    BY <1>1, <1>3, NothingUsed DEF init_default_allocator, IdleInv
  <2>4. TypeOK'
    BY <1>3, <2>2, <2>3, NothingUsed DEF init_default_allocator, TypeOK
  <2>5. HeapInv' /\ IdleInv'
    BY <1>3, <2>1 DEF init_default_allocator, HeapInv, IdleInv, Limit
  <2> QED
    BY <1>3, <2>1, <2>3, <2>4, <2>5, NothingUsed
    DEF init_default_allocator, IInv
<1>4. ASSUME NEW size \in Requests, default_alloc(size)
      PROVE  IInv'
  <2>1. PICK b \in FindGEQ(heap, size) :
           /\ heap' = AllocateBlock(heap, b, size)
           /\ used' = used + heap'.size[b]
           /\ live' = [live EXCEPT ![b] = size]
    BY <1>4 DEF default_alloc
  <2>2. /\ impl = "ready" /\ impl' = "ready" /\ reserved' = reserved
        /\ reserved /\ WellFormed(heap, Base, Limit)
        /\ size \in Nat \ {0}
    BY <1>1, <1>4 DEF default_alloc, HeapInv
  <2>3. b \in heap.free /\ b \in Addr /\ size <= heap.size[b]
    BY <2>2, FoundFits
  <2>4. /\ WellFormed(heap', Base, Limit)
        /\ UsedSizes(heap') = [UsedSizes(heap) EXCEPT ![b] = size]
        /\ heap'.size[b] = size
    BY <2>1, <2>2, <2>3, AllocateKeepsHeap
  <2>5. live' = UsedSizes(heap')
    BY <1>1, <2>1, <2>4
  <2>6. Extends(UsedSizes(heap'), UsedSizes(heap), b, size)
    <3>1. UsedSizes(heap) \in [Addr -> Nat] /\ UsedSizes(heap)[b] = 0
      BY <1>1, <2>3 DEF UsedSizes, TypeOK, Heap
    <3> HIDE DEF UsedSizes
    <3> QED
      BY <2>3, <2>4, <3>1 DEF Extends
  <2>7. Cardinality(Bytes(live')) = used + size /\ used \in Nat
    <3>1. /\ WellLinked(heap, Base, Limit) /\ WellLinked(heap', Base, Limit)
          /\ b \in Base .. (Limit - 1)
      BY <1>1, <2>2, <2>3, <2>4 DEF WellFormed
    <3>2. Cardinality(Bytes(UsedSizes(heap')))
            = Cardinality(Bytes(UsedSizes(heap))) + size
      BY <2>2, <2>6, <3>1, UsedBytesAdd
    <3> QED
      BY <1>1, <2>5, <3>2 DEF TypeOK
  <2>8. TypeOK'
    <3>1. heap' \in Heap(Addr)
      BY <1>1, <2>4 DEF WellFormed, WellLinked
    <3>2. live' \in [Addr -> Nat]
      BY <1>1, <2>1, <2>2, <2>3 DEF TypeOK
    <3>3. used' \in Nat
      BY <2>1, <2>2, <2>4, <2>7
    <3> QED
      BY <2>2, <3>1, <3>2, <3>3 DEF TypeOK
  <2> QED
    BY <2>1, <2>2, <2>4, <2>5, <2>7, <2>8
    DEF IInv, HeapInv, IdleInv, Limit
<1>5. ASSUME NEW addr \in FreeArgs, default_free(addr)
      PROVE  IInv'
  <2>1. /\ addr \in heap.blocks \ heap.free
        /\ heap' = FreeBlock(heap, addr)
        /\ used' = used - heap.size[addr]
        /\ live' = [live EXCEPT ![addr] = 0]
        /\ impl = "ready" /\ impl' = "ready" /\ reserved' = reserved
        /\ reserved /\ WellFormed(heap, Base, Limit)
    BY <1>1, <1>5 DEF default_free, HeapInv
  <2>2. /\ WellFormed(heap', Base, Limit)
        /\ UsedSizes(heap') = [UsedSizes(heap) EXCEPT ![addr] = 0]
    BY <2>1, FreeKeepsHeap
  <2>3. live' = UsedSizes(heap')
    BY <1>1, <2>1, <2>2
  <2>4. /\ WellLinked(heap, Base, Limit) /\ WellLinked(heap', Base, Limit)
        /\ heap \in Heap(Addr) /\ heap' \in Heap(Addr)
    BY <1>1, <2>1, <2>2 DEF WellFormed, WellLinked
  <2>5. /\ addr \in Addr /\ heap.size[addr] \in Nat \ {0}
        /\ UsedSizes(heap)[addr] = heap.size[addr]
    <3>1. heap.size[addr] \in Nat \ {0}
      BY <2>1, <2>4, LinkedFacts
    <3>2. addr \in Addr /\ DOMAIN heap.size = Addr
      BY <2>1, <2>4 DEF Heap
    <3> QED
      BY <2>1, <3>1, <3>2 DEF UsedSizes
  <2>6. Extends(UsedSizes(heap), UsedSizes(heap'), addr, heap.size[addr])
    <3>1. UsedSizes(heap) \in [Addr -> Nat]
      BY <1>1 DEF TypeOK
    <3> HIDE DEF UsedSizes
    <3> QED
      BY <2>2, <2>5, <3>1 DEF Extends
  <2>7. /\ Cardinality(Bytes(live')) \in Nat
        /\ used = Cardinality(Bytes(live')) + heap.size[addr]
    <3>1. addr \in Base .. (Limit - 1)
      BY <1>1, <2>5
    <3>2. /\ Cardinality(Bytes(UsedSizes(heap'))) \in Nat
          /\ Cardinality(Bytes(UsedSizes(heap)))
               = Cardinality(Bytes(UsedSizes(heap'))) + heap.size[addr]
      BY <2>4, <2>5, <2>6, <3>1, UsedBytesAdd
    <3> QED
      BY <1>1, <2>3, <3>2
  <2>8. used' = Cardinality(Bytes(live'))
    BY <2>1, <2>5, <2>7
  <2>9. TypeOK'
    BY <1>1, <2>1, <2>4, <2>7, <2>8 DEF TypeOK
  <2> QED
    BY <2>1, <2>2, <2>3, <2>8, <2>9 DEF IInv, HeapInv, IdleInv, Limit
<1>6. CASE default_destroy
  <2>1. /\ impl' = "destroyed" /\ reserved' \in BOOLEAN
        /\ heap' = NoHeap(Addr) /\ used' = 0 /\ live' = Nobody
    BY <1>1, <1>6 DEF default_destroy, TypeOK
  <2> QED
    BY <2>1, NothingUsed DEF IInv, TypeOK, HeapInv, IdleInv
<1>7. CASE UNCHANGED vars
  BY <1>1, <1>7 DEF vars, IInv, TypeOK, HeapInv, IdleInv, Limit
<1>8. /\ \A size \in Requests : AllocRefused(size) => UNCHANGED vars
      /\ \A addr \in FreeArgs : FreeIgnored(addr) => UNCHANGED vars
  BY DEF AllocRefused, FreeIgnored
<1> QED
  BY <1>2, <1>3, <1>4, <1>5, <1>6, <1>7, <1>8 DEF Next

----------------------------------------------------------------------------
(***************************************************************************)
(* What the runs check, for every reservation and every caller.            *)
(***************************************************************************)

\* The invariant holds throughout.
THEOREM Invariance == Spec => []IInv
BY InitIInv, NextIInv, PTL DEF Spec

\* The variables keep their types; used_va_size never wraps below zero.
THEOREM TypeCorrect == Spec => []TypeOK
<1>1. IInv => TypeOK
  BY DEF IInv
<1> QED
  BY <1>1, Invariance, PTL

\* The blocks tile the reservation and the address list runs through them in
\* order, both ways, after any sequence of calls.
THEOREM Tiling == Spec => []BlocksTileReservation
<1>1. IInv => BlocksTileReservation
  BY DEF IInv, HeapInv, WellFormed, WellLinked, BlocksTileReservation
<1> QED
  BY <1>1, Invariance, PTL

\* Free blocks never lie side by side between calls.
THEOREM Coalescing == Spec => []FreeNeighboursMerged
<1>1. IInv => FreeNeighboursMerged
  BY DEF IInv, HeapInv, WellFormed, FreeNeighboursMerged
<1> QED
  BY <1>1, Invariance, PTL

\* The size tree holds the free blocks, each under its present size.
THEOREM Filing == Spec => []SizeTreeIsFreeList
<1>1. IInv => SizeTreeIsFreeList
  BY DEF IInv, HeapInv, WellFormed, SizeTreeIsFreeList
<1> QED
  BY <1>1, Invariance, PTL

\* The used blocks are what callers hold, under the sizes they asked for.
THEOREM Ownership == Spec => []UsedBlocksAreLive
<1>1. IInv => UsedBlocksAreLive
  <2> SUFFICES ASSUME IInv, NEW a \in Addr
               PROVE  live[a] = IF a \in heap.blocks \ heap.free
                                THEN heap.size[a] ELSE 0
    BY DEF UsedBlocksAreLive
  <2>1. live = UsedSizes(heap) /\ DOMAIN heap.size = Addr
    BY DEF IInv, TypeOK, Heap
  <2> QED
    BY <2>1 DEF UsedSizes
<1> QED
  BY <1>1, Invariance, PTL

\* used_va_size counts the bytes callers hold.
THEOREM Accounting == Spec => []UsedSizeIsLiveBytes
<1>1. IInv => UsedSizeIsLiveBytes
  <2> SUFFICES ASSUME IInv PROVE UsedSizeIsLiveBytes
    OBVIOUS
  <2>1. used = Cardinality(Bytes(live)) /\ DOMAIN live = Addr
    BY DEF IInv, TypeOK
  <2>2. Bytes(live) = InUse
    BY <2>1 DEF Bytes, InUse
  <2> QED
    BY <2>1, <2>2 DEF UsedSizeIsLiveBytes
<1> QED
  BY <1>1, Invariance, PTL

\* va_alloc takes a free block no larger than any other that is large enough.
THEOREM BestFit == Spec => BestFitTaken
<1> DEFINE Fits(a) ==
        (live[a] = 0 /\ live'[a] # 0) =>
            /\ a \in heap.free
            /\ heap.size[a] >= live'[a]
            /\ \A b \in heap.free :
                  heap.size[b] >= live'[a] => heap.size[a] <= heap.size[b]
<1>1. IInv /\ [Next]_vars => [\A a \in Addr : Fits(a)]_vars
  <2> SUFFICES ASSUME IInv, Next, NEW a \in Addr, live[a] = 0, live'[a] # 0
               PROVE  /\ a \in heap.free
                      /\ heap.size[a] >= live'[a]
                      /\ \A b \in heap.free :
                            heap.size[b] >= live'[a] =>
                                heap.size[a] <= heap.size[b]
    OBVIOUS
  <2>1. live \in [Addr -> Nat] /\ Requests \subseteq Nat
    BY CallerAssumption DEF IInv, TypeOK
  <2>2. CASE InitFails \/ init_default_allocator
    BY <2>2 DEF InitFails, init_default_allocator
  <2>3. CASE default_destroy
    BY <2>3 DEF default_destroy, Nobody
  <2>4. ASSUME NEW size \in Requests, AllocRefused(size) PROVE FALSE
    BY <2>4 DEF AllocRefused, vars
  <2>5. ASSUME NEW addr \in FreeArgs, FreeIgnored(addr) PROVE FALSE
    BY <2>5 DEF FreeIgnored, vars
  <2>6. ASSUME NEW addr \in FreeArgs, default_free(addr) PROVE FALSE
    BY <2>1, <2>6 DEF default_free
  <2>7. ASSUME NEW size \in Requests, default_alloc(size)
        PROVE  /\ a \in heap.free
               /\ heap.size[a] >= live'[a]
               /\ \A b \in heap.free :
                     heap.size[b] >= live'[a] => heap.size[a] <= heap.size[b]
    <3>1. /\ WellFormed(heap, Base, Limit) /\ size \in Nat \ {0}
          /\ heap \in Heap(Addr)
      BY <2>1, <2>7 DEF default_alloc, IInv, HeapInv, TypeOK
    <3>2. PICK b \in FindGEQ(heap, size) : live' = [live EXCEPT ![b] = size]
      BY <2>7 DEF default_alloc
    <3>3. a = b /\ live'[a] = size
      BY <2>1, <3>2
    <3>4. a \in FindGEQ(heap, size)
      BY <3>2, <3>3
    <3>5. /\ a \in heap.free /\ size <= heap.size[a]
          /\ \A c \in heap.free :
                size <= heap.size[c] => heap.size[a] <= heap.size[c]
      BY <3>1, <3>4, FoundFits
    <3>6. \A c \in heap.free : heap.size[c] \in Nat
      BY <3>1 DEF Heap
    <3> QED
      BY <3>1, <3>3, <3>5, <3>6
  <2> QED
    BY <2>2, <2>3, <2>4, <2>5, <2>6, <2>7 DEF Next
<1> QED
  BY <1>1, Invariance, PTL DEF Spec, BestFitTaken

----------------------------------------------------------------------------
(***************************************************************************)
(* The refinement.                                                         *)
(***************************************************************************)

\* The mapping: the whole reservation while it is mapped, and what callers
\* hold.
Mapped == IF reserved THEN Addr ELSE {}
Held   == [a \in {b \in Addr : live[b] # 0} |-> live[a]]

\* The allocator implements the promise of VaSpec: it hands out only address
\* space that is reserved and that nobody holds, and takes back one caller's
\* address at a time.
THEOREM Refinement == Spec => KeepsPromise
<1> USE DEF Mapped, Held
<1>1. Init => Promise!Init
  <2> SUFFICES ASSUME Init PROVE Promise!Init
    OBVIOUS
  <2>1. Held = [a \in {} |-> 0]
    BY DEF Init, Nobody
  <2> QED
    BY <2>1 DEF Promise!Init
<1>2. IInv /\ IInv' /\ [Next]_vars => [Promise!Next]_(Promise!vars)
  <2> SUFFICES ASSUME IInv, IInv', Next PROVE [Promise!Next]_(Promise!vars)
    BY DEF vars, Promise!vars
  <2>1. /\ live \in [Addr -> Nat] /\ live' \in [Addr -> Nat]
        /\ Requests \subseteq Nat
    BY CallerAssumption DEF IInv, TypeOK
  <2>2. CASE InitFails
    <3>1. reserved = FALSE /\ reserved' = FALSE /\ live' = live
      BY <2>2 DEF InitFails, IInv, IdleInv
    <3> QED
      BY <3>1 DEF Promise!vars
  <2>3. CASE init_default_allocator
    <3>1. Held' = Held
      BY <2>3 DEF init_default_allocator
    <3>2. Mapped \subseteq Addr /\ Mapped' = Addr
      BY <2>3 DEF init_default_allocator
    <3>3. Promise!Reserve
      BY <3>1, <3>2 DEF Promise!Reserve
    <3> QED
      BY <3>3 DEF Promise!Next
  <2>4. ASSUME NEW size \in Requests, default_alloc(size)
        PROVE  Promise!Next
    <3>1. PICK b \in FindGEQ(heap, size) : live' = [live EXCEPT ![b] = size]
      BY <2>4 DEF default_alloc
    <3>2. /\ impl = "ready" /\ impl' = "ready"
          /\ reserved /\ reserved' /\ size \in Nat \ {0}
          /\ WellFormed(heap, Base, Limit) /\ WellFormed(heap', Base, Limit)
      BY <2>1, <2>4 DEF default_alloc, IInv, HeapInv
    <3>3. b \in heap.free /\ b \in Addr
      BY <3>2, FoundFits
    <3>4. live[b] = 0
      BY <3>3 DEF IInv, UsedSizes, TypeOK, Heap
    <3>5. live'[b] = size /\ \A a \in Addr \ {b} : live'[a] = live[a]
      BY <2>1, <3>1, <3>3
    <3>6. EndsBy(live', Limit) /\ Apart(live')
      <4>1. WellLinked(heap', Base, Limit) /\ live' = UsedSizes(heap')
        BY <3>2 DEF WellFormed, IInv
      <4>2. /\ EndsBy(UsedSizes(heap'), Limit)
            /\ Apart(UsedSizes(heap'))
        BY <4>1, UsedApart
      <4> QED
        BY <4>1, <4>2
    <3>7. Promise!Span(b, size) \subseteq Addr
      <4>1. b + size <= Limit
        BY <2>1, <3>2, <3>3, <3>5, <3>6 DEF EndsBy
      <4> QED
        BY <3>2, <3>3, <4>1, ReservationAssumption
        DEF Promise!Span, Addr, Limit
    <3>8. ASSUME NEW a \in Addr, live[a] # 0
          PROVE  Promise!Span(b, size) \cap Promise!Span(a, live[a]) = {}
      <4>1. a # b /\ live'[a] = live[a] /\ live'[b] # 0
        BY <3>2, <3>4, <3>5, <3>8
      <4>2. a + live[a] <= b \/ b + size <= a
        BY <2>1, <3>3, <3>5, <3>6, <3>8, <4>1 DEF Apart
      <4>3. a \in Nat /\ b \in Nat /\ live[a] \in Nat
        BY <2>1, <3>3, ReservationAssumption DEF Addr, Limit
      <4> QED
        BY <3>2, <4>2, <4>3 DEF Promise!Span
    <3>9. /\ DOMAIN Held = {a \in Addr : live[a] # 0}
          /\ \A a \in DOMAIN Held : Held[a] = live[a]
      OBVIOUS
    <3>10. Held' = [a \in DOMAIN Held \cup {b} |->
                      IF a = b THEN size ELSE Held[a]]
      <4>1. {a \in Addr : live'[a] # 0} = {a \in Addr : live[a] # 0} \cup {b}
        BY <3>2, <3>3, <3>5
      <4> QED
        BY <3>4, <3>5, <4>1
    <3>11. /\ b \notin DOMAIN Held
           /\ \A a \in DOMAIN Held :
                Promise!Span(b, size) \cap Promise!Span(a, Held[a]) = {}
      BY <3>4, <3>8, <3>9
    <3>12. Mapped = Addr /\ Mapped' = Addr
      BY <3>2
    <3> HIDE DEF Held, Mapped
    <3>13. Promise!Alloc(b, size)
      BY <3>3, <3>7, <3>10, <3>11, <3>12 DEF Promise!Alloc, Held, Mapped
    <3> QED
      BY <3>3, <3>13 DEF Promise!Next
  <2>5. ASSUME NEW addr \in FreeArgs, default_free(addr)
        PROVE  Promise!Next
    <3>1. /\ addr \in heap.blocks \ heap.free
          /\ live' = [live EXCEPT ![addr] = 0] /\ reserved' = reserved
          /\ WellFormed(heap, Base, Limit)
      BY <2>5 DEF default_free, IInv, HeapInv
    <3>2. addr \in Addr /\ heap.size[addr] # 0
      <4>1. WellLinked(heap, Base, Limit)
        BY <3>1 DEF WellFormed
      <4>2. heap \in Heap(Addr)
        BY DEF IInv, TypeOK
      <4> QED
        BY <3>1, <4>1, <4>2, LinkedFacts DEF Heap
    <3>3. live[addr] # 0
      BY <3>1, <3>2 DEF IInv, UsedSizes, TypeOK, Heap
    <3>4. {a \in Addr : live'[a] # 0} = {a \in Addr : live[a] # 0} \ {addr}
      BY <2>1, <3>1, <3>2
    <3>5. \A a \in Addr \ {addr} : live'[a] = live[a]
      BY <2>1, <3>1
    <3>6. /\ addr \in DOMAIN Held
          /\ Held' = [a \in DOMAIN Held \ {addr} |-> Held[a]]
      BY <3>2, <3>3, <3>4, <3>5
    <3>7. Mapped' = Mapped
      BY <3>1
    <3>8. Promise!Free(addr)
      BY <3>6, <3>7 DEF Promise!Free
    <3> QED
      BY <3>2, <3>8 DEF Promise!Next
  <2>6. CASE default_destroy
    <3>1. Held' = [a \in {} |-> 0]
      BY <2>6 DEF default_destroy, Nobody
    <3>2. Mapped' \in SUBSET Mapped
      BY <2>6 DEF default_destroy, IInv, TypeOK
    <3>3. Promise!Destroy
      BY <3>1, <3>2 DEF Promise!Destroy
    <3> QED
      BY <3>3 DEF Promise!Next
  <2>7. /\ \A size \in Requests : AllocRefused(size) => UNCHANGED vars
        /\ \A addr \in FreeArgs : FreeIgnored(addr) => UNCHANGED vars
    BY DEF AllocRefused, FreeIgnored
  <2>8. CASE UNCHANGED vars
    BY <2>8 DEF vars, Promise!vars
  <2> QED
    BY <2>2, <2>3, <2>4, <2>5, <2>6, <2>7, <2>8 DEF Next
<1> QED
  BY <1>1, <1>2, Invariance, PTL DEF Spec, KeepsPromise, Promise!Spec

----------------------------------------------------------------------------
(***************************************************************************)
(* The walks along addr_list.  One that stops at the blocks in Z comes to  *)
(* the first of them in address order, or to the end of the list.          *)
(***************************************************************************)

Turns == (Addr \cup {NULL}) \X (Addr \cup {NULL})

\* One turn of the walk.
Turn(h, Z) ==
    [at \in Turns |-> IF at[2] = NULL \/ at[2] \in Z THEN at
                      ELSE <<at[2], h.addr_next[at[2]]>>]

\* The blocks of h before current, all of them at the end of the list.
Passed(h, current) ==
    IF current = NULL THEN h.blocks ELSE BlocksBelow(h, current)

\* Where a walk is after n turns.
Arrives(h, Z, n, at) ==
    /\ at \in Turns
    /\ at[2] \in h.blocks \cup {NULL}
    /\ at[1] = Greatest(Passed(h, at[2]))
    /\ Passed(h, at[2]) \cap Z = {}
    /\ at[2] \in h.blocks \ Z => Cardinality(Passed(h, at[2])) = n

\* Blocks are addresses, and none is NULL.
LEMMA BlockFacts ==
    ASSUME NEW h, WellLinked(h, Base, Limit)
    PROVE  \A a \in h.blocks : a \in Addr /\ a \in Nat /\ a # NULL
<1>1. h.blocks \subseteq Addr
  BY DEF WellLinked, Heap, Addr
<1>2. \A a \in h.blocks : a \in Nat /\ a # NULL
  BY LinkedFacts
<1> QED
  BY <1>1, <1>2

\* A block and its successor in the list.
LEMMA PassedNext ==
    ASSUME NEW h, WellLinked(h, Base, Limit), NEW c \in h.blocks
    PROVE  /\ h.addr_next[c] \in h.blocks \cup {NULL}
           /\ Passed(h, h.addr_next[c]) = Passed(h, c) \cup {c}
           /\ c \notin Passed(h, c)
           /\ Greatest(Passed(h, h.addr_next[c])) = c
           /\ IsFiniteSet(Passed(h, c))
<1> DEFINE e == c + h.size[c]
<1>1. /\ \A a \in h.blocks : a \in Nat /\ a # NULL /\ h.size[a] \in Nat /\ h.size[a] > 0
                             /\ a + h.size[a] <= Limit /\ a < Limit
      /\ \A a, b \in h.blocks : a < b => a + h.size[a] <= b
      /\ h.addr_next[c] = IF e = Limit THEN NULL ELSE e
      /\ e # Limit => e \in h.blocks
      /\ Limit \in Nat
  BY LinkedFacts
<1>2. h.addr_next[c] \in h.blocks \cup {NULL}
  BY <1>1
<1>3. c \in Nat /\ e \in Nat /\ c < e
  BY <1>1
<1>4. Passed(h, c) = {a \in h.blocks : a < c}
  BY <1>1 DEF Passed, BlocksBelow
<1>5. \A a \in h.blocks : a < e <=> a < c \/ a = c
  <2>1. ASSUME NEW a \in h.blocks, a < e PROVE ~ (c < a)
    BY <1>1, <1>3, <2>1
  <2> QED
    BY <1>1, <1>3, <2>1
<1>6. Passed(h, h.addr_next[c]) = {a \in h.blocks : a < e}
  <2>1. CASE e = Limit
    BY <1>1, <1>3, <2>1 DEF Passed
  <2>2. CASE e # Limit
    <3>1. h.addr_next[c] = e /\ e # NULL
      BY <1>1, <2>2
    <3> QED
      BY <3>1 DEF Passed, BlocksBelow
  <2> QED
    BY <2>1, <2>2
<1> HIDE DEF e
<1>7. Passed(h, h.addr_next[c]) = Passed(h, c) \cup {c} /\ c \notin Passed(h, c)
  BY <1>3, <1>4, <1>5, <1>6
<1>8. Greatest(Passed(h, h.addr_next[c])) = c
  <2> DEFINE S == Passed(h, h.addr_next[c])
  <2>1. S \in SUBSET Nat /\ c \in S /\ \A y \in S : y <= c
    BY <1>1, <1>3, <1>4, <1>7
  <2> HIDE DEF S
  <2>2. Greatest(S) = c
    BY <2>1, GreatestIs
  <2> QED
    BY <2>2 DEF S
<1>9. IsFiniteSet(Passed(h, c))
  <2>1. Passed(h, c) \in SUBSET Nat /\ \A a \in Passed(h, c) : a <= c
    BY <1>1, <1>3, <1>4
  <2> QED
    BY <1>3, <2>1, FS_BoundedSetOfNaturals
<1> QED
  BY <1>2, <1>7, <1>8, <1>9

\* A walk goes from block to block until it stops.
LEMMA WalkArrives ==
    ASSUME NEW h, WellLinked(h, Base, Limit), NEW Z, NEW f,
           Walks(f, <<NULL, h.head>>, Turn(h, Z)), NEW k \in Nat
    PROVE  Arrives(h, Z, k, f[k])
<1> DEFINE S == {n \in Nat : Arrives(h, Z, n, f[n])}
<1>1. /\ h.blocks \subseteq Addr
      /\ h.head = Base /\ Base \in h.blocks /\ Base # NULL
      /\ \A a \in h.blocks : a \in Nat /\ Base <= a /\ a # NULL
      /\ Base \in Nat
  BY LinkedFacts DEF WellLinked, Heap, Addr
<1>2. 0 \in S
  <2>1. f[0] = <<NULL, Base>>
    BY <1>1 DEF Walks
  <2>2. Passed(h, Base) = {}
    BY <1>1 DEF Passed, BlocksBelow
  <2>3. Greatest({}) = NULL /\ Cardinality({}) = 0
    BY FS_EmptySet DEF Greatest
  <2>4. <<NULL, Base>> \in Turns
    BY <1>1 DEF Turns
  <2> QED
    BY <1>1, <2>1, <2>2, <2>3, <2>4 DEF Arrives
<1>3. ASSUME NEW n \in S PROVE n + 1 \in S
  <2> DEFINE p == f[n][1]
             c == f[n][2]
  <2>1. Arrives(h, Z, n, f[n]) /\ n \in Nat /\ n + 1 # 0 /\ n + 1 \in Nat /\ (n + 1) - 1 = n
    OBVIOUS
  <2>2. f[n] \in Turns
    BY <2>1 DEF Arrives
  <2>3. f[n + 1] = IF c = NULL \/ c \in Z THEN f[n] ELSE <<c, h.addr_next[c]>>
    BY <2>1, <2>2 DEF Walks, Turn
  <2>4. CASE c = NULL \/ c \in Z
    <3>1. f[n + 1] = f[n]
      BY <2>3, <2>4
    <3>2. c \notin h.blocks \ Z
      BY <1>1, <2>4
    <3> QED
      BY <2>1, <3>1, <3>2 DEF Arrives
  <2>5. CASE ~ (c = NULL \/ c \in Z)
    <3> DEFINE d == h.addr_next[c]
    <3>1. f[n + 1] = <<c, d>> /\ c \in h.blocks /\ c \notin Z
      BY <2>1, <2>3, <2>5 DEF Arrives
    <3>2. Cardinality(Passed(h, c)) = n /\ Passed(h, c) \cap Z = {}
      BY <2>1, <3>1 DEF Arrives
    <3> HIDE DEF c
    <3>3. /\ d \in h.blocks \cup {NULL} /\ Passed(h, d) = Passed(h, c) \cup {c}
          /\ c \notin Passed(h, c) /\ Greatest(Passed(h, d)) = c
          /\ IsFiniteSet(Passed(h, c))
      BY <3>1, PassedNext
    <3> HIDE DEF d
    <3>4. Cardinality(Passed(h, d)) = n + 1
      BY <3>2, <3>3, FS_AddElement
    <3>5. Passed(h, d) \cap Z = {}
      BY <3>1, <3>2, <3>3
    <3>6. <<c, d>> \in Turns
      BY <1>1, <3>1, <3>3 DEF Turns
    <3>7. Arrives(h, Z, n + 1, <<c, d>>)
      BY <3>3, <3>4, <3>5, <3>6 DEF Arrives
    <3> QED
      BY <2>1, <3>1, <3>7
  <2> QED
    BY <2>4, <2>5
<1> HIDE DEF S
<1>4. S = Nat
  BY <1>2, <1>3, AllNumbers DEF S
<1> QED
  BY <1>4 DEF S

\* As many turns as there are blocks are enough.
LEMMA WalkStops ==
    ASSUME NEW h, WellLinked(h, Base, Limit), NEW Z, NEW at,
           Arrives(h, Z, Cardinality(h.blocks), at)
    PROVE  at[2] = NULL \/ at[2] \in Z
<1> DEFINE c == at[2]
<1>1. SUFFICES ASSUME c \in h.blocks \ Z PROVE FALSE
  BY DEF Arrives
<1>2. Cardinality(Passed(h, c)) = Cardinality(h.blocks)
  BY <1>1 DEF Arrives
<1> HIDE DEF c
<1>3. IsFiniteSet(h.blocks)
  <2>1. h.blocks \in SUBSET Nat /\ Limit \in Nat /\ \A a \in h.blocks : a <= Limit
    BY LinkedFacts
  <2> QED
    BY <2>1, FS_BoundedSetOfNaturals
<1>4. Passed(h, c) \in SUBSET h.blocks
  BY DEF Passed, BlocksBelow
<1>5. Passed(h, c) = h.blocks
  BY <1>2, <1>3, <1>4, FS_Subset
<1> QED
  BY <1>1, <1>5, PassedNext

\* WalkList, for the two ways the code stops.
LEMMA WalkListIs ==
    ASSUME NEW h, WellLinked(h, Base, Limit), NEW x \in Nat
    PROVE  /\ Arrives(h, {c \in Addr : c >= x}, Cardinality(h.blocks),
                      WalkList(h, LAMBDA c : c >= x))
           /\ Arrives(h, {c \in Addr : c = x}, Cardinality(h.blocks),
                      WalkList(h, LAMBDA c : c = x))
<1> DEFINE k == Cardinality(h.blocks)
<1>1. /\ h.addr_next \in [Addr -> Addr \cup {NULL}] /\ h.head \in Addr \cup {NULL}
      /\ h.blocks \in SUBSET Nat /\ Limit \in Nat /\ \A a \in h.blocks : a <= Limit
  BY LinkedFacts DEF WellLinked, Heap, Addr
<1>2. k \in Nat
  BY <1>1, FS_BoundedSetOfNaturals, FS_CardinalityType
<1>3. ASSUME NEW Z
      PROVE  /\ Turn(h, Z) \in [Turns -> Turns] /\ <<NULL, h.head>> \in Turns
             /\ \E f \in [Nat -> Turns] : Walks(f, <<NULL, h.head>>, Turn(h, Z))
  <2>1. Turn(h, Z) \in [Turns -> Turns]
    <3>1. ASSUME NEW at \in Turns, at[2] # NULL
          PROVE  <<at[2], h.addr_next[at[2]]>> \in Turns
      <4>1. at[2] \in Addr
        BY <3>1 DEF Turns
      <4> QED
        BY <1>1, <4>1 DEF Turns
    <3> QED
      BY <3>1 DEF Turn
  <2>2. <<NULL, h.head>> \in Turns
    BY <1>1 DEF Turns
  <2> QED
    BY <2>1, <2>2, WalkExists
<1>4. Arrives(h, {c \in Addr : c >= x}, k, WalkList(h, LAMBDA c : c >= x))
  <2> DEFINE Z == {c \in Addr : c >= x}
             E(f) == [turn \in Nat |->
                         IF turn = 0 THEN <<NULL, h.head>>
                         ELSE LET at == f[turn - 1]
                              IN  IF at[2] = NULL \/ at[2] >= x THEN at
                                  ELSE <<at[2], h.addr_next[at[2]]>>]
             g == CHOOSE At : At = E(At)
  <2>1. WalkList(h, LAMBDA c : c >= x) = g[k]
    BY DEF WalkList
  <2>2. PICK f \in [Nat -> Turns] : Walks(f, <<NULL, h.head>>, Turn(h, Z))
    BY <1>3
  <2>3. \A at \in Turns : at[2] \in Z \/ at[2] = NULL <=> at[2] >= x \/ at[2] = NULL
    BY DEF Turns
  <2>4. ASSUME NEW n \in Nat
        PROVE  f[n] = E(f)[n]
    <3>1. n # 0 => n - 1 \in Nat /\ f[n - 1] \in Turns
      OBVIOUS
    <3> QED
      BY <2>2, <2>3, <3>1 DEF Walks, Turn
  <2>5. f = E(f)
    BY <2>4
  <2> HIDE DEF E
  <2>6. g = E(g)
    BY <2>5
  <2> HIDE DEF g
  <2>7. g[0] = <<NULL, h.head>>
    BY <2>6 DEF E
  <2>8. ASSUME NEW n \in Nat, g[n] \in Turns
        PROVE  g[n + 1] = Turn(h, Z)[g[n]]
    <3>1. n + 1 \in Nat /\ n + 1 # 0 /\ (n + 1) - 1 = n
      OBVIOUS
    <3>2. E(g)[n + 1] = IF g[n][2] = NULL \/ g[n][2] >= x THEN g[n]
                        ELSE <<g[n][2], h.addr_next[g[n][2]]>>
      BY <3>1 DEF E
    <3>3. g[n + 1] = E(g)[n + 1]
      BY <2>6
    <3> QED
      BY <2>3, <2>8, <3>2, <3>3 DEF Turn
  <2> HIDE DEF Z
  <2>9. Walks(g, <<NULL, h.head>>, Turn(h, Z))
    BY <1>3, <2>7, <2>8, WalkIs
  <2>10. Arrives(h, Z, k, g[k])
    BY <1>2, <2>9, WalkArrives
  <2> QED
    BY <2>1, <2>10 DEF Z
<1>5. Arrives(h, {c \in Addr : c = x}, k, WalkList(h, LAMBDA c : c = x))
  <2> DEFINE Z == {c \in Addr : c = x}
             E(f) == [turn \in Nat |->
                         IF turn = 0 THEN <<NULL, h.head>>
                         ELSE LET at == f[turn - 1]
                              IN  IF at[2] = NULL \/ at[2] = x THEN at
                                  ELSE <<at[2], h.addr_next[at[2]]>>]
             g == CHOOSE At : At = E(At)
  <2>1. WalkList(h, LAMBDA c : c = x) = g[k]
    BY DEF WalkList
  <2>2. PICK f \in [Nat -> Turns] : Walks(f, <<NULL, h.head>>, Turn(h, Z))
    BY <1>3
  <2>3. \A at \in Turns : at[2] \in Z \/ at[2] = NULL <=> at[2] = x \/ at[2] = NULL
    BY DEF Turns
  <2>4. ASSUME NEW n \in Nat
        PROVE  f[n] = E(f)[n]
    <3>1. n # 0 => n - 1 \in Nat /\ f[n - 1] \in Turns
      OBVIOUS
    <3> QED
      BY <2>2, <2>3, <3>1 DEF Walks, Turn
  <2>5. f = E(f)
    BY <2>4
  <2> HIDE DEF E
  <2>6. g = E(g)
    BY <2>5
  <2> HIDE DEF g
  <2>7. g[0] = <<NULL, h.head>>
    BY <2>6 DEF E
  <2>8. ASSUME NEW n \in Nat, g[n] \in Turns
        PROVE  g[n + 1] = Turn(h, Z)[g[n]]
    <3>1. n + 1 \in Nat /\ n + 1 # 0 /\ (n + 1) - 1 = n
      OBVIOUS
    <3>2. E(g)[n + 1] = IF g[n][2] = NULL \/ g[n][2] = x THEN g[n]
                        ELSE <<g[n][2], h.addr_next[g[n][2]]>>
      BY <3>1 DEF E
    <3>3. g[n + 1] = E(g)[n + 1]
      BY <2>6
    <3> QED
      BY <2>3, <2>8, <3>2, <3>3 DEF Turn
  <2> HIDE DEF Z
  <2>9. Walks(g, <<NULL, h.head>>, Turn(h, Z))
    BY <1>3, <2>7, <2>8, WalkIs
  <2>10. Arrives(h, Z, k, g[k])
    BY <1>2, <2>9, WalkArrives
  <2> QED
    BY <2>1, <2>10 DEF Z
<1> QED
  BY <1>4, <1>5

\* The walks of insert_addr_list and of default_free come to the blocks that
\* BlockHeap names by address, whatever calls have done to the links before: the
\* place of a block that a split makes, and the block a free is for or none.
THEOREM WalksByAddress == Spec => []WalksAgree
<1>1. ASSUME NEW h, WellLinked(h, Base, Limit), NEW b \in Addr \ h.blocks
      PROVE  WalkList(h, LAMBDA c : c >= b) =
                 <<Greatest(BlocksBelow(h, b)), Least(BlocksFrom(h, b))>>
  <2> DEFINE at == WalkList(h, LAMBDA c : c >= b)
             Z  == {c \in Addr : c >= b}
  <2>1. b \in Nat /\ Addr \subseteq Nat /\ Limit \in Nat
    BY ReservationAssumption DEF Addr, Limit
  <2>2. Arrives(h, Z, Cardinality(h.blocks), at)
    BY <1>1, <2>1, WalkListIs
  <2> HIDE DEF at
  <2>3. at[2] = NULL \/ at[2] \in Z
    BY <1>1, <2>2, WalkStops
  <2>4. /\ at = <<at[1], at[2]>> /\ at[2] \in h.blocks \cup {NULL}
        /\ at[1] = Greatest(Passed(h, at[2])) /\ Passed(h, at[2]) \cap Z = {}
    BY <2>2 DEF Arrives, Turns
  <2>5. \A a \in h.blocks : a \in Addr /\ a \in Nat /\ a # NULL /\ a # b
    BY <1>1, BlockFacts
  <2>6. Passed(h, at[2]) = BlocksBelow(h, b)
    <3>1. CASE at[2] = NULL
      <4>1. \A a \in h.blocks : ~ (a >= b)
        BY <2>4, <2>5, <3>1 DEF Passed
      <4> QED
        BY <2>1, <2>5, <3>1, <4>1 DEF Passed, BlocksBelow
    <3>2. CASE at[2] # NULL
      <4>1. at[2] >= b /\ at[2] \in Nat
        BY <2>3, <2>4, <2>5, <3>2
      <4>2. \A a \in h.blocks : a < at[2] => ~ (a >= b)
        BY <2>4, <2>5, <3>2 DEF Passed, BlocksBelow
      <4>3. \A a \in h.blocks : a < at[2] <=> a < b
        BY <2>1, <2>5, <4>1, <4>2
      <4> QED
        BY <3>2, <4>3 DEF Passed, BlocksBelow
    <3> QED
      BY <3>1, <3>2
  <2>7. at[2] = Least(BlocksFrom(h, b))
    <3> DEFINE S == BlocksFrom(h, b)
    <3>1. S = {a \in h.blocks : a >= b} /\ S \in SUBSET Nat
      BY <2>5 DEF BlocksFrom
    <3>2. CASE at[2] = NULL
      <4>1. \A a \in h.blocks : a < b
        BY <2>4, <2>6, <3>2 DEF Passed, BlocksBelow
      <4>2. S = {}
        BY <2>1, <2>5, <3>1, <4>1
      <4> HIDE DEF S
      <4>3. Least(S) = NULL
        BY <4>2 DEF Least
      <4> QED
        BY <3>2, <4>3 DEF S
    <3>3. CASE at[2] # NULL
      <4>1. at[2] \in S
        BY <2>3, <2>4, <3>1, <3>3
      <4>2. \A a \in S : at[2] <= a
        <5>1. \A a \in h.blocks : a < at[2] => a < b
          BY <2>6, <3>3 DEF Passed, BlocksBelow
        <5> QED
          BY <2>1, <2>5, <3>1, <4>1, <5>1
      <4> HIDE DEF S
      <4>3. Least(S) = at[2]
        BY <3>1, <4>1, <4>2, LeastIs
      <4> QED
        BY <4>3 DEF S
    <3> QED
      BY <3>2, <3>3
  <2> QED
    BY <2>4, <2>6, <2>7 DEF at
<1>2. ASSUME NEW h, WellLinked(h, Base, Limit), NEW addr \in FreeArgs
      PROVE  WalkList(h, LAMBDA c : c = addr)[2] =
                 IF addr \in h.blocks THEN addr ELSE NULL
  <2> DEFINE at == WalkList(h, LAMBDA c : c = addr)
             Z  == {c \in Addr : c = addr}
  <2>1. addr \in Nat
    BY CallerAssumption
  <2>2. Arrives(h, Z, Cardinality(h.blocks), at)
    BY <1>2, <2>1, WalkListIs
  <2> HIDE DEF at
  <2>3. at[2] = NULL \/ at[2] \in Z
    BY <1>2, <2>2, WalkStops
  <2>4. at[2] \in h.blocks \cup {NULL} /\ Passed(h, at[2]) \cap Z = {}
    BY <2>2 DEF Arrives
  <2>5. \A a \in h.blocks : a \in Addr /\ a # NULL
    BY <1>2, BlockFacts
  <2>6. CASE at[2] = NULL
    <3>1. addr \notin h.blocks
      BY <2>4, <2>5, <2>6 DEF Passed
    <3> QED
      BY <2>6, <3>1 DEF at
  <2>7. CASE at[2] # NULL
    <3>1. at[2] = addr /\ addr \in h.blocks
      BY <2>3, <2>4, <2>7
    <3> QED
      BY <3>1 DEF at
  <2> QED
    BY <2>6, <2>7
<1>3. IInv => WalksAgree
  <2>1. ASSUME IInv, impl = "ready" PROVE WellLinked(heap, Base, Limit)
    BY <2>1 DEF IInv, HeapInv, WellFormed
  <2> QED
    BY <1>1, <1>2, <2>1 DEF WalksAgree
<1> QED
  BY <1>3, Invariance, PTL
=============================================================================
