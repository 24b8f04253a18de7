---------------------------- MODULE VaArenasProofs ---------------------------
(***************************************************************************)
(* VaArenas keeps its invariants, and VaSpec's promise, for every table of *)
(* arenas and every set of places and requests, with callocs that fail and *)
(* frees of what nobody holds, in OrdinaryUse: no mmap fails, no address   *)
(* inside a slab block is freed, and what object allocators are asked for  *)
(* is more than nothing and less than 2^KeyBits bytes.                     *)
(***************************************************************************)
EXTENDS VaArenas, BlockHeapProofs, NumberInduction, SequenceTheorems

----------------------------------------------------------------------------
(***************************************************************************)
(* One reservation, slab or heap: allocating from it and freeing into it   *)
(* keep it in order and change what callers hold of it by one block at the *)
(* most, whatever address is freed.                                        *)
(***************************************************************************)

----------------------------------------------------------------------------
(***************************************************************************)
(* Arithmetic.                                                             *)
(***************************************************************************)

\* There are words.
LEMMA Words == 2 ^ Width \in Nat \ {0}
BY WidthAssumption, PowerType

\* Sizes are numbers.
LEMMA RequestsAreNumbers == Requests \subseteq Nat
<1>1. Requests \subseteq 0 .. (2 ^ Width - 1) /\ 2 ^ Width \in Nat
  BY TableAssumption, Words
<1> QED
  BY <1>1

\* A word that is large enough is not cut.
LEMMA WrapFits ==
    ASSUME NEW n \in Nat, n < 2 ^ Width
    PROVE  Wrap(n) = n
<1>1. \A M \in Nat \ {0} : n < M => n % M = n
  OBVIOUS
<1> QED
  BY <1>1, Words DEF Wrap

\* Any word is one.
LEMMA WrapType ==
    ASSUME NEW n \in Int
    PROVE  Wrap(n) \in 0 .. MAP_FAILED
<1>1. \A M \in Nat \ {0} : n % M \in 0 .. (M - 1)
  OBVIOUS
<1> QED
  BY <1>1, Words DEF Wrap, MAP_FAILED

\* Block number k of a slab: inside, apart from the others, and found again by
\* its offset.
LEMMA BlockOffsets ==
    ASSUME NEW n \in Nat \ {0}, NEW whole \in Nat,
           NEW k \in 0 .. (whole \div n - 1)
    PROVE  /\ k \in Nat /\ n * k \in Nat /\ n * k + n <= whole
           /\ (n * k) \div n = k /\ (n * k) % n = 0
           /\ \A j \in Nat : j < k => n * j + n <= n * k
           /\ \A j \in Nat : k < j => n * k + n <= n * j
<1>1. k \in Nat /\ n * k \in Nat /\ n * k + n <= whole
  OBVIOUS
<1>2. (n * k) \div n = k
  BY <1>1
<1>3. (n * k) % n = 0
  BY <1>1
<1>4. \A j \in Nat : j < k => n * j + n <= n * k
  BY <1>1
<1>5. \A j \in Nat : k < j => n * k + n <= n * j
  BY <1>1
<1> QED
  BY <1>1, <1>2, <1>3, <1>4, <1>5

\* Least picks the least of a set of numbers.
LEMMA LeastInSet ==
    ASSUME NEW S \in SUBSET Nat, S # {}
    PROVE  Least(S) \in S /\ \A y \in S : Least(S) <= y
<1>1. PICK x \in S : \A y \in S : x <= y
  BY HasLeast
<1> QED
  BY <1>1, LeastIs

\* Sizes of reservations and of blocks are positive.
LEMMA ArenaFacts ==
    ASSUME NEW i \in Arenas
    PROVE  i \in Nat /\ Size(i) \in Nat \ {0} /\ block_size(i) \in Nat \ {0}
BY TableAssumption DEF Size, block_size

\* A place leaves room for a reservation below MAP_FAILED.
LEMMA PlaceFacts ==
    ASSUME NEW p \in Places, NEW i \in Arenas
    PROVE  /\ p \in Nat \ {0} /\ p + Size(i) < MAP_FAILED /\ p < MAP_FAILED
           /\ MAP_FAILED \in Nat /\ 2 ^ Width = MAP_FAILED + 1
           /\ Wrap(p + Size(i)) = p + Size(i)
<1>1. p \in Nat \ {0} /\ p + Size(i) < MAP_FAILED
  BY PlacesAssumption DEF Size, MAP_FAILED
<1>2. 2 ^ Width \in Nat /\ 2 ^ Width = MAP_FAILED + 1 /\ MAP_FAILED \in Nat
  BY Words DEF MAP_FAILED
<1>3. Size(i) \in Nat
  BY ArenaFacts
<1>4. Wrap(p + Size(i)) = p + Size(i)
  BY <1>1, <1>2, <1>3, WrapFits
<1> QED
  BY <1>1, <1>2, <1>3, <1>4

----------------------------------------------------------------------------
(***************************************************************************)
(* The reservation: r its address, i its arena, s its strategy.            *)
(***************************************************************************)

\* What callers hold of it: size of the block by address.
HeldIn(r, i, s) ==
    IF is_slab(i)
    THEN [a \in {r + block_size(i) * b : b \in s.bitmap} |-> block_size(i)]
    ELSE [a \in s.blocks \ s.free |-> s.size[a]]

\* free_blocks may run over after a stray free, but never under.
StrategyOK(r, i, s) ==
    IF is_slab(i)
    THEN s \in Slab(i) /\ Cardinality(Bits(i) \ s.bitmap) <= s.free_blocks
    ELSE WellFormed(s, r, r + Size(i))

Counts(i, s) ==
    is_slab(i) => s.free_blocks = Cardinality(Bits(i) \ s.bitmap)

Fits(i, size, n) == IF is_slab(i) THEN size <= n ELSE size = n

\* g holds what f holds and n bytes at addr besides.
Gains(f, g, addr, n) ==
    /\ addr \notin DOMAIN f /\ DOMAIN g = DOMAIN f \cup {addr}
    /\ g[addr] = n /\ \A a \in DOMAIN f : g[a] = f[a]

\* g holds what f holds but for addr.
Loses(f, g, addr) ==
    DOMAIN g = DOMAIN f \ {addr} /\ \A a \in DOMAIN g : g[a] = f[a]

\* free_to_strategy, of one reservation.
FreeTo(r, i, s, addr) ==
    IF is_slab(i) THEN free_to_slab(s, (addr - r) \div block_size(i))
    ELSE free_to_obj_allocator(s, addr)

\* The block that a free of addr is taken for.
BlockAt(r, i, addr) ==
    IF is_slab(i) THEN r + block_size(i) * ((addr - r) \div block_size(i))
    ELSE addr

\* At the start of a block it is this block.
LEMMA StartIsHit ==
    ASSUME NEW r \in Nat, NEW i \in Arenas, NEW addr \in Nat, r <= addr,
           is_slab(i) => (addr - r) % block_size(i) = 0
    PROVE  BlockAt(r, i, addr) = addr
<1> DEFINE n == block_size(i)
<1>1. n \in Nat \ {0}
  BY ArenaFacts
<1>2. addr - r \in Nat /\ (is_slab(i) => (addr - r) % n = 0)
  OBVIOUS
<1>3. BlockAt(r, i, addr) = IF is_slab(i) THEN r + n * ((addr - r) \div n) ELSE addr
  BY DEF BlockAt
<1> HIDE DEF n
<1>4. \A d \in Nat, m \in Nat \ {0} : d % m = 0 => m * (d \div m) = d
  OBVIOUS
<1>5. is_slab(i) => n * ((addr - r) \div n) = addr - r
  BY <1>1, <1>2, <1>4
<1> QED
  BY <1>3, <1>5

\* Held blocks lie inside and apart.
LEMMA HeldInside ==
    ASSUME NEW r \in Nat \ {0}, NEW i \in Arenas, NEW s, StrategyOK(r, i, s),
           NEW a \in DOMAIN HeldIn(r, i, s)
    PROVE  /\ a \in Nat /\ HeldIn(r, i, s)[a] \in Nat \ {0}
           /\ r <= a /\ a + HeldIn(r, i, s)[a] <= r + Size(i)
<1>1. Size(i) \in Nat \ {0} /\ block_size(i) \in Nat \ {0}
  BY ArenaFacts
<1>2. CASE is_slab(i)
  <2>1. s.bitmap \subseteq Bits(i)
    BY <1>2 DEF StrategyOK, Slab
  <2>2. PICK b \in Bits(i) : a = r + block_size(i) * b
    BY <1>2, <2>1 DEF HeldIn
  <2>3. HeldIn(r, i, s)[a] = block_size(i)
    BY <1>2 DEF HeldIn
  <2>4. block_size(i) * b \in Nat /\ block_size(i) * b + block_size(i) <= Size(i)
    BY <1>1, BlockOffsets DEF Bits
  <2> QED
    BY <1>1, <2>2, <2>3, <2>4
<1>3. CASE ~ is_slab(i)
  <2>1. WellLinked(s, r, r + Size(i))
    BY <1>3 DEF StrategyOK, WellFormed
  <2>2. a \in s.blocks /\ HeldIn(r, i, s)[a] = s.size[a]
    BY <1>3 DEF HeldIn
  <2> QED
    BY <2>1, <2>2, LinkedFacts
<1> QED
  BY <1>2, <1>3

\* Two blocks held of one reservation do not overlap.
LEMMA HeldApart ==
    ASSUME NEW r \in Nat \ {0}, NEW i \in Arenas, NEW s, StrategyOK(r, i, s),
           NEW a \in DOMAIN HeldIn(r, i, s), NEW c \in DOMAIN HeldIn(r, i, s),
           a # c
    PROVE  \/ a + HeldIn(r, i, s)[a] <= c
           \/ c + HeldIn(r, i, s)[c] <= a
<1>1. Size(i) \in Nat \ {0} /\ block_size(i) \in Nat \ {0}
  BY ArenaFacts
<1>2. CASE is_slab(i)
  <2>1. s.bitmap \subseteq Bits(i)
    BY <1>2 DEF StrategyOK, Slab
  <2>2. PICK b \in Bits(i), d \in Bits(i) :
           a = r + block_size(i) * b /\ c = r + block_size(i) * d
    BY <1>2, <2>1 DEF HeldIn
  <2>3. /\ HeldIn(r, i, s)[a] = block_size(i)
        /\ HeldIn(r, i, s)[c] = block_size(i)
    BY <1>2 DEF HeldIn
  <2>4. b \in Nat /\ d \in Nat /\ b # d
    BY <2>2, <1>1 DEF Bits
  <2>5. /\ b < d => block_size(i) * b + block_size(i) <= block_size(i) * d
        /\ d < b => block_size(i) * d + block_size(i) <= block_size(i) * b
        /\ block_size(i) * b \in Nat /\ block_size(i) * d \in Nat
    BY <1>1, <2>4, BlockOffsets DEF Bits
  <2> QED
    BY <1>1, <2>2, <2>3, <2>4, <2>5
<1>3. CASE ~ is_slab(i)
  <2>1. WellLinked(s, r, r + Size(i))
    BY <1>3 DEF StrategyOK, WellFormed
  <2>2. /\ a \in s.blocks /\ HeldIn(r, i, s)[a] = s.size[a]
        /\ c \in s.blocks /\ HeldIn(r, i, s)[c] = s.size[c]
    BY <1>3 DEF HeldIn
  <2>3. a \in Nat /\ c \in Nat
    BY <2>1, <2>2, LinkedFacts
  <2>4. a < c \/ c < a
    BY <2>3
  <2>5. \A x, y \in s.blocks : x < y => x + s.size[x] <= y
    BY <2>1 DEF WellLinked, Tiled
  <2> QED
    BY <2>2, <2>4, <2>5
<1> QED
  BY <1>2, <1>3

\* A slab has finitely many bits.
LEMMA FiniteBits ==
    ASSUME NEW i \in Arenas
    PROVE  IsFiniteSet(Bits(i))
<1>1. Size(i) \in Nat \ {0} /\ block_size(i) \in Nat \ {0}
  BY ArenaFacts
<1>2. 0 \in Int /\ Size(i) \div block_size(i) - 1 \in Int
  BY <1>1
<1>3. IsFiniteSet(0 .. (Size(i) \div block_size(i) - 1))
  BY <1>2, FS_Interval
<1> QED
  BY <1>3 DEF Bits

\* The bits of a slab, counted.
LEMMA ClearBits ==
    ASSUME NEW i \in Arenas, NEW S \in SUBSET Bits(i), NEW b \in Bits(i)
    PROVE  /\ Cardinality(Bits(i) \ S) \in Nat
           /\ Cardinality(Bits(i) \ S) = 0 => S = Bits(i)
           /\ b \notin S => Cardinality(Bits(i) \ (S \cup {b}))
                              = Cardinality(Bits(i) \ S) - 1
           /\ b \in S => Cardinality(Bits(i) \ (S \ {b}))
                              = Cardinality(Bits(i) \ S) + 1
<1> DEFINE C == Bits(i) \ S
<1>1. IsFiniteSet(C)
  BY FiniteBits, FS_Subset
<1>2. Cardinality(C) \in Nat /\ (Cardinality(C) = 0 => C = {})
  BY <1>1, FS_CardinalityType, FS_EmptySet
<1>3. Cardinality(C \ {b}) = IF b \in C THEN Cardinality(C) - 1
                                       ELSE Cardinality(C)
  BY <1>1, FS_RemoveElement
<1>4. Cardinality(C \cup {b}) = IF b \in C THEN Cardinality(C)
                                         ELSE Cardinality(C) + 1
  BY <1>1, FS_AddElement
<1>5. /\ Bits(i) \ (S \cup {b}) = C \ {b}
      /\ b \in S => Bits(i) \ (S \ {b}) = C \cup {b}
  OBVIOUS
<1> QED
  BY <1>2, <1>3, <1>4, <1>5

\* allocate_from_slab hands out a block that nobody holds.
LEMMA SlabAlloc ==
    ASSUME NEW r \in Places, NEW i \in Arenas, is_slab(i), NEW s,
           StrategyOK(r, i, s), NEW got \in allocate_from_slab(r, i, s)
    PROVE  /\ StrategyOK(r, i, got.strategy)
           /\ Counts(i, s) => Counts(i, got.strategy)
           /\ Gains(HeldIn(r, i, s), HeldIn(r, i, got.strategy), got.addr,
                    block_size(i))
<1> DEFINE n     == block_size(i)
           clear == Bits(i) \ s.bitmap
           bit   == Least(clear)
           t     == got.strategy
           f     == HeldIn(r, i, s)
           g     == HeldIn(r, i, t)
<1>1. /\ n \in Nat \ {0} /\ Size(i) \in Nat \ {0} /\ r \in Nat \ {0}
      /\ r + Size(i) < MAP_FAILED /\ 2 ^ Width = MAP_FAILED + 1
      /\ MAP_FAILED \in Nat
  BY ArenaFacts, PlaceFacts
<1>2. /\ s \in Slab(i) /\ s.bitmap \subseteq Bits(i) /\ s.free_blocks \in Nat
      /\ Cardinality(clear) <= s.free_blocks
  BY DEF StrategyOK, Slab
<1>3. /\ s.free_blocks # 0 /\ clear # {}
      /\ got = [addr     |-> Wrap(r + n * bit),
                strategy |-> [bitmap      |-> s.bitmap \cup {bit},
                              free_blocks |-> s.free_blocks - 1]]
  BY DEF allocate_from_slab
<1>4. bit \in Bits(i) /\ bit \notin s.bitmap
  <2>1. clear \subseteq Nat
    BY DEF Bits
  <2> HIDE DEF clear
  <2>2. Least(clear) \in clear
    BY <1>3, <2>1, LeastInSet
  <2> QED
    BY <2>2 DEF clear
<1> HIDE DEF bit
<1>5. /\ bit \in Nat /\ n * bit \in Nat /\ n * bit + n <= Size(i)
      /\ \A j \in Bits(i) : j # bit => n * j # n * bit
  <2>1. bit \in 0 .. (Size(i) \div n - 1)
    BY <1>4 DEF Bits
  <2>2. /\ bit \in Nat /\ n * bit \in Nat /\ n * bit + n <= Size(i)
        /\ \A j \in Nat : j < bit => n * j + n <= n * bit
        /\ \A j \in Nat : bit < j => n * bit + n <= n * j
    BY <1>1, <2>1, BlockOffsets
  <2>3. \A j \in Bits(i) : j \in Nat
    BY DEF Bits
  <2>4. ASSUME NEW j \in Bits(i), j # bit
        PROVE  n * j # n * bit
    <3>1. j < bit \/ bit < j
      BY <2>2, <2>3, <2>4
    <3>2. n * j \in Nat
      BY <1>1, <2>3
    <3>3. n * j + n <= n * bit \/ n * bit + n <= n * j
      BY <2>2, <2>3, <3>1
    <3> QED
      BY <1>1, <2>2, <3>2, <3>3
  <2> QED
    BY <2>2, <2>4
<1>6. got.addr = r + n * bit
  <2>1. r + n * bit \in Nat /\ r + n * bit < 2 ^ Width
    BY <1>1, <1>5
  <2>2. got.addr = Wrap(r + n * bit)
    BY <1>3
  <2> QED
    BY <2>1, <2>2, WrapFits
<1>7. /\ t.bitmap = s.bitmap \cup {bit} /\ t.free_blocks = s.free_blocks - 1
      /\ t \in Slab(i)
  BY <1>2, <1>3, <1>4 DEF Slab
<1>8. Cardinality(Bits(i) \ t.bitmap) = Cardinality(clear) - 1
      /\ Cardinality(clear) \in Nat
  BY <1>2, <1>4, <1>7, ClearBits
<1>9. StrategyOK(r, i, t)
  BY <1>2, <1>7, <1>8 DEF StrategyOK
<1>10. Counts(i, s) => Counts(i, t)
  BY <1>2, <1>7, <1>8 DEF Counts
<1>11. Gains(f, g, got.addr, n)
  <2>1. /\ f = [a \in {r + n * b : b \in s.bitmap} |-> n]
        /\ g = [a \in {r + n * b : b \in t.bitmap} |-> n]
    BY DEF HeldIn
  <2>2. DOMAIN g = DOMAIN f \cup {r + n * bit}
    BY <1>7, <2>1
  <2>3. r + n * bit \notin DOMAIN f
    <3> SUFFICES ASSUME NEW b \in s.bitmap, r + n * b = r + n * bit
                 PROVE  FALSE
      BY <2>1
    <3>1. b \in Bits(i) /\ b # bit /\ n * b # n * bit
      BY <1>2, <1>4, <1>5
    <3>2. n * b \in Nat
      BY <1>1, <3>1 DEF Bits
    <3> QED
      BY <1>1, <1>5, <3>1, <3>2
  <2>4. g[r + n * bit] = n /\ \A a \in DOMAIN f : g[a] = f[a]
    BY <2>1, <2>2
  <2> QED
    BY <1>6, <2>2, <2>3, <2>4 DEF Gains
<1> QED
  BY <1>9, <1>10, <1>11

\* What a search of the size tree finds is a free block that is large enough,
\* and it finds one if there is one.
LEMMA FoundIsFree ==
    ASSUME NEW start, NEW limit, NEW h, WellFormed(h, start, limit), NEW size \in Nat
    PROVE  /\ \A b \in FindGEQ(h, size) : b \in h.free /\ size <= h.size[b]
           /\ FindGEQ(h, size) = {} => \A b \in h.free : ~ (h.size[b] >= size)
<1> DEFINE reaching == {b \in DOMAIN h.key : h.key[b] # 0 /\ h.key[b] >= size}
<1>1. /\ h \in Heap(start .. (limit - 1)) /\ Filed(h) /\ h.free \subseteq h.blocks
      /\ WellLinked(h, start, limit)
  BY DEF WellFormed, WellLinked, Tiled
<1>2. /\ DOMAIN h.key = start .. (limit - 1)
      /\ \A a \in DOMAIN h.key : h.key[a] \in Nat
      /\ \A a \in DOMAIN h.key : h.key[a] = IF a \in h.free THEN h.size[a] ELSE 0
      /\ h.free \subseteq DOMAIN h.key
  BY <1>1 DEF Heap, Filed
<1>3. \A b \in h.free : h.size[b] \in Nat /\ h.size[b] > 0
  BY <1>1, LinkedFacts
<1>4. \A b \in FindGEQ(h, size) : b \in h.free /\ size <= h.size[b]
  BY <1>2 DEF FindGEQ
<1>5. ASSUME NEW b \in h.free, h.size[b] >= size, FindGEQ(h, size) = {}
      PROVE  FALSE
  <2> DEFINE keys == {h.key[c] : c \in reaching}
  <2>1. b \in reaching
    BY <1>2, <1>3, <1>5
  <2>2. keys \subseteq Nat /\ keys # {}
    BY <1>2, <2>1
  <2> HIDE DEF keys
  <2>3. PICK k \in keys : \A j \in keys : k <= j
    BY <2>2, HasLeast
  <2>4. PICK c \in reaching : h.key[c] = k
    BY DEF keys
  <2>5. \A d \in reaching : h.key[c] <= h.key[d]
    BY <2>3, <2>4 DEF keys
  <2>6. c \in FindGEQ(h, size)
    BY <2>4, <2>5 DEF FindGEQ
  <2> QED
    BY <1>5, <2>6
<1> QED
  BY <1>4, <1>5

\* UsedSizes tells the used blocks of a heap and their sizes.
LEMMA UsedInHeap ==
    ASSUME NEW start, NEW limit, NEW h, WellFormed(h, start, limit)
    PROVE  /\ DOMAIN UsedSizes(h) = start .. (limit - 1)
           /\ h.free \subseteq h.blocks /\ h.blocks \subseteq start .. (limit - 1)
           /\ \A a \in start .. (limit - 1) :
                 IF a \in h.blocks \ h.free
                 THEN UsedSizes(h)[a] = h.size[a] /\ h.size[a] # 0
                 ELSE UsedSizes(h)[a] = 0
<1> DEFINE A == start .. (limit - 1)
<1>1. WellLinked(h, start, limit) /\ h \in Heap(A)
  BY DEF WellFormed, WellLinked
<1>2. DOMAIN h.size = A /\ h.blocks \subseteq A
  BY <1>1 DEF Heap
<1>3. h.free \subseteq h.blocks /\ \A a \in h.blocks : h.size[a] # 0
  BY <1>1, LinkedFacts
<1> HIDE DEF A
<1>4. UsedSizes(h) = [a \in A |-> IF a \in h.blocks \ h.free
                                 THEN h.size[a] ELSE 0]
  BY <1>2 DEF UsedSizes
<1>5. /\ DOMAIN UsedSizes(h) = A
      /\ \A a \in A : UsedSizes(h)[a] = IF a \in h.blocks \ h.free
                                         THEN h.size[a] ELSE 0
  BY <1>4
<1> QED
  BY <1>2, <1>3, <1>5 DEF A

\* The same for a heap, of a size that its tree can search for.
LEMMA HeapAlloc ==
    ASSUME NEW r \in Places, NEW i \in Arenas, ~ is_slab(i), NEW s,
           StrategyOK(r, i, s), NEW size \in Nat \ {0}, FitsKey(size),
           NEW got \in allocate_from_obj_allocator(s, size)
    PROVE  /\ StrategyOK(r, i, got.strategy)
           /\ Gains(HeldIn(r, i, s), HeldIn(r, i, got.strategy), got.addr, size)
<1> DEFINE b == got.addr
           t == got.strategy
           f == HeldIn(r, i, s)
           g == HeldIn(r, i, t)
<1> DEFINE end == r + Size(i)
<1>1. WellFormed(s, r, end)
  BY DEF StrategyOK
<1>2. b \in FindGEQ(s, size) /\ t = AllocateBlock(s, b, size)
  BY DEF allocate_from_obj_allocator, FindBlock
<1>3. b \in s.free /\ size <= s.size[b]
  BY <1>1, <1>2, FoundIsFree
<1>4. /\ WellFormed(t, r, end)
      /\ UsedSizes(t) = [UsedSizes(s) EXCEPT ![b] = size]
      /\ t.size[b] = size
  BY <1>1, <1>2, <1>3, AllocateKeepsHeap
<1>5. StrategyOK(r, i, t)
  BY <1>4 DEF StrategyOK
<1> DEFINE A == r .. (end - 1)
<1>6. /\ b \in A /\ b \in s.blocks /\ DOMAIN UsedSizes(s) = A
      /\ s.blocks \ s.free \subseteq A /\ t.blocks \ t.free \subseteq A
  <2>1. WellFormed(t, r, end)
    BY <1>4
  <2> HIDE DEF end, t, b
  <2>2. /\ s.free \subseteq s.blocks /\ s.blocks \subseteq A
        /\ DOMAIN UsedSizes(s) = A
    BY <1>1, UsedInHeap
  <2>3. t.blocks \subseteq A
    BY <2>1, UsedInHeap
  <2> QED
    BY <1>3, <2>2, <2>3
<1>7. \A a \in A : IF a \in s.blocks \ s.free
                   THEN UsedSizes(s)[a] = s.size[a] /\ s.size[a] # 0
                   ELSE UsedSizes(s)[a] = 0
  <2> HIDE DEF end
  <2> QED
    BY <1>1, UsedInHeap
<1>8. \A a \in A : IF a \in t.blocks \ t.free
                   THEN UsedSizes(t)[a] = t.size[a] /\ t.size[a] # 0
                   ELSE UsedSizes(t)[a] = 0
  <2>1. WellFormed(t, r, end)
    BY <1>4
  <2> HIDE DEF end, t
  <2> QED
    BY <2>1, UsedInHeap
<1>9. /\ UsedSizes(t)[b] = size
       /\ \A a \in A \ {b} : UsedSizes(t)[a] = UsedSizes(s)[a]
  BY <1>4, <1>6
<1>10. Gains(f, g, b, size)
  <2>1. /\ f = [a \in s.blocks \ s.free |-> s.size[a]]
        /\ g = [a \in t.blocks \ t.free |-> t.size[a]]
    BY DEF HeldIn
  <2>2. b \notin s.blocks \ s.free /\ b \in t.blocks \ t.free
    BY <1>3, <1>6, <1>8, <1>9
  <2>3. \A a \in A \ {b} : a \in t.blocks \ t.free <=> a \in s.blocks \ s.free
    BY <1>7, <1>8, <1>9
  <2>4. t.blocks \ t.free = (s.blocks \ s.free) \cup {b}
    BY <1>6, <2>2, <2>3
  <2>5. \A a \in s.blocks \ s.free : t.size[a] = s.size[a]
    BY <1>6, <1>7, <1>8, <1>9, <2>2, <2>4
  <2> QED
    BY <1>4, <2>1, <2>2, <2>4, <2>5 DEF Gains
<1> QED
  BY <1>5, <1>10

\* free_to_slab takes back the block whose space the address lies in or, if
\* nobody held it, none.
LEMMA SlabFree ==
    ASSUME NEW r \in Nat, NEW i \in Arenas, is_slab(i), NEW s,
           StrategyOK(r, i, s), NEW addr \in Nat, r <= addr
    PROVE  /\ StrategyOK(r, i, FreeTo(r, i, s, addr))
           /\ Loses(HeldIn(r, i, s), HeldIn(r, i, FreeTo(r, i, s, addr)),
                    BlockAt(r, i, addr))
           /\ Counts(i, s) /\ BlockAt(r, i, addr) \in DOMAIN HeldIn(r, i, s)
                => Counts(i, FreeTo(r, i, s, addr))
<1> DEFINE n   == block_size(i)
           bit == (addr - r) \div n
           hit == BlockAt(r, i, addr)
           t   == FreeTo(r, i, s, addr)
           f   == HeldIn(r, i, s)
           g   == HeldIn(r, i, t)
<1>1. n \in Nat \ {0}
  BY ArenaFacts
<1>2. bit \in Nat /\ hit = r + n * bit
  <2> HIDE DEF n
  <2>1. \A d \in Nat, m \in Nat \ {0} : d \div m \in Nat
    OBVIOUS
  <2>2. addr - r \in Nat
    OBVIOUS
  <2>3. bit \in Nat
    BY <1>1, <2>1, <2>2
  <2> QED
    BY <2>3 DEF BlockAt, n
<1> HIDE DEF bit, hit
<1>3. /\ s \in Slab(i) /\ s.bitmap \subseteq Bits(i) /\ s.free_blocks \in Nat
      /\ Cardinality(Bits(i) \ s.bitmap) <= s.free_blocks
  BY DEF StrategyOK, Slab
<1>4. t = [bitmap |-> s.bitmap \ {bit}, free_blocks |-> s.free_blocks + 1]
  BY DEF FreeTo, free_to_slab, bit
<1>5. /\ t.bitmap = s.bitmap \ {bit} /\ t.free_blocks = s.free_blocks + 1
      /\ t \in Slab(i)
  BY <1>3, <1>4 DEF Slab
<1>6. /\ f = [a \in {r + n * b : b \in s.bitmap} |-> n]
      /\ g = [a \in {r + n * b : b \in t.bitmap} |-> n]
  BY DEF HeldIn
<1>7. \A b \in s.bitmap : b \in Nat /\ (r + n * b = hit => b = bit)
  <2> SUFFICES ASSUME NEW b \in s.bitmap
               PROVE  b \in Nat /\ (r + n * b = hit => b = bit)
    OBVIOUS
  <2>1. b \in Nat
    BY <1>3 DEF Bits
  <2>2. n * b = n * bit => b = bit
    BY <1>1, <1>2, <2>1
  <2>3. n * b \in Nat /\ n * bit \in Nat
    BY <1>1, <1>2, <2>1
  <2> QED
    BY <1>2, <2>1, <2>2, <2>3
<1>8. hit \in DOMAIN f <=> bit \in s.bitmap
  BY <1>2, <1>6, <1>7
<1>9. DOMAIN g = DOMAIN f \ {hit}
  <2> DEFINE at(b) == r + n * b
  <2>1. /\ DOMAIN f = {at(b) : b \in s.bitmap}
        /\ DOMAIN g = {at(b) : b \in s.bitmap \ {bit}}
    BY <1>5, <1>6
  <2>2. hit = at(bit) /\ \A b \in s.bitmap : at(b) = hit => b = bit
    BY <1>2, <1>7
  <2> HIDE DEF at, f, g
  <2> QED
    BY <2>1, <2>2
<1>10. Loses(f, g, hit)
  BY <1>6, <1>9 DEF Loses
<1>11. /\ Cardinality(Bits(i) \ s.bitmap) \in Nat
       /\ IF bit \in s.bitmap
          THEN Cardinality(Bits(i) \ t.bitmap) = Cardinality(Bits(i) \ s.bitmap) + 1
          ELSE Cardinality(Bits(i) \ t.bitmap) = Cardinality(Bits(i) \ s.bitmap)
  <2>1. CASE bit \in s.bitmap
    <3>1. t.bitmap = s.bitmap \ {bit} /\ s.bitmap \subseteq Bits(i)
      BY <1>3, <1>5
    <3> HIDE DEF t
    <3> QED
      BY <2>1, <3>1, ClearBits
  <2>2. CASE bit \notin s.bitmap
    <3>1. t.bitmap = s.bitmap
      BY <1>5, <2>2
    <3>2. IsFiniteSet(Bits(i) \ s.bitmap)
      BY FiniteBits, FS_Subset
    <3> QED
      BY <2>2, <3>1, <3>2, FS_CardinalityType
  <2> QED
    BY <2>1, <2>2
<1>12. StrategyOK(r, i, t)
  BY <1>3, <1>5, <1>11 DEF StrategyOK
<1>13. Counts(i, s) /\ hit \in DOMAIN f => Counts(i, t)
  BY <1>5, <1>8, <1>11 DEF Counts
<1> QED
  BY <1>10, <1>12, <1>13 DEF hit

\* What is held of a heap, in terms of UsedSizes.
LEMMA HeldIsUsed ==
    ASSUME NEW r, NEW i, ~ is_slab(i), NEW h, WellFormed(h, r, r + Size(i))
    PROVE  /\ \A a : a \in DOMAIN HeldIn(r, i, h) <=>
                     a \in DOMAIN UsedSizes(h) /\ UsedSizes(h)[a] # 0
           /\ \A a \in DOMAIN HeldIn(r, i, h) :
                 HeldIn(r, i, h)[a] = UsedSizes(h)[a]
<1> DEFINE end == r + Size(i)
           A   == r .. (end - 1)
<1>1. WellFormed(h, r, end)
  OBVIOUS
<1> HIDE DEF end
<1>2. /\ DOMAIN UsedSizes(h) = A /\ h.blocks \subseteq A
      /\ \A a \in A : IF a \in h.blocks \ h.free
                      THEN UsedSizes(h)[a] = h.size[a] /\ h.size[a] # 0
                      ELSE UsedSizes(h)[a] = 0
  BY <1>1, UsedInHeap
<1>3. HeldIn(r, i, h) = [a \in h.blocks \ h.free |-> h.size[a]]
  BY DEF HeldIn
<1> HIDE DEF A
<1>4. \A a : a \in DOMAIN HeldIn(r, i, h) <=> a \in A /\ UsedSizes(h)[a] # 0
  BY <1>2, <1>3
<1>5. \A a \in DOMAIN HeldIn(r, i, h) : HeldIn(r, i, h)[a] = UsedSizes(h)[a]
  BY <1>2, <1>3
<1>6. \A a : a \in DOMAIN HeldIn(r, i, h) <=>
             a \in DOMAIN UsedSizes(h) /\ UsedSizes(h)[a] # 0
  BY <1>2, <1>4
<1> QED
  BY <1>5, <1>6

\* free_to_obj_allocator takes back the block it is given, if it is held.
LEMMA HeapFree ==
    ASSUME NEW r \in Nat, NEW i \in Arenas, ~ is_slab(i), NEW s,
           StrategyOK(r, i, s), NEW addr
    PROVE  /\ StrategyOK(r, i, FreeTo(r, i, s, addr))
           /\ Loses(HeldIn(r, i, s), HeldIn(r, i, FreeTo(r, i, s, addr)), addr)
<1> DEFINE t == FreeTo(r, i, s, addr)
           f == HeldIn(r, i, s)
           g == HeldIn(r, i, t)
           end == r + Size(i)
<1>1. WellFormed(s, r, end)
  BY DEF StrategyOK
<1>2. t = free_to_obj_allocator(s, addr)
  BY DEF FreeTo
<1>3. f = [a \in s.blocks \ s.free |-> s.size[a]]
  BY DEF HeldIn
<1>4. CASE addr \in s.blocks \ s.free
  <2>1. t = FreeBlock(s, addr)
    BY <1>2, <1>4 DEF free_to_obj_allocator
  <2> HIDE DEF t, end
  <2>2. /\ WellFormed(t, r, end)
        /\ UsedSizes(t) = [UsedSizes(s) EXCEPT ![addr] = 0]
    BY <1>1, <1>4, <2>1, FreeKeepsHeap
  <2>3. /\ DOMAIN UsedSizes(t) = DOMAIN UsedSizes(s)
        /\ \A a \in DOMAIN UsedSizes(s) :
              UsedSizes(t)[a] = IF a = addr THEN 0 ELSE UsedSizes(s)[a]
    BY <2>2
  <2>4. WellFormed(t, r, end)
    BY <2>2
  <2>5. /\ \A a : a \in DOMAIN f <=>
                  a \in DOMAIN UsedSizes(s) /\ UsedSizes(s)[a] # 0
        /\ \A a \in DOMAIN f : f[a] = UsedSizes(s)[a]
    BY <1>1, HeldIsUsed DEF end
  <2>6. /\ \A a : a \in DOMAIN g <=>
                  a \in DOMAIN UsedSizes(t) /\ UsedSizes(t)[a] # 0
        /\ \A a \in DOMAIN g : g[a] = UsedSizes(t)[a]
    BY <2>4, HeldIsUsed DEF end
  <2> HIDE DEF f, g
  <2>7. DOMAIN g = DOMAIN f \ {addr}
    BY <2>3, <2>5, <2>6
  <2>8. \A a \in DOMAIN g : g[a] = f[a]
    BY <2>3, <2>5, <2>6, <2>7
  <2>9. StrategyOK(r, i, t)
    BY <2>4 DEF StrategyOK, end
  <2> QED
    BY <2>7, <2>8, <2>9 DEF Loses, f, g, t
<1>5. CASE addr \notin s.blocks \ s.free
  <2>1. t = s
    BY <1>2, <1>5 DEF free_to_obj_allocator
  <2>2. addr \notin DOMAIN f
    BY <1>3, <1>5
  <2> QED
    BY <2>1, <2>2 DEF Loses
<1> QED
  BY <1>4, <1>5

\* A reservation serves a request of its class with a block nobody held; an
\* object reservation does if the size is one its tree can search for.
THEOREM AllocKeeps ==
    ASSUME NEW r \in Places, NEW i \in Arenas, NEW s, StrategyOK(r, i, s),
           NEW size \in Nat, size <= block_size(i),
           is_slab(i) \/ (size # 0 /\ FitsKey(size)),
           NEW got \in allocate_from_reservation(r, i, s, size)
    PROVE  /\ StrategyOK(r, i, got.strategy)
           /\ Counts(i, s) => Counts(i, got.strategy)
           /\ \E n \in Nat : /\ Fits(i, size, n) /\ size <= n
                             /\ Gains(HeldIn(r, i, s),
                                      HeldIn(r, i, got.strategy), got.addr, n)
<1>1. block_size(i) \in Nat
  BY ArenaFacts
<1>2. CASE is_slab(i)
  <2>1. got \in allocate_from_slab(r, i, s)
    BY <1>2 DEF allocate_from_reservation
  <2>2. /\ StrategyOK(r, i, got.strategy)
        /\ Counts(i, s) => Counts(i, got.strategy)
        /\ Gains(HeldIn(r, i, s), HeldIn(r, i, got.strategy), got.addr,
                 block_size(i))
    BY <1>2, <2>1, SlabAlloc
  <2>3. Fits(i, size, block_size(i))
    BY <1>2 DEF Fits
  <2> QED
    BY <1>1, <2>2, <2>3
<1>3. CASE ~ is_slab(i)
  <2>1. got \in allocate_from_obj_allocator(s, size)
    BY <1>3 DEF allocate_from_reservation
  <2>2. /\ StrategyOK(r, i, got.strategy)
        /\ Gains(HeldIn(r, i, s), HeldIn(r, i, got.strategy), got.addr, size)
    BY <1>3, <2>1, HeapAlloc
  <2>3. Fits(i, size, size) /\ Counts(i, got.strategy)
    BY <1>3 DEF Fits, Counts
  <2> QED
    BY <2>2, <2>3
<1> QED
  BY <1>2, <1>3

\* A free of any address from the reservation's own on: a slab gives back the
\* block whose space the address lies in, a heap the block that starts there,
\* nothing if nobody held it, and the counter stays right if somebody did.  For
\* an address that is held that is the caller's own block.
THEOREM FreeKeeps ==
    ASSUME NEW r \in Places, NEW i \in Arenas, NEW s, StrategyOK(r, i, s),
           NEW addr \in Nat, r <= addr
    PROVE  /\ StrategyOK(r, i, FreeTo(r, i, s, addr))
           /\ Loses(HeldIn(r, i, s), HeldIn(r, i, FreeTo(r, i, s, addr)),
                    BlockAt(r, i, addr))
           /\ Counts(i, s) /\ BlockAt(r, i, addr) \in DOMAIN HeldIn(r, i, s)
                => Counts(i, FreeTo(r, i, s, addr))
           /\ addr \in DOMAIN HeldIn(r, i, s) => BlockAt(r, i, addr) = addr
<1>1. r \in Nat
  BY PlaceFacts
<1>2. CASE is_slab(i)
  <2>1. ASSUME addr \in DOMAIN HeldIn(r, i, s)
        PROVE  BlockAt(r, i, addr) = addr
    <3>1. PICK b \in s.bitmap : addr = r + block_size(i) * b
      BY <1>2, <2>1 DEF HeldIn
    <3>2. b \in 0 .. (Size(i) \div block_size(i) - 1)
      BY <1>2, <3>1 DEF StrategyOK, Slab, Bits
    <3>3. /\ block_size(i) * b \in Nat
          /\ (block_size(i) * b) % block_size(i) = 0
      BY <3>2, ArenaFacts, BlockOffsets
    <3>4. addr - r = block_size(i) * b
      BY <1>1, <3>1, <3>3
    <3> QED
      BY <1>1, <3>3, <3>4, StartIsHit
  <2> QED
    BY <1>1, <1>2, <2>1, SlabFree
<1>3. CASE ~ is_slab(i)
  BY <1>1, <1>3, HeapFree DEF Counts, BlockAt
<1> QED
  BY <1>2, <1>3

\* A new reservation is in order, and nobody holds anything of it.
LEMMA FreshReservation ==
    ASSUME NEW r \in Places, NEW i \in Arenas
    PROVE  /\ StrategyOK(r, i, initialize_strategy(r, i))
           /\ Counts(i, initialize_strategy(r, i))
           /\ DOMAIN HeldIn(r, i, initialize_strategy(r, i)) = {}
<1> DEFINE s == initialize_strategy(r, i)
<1>1. r \in Nat \ {0} /\ Size(i) \in Nat \ {0}
  BY ArenaFacts, PlaceFacts
<1>2. CASE is_slab(i)
  <2>1. s = [bitmap |-> {}, free_blocks |-> Cardinality(Bits(i))]
    BY <1>2 DEF initialize_strategy, initialize_slab
  <2>2. Cardinality(Bits(i)) \in Nat
    BY FiniteBits, FS_CardinalityType
  <2>3. Bits(i) \ s.bitmap = Bits(i)
    BY <2>1
  <2>4. s \in Slab(i)
    BY <2>1, <2>2 DEF Slab
  <2>5. DOMAIN HeldIn(r, i, s) = {}
    BY <1>2, <2>1 DEF HeldIn
  <2> QED
    BY <1>2, <2>1, <2>2, <2>3, <2>4, <2>5 DEF StrategyOK, Counts
<1>3. CASE ~ is_slab(i)
  <2>1. s = InitialHeap(r .. (r + Size(i) - 1), r, Size(i))
    BY <1>3 DEF initialize_strategy, initialize_obj_allocator, Span
  <2> HIDE DEF s
  <2>2. /\ WellFormed(s, r, r + Size(i))
        /\ UsedSizes(s) = [a \in r .. (r + Size(i) - 1) |-> 0]
    BY <1>1, <2>1, InitialHeapWellFormed
  <2>3. \A a : a \in DOMAIN HeldIn(r, i, s) <=>
               a \in DOMAIN UsedSizes(s) /\ UsedSizes(s)[a] # 0
    BY <1>3, <2>2, HeldIsUsed
  <2>4. DOMAIN HeldIn(r, i, s) = {}
    BY <2>2, <2>3
  <2> QED
    BY <1>3, <2>2, <2>4 DEF StrategyOK, Counts, s
<1> QED
  BY <1>2, <1>3

----------------------------------------------------------------------------
(***************************************************************************)
(* All reservations: pa gives their arenas, st their strategies, lv is     *)
(* what callers hold.                                                      *)
(***************************************************************************)

Held(pa, st, r) == HeldIn(r, pa[r], st[r])

\* Reservations lie apart from one another.
Layout(pa) ==
    /\ DOMAIN pa \subseteq Places
    /\ \A r \in DOMAIN pa : pa[r] \in Arenas
    /\ \A r, q \in DOMAIN pa :
          r # q => r + Size(pa[r]) <= q \/ q + Size(pa[q]) <= r

Orderly(pa, st) == \A r \in DOMAIN pa : StrategyOK(r, pa[r], st[r])

\* A request of this size is answered from arena i with a block of n bytes.
Answers(i, size, n) ==
    /\ size \in Requests /\ size <= n /\ Fits(i, size, n)
    /\ get_arena_idx_for_size(size) = i

Backed(pa, st, lv) ==
    /\ lv = [a \in DOMAIN lv |-> lv[a]]
    /\ \A a : a \in DOMAIN lv <=>
              \E r \in DOMAIN pa : a \in DOMAIN Held(pa, st, r)
    /\ \A r \in DOMAIN pa : \A a \in DOMAIN Held(pa, st, r) :
          Answers(pa[r], lv[a], Held(pa, st, r)[a])

MappedBy(pa) == UNION {Span(r, Size(pa[r])) : r \in DOMAIN pa}

\* Only the strategy of r changes.
OnlyAt(r, pa, st, st2) == \A q \in DOMAIN pa : q # r => st2[q] = st[q]

\* A caller is given addr, or gives it back.
Given(lv, lv2, addr, size) ==
    lv2 = [a \in DOMAIN lv \cup {addr} |-> IF a = addr THEN size ELSE lv[a]]

GivenBack(lv, lv2, addr) == lv2 = [a \in DOMAIN lv \ {addr} |-> lv[a]]

\* What is held of a reservation lies inside it.
LEMMA HeldOf ==
    ASSUME NEW pa, NEW st, Layout(pa), Orderly(pa, st), NEW r \in DOMAIN pa,
           NEW a \in DOMAIN Held(pa, st, r)
    PROVE  /\ r \in Nat \ {0} /\ a \in Nat /\ Size(pa[r]) \in Nat \ {0}
           /\ Held(pa, st, r)[a] \in Nat \ {0}
           /\ r <= a /\ a + Held(pa, st, r)[a] <= r + Size(pa[r])
<1>1. r \in Places /\ pa[r] \in Arenas /\ StrategyOK(r, pa[r], st[r])
  BY DEF Layout, Orderly
<1>2. r \in Nat \ {0} /\ Size(pa[r]) \in Nat \ {0}
  BY <1>1, PlaceFacts, ArenaFacts
<1> QED
  BY <1>1, <1>2, HeldInside DEF Held

\* An address is held of one reservation only.
LEMMA HeldOfOne ==
    ASSUME NEW pa, NEW st, Layout(pa), Orderly(pa, st),
           NEW r \in DOMAIN pa, NEW q \in DOMAIN pa,
           NEW a \in DOMAIN Held(pa, st, r),
           a \in Nat, q <= a, a < q + Size(pa[q])
    PROVE  r = q
<1>1. /\ r \in Nat /\ Size(pa[r]) \in Nat /\ r <= a /\ a < r + Size(pa[r])
  BY HeldOf
<1>2. q \in Nat /\ Size(pa[q]) \in Nat
  <2>1. q \in Places /\ pa[q] \in Arenas
    BY DEF Layout
  <2> QED
    BY <2>1, PlaceFacts, ArenaFacts
<1> SUFFICES ASSUME r # q PROVE FALSE
  OBVIOUS
<1>3. r + Size(pa[r]) <= q \/ q + Size(pa[q]) <= r
  BY DEF Layout
<1> QED
  BY <1>1, <1>2, <1>3

\* Nothing is held of a new reservation, which lies apart from the others.
LEMMA JoinKeeps ==
    ASSUME NEW pa, NEW st, NEW lv, Layout(pa), Orderly(pa, st), Backed(pa, st, lv),
           NEW r \in Places, NEW i \in Arenas, NEW pa2, NEW st2,
           Span(r, Size(i)) \cap MappedBy(pa) = {},
           DOMAIN pa2 = DOMAIN pa \cup {r}, pa2[r] = i,
           OnlyAt(r, pa, pa, pa2), OnlyAt(r, pa, st, st2),
           st2[r] = initialize_strategy(r, i)
    PROVE  /\ r \notin DOMAIN pa
           /\ Layout(pa2) /\ Orderly(pa2, st2) /\ Backed(pa2, st2, lv)
<1>1. r \in Nat \ {0} /\ Size(i) \in Nat \ {0}
  BY PlaceFacts, ArenaFacts
<1>2. \A q \in DOMAIN pa : /\ q \in Nat \ {0} /\ Size(pa[q]) \in Nat \ {0}
                           /\ q \in Places /\ pa[q] \in Arenas
  BY PlaceFacts, ArenaFacts DEF Layout
<1>3. ASSUME NEW q \in DOMAIN pa
      PROVE  r + Size(i) <= q \/ q + Size(pa[q]) <= r
  <2>1. \A x : ~ (x \in Span(r, Size(i)) /\ x \in Span(q, Size(pa[q])))
    BY DEF MappedBy
  <2>2. r \notin Span(q, Size(pa[q])) /\ q \notin Span(r, Size(i))
    <3>1. r \in Span(r, Size(i)) /\ q \in Span(q, Size(pa[q]))
      BY <1>1, <1>2 DEF Span
    <3> QED
      BY <2>1, <3>1
  <2> QED
    BY <1>1, <1>2, <2>2 DEF Span
<1>4. r \notin DOMAIN pa
  BY <1>1, <1>2, <1>3
<1>5. \A q \in DOMAIN pa : q # r /\ pa2[q] = pa[q] /\ st2[q] = st[q]
  BY <1>4 DEF OnlyAt
<1>6. Layout(pa2)
  <2>1. DOMAIN pa2 \subseteq Places /\ \A q \in DOMAIN pa2 : pa2[q] \in Arenas
    BY <1>2, <1>5
  <2>2. ASSUME NEW x \in DOMAIN pa2, NEW q \in DOMAIN pa2, x # q
        PROVE  x + Size(pa2[x]) <= q \/ q + Size(pa2[q]) <= x
    <3>1. CASE x = r
      BY <1>3, <1>5, <2>2, <3>1
    <3>2. CASE q = r
      BY <1>3, <1>5, <2>2, <3>2
    <3>3. CASE x # r /\ q # r
      <4>1. x \in DOMAIN pa /\ q \in DOMAIN pa
        BY <3>3
      <4> QED
        BY <1>5, <2>2, <4>1 DEF Layout
    <3> QED
      BY <3>1, <3>2, <3>3
  <2> QED
    BY <2>1, <2>2 DEF Layout
<1>7. Orderly(pa2, st2)
  <2>1. StrategyOK(r, pa2[r], st2[r])
    BY FreshReservation
  <2> QED
    BY <1>5, <2>1 DEF Orderly
<1>8. /\ \A q \in DOMAIN pa : Held(pa2, st2, q) = Held(pa, st, q)
      /\ DOMAIN Held(pa2, st2, r) = {}
  <2>1. DOMAIN HeldIn(r, i, initialize_strategy(r, i)) = {}
    BY FreshReservation
  <2> QED
    BY <1>5, <2>1 DEF Held
<1>9. Backed(pa2, st2, lv)
  <2>1. lv = [a \in DOMAIN lv |-> lv[a]]
    BY DEF Backed
  <2>2. \A a : a \in DOMAIN lv <=>
               \E q \in DOMAIN pa2 : a \in DOMAIN Held(pa2, st2, q)
    BY <1>8 DEF Backed
  <2>3. \A q \in DOMAIN pa2 : \A a \in DOMAIN Held(pa2, st2, q) :
           Answers(pa2[q], lv[a], Held(pa2, st2, q)[a])
    BY <1>5, <1>8 DEF Backed
  <2> QED
    BY <2>1, <2>2, <2>3 DEF Backed
<1> QED
  BY <1>4, <1>6, <1>7, <1>9

\* One reservation serves: nobody held the block, and now the caller does.
LEMMA GainKeeps ==
    ASSUME NEW pa, NEW st, NEW lv, Layout(pa), Orderly(pa, st), Backed(pa, st, lv),
           NEW r \in DOMAIN pa, NEW st2, StrategyOK(r, pa[r], st2[r]),
           OnlyAt(r, pa, st, st2),
           NEW addr, NEW n, NEW size, Answers(pa[r], size, n),
           Gains(HeldIn(r, pa[r], st[r]), HeldIn(r, pa[r], st2[r]), addr, n),
           NEW lv2, Given(lv, lv2, addr, size)
    PROVE  /\ Orderly(pa, st2) /\ Backed(pa, st2, lv2)
           /\ addr \notin DOMAIN lv /\ addr \in DOMAIN Held(pa, st2, r)
<1>1. Orderly(pa, st2)
  BY DEF Orderly, OnlyAt
<1>2. \A q \in DOMAIN pa : q # r => Held(pa, st2, q) = Held(pa, st, q)
  BY DEF Held, OnlyAt
<1>3. /\ addr \notin DOMAIN Held(pa, st, r)
      /\ DOMAIN Held(pa, st2, r) = DOMAIN Held(pa, st, r) \cup {addr}
      /\ Held(pa, st2, r)[addr] = n
      /\ \A a \in DOMAIN Held(pa, st, r) :
            Held(pa, st2, r)[a] = Held(pa, st, r)[a]
  BY DEF Held, Gains
<1>4. \A q \in DOMAIN pa : addr \in DOMAIN Held(pa, st2, q) => q = r
  <2> SUFFICES ASSUME NEW q \in DOMAIN pa, addr \in DOMAIN Held(pa, st2, q)
               PROVE  q = r
    OBVIOUS
  <2>1. addr \in DOMAIN Held(pa, st2, r)
    BY <1>3
  <2>2. /\ addr \in Nat /\ r <= addr /\ r \in Nat /\ Size(pa[r]) \in Nat
        /\ Held(pa, st2, r)[addr] \in Nat \ {0}
        /\ addr + Held(pa, st2, r)[addr] <= r + Size(pa[r])
    BY <1>1, <2>1, HeldOf
  <2>3. addr < r + Size(pa[r])
    BY <2>2
  <2> QED
    BY <1>1, <2>2, <2>3, HeldOfOne
<1>5. addr \notin DOMAIN lv
  <2> SUFFICES ASSUME addr \in DOMAIN lv PROVE FALSE
    OBVIOUS
  <2>1. PICK q \in DOMAIN pa : addr \in DOMAIN Held(pa, st, q)
    BY DEF Backed
  <2>2. q # r
    BY <1>3, <2>1
  <2> QED
    BY <1>2, <1>4, <2>1, <2>2
<1>6. /\ DOMAIN lv2 = DOMAIN lv \cup {addr} /\ lv2[addr] = size
      /\ \A a \in DOMAIN lv : lv2[a] = lv[a]
  BY <1>5 DEF Given
<1>7. lv2 = [a \in DOMAIN lv2 |-> lv2[a]]
  BY DEF Given
<1>8. \A a : a \in DOMAIN lv2 <=>
             \E q \in DOMAIN pa : a \in DOMAIN Held(pa, st2, q)
  <2>1. \A a : a \in DOMAIN lv <=>
               \E q \in DOMAIN pa : a \in DOMAIN Held(pa, st, q)
    BY DEF Backed
  <2> QED
    BY <1>2, <1>3, <1>6, <2>1
<1>9. ASSUME NEW q \in DOMAIN pa, NEW a \in DOMAIN Held(pa, st2, q)
      PROVE  Answers(pa[q], lv2[a], Held(pa, st2, q)[a])
  <2>1. CASE a = addr
    BY <1>3, <1>4, <1>6, <2>1
  <2>2. CASE a # addr
    <3>1. /\ a \in DOMAIN Held(pa, st, q)
          /\ Held(pa, st2, q)[a] = Held(pa, st, q)[a]
      BY <1>2, <1>3, <2>2
    <3>2. a \in DOMAIN lv /\ Answers(pa[q], lv[a], Held(pa, st, q)[a])
      BY <3>1 DEF Backed
    <3> QED
      BY <1>6, <3>1, <3>2
  <2> QED
    BY <2>1, <2>2
<1>10. Backed(pa, st2, lv2)
  BY <1>7, <1>8, <1>9 DEF Backed
<1> QED
  BY <1>1, <1>3, <1>5, <1>10

\* One reservation takes back what was held at addr, if anything was.
LEMMA LoseKeeps ==
    ASSUME NEW pa, NEW st, NEW lv, Layout(pa), Orderly(pa, st), Backed(pa, st, lv),
           NEW r \in DOMAIN pa, NEW st2, StrategyOK(r, pa[r], st2[r]),
           OnlyAt(r, pa, st, st2),
           NEW addr \in Nat, r <= addr, addr < r + Size(pa[r]),
           Loses(HeldIn(r, pa[r], st[r]), HeldIn(r, pa[r], st2[r]), addr),
           NEW lv2, GivenBack(lv, lv2, addr)
    PROVE  /\ Orderly(pa, st2) /\ Backed(pa, st2, lv2)
           /\ addr \in DOMAIN lv <=> addr \in DOMAIN Held(pa, st, r)
<1>1. Orderly(pa, st2)
  BY DEF Orderly, OnlyAt
<1>2. \A q \in DOMAIN pa : q # r => Held(pa, st2, q) = Held(pa, st, q)
  BY DEF Held, OnlyAt
<1>3. /\ DOMAIN Held(pa, st2, r) = DOMAIN Held(pa, st, r) \ {addr}
      /\ \A a \in DOMAIN Held(pa, st2, r) :
            Held(pa, st2, r)[a] = Held(pa, st, r)[a]
  BY DEF Held, Loses
<1>4. \A q \in DOMAIN pa : addr \in DOMAIN Held(pa, st, q) => q = r
  <2> SUFFICES ASSUME NEW q \in DOMAIN pa, addr \in DOMAIN Held(pa, st, q)
               PROVE  q = r
    OBVIOUS
  <2> QED
    BY HeldOfOne
<1>5. \A a : a \in DOMAIN lv <=>
             \E q \in DOMAIN pa : a \in DOMAIN Held(pa, st, q)
  BY DEF Backed
<1>6. \A q \in DOMAIN pa : /\ DOMAIN Held(pa, st2, q)
                                = DOMAIN Held(pa, st, q) \ {addr}
                           /\ \A a \in DOMAIN Held(pa, st2, q) :
                                 Held(pa, st2, q)[a] = Held(pa, st, q)[a]
  BY <1>2, <1>3, <1>4
<1>7. /\ DOMAIN lv2 = DOMAIN lv \ {addr} /\ lv2 = [a \in DOMAIN lv2 |-> lv2[a]]
      /\ \A a \in DOMAIN lv2 : lv2[a] = lv[a]
  BY DEF GivenBack
<1>8. \A a : a \in DOMAIN lv2 <=>
             \E q \in DOMAIN pa : a \in DOMAIN Held(pa, st2, q)
  BY <1>5, <1>6, <1>7
<1>9. ASSUME NEW q \in DOMAIN pa, NEW a \in DOMAIN Held(pa, st2, q)
      PROVE  Answers(pa[q], lv2[a], Held(pa, st2, q)[a])
  <2>1. /\ a \in DOMAIN Held(pa, st, q) /\ a \in DOMAIN lv2
        /\ Held(pa, st2, q)[a] = Held(pa, st, q)[a]
    BY <1>6, <1>8
  <2>2. Answers(pa[q], lv[a], Held(pa, st, q)[a])
    BY <2>1 DEF Backed
  <2> QED
    BY <1>7, <2>1, <2>2
<1>10. Backed(pa, st2, lv2)
  BY <1>7, <1>8, <1>9 DEF Backed
<1>11. addr \in DOMAIN lv <=> addr \in DOMAIN Held(pa, st, r)
  BY <1>4, <1>5
<1> QED
  BY <1>1, <1>10, <1>11

\* What callers hold is reserved, and no two of them hold the same space.
LEMMA LiveApart ==
    ASSUME NEW pa, NEW st, NEW lv, Layout(pa), Orderly(pa, st), Backed(pa, st, lv)
    PROVE  /\ \A a \in DOMAIN lv : /\ a \in MappedBy(pa) /\ lv[a] \in Requests
                                   /\ Span(a, lv[a]) \subseteq MappedBy(pa)
           /\ \A a, c \in DOMAIN lv :
                 a # c => Span(a, lv[a]) \cap Span(c, lv[c]) = {}
<1>1. ASSUME NEW a \in DOMAIN lv
      PROVE  \E r \in DOMAIN pa :
                /\ a \in DOMAIN Held(pa, st, r)
                /\ r \in Nat /\ a \in Nat /\ Size(pa[r]) \in Nat
                /\ Held(pa, st, r)[a] \in Nat \ {0} /\ lv[a] \in Nat
                /\ lv[a] \in Requests /\ lv[a] <= Held(pa, st, r)[a]
                /\ r <= a /\ a + Held(pa, st, r)[a] <= r + Size(pa[r])
  <2>1. PICK r \in DOMAIN pa : a \in DOMAIN Held(pa, st, r)
    BY DEF Backed
  <2>2. /\ r \in Nat \ {0} /\ a \in Nat /\ Size(pa[r]) \in Nat \ {0}
        /\ Held(pa, st, r)[a] \in Nat \ {0}
        /\ r <= a /\ a + Held(pa, st, r)[a] <= r + Size(pa[r])
    BY <2>1, HeldOf
  <2>3. Answers(pa[r], lv[a], Held(pa, st, r)[a])
    BY <2>1 DEF Backed
  <2>4. lv[a] \in Requests /\ lv[a] <= Held(pa, st, r)[a] /\ lv[a] \in Nat
    BY <2>3, RequestsAreNumbers DEF Answers
  <2> QED
    BY <2>1, <2>2, <2>4
<1>2. ASSUME NEW a \in DOMAIN lv
      PROVE  /\ a \in MappedBy(pa) /\ lv[a] \in Requests
             /\ Span(a, lv[a]) \subseteq MappedBy(pa)
  <2>1. PICK r \in DOMAIN pa :
                /\ r \in Nat /\ a \in Nat /\ Size(pa[r]) \in Nat
                /\ Held(pa, st, r)[a] \in Nat \ {0} /\ lv[a] \in Nat
                /\ lv[a] \in Requests /\ lv[a] <= Held(pa, st, r)[a]
                /\ r <= a /\ a + Held(pa, st, r)[a] <= r + Size(pa[r])
    BY <1>1
  <2>2. a \in Span(r, Size(pa[r])) /\ Span(a, lv[a]) \subseteq Span(r, Size(pa[r]))
    BY <2>1 DEF Span
  <2> QED
    BY <2>1, <2>2 DEF MappedBy
<1>3. ASSUME NEW a \in DOMAIN lv, NEW c \in DOMAIN lv, a # c
      PROVE  Span(a, lv[a]) \cap Span(c, lv[c]) = {}
  <2>1. PICK r \in DOMAIN pa :
                /\ a \in DOMAIN Held(pa, st, r)
                /\ r \in Nat /\ a \in Nat /\ Size(pa[r]) \in Nat
                /\ Held(pa, st, r)[a] \in Nat \ {0} /\ lv[a] \in Nat
                /\ lv[a] <= Held(pa, st, r)[a]
                /\ r <= a /\ a + Held(pa, st, r)[a] <= r + Size(pa[r])
    BY <1>1
  <2>2. PICK q \in DOMAIN pa :
                /\ c \in DOMAIN Held(pa, st, q)
                /\ q \in Nat /\ c \in Nat /\ Size(pa[q]) \in Nat
                /\ Held(pa, st, q)[c] \in Nat \ {0} /\ lv[c] \in Nat
                /\ lv[c] <= Held(pa, st, q)[c]
                /\ q <= c /\ c + Held(pa, st, q)[c] <= q + Size(pa[q])
    BY <1>1
  <2>3. a + Held(pa, st, r)[a] <= c \/ c + Held(pa, st, q)[c] <= a
    <3>1. CASE r = q
      <4>1. r \in Places /\ pa[r] \in Arenas /\ StrategyOK(r, pa[r], st[r])
        BY DEF Layout, Orderly
      <4>2. r \in Nat \ {0}
        BY <4>1, PlaceFacts
      <4> QED
        BY <1>3, <2>1, <2>2, <3>1, <4>1, <4>2, HeldApart DEF Held
    <3>2. CASE r # q
      <4>1. r + Size(pa[r]) <= q \/ q + Size(pa[q]) <= r
        BY <3>2 DEF Layout
      <4> QED
        BY <2>1, <2>2, <4>1
    <3> QED
      BY <3>1, <3>2
  <2> QED
    BY <2>1, <2>2, <2>3 DEF Span
<1> QED
  BY <1>2, <1>3

\* Reserved space is a set of words, and a new reservation adds its size.
LEMMA MappedCount ==
    ASSUME NEW pa, Layout(pa)
    PROVE  /\ MappedBy(pa) \subseteq 0 .. (MAP_FAILED - 1)
           /\ IsFiniteSet(MappedBy(pa))
           /\ Cardinality(MappedBy(pa)) \in 0 .. MAP_FAILED
<1>1. MAP_FAILED \in Nat
  BY Words DEF MAP_FAILED
<1>2. ASSUME NEW r \in DOMAIN pa
      PROVE  Span(r, Size(pa[r])) \subseteq 0 .. (MAP_FAILED - 1)
  <2>1. /\ r \in Nat /\ Size(pa[r]) \in Nat
        /\ r + Size(pa[r]) < MAP_FAILED
    BY PlaceFacts, ArenaFacts DEF Layout
  <2> QED
    BY <1>1, <2>1 DEF Span
<1>3. MappedBy(pa) \subseteq 0 .. (MAP_FAILED - 1)
  BY <1>2 DEF MappedBy
<1>4. /\ IsFiniteSet(0 .. (MAP_FAILED - 1))
      /\ Cardinality(0 .. (MAP_FAILED - 1)) = MAP_FAILED
  BY <1>1, FS_Interval
<1>5. /\ IsFiniteSet(MappedBy(pa))
      /\ Cardinality(MappedBy(pa)) <= Cardinality(0 .. (MAP_FAILED - 1))
  BY <1>3, <1>4, FS_Subset
<1>6. Cardinality(MappedBy(pa)) \in Nat
  BY <1>5, FS_CardinalityType
<1> QED
  BY <1>1, <1>3, <1>4, <1>5, <1>6

\* total_va_size grows by as much as the reserved space, and does not wrap.
LEMMA MappedGrows ==
    ASSUME NEW pa, Layout(pa), NEW pa2, Layout(pa2), NEW r, NEW i,
           r \notin DOMAIN pa, DOMAIN pa2 = DOMAIN pa \cup {r}, pa2[r] = i,
           \A q \in DOMAIN pa : pa2[q] = pa[q],
           Span(r, Size(i)) \cap MappedBy(pa) = {}
    PROVE  /\ MappedBy(pa2) = MappedBy(pa) \cup Span(r, Size(i))
           /\ Cardinality(MappedBy(pa2)) = Cardinality(MappedBy(pa)) + Size(i)
           /\ Wrap(Cardinality(MappedBy(pa)) + Size(i))
                = Cardinality(MappedBy(pa2))
<1>1. r \in Nat /\ Size(i) \in Nat \ {0}
  BY PlaceFacts, ArenaFacts DEF Layout
<1>2. MappedBy(pa2) = MappedBy(pa) \cup Span(r, Size(i))
  BY DEF MappedBy
<1>3. /\ IsFiniteSet(Span(r, Size(i)))
      /\ Cardinality(Span(r, Size(i))) = Size(i)
  <2> DEFINE last == r + Size(i) - 1
  <2>1. r \in Int /\ last \in Int /\ ~ (r > last) /\ last - r + 1 = Size(i)
    BY <1>1
  <2>2. Span(r, Size(i)) = r .. last
    BY DEF Span
  <2> HIDE DEF last
  <2>3. /\ IsFiniteSet(r .. last)
        /\ Cardinality(r .. last) = IF r > last THEN 0 ELSE last - r + 1
    BY <2>1, FS_Interval
  <2> QED
    BY <2>1, <2>2, <2>3
<1>4. /\ IsFiniteSet(MappedBy(pa)) /\ Cardinality(MappedBy(pa)) \in Nat
      /\ Cardinality(MappedBy(pa2)) \in 0 .. MAP_FAILED
  BY MappedCount
<1>5. Cardinality({}) = 0
  BY FS_EmptySet
<1>6. Cardinality(MappedBy(pa2)) = Cardinality(MappedBy(pa)) + Size(i)
  <2> DEFINE M == MappedBy(pa)
             S == Span(r, Size(i))
  <2>1. Cardinality(M \cap S) = 0
    BY <1>5
  <2>2. IsFiniteSet(M) /\ IsFiniteSet(S) /\ Cardinality(S) = Size(i)
    BY <1>3, <1>4
  <2>3. Cardinality(M) \in Nat /\ Size(i) \in Nat /\ MappedBy(pa2) = M \cup S
    BY <1>1, <1>2, <1>4
  <2> HIDE DEF M, S
  <2>4. Cardinality(M \cup S) = Cardinality(M) + Cardinality(S)
                                  - Cardinality(M \cap S)
    BY <2>2, FS_Union
  <2>5. Cardinality(MappedBy(pa2)) = Cardinality(M) + Size(i)
    BY <2>1, <2>2, <2>3, <2>4
  <2> QED
    BY <2>5 DEF M
<1>7. Cardinality(MappedBy(pa2)) \in Nat /\ Cardinality(MappedBy(pa2)) < 2 ^ Width
  <2>1. 2 ^ Width \in Nat /\ MAP_FAILED = 2 ^ Width - 1
    BY Words DEF MAP_FAILED
  <2> QED
    BY <1>4, <2>1
<1>8. Wrap(Cardinality(MappedBy(pa2))) = Cardinality(MappedBy(pa2))
  BY <1>7, WrapFits
<1> QED
  BY <1>2, <1>6, <1>8

\* The class of a size: the first arena that takes it.
LEMMA ClassOf ==
    ASSUME NEW size \in Requests
    PROVE  LET c == get_arena_idx_for_size(size) IN
           /\ size \in Nat /\ c \in Arenas /\ size <= block_size(c)
           /\ \A i \in Arenas :
                 i < c => size > arena_info_table[i].max_per_alloc_size
<1> DEFINE S == {i \in Arenas : arena_info_table[i].max_per_alloc_size >= size}
           c == get_arena_idx_for_size(size)
<1>1. /\ S \subseteq Nat /\ S # {} /\ size \in Nat /\ Arenas \subseteq Nat
      /\ \A i \in Arenas : arena_info_table[i].max_per_alloc_size \in Nat
  BY TableAssumption, RequestsAreNumbers
<1>2. c = Least(S)
  BY DEF get_arena_idx_for_size
<1> HIDE DEF S, c
<1>3. c \in S /\ \A i \in S : c <= i
  BY <1>1, <1>2, LeastInSet
<1>4. c \in Arenas /\ size <= block_size(c)
  BY <1>1, <1>3 DEF S, block_size
<1>5. ASSUME NEW i \in Arenas, i < c
      PROVE  size > arena_info_table[i].max_per_alloc_size
  <2>1. i \notin S
    BY <1>1, <1>3, <1>4, <1>5
  <2> QED
    BY <1>1, <2>1 DEF S
<1> QED
  BY <1>1, <1>4, <1>5 DEF c

\* The list holds the reservations of arena i, each once.
ListOf(list, pa, i) ==
    /\ \A r : r \in DOMAIN pa /\ pa[r] = i <=> \E n \in DOMAIN list : list[n] = r
    /\ \A m, n \in DOMAIN list : list[m] = list[n] => m = n

\* out is the list with r before all others.
Precedes(r, list, out, S) ==
    /\ out \in Seq(S)
    /\ DOMAIN list = 1 .. Len(list) /\ Len(list) \in Nat
    /\ DOMAIN out = 1 .. (Len(list) + 1) /\ out[1] = r
    /\ \A n \in 1 .. Len(list) : out[n + 1] = list[n]

\* Putting r at the head of a list gives such a list.
LEMMA EnlistFields ==
    ASSUME NEW S, NEW r \in S, NEW list \in Seq(S)
    PROVE  Precedes(r, list, Enlist(list, r), S)
<1>1. <<r>> \in Seq(S) /\ Len(<<r>>) = 1 /\ <<r>>[1] = r
  OBVIOUS
<1>2. Len(list) \in Nat /\ DOMAIN list = 1 .. Len(list)
  BY LenProperties
<1>3. /\ <<r>> \o list \in Seq(S)
      /\ Len(<<r>> \o list) = Len(<<r>>) + Len(list)
      /\ \A n \in 1 .. Len(<<r>>) + Len(list) : (<<r>> \o list)[n] =
            IF n <= Len(<<r>>) THEN <<r>>[n] ELSE list[n - Len(<<r>>)]
  BY <1>1, ConcatProperties
<1>4. DOMAIN (<<r>> \o list) = 1 .. Len(<<r>> \o list)
  BY <1>3, LenProperties
<1> DEFINE out == <<r>> \o list
           one == <<r>>
<1>5. /\ DOMAIN out = 1 .. (Len(list) + 1)
      /\ \A n \in 1 .. (Len(list) + 1) :
            out[n] = IF n <= 1 THEN one[n] ELSE list[n - 1]
  <2> HIDE DEF out, one
  <2>1. /\ Len(out) = 1 + Len(list) /\ DOMAIN out = 1 .. Len(out)
        /\ \A n \in 1 .. 1 + Len(list) : out[n] =
              IF n <= 1 THEN one[n] ELSE list[n - 1]
    BY <1>1, <1>3, <1>4 DEF out, one
  <2>2. 1 + Len(list) = Len(list) + 1
    BY <1>2
  <2> QED
    BY <2>1, <2>2
<1>6. one[1] = r
  BY <1>1
<1> HIDE DEF one
<1>7. out[1] = r /\ \A n \in 1 .. Len(list) : out[n + 1] = list[n]
  <2> HIDE DEF out
  <2>1. out[1] = r
    BY <1>2, <1>5, <1>6
  <2>2. ASSUME NEW n \in 1 .. Len(list) PROVE out[n + 1] = list[n]
    <3>1. n + 1 \in 1 .. (Len(list) + 1) /\ ~ (n + 1 <= 1) /\ n + 1 - 1 = n
      BY <1>2
    <3> QED
      BY <1>5, <3>1
  <2> QED
    BY <2>1, <2>2
<1> QED
  BY <1>2, <1>3, <1>5, <1>7 DEF Enlist, Precedes

\* create_reservation puts the new reservation into the list of its arena once.
LEMMA EnlistKeeps ==
    ASSUME NEW pa, NEW pa2, NEW r, NEW i, NEW list \in Seq(DOMAIN pa),
           ListOf(list, pa, i), r \notin DOMAIN pa,
           DOMAIN pa2 = DOMAIN pa \cup {r}, pa2[r] = i,
           \A q \in DOMAIN pa : pa2[q] = pa[q]
    PROVE  Enlist(list, r) \in Seq(DOMAIN pa2) /\ ListOf(Enlist(list, r), pa2, i)
<1> DEFINE out == Enlist(list, r)
           len == Len(list)
<1>1. list \in Seq(DOMAIN pa2) /\ r \in DOMAIN pa2
  OBVIOUS
<1>2. /\ out \in Seq(DOMAIN pa2) /\ DOMAIN list = 1 .. len /\ len \in Nat
      /\ DOMAIN out = 1 .. (len + 1) /\ out[1] = r
      /\ \A n \in 1 .. len : out[n + 1] = list[n]
  <2>1. Precedes(r, list, out, DOMAIN pa2)
    BY <1>1, EnlistFields
  <2> QED
    BY <2>1 DEF Precedes
<1> HIDE DEF out, len
<1>3. ASSUME NEW n \in DOMAIN out
      PROVE  \/ n = 1 /\ out[n] = r
             \/ /\ n - 1 \in DOMAIN list /\ out[n] = list[n - 1]
                /\ out[n] \in DOMAIN pa /\ out[n] # r
  <2>1. n \in Nat /\ 1 <= n /\ n <= len + 1
    BY <1>2
  <2>2. CASE n = 1
    BY <1>2, <2>2
  <2>3. CASE n # 1
    <3>1. n - 1 \in 1 .. len /\ (n - 1) + 1 = n
      BY <1>2, <2>1, <2>3
    <3>2. out[n] = list[n - 1] /\ n - 1 \in DOMAIN list
      BY <1>2, <3>1
    <3>3. out[n] \in DOMAIN pa
      BY <3>2 DEF ListOf
    <3> QED
      BY <3>2, <3>3
  <2> QED
    BY <2>2, <2>3
<1>4. \A m \in DOMAIN list : m + 1 \in DOMAIN out /\ out[m + 1] = list[m]
  BY <1>2
<1>5. 1 \in DOMAIN out
  BY <1>2
<1>6. ASSUME NEW q
      PROVE  q \in DOMAIN pa2 /\ pa2[q] = i <=> \E n \in DOMAIN out : out[n] = q
  <2>1. q \in DOMAIN pa /\ pa[q] = i <=> \E n \in DOMAIN list : list[n] = q
    BY DEF ListOf
  <2>2. CASE q = r
    BY <1>2, <1>5, <2>2
  <2>3. CASE q # r
    <3>1. q \in DOMAIN pa2 /\ pa2[q] = i <=> q \in DOMAIN pa /\ pa[q] = i
      BY <2>3
    <3>2. (\E n \in DOMAIN out : out[n] = q) <=> \E n \in DOMAIN list : list[n] = q
      BY <1>3, <1>4, <2>3
    <3> QED
      BY <2>1, <3>1, <3>2
  <2> QED
    BY <2>2, <2>3
<1>7. ASSUME NEW m \in DOMAIN out, NEW n \in DOMAIN out, out[m] = out[n]
      PROVE  m = n
  <2>1. m \in Nat /\ n \in Nat
    BY <1>2
  <2>2. CASE m = 1 \/ n = 1
    BY <1>3, <1>7, <2>2
  <2>3. CASE m # 1 /\ n # 1
    <3>1. /\ m - 1 \in DOMAIN list /\ n - 1 \in DOMAIN list
          /\ list[m - 1] = list[n - 1]
      BY <1>3, <1>7, <2>3
    <3>2. m - 1 = n - 1
      BY <3>1 DEF ListOf
    <3> QED
      BY <2>1, <3>2
  <2> QED
    BY <2>2, <2>3
<1> QED
  BY <1>2, <1>6, <1>7 DEF ListOf, out

\* The lists of the other arenas stay as they are.
LEMMA OtherLists ==
    ASSUME NEW pa, NEW pa2, NEW r, NEW i, NEW j, j # i, NEW list \in Seq(DOMAIN pa),
           ListOf(list, pa, j), r \notin DOMAIN pa,
           DOMAIN pa2 = DOMAIN pa \cup {r}, pa2[r] = i,
           \A q \in DOMAIN pa : pa2[q] = pa[q]
    PROVE  list \in Seq(DOMAIN pa2) /\ ListOf(list, pa2, j)
<1>1. list \in Seq(DOMAIN pa2)
  OBVIOUS
<1>2. \A q : q \in DOMAIN pa2 /\ pa2[q] = j <=> q \in DOMAIN pa /\ pa[q] = j
  OBVIOUS
<1> QED
  BY <1>1, <1>2 DEF ListOf

----------------------------------------------------------------------------
(***************************************************************************)
(* The invariant.                                                          *)
(***************************************************************************)

\* Every mmap succeeds, nobody frees an address inside a slab block, and no
\* object allocator is asked for nothing or for more than its tree can search.
OrdinaryUse ==
    /\ Faults \cap {"mmap", "inner free"} = {}
    /\ \A size \in Requests :
          \/ is_slab(get_arena_idx_for_size(size))
          \/ size # 0 /\ FitsKey(size)

\* The lists and the tracker know the same reservations.
Listed(lists, pa) ==
    \A i \in Arenas : lists[i] \in Seq(DOMAIN pa) /\ ListOf(lists[i], pa, i)

Registered(pa, tracker) ==
    DOMAIN tracker = DOMAIN pa /\ \A r \in DOMAIN pa : tracker[r] = Size(pa[r])

Counted(pa, st) == \A r \in DOMAIN pa : Counts(pa[r], st[r])

\* So far callers freed what they hold, and nothing else.
FreesAreHeld == faulted \cap {"stray free", "inner free"} = {}

\* What holds of the reservations and of the blocks in them.
SpaceInv ==
    /\ Layout(parent_arena) /\ DOMAIN strategy = DOMAIN parent_arena
    /\ Orderly(parent_arena, strategy) /\ Backed(parent_arena, strategy, live)
    /\ FreesAreHeld => Counted(parent_arena, strategy)

\* What holds of the ways to find them.
BooksInv ==
    /\ DOMAIN arenas = Arenas /\ arenas = [i \in Arenas |-> arenas[i]]
    /\ Listed(arenas, parent_arena) /\ Registered(parent_arena, res_tracker)
    /\ total = Cardinality(MappedBy(parent_arena))

RestInv ==
    /\ impl \in {"none", "ready", "destroyed", "aborted"}
    /\ used \in 0 .. MAP_FAILED /\ faulted \subseteq Faults

IInv == SpaceInv /\ BooksInv /\ RestInv

\* An allocator without reservations.
LEMMA NothingThere ==
    ASSUME NEW pa, NEW st, NEW lv, NEW tracker, NEW lists,
           pa = NoneYet, st = NoneYet, lv = NoneYet, tracker = NoneYet,
           lists = [i \in Arenas |-> <<>>]
    PROVE  /\ Layout(pa) /\ DOMAIN st = DOMAIN pa /\ Orderly(pa, st)
           /\ Backed(pa, st, lv) /\ Counted(pa, st)
           /\ DOMAIN lists = Arenas /\ lists = [i \in Arenas |-> lists[i]]
           /\ Listed(lists, pa) /\ Registered(pa, tracker)
           /\ MappedBy(pa) = {} /\ Cardinality(MappedBy(pa)) = 0
<1>1. DOMAIN pa = {} /\ DOMAIN st = {} /\ DOMAIN lv = {} /\ DOMAIN tracker = {}
  BY DEF NoneYet
<1>2. lv = [a \in DOMAIN lv |-> lv[a]]
  BY DEF NoneYet
<1>3. Layout(pa) /\ Orderly(pa, st) /\ Counted(pa, st) /\ Registered(pa, tracker)
  BY <1>1 DEF Layout, Orderly, Counted, Registered
<1>4. Backed(pa, st, lv)
  BY <1>1, <1>2 DEF Backed
<1>5. MappedBy(pa) = {}
  BY <1>1 DEF MappedBy
<1>6. Cardinality(MappedBy(pa)) = 0
  BY <1>5, FS_EmptySet
<1>7. \A i \in Arenas : lists[i] = <<>>
  OBVIOUS
<1>8. <<>> \in Seq(DOMAIN pa) /\ DOMAIN <<>> = {}
  OBVIOUS
<1>9. \A i \in Arenas : lists[i] \in Seq(DOMAIN pa) /\ ListOf(lists[i], pa, i)
  BY <1>1, <1>7, <1>8 DEF ListOf
<1>10. DOMAIN lists = Arenas /\ lists = [i \in Arenas |-> lists[i]]
  OBVIOUS
<1> QED
  BY <1>1, <1>3, <1>4, <1>5, <1>6, <1>9, <1>10 DEF Listed

\* Before init there is nothing that could be out of order.
LEMMA IInvInit == Init => IInv
<1> SUFFICES ASSUME Init PROVE IInv
  OBVIOUS
<1>1. /\ parent_arena = NoneYet /\ strategy = NoneYet /\ live = NoneYet
      /\ res_tracker = NoneYet /\ arenas = [i \in Arenas |-> <<>>]
  BY DEF Init
<1>2. SpaceInv
  BY <1>1, NothingThere DEF SpaceInv
<1>3. total = 0 /\ used = 0 /\ faulted = {} /\ impl = "none"
  BY DEF Init
<1>4. BooksInv
  BY <1>1, <1>3, NothingThere DEF BooksInv
<1>5. MAP_FAILED \in Nat
  BY Words DEF MAP_FAILED
<1>6. RestInv
  BY <1>3, <1>5 DEF RestInv
<1> QED
  BY <1>2, <1>4, <1>6 DEF IInv

\* Nor is there after destroy or a failed assertion.
LEMMA AllGoneInv ==
    ASSUME AllGone, impl' \in {"destroyed", "aborted"}, faulted' \subseteq Faults
    PROVE  IInv'
<1>1. /\ parent_arena' = NoneYet /\ strategy' = NoneYet /\ live' = NoneYet
      /\ res_tracker' = NoneYet /\ arenas' = [i \in Arenas |-> <<>>]
      /\ total' = 0 /\ used' = 0
  BY DEF AllGone
<1>2. SpaceInv'
  BY <1>1, NothingThere DEF SpaceInv
<1>3. BooksInv'
  BY <1>1, NothingThere DEF BooksInv
<1>4. MAP_FAILED \in Nat
  BY Words DEF MAP_FAILED
<1>5. RestInv'
  BY <1>1, <1>4 DEF RestInv
<1> QED
  BY <1>2, <1>3, <1>5 DEF IInv

\* The counter of used bytes stays a word.
LEMMA HandWord ==
    ASSUME NEW addr, NEW size \in Nat, used \in 0 .. MAP_FAILED, Hand(addr, size)
    PROVE  used' \in 0 .. MAP_FAILED
<1>1. used + size \in Int
  OBVIOUS
<1> QED
  BY <1>1, WrapType DEF Hand

\* A reservation that was passed over although it serves tells of a calloc.
LEMMA PassedOver ==
    ASSUME NEW r, NEW i, NEW s, NEW size, MayRefuse(r, i, s, size),
           is_slab(i) \/ FitsKey(size),
           allocate_from_reservation(r, i, s, size) # {}
    PROVE  "calloc" \in Faults
BY DEF MayRefuse

\* va_alloc from a reservation in the list gives away a block nobody held.
LEMMA AllocFromListedInv ==
    ASSUME OrdinaryUse, IInv, NEW size \in Requests, AllocFromListed(size)
    PROVE  /\ IInv'
           /\ UNCHANGED parent_arena
           /\ \E addr : addr \notin DOMAIN live /\ Given(live, live', addr, size)
<1> DEFINE i == get_arena_idx_for_size(size)
           list == arenas[i]
<1>1. PICK n \in DOMAIN list :
         /\ \A m \in 1 .. (n - 1) :
               MayRefuse(list[m], i, strategy[list[m]], size)
         /\ \E got \in allocate_from_reservation(list[n], i,
                                                 strategy[list[n]], size) :
               /\ strategy' = [strategy EXCEPT ![list[n]] = got.strategy]
               /\ Hand(got.addr, size)
         /\ Note(\E m \in 1 .. (n - 1) : Serves(list[m], i, size))
  BY DEF AllocFromListed
<1> DEFINE r == list[n]
<1>2. PICK got \in allocate_from_reservation(r, i, strategy[r], size) :
         /\ strategy' = [strategy EXCEPT ![r] = got.strategy]
         /\ Hand(got.addr, size)
  BY <1>1
<1>3. UNCHANGED <<impl, arenas, parent_arena, res_tracker, total>>
  BY DEF AllocFromListed
<1>4. i \in Arenas /\ size \in Nat /\ size <= block_size(i)
  BY ClassOf
<1>5. is_slab(i) \/ (size # 0 /\ FitsKey(size))
  BY <1>4 DEF OrdinaryUse
<1>6. r \in DOMAIN parent_arena /\ parent_arena[r] = i
  BY <1>4 DEF IInv, BooksInv, Listed, ListOf
<1>7. faulted' \subseteq Faults /\ (FreesAreHeld' => FreesAreHeld)
  <2>1. faulted \subseteq Faults
    BY DEF IInv, RestInv
  <2>2. CASE \E m \in 1 .. (n - 1) : Serves(list[m], i, size)
    <3>1. "calloc" \in Faults
      BY <1>1, <1>5, <2>2, PassedOver DEF Serves
    <3> QED
      BY <1>1, <2>1, <2>2, <3>1 DEF Note, FreesAreHeld
  <2>3. CASE ~ \E m \in 1 .. (n - 1) : Serves(list[m], i, size)
    BY <1>1, <2>1, <2>3 DEF Note, FreesAreHeld
  <2> QED
    BY <2>2, <2>3
<1> HIDE DEF i, r, list
<1>8. /\ Layout(parent_arena) /\ DOMAIN strategy = DOMAIN parent_arena
      /\ Orderly(parent_arena, strategy) /\ Backed(parent_arena, strategy, live)
      /\ FreesAreHeld => Counted(parent_arena, strategy)
  BY DEF IInv, SpaceInv
<1>9. r \in Places /\ StrategyOK(r, i, strategy[r])
  BY <1>6, <1>8 DEF Layout, Orderly
<1>10. /\ StrategyOK(r, i, got.strategy)
       /\ Counts(i, strategy[r]) => Counts(i, got.strategy)
       /\ \E k \in Nat : /\ Fits(i, size, k) /\ size <= k
                         /\ Gains(HeldIn(r, i, strategy[r]),
                                  HeldIn(r, i, got.strategy), got.addr, k)
  BY <1>4, <1>5, <1>9, AllocKeeps
<1>11. /\ strategy'[r] = got.strategy /\ DOMAIN strategy' = DOMAIN strategy
       /\ OnlyAt(r, parent_arena, strategy, strategy')
  BY <1>2, <1>6, <1>8 DEF OnlyAt
<1>12. PICK k \in Nat : /\ Fits(i, size, k) /\ size <= k
                        /\ Gains(HeldIn(r, i, strategy[r]),
                                 HeldIn(r, i, strategy'[r]), got.addr, k)
  BY <1>10, <1>11
<1>13. Answers(parent_arena[r], size, k)
  BY <1>6, <1>12 DEF Answers, i
<1>14. Given(live, live', got.addr, size)
  BY <1>2 DEF Hand, Given
<1>15. /\ Orderly(parent_arena, strategy') /\ Backed(parent_arena, strategy', live')
       /\ got.addr \notin DOMAIN live
  <2>1. StrategyOK(r, parent_arena[r], strategy'[r])
    BY <1>6, <1>10, <1>11
  <2>2. Gains(HeldIn(r, parent_arena[r], strategy[r]),
              HeldIn(r, parent_arena[r], strategy'[r]), got.addr, k)
    BY <1>6, <1>12
  <2> QED
    BY <1>6, <1>8, <1>11, <1>13, <1>14, <2>1, <2>2, GainKeeps
<1>16. FreesAreHeld' => Counted(parent_arena, strategy')
  BY <1>6, <1>7, <1>8, <1>10, <1>11 DEF Counted, OnlyAt
<1>17. SpaceInv'
  BY <1>3, <1>8, <1>11, <1>15, <1>16 DEF SpaceInv
<1>18. BooksInv'
  BY <1>3 DEF IInv, BooksInv
<1>19. RestInv'
  BY <1>2, <1>3, <1>4, <1>7, HandWord DEF IInv, RestInv
<1> QED
  BY <1>3, <1>14, <1>15, <1>17, <1>18, <1>19 DEF IInv

\* Joined puts r among the others.
JoinsAt(r, f, g, v) ==
    /\ DOMAIN g = DOMAIN f \cup {r} /\ g[r] = v
    /\ \A q \in DOMAIN f : q # r => g[q] = f[q]

\* The operator Joined does so.
LEMMA JoinedFields ==
    ASSUME NEW f, NEW r, NEW v
    PROVE  JoinsAt(r, f, Joined(f, r, v), v)
BY DEF Joined, JoinsAt

\* As long as no mmap failed, every reservation is mapped.
LEMMA MappedIs ==
    ASSUME Layout(parent_arena)
    PROVE  Mapped = MappedBy(parent_arena)
<1>1. ASSUME NEW q \in Reservations PROVE q # MAP_FAILED
  <2>1. q \in Places /\ parent_arena[q] \in Arenas
    BY DEF Layout, Reservations
  <2> QED
    BY <2>1, PlaceFacts
<1>2. Reservations \ {MAP_FAILED} = DOMAIN parent_arena
  BY <1>1 DEF Reservations
<1> QED
  BY <1>2 DEF Mapped, MappedBy

\* mmap gives a place that is apart from all reservations.
LEMMA ReservedApart ==
    ASSUME OrdinaryUse, Layout(parent_arena), NEW i \in Arenas,
           NEW r \in RESERVE_VA(Size(i))
    PROVE  /\ r \in Places /\ r \notin Reservations
           /\ Span(r, Size(i)) \cap MappedBy(parent_arena) = {}
<1>1. r \in Places /\ Span(r, Size(i)) \cap Mapped = {}
  BY DEF OrdinaryUse, RESERVE_VA
<1>2. \A q \in Reservations : q \in Places /\ parent_arena[q] \in Arenas
  BY DEF Layout, Reservations
<1>3. Mapped = MappedBy(parent_arena)
  BY MappedIs
<1>4. r \notin Reservations
  <2> SUFFICES ASSUME r \in Reservations PROVE FALSE
    OBVIOUS
  <2>1. r \in Nat /\ Size(i) \in Nat \ {0} /\ Size(parent_arena[r]) \in Nat \ {0}
    BY <1>2, PlaceFacts, ArenaFacts
  <2>2. r \in Span(r, Size(i)) /\ r \in Span(r, Size(parent_arena[r]))
    BY <2>1 DEF Span
  <2> QED
    BY <1>1, <1>3, <2>2 DEF MappedBy, Reservations
<1> QED
  BY <1>1, <1>3, <1>4

\* The reservation that is entered everywhere.
Entered(r, i) ==
    /\ r \in Places /\ r \notin DOMAIN parent_arena
    /\ Span(r, Size(i)) \cap MappedBy(parent_arena) = {}
    /\ DOMAIN parent_arena' = DOMAIN parent_arena \cup {r}
    /\ parent_arena'[r] = i
    /\ \A q \in DOMAIN parent_arena : parent_arena'[q] = parent_arena[q]

\* create_reservation enters it in list, tracker and total alike.
LEMMA EnteredBooks ==
    ASSUME BooksInv, Layout(parent_arena), Layout(parent_arena'),
           NEW size, NEW i \in Arenas, NEW r, Entered(r, i),
           create_reservation(r, i, size)
    PROVE  BooksInv'
<1>1. /\ arenas' = [arenas EXCEPT ![i] = Enlist(arenas[i], r)]
      /\ res_tracker' = Joined(res_tracker, r, Size(i))
      /\ total' = Wrap(total + Size(i))
  BY DEF create_reservation
<1>2. /\ DOMAIN arenas = Arenas /\ arenas = [j \in Arenas |-> arenas[j]]
      /\ Listed(arenas, parent_arena) /\ Registered(parent_arena, res_tracker)
      /\ total = Cardinality(MappedBy(parent_arena))
  BY DEF BooksInv
<1>3. /\ r \notin DOMAIN parent_arena /\ parent_arena'[r] = i
      /\ DOMAIN parent_arena' = DOMAIN parent_arena \cup {r}
      /\ \A q \in DOMAIN parent_arena : parent_arena'[q] = parent_arena[q]
      /\ Span(r, Size(i)) \cap MappedBy(parent_arena) = {}
  BY DEF Entered
<1>4. /\ DOMAIN arenas' = Arenas /\ arenas' = [j \in Arenas |-> arenas'[j]]
      /\ arenas'[i] = Enlist(arenas[i], r)
      /\ \A j \in Arenas : j # i => arenas'[j] = arenas[j]
  BY <1>1, <1>2
<1>5. \A j \in Arenas : /\ arenas[j] \in Seq(DOMAIN parent_arena)
                        /\ ListOf(arenas[j], parent_arena, j)
  BY <1>2 DEF Listed
<1>6. /\ Enlist(arenas[i], r) \in Seq(DOMAIN parent_arena')
      /\ ListOf(Enlist(arenas[i], r), parent_arena', i)
  BY <1>3, <1>5, EnlistKeeps
<1>7. ASSUME NEW j \in Arenas, j # i
      PROVE  /\ arenas[j] \in Seq(DOMAIN parent_arena')
             /\ ListOf(arenas[j], parent_arena', j)
  BY <1>3, <1>5, <1>7, OtherLists
<1>8. Listed(arenas', parent_arena')
  BY <1>4, <1>6, <1>7 DEF Listed
<1>9. Registered(parent_arena', res_tracker')
  <2>1. r \notin DOMAIN res_tracker /\ DOMAIN res_tracker = DOMAIN parent_arena
    BY <1>2, <1>3 DEF Registered
  <2>2. /\ DOMAIN res_tracker' = DOMAIN parent_arena \cup {r}
        /\ res_tracker'[r] = Size(i)
        /\ \A q \in DOMAIN parent_arena : res_tracker'[q] = res_tracker[q]
    <3>1. JoinsAt(r, res_tracker, res_tracker', Size(i))
      BY <1>1, JoinedFields
    <3> QED
      BY <2>1, <3>1 DEF JoinsAt
  <2> QED
    BY <1>2, <1>3, <2>2 DEF Registered
<1>10. total' = Cardinality(MappedBy(parent_arena'))
  <2>1. Wrap(Cardinality(MappedBy(parent_arena)) + Size(i))
           = Cardinality(MappedBy(parent_arena'))
    BY <1>3, MappedGrows
  <2> QED
    BY <1>1, <1>2, <2>1
<1> QED
  BY <1>4, <1>8, <1>9, <1>10 DEF BooksInv

\* va_alloc that makes a reservation, whether this serves or not.
LEMMA AllocFromNewInv ==
    ASSUME OrdinaryUse, IInv, NEW size \in Requests, AllocFromNew(size)
    PROVE  /\ IInv'
           /\ MappedBy(parent_arena) \subseteq MappedBy(parent_arena')
           /\ \/ live' = live
              \/ \E addr : addr \notin DOMAIN live /\ Given(live, live', addr, size)
           /\ \E r : Entered(r, get_arena_idx_for_size(size))
<1> DEFINE i == get_arena_idx_for_size(size)
<1>1. /\ Layout(parent_arena) /\ DOMAIN strategy = DOMAIN parent_arena
      /\ Orderly(parent_arena, strategy) /\ Backed(parent_arena, strategy, live)
      /\ FreesAreHeld => Counted(parent_arena, strategy)
  BY DEF IInv, SpaceInv
<1>2. i \in Arenas /\ size \in Nat /\ size <= block_size(i)
  BY ClassOf
<1>3. is_slab(i) \/ (size # 0 /\ FitsKey(size))
  BY <1>2 DEF OrdinaryUse
<1>4. PICK r \in RESERVE_VA(Size(i)) :
         IF r \in DOMAIN res_tracker
         THEN impl' = "aborted" /\ AllGone /\ UNCHANGED faulted
         ELSE /\ create_reservation(r, i, size)
              /\ ServeFromNew(r, initialize_strategy(r, i), size)
              /\ UNCHANGED impl
  BY DEF AllocFromNew
<1>5. /\ r \in Places /\ r \notin DOMAIN parent_arena
      /\ Span(r, Size(i)) \cap MappedBy(parent_arena) = {}
  BY <1>1, <1>2, ReservedApart DEF Reservations
<1>6. r \notin DOMAIN res_tracker
  BY <1>5 DEF IInv, BooksInv, Registered
<1>7. /\ create_reservation(r, i, size)
      /\ ServeFromNew(r, initialize_strategy(r, i), size)
      /\ UNCHANGED impl
  BY <1>4, <1>6
<1>8. JoinsAt(r, parent_arena, parent_arena', i)
  BY <1>7, JoinedFields DEF create_reservation
<1>9. Entered(r, i)
  BY <1>5, <1>8 DEF Entered, JoinsAt
<1> DEFINE fresh == initialize_strategy(r, i)
           st1   == Joined(strategy, r, fresh)
           passed == \E n \in DOMAIN arenas[i] : Serves(arenas[i][n], i, size)
           gives  == allocate_from_reservation(r, i, fresh, size)
<1>10. \/ \E got \in gives : /\ strategy' = Joined(strategy, r, got.strategy)
                             /\ Hand(got.addr, size)
                             /\ Note(passed)
       \/ /\ MayRefuse(r, i, fresh, size)
          /\ strategy' = Joined(strategy, r, fresh)
          /\ Note(passed \/ gives # {})
          /\ UNCHANGED <<used, live>>
  BY <1>7 DEF ServeFromNew
<1>11. /\ \A n \in DOMAIN arenas[i] :
             MayRefuse(arenas[i][n], i, strategy[arenas[i][n]], size)
  BY DEF AllocFromNew, ListExhausted
<1>12. passed => "calloc" \in Faults
  BY <1>3, <1>11, PassedOver DEF Serves
<1>13. faulted \subseteq Faults /\ used \in 0 .. MAP_FAILED /\ BooksInv
  BY DEF IInv, RestInv
<1> HIDE DEF i, passed, gives
<1>14. JoinsAt(r, strategy, st1, fresh)
  BY JoinedFields
<1>15. /\ OnlyAt(r, parent_arena, parent_arena, parent_arena')
       /\ OnlyAt(r, parent_arena, strategy, st1)
       /\ DOMAIN parent_arena' = DOMAIN parent_arena \cup {r}
       /\ parent_arena'[r] = i /\ st1[r] = fresh
       /\ DOMAIN st1 = DOMAIN parent_arena'
  BY <1>1, <1>8, <1>14 DEF OnlyAt, JoinsAt
<1> HIDE DEF st1, fresh
<1>16. /\ Layout(parent_arena') /\ Orderly(parent_arena', st1)
       /\ Backed(parent_arena', st1, live)
  BY <1>1, <1>2, <1>5, <1>15, JoinKeeps DEF fresh
<1>17. StrategyOK(r, i, fresh) /\ Counts(i, fresh)
  BY <1>2, <1>5, FreshReservation DEF fresh
<1>18. MappedBy(parent_arena) \subseteq MappedBy(parent_arena')
  <2>1. \A q \in DOMAIN parent_arena : /\ q \in DOMAIN parent_arena'
                                        /\ parent_arena'[q] = parent_arena[q]
    BY <1>5, <1>8 DEF JoinsAt
  <2> QED
    BY <2>1 DEF MappedBy
<1>19. BooksInv'
  BY <1>1, <1>2, <1>7, <1>9, <1>13, <1>16, EnteredBooks
<1>20. Counted(parent_arena, strategy) /\ Counts(i, strategy'[r])
       /\ JoinsAt(r, strategy, strategy', strategy'[r])
          => Counted(parent_arena', strategy')
  BY <1>1, <1>5, <1>15 DEF Counted, JoinsAt, OnlyAt
<1>21. CASE \E got \in gives : /\ strategy' = Joined(strategy, r, got.strategy)
                               /\ Hand(got.addr, size)
                               /\ Note(passed)
  <2>1. PICK got \in gives : /\ strategy' = Joined(strategy, r, got.strategy)
                             /\ Hand(got.addr, size)
                             /\ Note(passed)
    BY <1>21
  <2>2. /\ StrategyOK(r, i, got.strategy)
        /\ Counts(i, fresh) => Counts(i, got.strategy)
        /\ \E k \in Nat : /\ Fits(i, size, k) /\ size <= k
                          /\ Gains(HeldIn(r, i, fresh),
                                   HeldIn(r, i, got.strategy), got.addr, k)
    BY <1>2, <1>3, <1>5, <1>17, AllocKeeps DEF gives
  <2>3. JoinsAt(r, strategy, strategy', got.strategy)
    BY <2>1, JoinedFields
  <2>4. /\ strategy'[r] = got.strategy /\ DOMAIN strategy' = DOMAIN parent_arena'
        /\ OnlyAt(r, parent_arena', st1, strategy')
        /\ JoinsAt(r, strategy, strategy', strategy'[r])
    BY <1>1, <1>14, <1>15, <2>3 DEF JoinsAt, OnlyAt
  <2>5. PICK k \in Nat : /\ Fits(i, size, k) /\ size <= k
                         /\ Gains(HeldIn(r, i, fresh),
                                  HeldIn(r, i, strategy'[r]), got.addr, k)
    BY <2>2, <2>4
  <2>6. /\ r \in DOMAIN parent_arena' /\ parent_arena'[r] = i /\ st1[r] = fresh
        /\ StrategyOK(r, parent_arena'[r], strategy'[r])
        /\ Answers(parent_arena'[r], size, k)
    BY <1>15, <2>2, <2>4, <2>5 DEF Answers, i
  <2>7. Gains(HeldIn(r, parent_arena'[r], st1[r]),
              HeldIn(r, parent_arena'[r], strategy'[r]), got.addr, k)
    BY <2>5, <2>6
  <2>8. Given(live, live', got.addr, size)
    BY <2>1 DEF Hand, Given
  <2>9. /\ Orderly(parent_arena', strategy')
        /\ Backed(parent_arena', strategy', live') /\ got.addr \notin DOMAIN live
    BY <1>16, <2>4, <2>6, <2>7, <2>8, GainKeeps
  <2>10. /\ faulted' \subseteq Faults
         /\ FreesAreHeld' => FreesAreHeld
    BY <1>12, <1>13, <2>1 DEF Note, FreesAreHeld
  <2>11. FreesAreHeld' => Counted(parent_arena', strategy')
    BY <1>1, <1>17, <1>20, <2>2, <2>4, <2>10
  <2>12. SpaceInv'
    BY <1>16, <2>4, <2>9, <2>11 DEF SpaceInv
  <2>13. RestInv'
    BY <1>2, <1>7, <1>13, <2>1, <2>10, HandWord DEF IInv, RestInv
  <2> QED
    BY <1>9, <1>18, <1>19, <2>8, <2>9, <2>12, <2>13 DEF IInv, i
<1>22. CASE /\ MayRefuse(r, i, fresh, size)
            /\ strategy' = Joined(strategy, r, fresh)
            /\ Note(passed \/ gives # {})
            /\ UNCHANGED <<used, live>>
  <2>1. strategy' = st1 /\ used' = used /\ live' = live
    BY <1>22 DEF st1
  <2>2. gives # {} => "calloc" \in Faults
    BY <1>3, <1>22, PassedOver DEF gives
  <2>3. /\ faulted' \subseteq Faults
        /\ FreesAreHeld' => FreesAreHeld
    BY <1>12, <1>13, <1>22, <2>2 DEF Note, FreesAreHeld
  <2>4. FreesAreHeld' => Counted(parent_arena', strategy')
    BY <1>1, <1>14, <1>15, <1>17, <1>20, <2>1, <2>3
  <2>5. SpaceInv'
    BY <1>15, <1>16, <2>1, <2>4 DEF SpaceInv
  <2>6. RestInv'
    BY <1>7, <1>13, <2>1, <2>3 DEF IInv, RestInv
  <2> QED
    BY <1>9, <1>18, <1>19, <2>1, <2>5, <2>6 DEF IInv, i
<1> QED
  BY <1>10, <1>21, <1>22

\* The tracker finds the reservation an address lies in.
LEMMA Found ==
    ASSUME Layout(parent_arena), Registered(parent_arena, res_tracker),
           NEW addr \in Nat, NEW r
    PROVE  r \in FindNode(addr) <=>
              /\ r \in DOMAIN parent_arena
              /\ r <= addr /\ addr < r + Size(parent_arena[r])
<1>1. ASSUME r \in DOMAIN parent_arena
      PROVE  /\ r \in Nat /\ res_tracker[r] = Size(parent_arena[r])
             /\ Wrap(r + res_tracker[r]) = r + Size(parent_arena[r])
  <2>1. /\ r \in Places /\ parent_arena[r] \in Arenas
        /\ res_tracker[r] = Size(parent_arena[r])
    BY <1>1 DEF Layout, Registered
  <2> QED
    BY <2>1, PlaceFacts
<1>2. DOMAIN res_tracker = DOMAIN parent_arena
  BY DEF Registered
<1>3. r \in FindNode(addr) <=>
         r \in DOMAIN res_tracker /\ addr >= r /\ addr < Wrap(r + res_tracker[r])
  BY DEF FindNode
<1>4. CASE r \in DOMAIN parent_arena
  <2>1. addr >= r <=> r <= addr
    BY <1>1, <1>4
  <2> QED
    BY <1>1, <1>2, <1>3, <1>4, <2>1
<1>5. CASE r \notin DOMAIN parent_arena
  BY <1>2, <1>3, <1>5
<1> QED
  BY <1>4, <1>5

\* Frees are of addresses.
LEMMA FreeArgsAreAddresses ==
    ASSUME IInv, NEW addr \in FreeArgs
    PROVE  addr \in Nat
<1>1. CASE addr \in DOMAIN live
  <2>1. /\ Layout(parent_arena) /\ Orderly(parent_arena, strategy)
        /\ Backed(parent_arena, strategy, live)
    BY DEF IInv, SpaceInv
  <2>2. PICK r \in DOMAIN parent_arena :
               addr \in DOMAIN Held(parent_arena, strategy, r)
    BY <1>1, <2>1 DEF Backed
  <2> QED
    BY <2>1, <2>2, HeldOf
<1>2. CASE addr \notin DOMAIN live
  <2>1. PICK p \in Places, i \in Arenas : addr \in Span(p, Size(i))
    BY <1>2 DEF FreeArgs
  <2>2. p \in Nat /\ Size(i) \in Nat
    BY PlaceFacts, ArenaFacts
  <2> QED
    BY <2>1, <2>2 DEF Span
<1> QED
  BY <1>1, <1>2

\* A free of what nobody holds is remembered.
LEMMA NoteFreeFaults ==
    ASSUME OrdinaryUse, NEW addr, faulted \subseteq Faults, CallersFree(addr), NoteFree(addr)
    PROVE  /\ faulted' \subseteq Faults
           /\ FreesAreHeld' => FreesAreHeld
           /\ FreesAreHeld' => addr \in DOMAIN live
BY DEF CallersFree, NoteFree, FaultOf, FreesAreHeld

\* va_free takes back what is held at the address and nothing else.
LEMMA FreeInv ==
    ASSUME OrdinaryUse, IInv, NEW addr \in FreeArgs, arena_free(addr)
    PROVE  /\ IInv' /\ UNCHANGED parent_arena
           /\ GivenBack(live, live', addr)
<1>1. /\ Layout(parent_arena) /\ DOMAIN strategy = DOMAIN parent_arena
      /\ Orderly(parent_arena, strategy) /\ Backed(parent_arena, strategy, live)
      /\ FreesAreHeld => Counted(parent_arena, strategy)
  BY DEF IInv, SpaceInv
<1>2. addr \in Nat
  BY FreeArgsAreAddresses
<1>3. PICK r \in FindNode(addr) :
         /\ strategy' = [strategy EXCEPT ![r] = free_to_strategy(r, addr)]
         /\ used' = Wrap(used + 2 ^ Width - res_tracker[r])
  BY DEF arena_free
<1>4. /\ UNCHANGED <<impl, arenas, parent_arena, res_tracker, total>>
      /\ CallersFree(addr) /\ NoteFree(addr) /\ GivenBack(live, live', addr)
  BY DEF arena_free, GivenBack
<1>5. Registered(parent_arena, res_tracker)
  BY DEF IInv, BooksInv
<1>6. /\ r \in DOMAIN parent_arena /\ r <= addr
      /\ addr < r + Size(parent_arena[r])
  BY <1>1, <1>2, <1>3, <1>5, Found
<1> DEFINE i == parent_arena[r]
           s == strategy[r]
           t == FreeTo(r, i, s, addr)
<1>7. r \in Places /\ i \in Arenas /\ StrategyOK(r, i, s) /\ Size(i) \in Nat
  BY <1>1, <1>6, ArenaFacts DEF Layout, Orderly
<1>8. strategy'[r] = t /\ DOMAIN strategy' = DOMAIN strategy
      /\ OnlyAt(r, parent_arena, strategy, strategy')
  <2>1. free_to_strategy(r, addr) = t
    BY DEF free_to_strategy, FreeTo
  <2> HIDE DEF t
  <2> QED
    BY <1>1, <1>3, <1>6, <2>1 DEF OnlyAt
<1>9. BlockAt(r, i, addr) = addr
  <2>1. CASE addr \in DOMAIN live
    <3>1. PICK q \in DOMAIN parent_arena :
                 addr \in DOMAIN Held(parent_arena, strategy, q)
      BY <1>1, <2>1 DEF Backed
    <3>2. q = r
      BY <1>1, <1>2, <1>6, <3>1, HeldOfOne
    <3>3. addr \in DOMAIN HeldIn(r, i, s)
      BY <3>1, <3>2 DEF Held
    <3> QED
      BY <1>2, <1>6, <1>7, <3>3, FreeKeeps
  <2>2. CASE addr \notin DOMAIN live
    <3>1. FaultOf(addr) # "inner free"
      BY <1>4, <2>2 DEF CallersFree, OrdinaryUse
    <3>2. is_slab(i) => (addr - r) % block_size(i) = 0
      BY <1>3, <3>1 DEF FaultOf
    <3> QED
      BY <1>2, <1>6, <1>7, <3>2, PlaceFacts, StartIsHit
  <2> QED
    BY <2>1, <2>2
<1> HIDE DEF i, s, t
<1>10. /\ StrategyOK(r, i, t)
       /\ Loses(HeldIn(r, i, s), HeldIn(r, i, t), addr)
       /\ Counts(i, s) /\ addr \in DOMAIN HeldIn(r, i, s) => Counts(i, t)
  BY <1>2, <1>6, <1>7, <1>9, FreeKeeps DEF t
<1>11. /\ StrategyOK(r, parent_arena[r], strategy'[r])
       /\ Loses(HeldIn(r, parent_arena[r], strategy[r]),
                HeldIn(r, parent_arena[r], strategy'[r]), addr)
       /\ Counts(i, s) /\ addr \in DOMAIN Held(parent_arena, strategy, r)
             => Counts(parent_arena[r], strategy'[r])
  BY <1>8, <1>10 DEF i, s, Held
<1>12. /\ Orderly(parent_arena, strategy') /\ Backed(parent_arena, strategy', live')
       /\ addr \in DOMAIN live <=> addr \in DOMAIN Held(parent_arena, strategy, r)
  BY <1>1, <1>2, <1>4, <1>6, <1>8, <1>11, LoseKeeps
<1>13. /\ faulted' \subseteq Faults
       /\ FreesAreHeld' => FreesAreHeld
       /\ FreesAreHeld' => addr \in DOMAIN live
  BY <1>4, NoteFreeFaults DEF IInv, RestInv
<1>14. ASSUME FreesAreHeld'
       PROVE  Counted(parent_arena, strategy')
  <2>1. Counted(parent_arena, strategy)
    BY <1>1, <1>13, <1>14
  <2>2. Counts(i, s)
    BY <1>6, <2>1 DEF Counted, i, s
  <2>3. Counts(parent_arena[r], strategy'[r])
    BY <1>11, <1>12, <1>13, <1>14, <2>2
  <2> QED
    BY <1>8, <2>1, <2>3 DEF Counted, OnlyAt
<1>15. SpaceInv'
  BY <1>1, <1>4, <1>8, <1>12, <1>14 DEF SpaceInv
<1>16. BooksInv'
  BY <1>4 DEF IInv, BooksInv
<1>17. used' \in 0 .. MAP_FAILED
  <2>1. used \in Int /\ 2 ^ Width \in Int /\ res_tracker[r] \in Int
    BY <1>5, <1>6, <1>7, Words DEF IInv, RestInv, Registered, i
  <2>2. used + 2 ^ Width - res_tracker[r] \in Int
    BY <2>1
  <2> QED
    BY <1>3, <2>2, WrapType
<1>18. RestInv'
  BY <1>4, <1>13, <1>17 DEF IInv, RestInv
<1> QED
  BY <1>4, <1>15, <1>16, <1>18 DEF IInv

\* va_alloc without memory for a new reservation changes nothing.
LEMMA AllocRefusedInv ==
    ASSUME IInv, NEW size, AllocRefused(size)
    PROVE  IInv' /\ UNCHANGED <<parent_arena, live>>
<1>1. /\ UNCHANGED <<impl, arenas, parent_arena, strategy, res_tracker, total,
                     used, live>>
      /\ faulted' = faulted \cup {"calloc"} /\ "calloc" \in Faults
  BY DEF AllocRefused, Note
<1>2. SpaceInv'
  BY <1>1 DEF IInv, SpaceInv, FreesAreHeld
<1>3. BooksInv'
  BY <1>1 DEF IInv, BooksInv
<1>4. RestInv'
  BY <1>1 DEF IInv, RestInv
<1> QED
  BY <1>1, <1>2, <1>3, <1>4 DEF IInv

\* Every step keeps the invariant.
LEMMA IInvStep == ASSUME OrdinaryUse PROVE IInv /\ [Next]_vars => IInv'
<1> SUFFICES ASSUME IInv, [Next]_vars PROVE IInv'
  OBVIOUS
<1>1. CASE UNCHANGED vars
  BY <1>1 DEF vars, IInv, SpaceInv, FreesAreHeld, BooksInv, RestInv
<1>2. CASE init_arena_allocator
  <2>1. /\ impl' = "ready"
        /\ UNCHANGED <<arenas, parent_arena, strategy, res_tracker, total, used,
                       live, faulted>>
    BY <1>2 DEF init_arena_allocator
  <2> QED
    BY <2>1 DEF IInv, SpaceInv, FreesAreHeld, BooksInv, RestInv
<1>3. ASSUME NEW size \in Requests, arena_alloc(size)
      PROVE  IInv'
  BY <1>3, AllocFromListedInv, AllocFromNewInv, AllocRefusedInv DEF arena_alloc
<1>4. ASSUME NEW addr \in FreeArgs, arena_free(addr)
      PROVE  IInv'
  BY <1>4, FreeInv
<1>5. ASSUME NEW addr \in FreeArgs, FreeAborts(addr)
      PROVE  IInv'
  <2>1. faulted' \subseteq Faults
    BY <1>5, NoteFreeFaults DEF FreeAborts, IInv, RestInv
  <2> QED
    BY <1>5, <2>1, AllGoneInv DEF FreeAborts
<1>6. CASE arena_destroy
  <2>1. faulted' \subseteq Faults
    BY <1>6 DEF arena_destroy, IInv, RestInv
  <2> QED
    BY <1>6, <2>1, AllGoneInv DEF arena_destroy
<1>7. CASE DestroyAborts
  <2>1. faulted' \subseteq Faults
    BY <1>7 DEF DestroyAborts, IInv, RestInv
  <2> QED
    BY <1>7, <2>1, AllGoneInv DEF DestroyAborts
<1> QED
  BY <1>1, <1>2, <1>3, <1>4, <1>5, <1>6, <1>7 DEF Next

\* The invariant holds in every state of every allocator in ordinary use.
THEOREM Invariance == ASSUME OrdinaryUse PROVE Spec => []IInv
<1>1. Init => IInv
  BY IInvInit
<1>2. IInv /\ [Next]_vars => IInv'
  BY IInvStep
<1> QED
  BY <1>1, <1>2, PTL DEF Spec

----------------------------------------------------------------------------
(***************************************************************************)
(* What follows from it.                                                   *)
(***************************************************************************)

\* A well-formed heap is a heap.
LEMMA WellFormedType ==
    ASSUME NEW start, NEW limit, NEW h, WellFormed(h, start, limit)
    PROVE  h \in Heap(start .. (limit - 1))
BY DEF WellFormed, WellLinked

\* Every variable stays in its type, the counters within a word.
THEOREM TypeCorrect == ASSUME OrdinaryUse PROVE Spec => []TypeOK
<1>1. IInv => TypeOK
  <2> SUFFICES ASSUME IInv PROVE TypeOK
    OBVIOUS
  <2>1. /\ Layout(parent_arena) /\ DOMAIN strategy = DOMAIN parent_arena
        /\ Orderly(parent_arena, strategy) /\ Backed(parent_arena, strategy, live)
        /\ arenas = [i \in Arenas |-> arenas[i]] /\ Listed(arenas, parent_arena)
        /\ Registered(parent_arena, res_tracker)
        /\ total = Cardinality(MappedBy(parent_arena))
    BY DEF IInv, SpaceInv, BooksInv
  <2>2. arenas \in [Arenas -> Seq(Reservations)]
    <3>1. \A i \in Arenas : arenas[i] \in Seq(Reservations)
      BY <2>1 DEF Listed, Reservations
    <3> QED
      BY <2>1, <3>1
  <2>3. ASSUME NEW r \in Reservations
        PROVE  /\ parent_arena[r] \in Arenas
               /\ strategy[r] \in IF is_slab(parent_arena[r])
                                  THEN Slab(parent_arena[r])
                                  ELSE Heap(Span(r, Size(parent_arena[r])))
    <3>1. /\ parent_arena[r] \in Arenas
          /\ StrategyOK(r, parent_arena[r], strategy[r])
      BY <2>1 DEF Layout, Orderly, Reservations
    <3>2. CASE is_slab(parent_arena[r])
      BY <3>1, <3>2 DEF StrategyOK
    <3>3. CASE ~ is_slab(parent_arena[r])
      <4> DEFINE end == r + Size(parent_arena[r])
      <4>1. WellFormed(strategy[r], r, end)
        BY <3>1, <3>3 DEF StrategyOK
      <4>2. Span(r, Size(parent_arena[r])) = r .. (end - 1)
        <5>1. r \in Nat /\ Size(parent_arena[r]) \in Nat
          BY <2>1, <3>1, PlaceFacts, ArenaFacts DEF Layout, Reservations
        <5> QED
          BY <5>1 DEF Span
      <4> HIDE DEF end
      <4>3. strategy[r] \in Heap(r .. (end - 1))
        BY <4>1, WellFormedType
      <4> QED
        BY <3>1, <3>3, <4>2, <4>3
    <3> QED
      BY <3>1, <3>2, <3>3
  <2>4. total \in 0 .. MAP_FAILED
    BY <2>1, MappedCount
  <2>5. \A a \in DOMAIN live : live[a] \in Requests
    BY <2>1, LiveApart
  <2>6. DOMAIN strategy = Reservations /\ DOMAIN res_tracker = Reservations
    BY <2>1 DEF Registered, Reservations
  <2>7. /\ impl \in {"none", "ready", "destroyed", "aborted"}
        /\ used \in 0 .. MAP_FAILED /\ faulted \subseteq Faults
    BY DEF IInv, RestInv
  <2> QED
    BY <2>2, <2>3, <2>4, <2>5, <2>6, <2>7 DEF TypeOK
<1> QED
  BY <1>1, Invariance, PTL

\* The allocator and its callers agree on which blocks are in use.
THEOREM Ownership == ASSUME OrdinaryUse PROVE Spec => []AllocatedBlocksAreLive
<1>1. IInv => AllocatedBlocksAreLive
  <2> SUFFICES ASSUME IInv PROVE AllocatedBlocksAreLive
    OBVIOUS
  <2>1. Backed(parent_arena, strategy, live)
    BY DEF IInv, SpaceInv
  <2>2. \A r : Allocated(r) = Held(parent_arena, strategy, r)
    BY DEF Allocated, Held, HeldIn
  <2>3. DOMAIN live = UNION {DOMAIN Allocated(r) : r \in Reservations}
    BY <2>1, <2>2 DEF Backed, Reservations
  <2>4. ASSUME NEW r \in Reservations, NEW a \in DOMAIN Allocated(r)
        PROVE  IF is_slab(parent_arena[r]) THEN live[a] <= Allocated(r)[a]
               ELSE live[a] = Allocated(r)[a]
    <3>1. Answers(parent_arena[r], live[a], Allocated(r)[a])
      BY <2>1, <2>2 DEF Backed, Reservations
    <3> QED
      BY <3>1 DEF Answers, Fits
  <2> QED
    BY <2>3, <2>4 DEF AllocatedBlocksAreLive
<1> QED
  BY <1>1, Invariance, PTL

\* free_blocks counts the clear bits unless something was freed that was not held.
THEOREM Counting == ASSUME OrdinaryUse PROVE Spec => []SlabsCountTheirBits
<1>1. IInv => SlabsCountTheirBits
  BY DEF IInv, SpaceInv, FreesAreHeld, SlabsCountTheirBits, Counted, Counts, Reservations
<1> QED
  BY <1>1, Invariance, PTL

\* Object reservations stay tiled, linked, merged and filed.
THEOREM Heaps == ASSUME OrdinaryUse PROVE Spec => []ObjectHeapsWellFormed
<1>1. IInv => ObjectHeapsWellFormed
  BY DEF IInv, SpaceInv, ObjectHeapsWellFormed, Orderly, StrategyOK, WellFormed,
         WellLinked, Reservations
<1> QED
  BY <1>1, Invariance, PTL

\* Lists and tracker know the same reservations, and total_va_size adds them up.
THEOREM Books == ASSUME OrdinaryUse PROVE Spec => []ListsAndTrackerAgree
<1>1. IInv => ListsAndTrackerAgree
  <2> SUFFICES ASSUME IInv PROVE ListsAndTrackerAgree
    OBVIOUS
  <2>1. /\ Layout(parent_arena) /\ Listed(arenas, parent_arena)
        /\ Registered(parent_arena, res_tracker)
        /\ total = Cardinality(MappedBy(parent_arena))
    BY DEF IInv, SpaceInv, BooksInv
  <2>2. ASSUME NEW i \in Arenas
        PROVE  /\ {arenas[i][n] : n \in DOMAIN arenas[i]} =
                     {r \in Reservations : parent_arena[r] = i}
               /\ \A m, n \in DOMAIN arenas[i] :
                     arenas[i][m] = arenas[i][n] => m = n
    <3>1. ListOf(arenas[i], parent_arena, i)
      BY <2>1 DEF Listed
    <3> QED
      BY <3>1 DEF ListOf, Reservations
  <2>3. \A r \in Reservations : res_tracker[r] = Size(parent_arena[r])
    BY <2>1 DEF Registered, Reservations
  <2>4. total = Cardinality(Mapped)
    BY <2>1, MappedIs
  <2> QED
    BY <2>2, <2>3, <2>4 DEF ListsAndTrackerAgree
<1> QED
  BY <1>1, Invariance, PTL

\* A free finds the one reservation of the class that served the request.
THEOREM Classes == ASSUME OrdinaryUse PROVE Spec => []FreeFindsItsClass
<1>1. IInv => FreeFindsItsClass
  <2> SUFFICES ASSUME IInv, NEW a \in DOMAIN live
               PROVE  \E r \in Reservations :
                         /\ FindNode(a) = {r}
                         /\ live[a] <= arena_info_table[parent_arena[r]].max_per_alloc_size
                         /\ \A i \in Arenas : i < parent_arena[r] =>
                               live[a] > arena_info_table[i].max_per_alloc_size
    BY DEF FreeFindsItsClass
  <2>1. /\ Layout(parent_arena) /\ Orderly(parent_arena, strategy)
        /\ Backed(parent_arena, strategy, live)
        /\ Registered(parent_arena, res_tracker)
    BY DEF IInv, SpaceInv, BooksInv
  <2>2. PICK r \in DOMAIN parent_arena :
               a \in DOMAIN Held(parent_arena, strategy, r)
    BY <2>1 DEF Backed
  <2>3. Answers(parent_arena[r], live[a], Held(parent_arena, strategy, r)[a])
    BY <2>1, <2>2 DEF Backed
  <2>4. live[a] \in Requests /\ get_arena_idx_for_size(live[a]) = parent_arena[r]
    BY <2>3 DEF Answers
  <2>5. /\ live[a] <= arena_info_table[parent_arena[r]].max_per_alloc_size
        /\ \A i \in Arenas : i < parent_arena[r] =>
              live[a] > arena_info_table[i].max_per_alloc_size
    BY <2>4, ClassOf DEF block_size
  <2>6. /\ a \in Nat /\ r \in Nat /\ Size(parent_arena[r]) \in Nat
        /\ r <= a /\ a < r + Size(parent_arena[r])
    BY <2>1, <2>2, HeldOf
  <2>7. r \in FindNode(a)
    BY <2>1, <2>2, <2>6, Found
  <2>8. ASSUME NEW q \in FindNode(a) PROVE q = r
    <3>1. /\ q \in DOMAIN parent_arena
          /\ q <= a /\ a < q + Size(parent_arena[q])
      BY <2>1, <2>6, Found
    <3> QED
      BY <2>1, <2>2, <2>6, <3>1, HeldOfOne
  <2>9. FindNode(a) = {r}
    BY <2>7, <2>8
  <2> QED
    BY <2>2, <2>5, <2>9 DEF Reservations
<1> QED
  BY <1>1, Invariance, PTL

\* A reservation that cannot serve has no room.
LEMMA RefusesOnlyWhenFull ==
    ASSUME NEW r \in Reservations, NEW i \in Arenas, parent_arena[r] = i,
           StrategyOK(r, i, strategy[r]), NEW size \in Nat,
           is_slab(i) \/ FitsKey(size),
           allocate_from_reservation(r, i, strategy[r], size) = {}
    PROVE  ~ Room(r, size)
<1> DEFINE s == strategy[r]
<1>1. CASE is_slab(i)
  <2>1. allocate_from_slab(r, i, s) = {}
    BY <1>1 DEF allocate_from_reservation
  <2>2. s.free_blocks = 0 \/ Bits(i) \ s.bitmap = {}
    BY <2>1 DEF allocate_from_slab
  <2>3. /\ s.bitmap \in SUBSET Bits(i) /\ s.free_blocks \in Nat
        /\ Cardinality(Bits(i) \ s.bitmap) <= s.free_blocks
    BY <1>1 DEF StrategyOK, Slab
  <2>4. /\ Cardinality(Bits(i) \ s.bitmap) \in Nat
        /\ Cardinality(Bits(i) \ s.bitmap) = 0 => Bits(i) \ s.bitmap = {}
    BY FiniteBits, FS_Subset, FS_CardinalityType, FS_EmptySet
  <2>5. s.bitmap = Bits(i)
    BY <2>2, <2>3, <2>4
  <2> QED
    BY <1>1, <2>5 DEF Room
<1>2. CASE ~ is_slab(i)
  <2>1. WellFormed(s, r, r + Size(i))
    BY <1>2 DEF StrategyOK
  <2>2. FindGEQ(s, size) = {}
    BY <1>2 DEF allocate_from_reservation, allocate_from_obj_allocator, FindBlock
  <2>3. \A b \in s.free : ~ (s.size[b] >= size)
    BY <2>1, <2>2, FoundIsFree
  <2> QED
    BY <1>2, <2>3 DEF Room
<1> QED
  BY <1>1, <1>2

\* As long as memory lasts, space is reserved only when the arena is full for
\* the request, whatever was freed before.
THEOREM Thrift == ASSUME OrdinaryUse PROVE Spec => ReservesOnlyWhenFull
<1> DEFINE Full ==
       "calloc" \notin faulted' =>
          \A a \in DOMAIN live' \ DOMAIN live :
             \A new \in DOMAIN parent_arena' \ Reservations :
                \A r \in Reservations :
                   parent_arena[r] = parent_arena'[new] => ~ Room(r, live'[a])
<1>1. ASSUME IInv, NEW size \in Requests, AllocFromNew(size),
             "calloc" \notin faulted',
             NEW a \in DOMAIN live' \ DOMAIN live,
             NEW new \in DOMAIN parent_arena' \ Reservations,
             NEW r \in Reservations, parent_arena[r] = parent_arena'[new]
      PROVE  ~ Room(r, live'[a])
  <2> DEFINE i == get_arena_idx_for_size(size)
             passed == \E n \in DOMAIN arenas[i] : Serves(arenas[i][n], i, size)
  <2>1. i \in Arenas /\ size \in Nat /\ (is_slab(i) \/ FitsKey(size))
    BY ClassOf DEF OrdinaryUse
  <2>2. PICK p : Entered(p, i)
    BY <1>1, AllocFromNewInv
  <2>3. new = p /\ parent_arena[r] = i
    BY <1>1, <2>2 DEF Entered, Reservations
  <2>4. PICK q \in RESERVE_VA(Size(i)) :
           IF q \in DOMAIN res_tracker
           THEN impl' = "aborted" /\ AllGone /\ UNCHANGED faulted
           ELSE /\ create_reservation(q, i, size)
                /\ ServeFromNew(q, initialize_strategy(q, i), size)
                /\ UNCHANGED impl
    BY <1>1 DEF AllocFromNew
  <2>5. q \notin DOMAIN res_tracker
    <3>1. q \notin Reservations
      BY <1>1, <2>1, ReservedApart DEF IInv, SpaceInv
    <3> QED
      BY <1>1, <3>1 DEF IInv, BooksInv, Registered, Reservations
  <2>6. ServeFromNew(q, initialize_strategy(q, i), size)
    BY <2>4, <2>5
  <2> DEFINE gives == allocate_from_reservation(q, i, initialize_strategy(q, i), size)
  <2>7. \/ \E got \in gives : Hand(got.addr, size) /\ Note(passed)
        \/ Note(passed \/ gives # {}) /\ live' = live
    BY <2>6 DEF ServeFromNew
  <2> HIDE DEF passed, gives
  <2>8. ~ passed /\ live'[a] = size
    BY <1>1, <2>7 DEF Note, Hand
  <2>9. /\ Listed(arenas, parent_arena) /\ Orderly(parent_arena, strategy)
    BY <1>1 DEF IInv, SpaceInv, BooksInv
  <2>10. PICK n \in DOMAIN arenas[i] : arenas[i][n] = r
    BY <2>1, <2>3, <2>9 DEF Listed, ListOf, Reservations
  <2>11. allocate_from_reservation(r, i, strategy[r], size) = {}
    BY <2>8, <2>10 DEF passed, Serves
  <2>12. StrategyOK(r, i, strategy[r])
    BY <2>3, <2>9 DEF Orderly, Reservations
  <2> HIDE DEF i
  <2> QED
    BY <2>1, <2>3, <2>8, <2>11, <2>12, RefusesOnlyWhenFull
<1>2. ASSUME IInv, Next PROVE Full
  <2>1. CASE DOMAIN parent_arena' \subseteq DOMAIN parent_arena
    BY <2>1 DEF Reservations
  <2>2. CASE ~ (DOMAIN parent_arena' \subseteq DOMAIN parent_arena)
    <3>1. \E size \in Requests : AllocFromNew(size)
      <4>1. ~ init_arena_allocator
        BY <2>2 DEF init_arena_allocator
      <4>2. ~ AllGone
        <5>1. DOMAIN NoneYet = {}
          BY DEF NoneYet
        <5> QED
          BY <2>2, <5>1 DEF AllGone
      <4>3. ~ arena_destroy /\ ~ DestroyAborts
        BY <4>2 DEF arena_destroy, DestroyAborts
      <4>4. \A addr \in FreeArgs : ~ arena_free(addr) /\ ~ FreeAborts(addr)
        BY <2>2, <4>2 DEF arena_free, FreeAborts
      <4>5. \A size \in Requests : ~ AllocFromListed(size) /\ ~ AllocRefused(size)
        BY <2>2 DEF AllocFromListed, AllocRefused
      <4> QED
        BY <1>2, <4>1, <4>3, <4>4, <4>5 DEF Next, arena_alloc
    <3> QED
      BY <1>1, <1>2, <3>1
  <2> QED
    BY <2>1, <2>2
<1>3. IInv /\ [Next]_vars => [Full]_vars
  BY <1>2
<1>4. Spec => []IInv
  BY Invariance
<1> QED
  BY <1>3, <1>4, PTL DEF Spec, ReservesOnlyWhenFull

\* No two callers ever hold the same space, within a reservation or across
\* them, all of it is reserved, and only its holder gives it back.
THEOREM Refinement == ASSUME OrdinaryUse PROVE Spec => KeepsPromise
<1>1. Init => Promise!Init
  <2> SUFFICES ASSUME Init PROVE Promise!Init
    OBVIOUS
  <2>1. live = [a \in {} |-> 0] /\ Reservations = {}
    BY DEF Init, NoneYet, Reservations
  <2>2. Mapped = {}
    BY <2>1 DEF Mapped
  <2> QED
    BY <2>1, <2>2 DEF Promise!Init
<1>2. ASSUME IInv, IInv'
      PROVE  /\ Mapped = MappedBy(parent_arena)
             /\ Mapped' = MappedBy(parent_arena')
             /\ Mapped \in SUBSET (0 .. MAP_FAILED)
             /\ Mapped' \in SUBSET (0 .. MAP_FAILED)
             /\ live = [a \in DOMAIN live |-> live[a]]
  <2>1. Layout(parent_arena) /\ Layout(parent_arena')
    BY <1>2 DEF IInv, SpaceInv
  <2>2. Mapped = MappedBy(parent_arena)
    BY <2>1, MappedIs
  <2>3. Mapped' = MappedBy(parent_arena')
    <3>1. \A pa : Layout(pa) => \A r \in DOMAIN pa : r # MAP_FAILED
      BY PlaceFacts DEF Layout
    <3>2. Reservations' \ {MAP_FAILED} = DOMAIN parent_arena'
      BY <2>1, <3>1 DEF Reservations
    <3> QED
      BY <3>2 DEF Mapped, MappedBy
  <2>4. /\ MappedBy(parent_arena) \subseteq 0 .. (MAP_FAILED - 1)
        /\ MappedBy(parent_arena') \subseteq 0 .. (MAP_FAILED - 1)
    BY <2>1, MappedCount
  <2>5. 0 .. (MAP_FAILED - 1) \subseteq 0 .. MAP_FAILED
    BY Words DEF MAP_FAILED
  <2>6. live = [a \in DOMAIN live |-> live[a]]
    BY <1>2 DEF IInv, SpaceInv, Backed
  <2> QED
    BY <2>2, <2>3, <2>4, <2>5, <2>6
<1>3. ASSUME IInv, IInv', NEW size \in Requests, NEW addr,
             addr \notin DOMAIN live, Given(live, live', addr, size),
             MappedBy(parent_arena) \subseteq MappedBy(parent_arena')
      PROVE  Promise!Next
  <2>1. /\ Layout(parent_arena') /\ Orderly(parent_arena', strategy')
        /\ Backed(parent_arena', strategy', live')
    BY <1>3 DEF IInv, SpaceInv
  <2>2. /\ \A a \in DOMAIN live' : /\ a \in MappedBy(parent_arena')
                                   /\ Span(a, live'[a]) \subseteq MappedBy(parent_arena')
        /\ \A a, c \in DOMAIN live' :
              a # c => Span(a, live'[a]) \cap Span(c, live'[c]) = {}
    BY <2>1, LiveApart
  <2>3. /\ addr \in DOMAIN live' /\ live'[addr] = size
        /\ \A b \in DOMAIN live : b \in DOMAIN live' /\ live'[b] = live[b] /\ b # addr
    BY <1>3 DEF Given
  <2>4. \A a, s : Promise!Span(a, s) = Span(a, s)
    BY DEF Promise!Span, Span
  <2>5. /\ addr \in MappedBy(parent_arena')
        /\ Span(addr, size) \subseteq MappedBy(parent_arena')
        /\ \A b \in DOMAIN live : Span(addr, size) \cap Span(b, live[b]) = {}
    BY <2>2, <2>3
  <2>6. /\ Mapped = MappedBy(parent_arena) /\ Mapped' = MappedBy(parent_arena')
        /\ Mapped' \in SUBSET (0 .. MAP_FAILED)
    BY <1>2, <1>3
  <2>7. Promise!Alloc(addr, size)
    BY <1>3, <2>4, <2>5, <2>6 DEF Promise!Alloc, Given
  <2>8. addr \in 0 .. MAP_FAILED
    BY <2>5, <2>6
  <2> QED
    BY <2>7, <2>8 DEF Promise!Next
<1>4. ASSUME IInv, IInv', NEW size \in Requests, arena_alloc(size)
      PROVE  [Promise!Next]_(Promise!vars)
  <2>1. CASE AllocFromListed(size)
    <3>1. /\ parent_arena' = parent_arena
          /\ \E addr : addr \notin DOMAIN live /\ Given(live, live', addr, size)
      BY <1>4, <2>1, AllocFromListedInv
    <3> QED
      BY <1>3, <1>4, <3>1
  <2>2. CASE AllocFromNew(size)
    <3>1. /\ MappedBy(parent_arena) \subseteq MappedBy(parent_arena')
          /\ \/ live' = live
             \/ \E addr : addr \notin DOMAIN live /\ Given(live, live', addr, size)
      BY <1>4, <2>2, AllocFromNewInv
    <3>2. CASE live' = live
      <4>1. Promise!Reserve
        BY <1>2, <1>4, <3>1, <3>2 DEF Promise!Reserve
      <4> QED
        BY <4>1 DEF Promise!Next
    <3> QED
      BY <1>3, <1>4, <3>1, <3>2
  <2>3. CASE AllocRefused(size)
    <3>1. parent_arena' = parent_arena /\ live' = live
      BY <1>4, <2>3, AllocRefusedInv
    <3>2. Mapped' = Mapped
      BY <1>2, <1>4, <3>1
    <3> QED
      BY <3>1, <3>2 DEF Promise!vars
  <2> QED
    BY <1>4, <2>1, <2>2, <2>3 DEF arena_alloc
<1>5. ASSUME IInv, IInv', NEW addr \in FreeArgs, arena_free(addr)
      PROVE  [Promise!Next]_(Promise!vars)
  <2>1. parent_arena' = parent_arena /\ GivenBack(live, live', addr)
    BY <1>5, FreeInv
  <2>2. Mapped' = Mapped /\ live = [a \in DOMAIN live |-> live[a]]
    BY <1>2, <1>5, <2>1
  <2>3. CASE addr \in DOMAIN live
    <3>1. Promise!Free(addr)
      BY <2>1, <2>2, <2>3 DEF Promise!Free, GivenBack
    <3>2. addr \in 0 .. MAP_FAILED
      <4>1. /\ Layout(parent_arena) /\ Orderly(parent_arena, strategy)
            /\ Backed(parent_arena, strategy, live)
        BY <1>5 DEF IInv, SpaceInv
      <4>2. addr \in MappedBy(parent_arena)
        BY <2>3, <4>1, LiveApart
      <4> QED
        BY <1>2, <1>5, <4>2
    <3> QED
      BY <3>1, <3>2 DEF Promise!Next
  <2>4. CASE addr \notin DOMAIN live
    <3>1. live' = live
      BY <2>1, <2>2, <2>4 DEF GivenBack
    <3> QED
      BY <2>2, <3>1 DEF Promise!vars
  <2> QED
    BY <2>3, <2>4
<1>6. ASSUME IInv, IInv', AllGone
      PROVE  Promise!Next
  <2>1. live' = [a \in {} |-> 0] /\ DOMAIN parent_arena' = {}
    BY <1>6 DEF AllGone, NoneYet
  <2>2. Mapped' = {}
    BY <1>2, <1>6, <2>1 DEF MappedBy
  <2>3. Promise!Destroy
    BY <2>1, <2>2 DEF Promise!Destroy
  <2> QED
    BY <2>3 DEF Promise!Next
<1>7. IInv /\ IInv' /\ [Next]_vars => [Promise!Next]_(Promise!vars)
  <2> SUFFICES ASSUME IInv, IInv', [Next]_vars
               PROVE  [Promise!Next]_(Promise!vars)
    OBVIOUS
  <2>1. CASE UNCHANGED vars
    <3>1. parent_arena' = parent_arena /\ live' = live
      BY <2>1 DEF vars
    <3>2. Mapped' = Mapped
      BY <1>2, <3>1
    <3> QED
      BY <3>1, <3>2 DEF Promise!vars
  <2>2. CASE init_arena_allocator
    <3>1. parent_arena' = parent_arena /\ live' = live
      BY <2>2 DEF init_arena_allocator
    <3>2. Mapped' = Mapped
      BY <1>2, <3>1
    <3> QED
      BY <3>1, <3>2 DEF Promise!vars
  <2>3. CASE \E size \in Requests : arena_alloc(size)
    BY <1>4, <2>3
  <2>4. CASE \E addr \in FreeArgs : arena_free(addr)
    BY <1>5, <2>4
  <2>5. CASE AllGone
    BY <1>6, <2>5
  <2>6. (\E addr \in FreeArgs : FreeAborts(addr)) \/ arena_destroy \/ DestroyAborts
           => AllGone
    BY DEF FreeAborts, arena_destroy, DestroyAborts
  <2> QED
    BY <2>1, <2>2, <2>3, <2>4, <2>5, <2>6 DEF Next
<1>8. Spec => []IInv
  BY Invariance
<1> QED
  BY <1>1, <1>7, <1>8, PTL DEF Spec, KeepsPromise, Promise!Spec
=============================================================================
