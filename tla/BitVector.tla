------------------------------ MODULE BitVector -----------------------------
(***************************************************************************)
(* utils/bitvector.c: vectors of bits kept in chunks.  A chunk is the set  *)
(* of its bits that are 1; the only chunk of a small vector is "inlined"   *)
(* in the place of the pointer to the chunks of a large one.  An update is *)
(* an operator from a vector to a vector, and an action applies it.  Every *)
(* call given NULL for a vector returns without any effect.                *)
(***************************************************************************)
EXTENDS Integers, FiniteSetsExt

CONSTANTS Vectors, NULL,   \* the CUbitvector pointers callers keep
          BITS_PER_CHUNK,
          Width,           \* bits of the NvU64 that holds numBits
          Sizes            \* numbers of bits callers ask for

ASSUME ChunkAssumption == BITS_PER_CHUNK \in Nat \ {0} /\ NULL \notin Vectors
ASSUME WidthAssumption == Width \in Nat
ASSUME SizesAssumption == Sizes \subseteq 0 .. (2 ^ Width - 1)

VARIABLE vec               \* what the pointers point to

Bit          == 0 .. (BITS_PER_CHUNK - 1)
INLINE_LIMIT == BITS_PER_CHUNK

CHUNK_INDEX(bit)   == bit \div BITS_PER_CHUNK
CHUNK_BITMASK(bit) == {bit % BITS_PER_CHUNK}

\* The sum wraps.
ROUND_UP(n) ==
    LET sum == (n + BITS_PER_CHUNK - 1) % 2 ^ Width
    IN  sum - (sum % BITS_PER_CHUNK)

NUM_CHUNKS(n)         == ROUND_UP(n) \div BITS_PER_CHUNK
BITS_IN_LAST_CHUNK(n) == ((n - 1) % BITS_PER_CHUNK) + 1

\* The machine shifts by the count modulo the width of the chunk.
ShiftLeft(chunk, n)  == {b \in Bit : b - (n % BITS_PER_CHUNK) \in chunk}
ShiftRight(chunk, n) == {b \in Bit : b + (n % BITS_PER_CHUNK) \in chunk}

Vector(n) == [numBits : {n}, onHeap : BOOLEAN, chunk : [0 .. (NUM_CHUNKS(n) - 1) -> SUBSET Bit]]

Chunks(x) == 0 .. (NUM_CHUNKS(x.numBits) - 1)

\* The union holds a pointer exactly for the sizes that every function takes
\* to have one: Destroy frees it, the others follow it.  And the bits of the
\* last chunk beyond numBits stay clear through any sequence of calls, as
\* IsAnyBitSet, Compare and Grow take for granted.
TypeOK ==
    \A v \in Vectors :
        vec[v] # NULL =>
            /\ vec[v].numBits \in 1 .. (2 ^ Width - 1)
            /\ vec[v] \in Vector(vec[v].numBits)
            /\ vec[v].onHeap <=> vec[v].numBits > INLINE_LIMIT
            /\ \A i \in Chunks(vec[v]) : \A b \in vec[v].chunk[i] :
                  i * BITS_PER_CHUNK + b < vec[v].numBits

----------------------------------------------------------------------------
(***************************************************************************)
(* The updates of one vector, x.                                           *)
(***************************************************************************)

Fresh(n) == [numBits |-> n, onHeap |-> n > INLINE_LIMIT,
             chunk   |-> [i \in 0 .. (NUM_CHUNKS(n) - 1) |-> {}]]

SetBit(x, bit) ==
    IF bit >= x.numBits THEN x
    ELSE [x EXCEPT !.chunk[CHUNK_INDEX(bit)] = @ \cup CHUNK_BITMASK(bit)]

ClearBit(x, bit) ==
    IF bit >= x.numBits THEN x
    ELSE [x EXCEPT !.chunk[CHUNK_INDEX(bit)] = @ \ CHUNK_BITMASK(bit)]

\* Without the test for a full chunk.
lowestBitsSet_Slip(numBits) == Bit \ ShiftLeft(Bit, numBits)

lowestBitsSet(numBits) ==
    IF numBits = INLINE_LIMIT THEN Bit ELSE Bit \ ShiftLeft(Bit, numBits)

\* memset over the last chunk too.
SetAllBits_Slip(x) ==
    IF x.numBits <= INLINE_LIMIT
    THEN [x EXCEPT !.chunk[0] = lowestBitsSet(x.numBits)]
    ELSE [x EXCEPT !.chunk = [i \in Chunks(x) |-> Bit]]

SetAllBits(x) ==
    IF x.numBits <= INLINE_LIMIT
    THEN [x EXCEPT !.chunk[0] = lowestBitsSet(x.numBits)]
    ELSE [x EXCEPT !.chunk =
             [i \in Chunks(x) |-> IF i < NUM_CHUNKS(x.numBits) - 1 THEN Bit
                                  ELSE lowestBitsSet(BITS_IN_LAST_CHUNK(x.numBits))]]

\* "size_t lowBit, size_t highBit", both inclusive, as the functions on a
\* range take them.
InRange(x, lowBit, highBit) == lowBit <= highBit /\ highBit <= x.numBits - 1

\* One chunk starts and another one ends the range, never the same.
Mask_Slip(i, lowBit, highBit) ==
    IF i = CHUNK_INDEX(lowBit) THEN ShiftLeft(Bit, lowBit)
    ELSE IF i = CHUNK_INDEX(highBit)
         THEN ShiftRight(Bit, BITS_PER_CHUNK - 1 - (highBit % BITS_PER_CHUNK))
    ELSE Bit

\* The bits of chunk i that are in the range.
Mask(i, lowBit, highBit) ==
    LET from == IF i = CHUNK_INDEX(lowBit)
                THEN ShiftLeft(Bit, lowBit % BITS_PER_CHUNK) ELSE Bit
        upto == IF i = CHUNK_INDEX(highBit)
                THEN ShiftRight(Bit, BITS_PER_CHUNK - 1 - (highBit % BITS_PER_CHUNK))
                ELSE Bit
    IN  from \cap upto

ChunksOf(lowBit, highBit) == CHUNK_INDEX(lowBit) .. CHUNK_INDEX(highBit)

SetBitsInRange(x, lowBit, highBit) ==
    IF ~ InRange(x, lowBit, highBit) THEN x
    ELSE [x EXCEPT !.chunk =
             [i \in Chunks(x) |-> IF i \in ChunksOf(lowBit, highBit)
                                  THEN @[i] \cup Mask(i, lowBit, highBit) ELSE @[i]]]

ClearBitsInRange(x, lowBit, highBit) ==
    IF ~ InRange(x, lowBit, highBit) THEN x
    ELSE [x EXCEPT !.chunk =
             [i \in Chunks(x) |-> IF i \in ChunksOf(lowBit, highBit)
                                  THEN @[i] \ Mask(i, lowBit, highBit) ELSE @[i]]]

\* What cubitvectorSetLowestClearBitInChunk may choose from in chunk i.
ClearInChunk(x, i) ==
    LET totalBitsInChunk == IF i = CHUNK_INDEX(x.numBits - 1)
                            THEN BITS_IN_LAST_CHUNK(x.numBits) ELSE BITS_PER_CHUNK
    IN  (0 .. (totalBitsInChunk - 1)) \ x.chunk[i]

\* *bit, or NULL for NV_FALSE.
LowestClearBit(x) ==
    LET open == {i \in Chunks(x) : x.chunk[i] # Bit /\ ClearInChunk(x, i) # {}}
    IN  IF open = {} THEN NULL
        ELSE Min(open) * BITS_PER_CHUNK + Min(ClearInChunk(x, Min(open)))

SetLowestClearBit(x) ==
    LET bit == LowestClearBit(x)
    IN  IF bit = NULL THEN x
        ELSE [x EXCEPT !.chunk[CHUNK_INDEX(bit)] = @ \cup CHUNK_BITMASK(bit)]

\* x has the size of y.
And(x, y) ==
    IF x.numBits # y.numBits THEN x
    ELSE [x EXCEPT !.chunk = [i \in Chunks(x) |-> @[i] \cap y.chunk[i]]]

\* With the memory it may need.  The chunks of x are kept, or its inlined one
\* becomes the first on the heap, and those added are clear; the bits added to
\* the last chunk of x are as they were.
Grow(x, newNumBits) ==
    IF x.numBits >= newNumBits THEN x
    ELSE [numBits |-> newNumBits,
          onHeap  |-> x.onHeap \/ newNumBits > INLINE_LIMIT,
          chunk   |-> [i \in 0 .. (NUM_CHUNKS(newNumBits) - 1) |->
                          IF i \in Chunks(x) THEN x.chunk[i] ELSE {}]]

\* realloc or calloc is called, and may fail.
GrowAllocates(x, newNumBits) ==
    /\ x.numBits < newNumBits
    /\ IF x.numBits > INLINE_LIMIT
       THEN NUM_CHUNKS(newNumBits) # NUM_CHUNKS(x.numBits)
       ELSE newNumBits > INLINE_LIMIT

----------------------------------------------------------------------------
(***************************************************************************)
(* The queries.                                                            *)
(***************************************************************************)

IsBitSet(x, bit) ==
    bit < x.numBits /\ x.chunk[CHUNK_INDEX(bit)] \cap CHUNK_BITMASK(bit) # {}

IsAnyBitSet(x) == \E i \in Chunks(x) : x.chunk[i] # {}

\* The loop over chunks and bits, from the end that First (Min or Max) names.
FindBitInRange(x, lowBit, highBit, findClearBit, First(_)) ==
    LET Chunk(i) == IF findClearBit THEN Bit \ x.chunk[i] ELSE x.chunk[i]
        Hits(i)  == Mask(i, lowBit, highBit) \cap Chunk(i)
        found    == {i \in ChunksOf(lowBit, highBit) : Hits(i) # {}}
    IN  IF ~ InRange(x, lowBit, highBit) \/ found = {} THEN NULL
        ELSE First(found) * BITS_PER_CHUNK + First(Hits(First(found)))

FindLowestBitInRange(x, lowBit, highBit, findClearBit) ==
    FindBitInRange(x, lowBit, highBit, findClearBit, Min)

FindHighestBitInRange(x, lowBit, highBit, findClearBit) ==
    FindBitInRange(x, lowBit, highBit, findClearBit, Max)

AreAllBitsSetInRange(x, lowBit, highBit) ==
    /\ InRange(x, lowBit, highBit)
    /\ \A i \in ChunksOf(lowBit, highBit) :
          Mask(i, lowBit, highBit) \cap x.chunk[i] = Mask(i, lowBit, highBit)

AreAllBitsClearInRange(x, lowBit, highBit) ==
    /\ InRange(x, lowBit, highBit)
    /\ \A i \in ChunksOf(lowBit, highBit) :
          LET others == Bit \ Mask(i, lowBit, highBit)
          IN  others \cup x.chunk[i] = others

Compare(x, y) ==
    x.numBits = y.numBits /\ \A i \in Chunks(x) : x.chunk[i] = y.chunk[i]

----------------------------------------------------------------------------
(***************************************************************************)
(* The calls.                                                              *)
(***************************************************************************)

Init == vec = [v \in Vectors |-> NULL]

\* A number of bits that is 0, or becomes 0 when rounded, is refused, and a
\* calloc may fail: *bitvector is NULL.  The pointer was NULL before, or what
\* it pointed to would be lost.
cubitvectorCreate(v, numBits) ==
    /\ vec[v] = NULL
    /\ NUM_CHUNKS(numBits) # 0
    /\ vec' = [vec EXCEPT ![v] = Fresh(numBits)]

cubitvectorCreateCopy(v, original) ==
    /\ vec[v] = NULL /\ vec[original] # NULL
    /\ vec' = [vec EXCEPT ![v] = [Fresh(vec[original].numBits) EXCEPT
                                     !.chunk = vec[original].chunk]]

cubitvectorDestroy(v) ==
    /\ vec[v] # NULL
    /\ vec' = [vec EXCEPT ![v] = NULL]

\* Callers grow to sizes that rounding leaves alone: of this size only Create
\* has a test.
cubitvectorGrow(v, newNumBits) ==
    /\ vec[v] # NULL /\ NUM_CHUNKS(newNumBits) # 0
    /\ \/ vec' = [vec EXCEPT ![v] = Grow(@, newNumBits)]
       \/ GrowAllocates(vec[v], newNumBits) /\ UNCHANGED vec

Bits == 0 .. Max({n \in Sizes : NUM_CHUNKS(n) # 0})

\* The calls that neither create nor allocate.
Updates(v) ==
    LET x == vec[v]
    IN  \/ vec' = [vec EXCEPT ![v] = SetAllBits(x)]
        \/ vec' = [vec EXCEPT ![v] = SetLowestClearBit(x)]
        \/ \E bit \in Bits :
              \/ vec' = [vec EXCEPT ![v] = SetBit(x, bit)]
              \/ vec' = [vec EXCEPT ![v] = ClearBit(x, bit)]
        \/ \E low, high \in Bits :
              \/ vec' = [vec EXCEPT ![v] = SetBitsInRange(x, low, high)]
              \/ vec' = [vec EXCEPT ![v] = ClearBitsInRange(x, low, high)]
        \/ \E w \in Vectors :
              vec[w] # NULL /\ vec' = [vec EXCEPT ![v] = And(x, vec[w])]

Next ==
    \E v \in Vectors :
        \/ \E n \in Sizes : cubitvectorCreate(v, n) \/ cubitvectorGrow(v, n)
        \/ \E w \in Vectors : cubitvectorCreateCopy(v, w)
        \/ cubitvectorDestroy(v)
        \/ vec[v] # NULL /\ Updates(v)

Spec == Init /\ [][Next]_vec

----------------------------------------------------------------------------
(***************************************************************************)
(* Properties.                                                             *)
(***************************************************************************)

\* The reference: a vector is a set of bit numbers.
Members(x) == {b \in 0 .. (x.numBits - 1) :
                  b % BITS_PER_CHUNK \in x.chunk[CHUNK_INDEX(b)]}

All(x) == 0 .. (x.numBits - 1)

\* A call changes the bits it names and no others, wherever in a chunk they
\* begin and end: "Range is inclusive" (bitvector.h:37), "Sets all bits",
\* "Resizes an existing bitvector to a larger size".
UpdatesAnswer ==
    \A v \in Vectors : vec[v] # NULL =>
        LET x == vec[v]
            Becomes(y, set) == Members(y) = set
        IN  /\ Becomes(SetAllBits(x), All(x))
            /\ \A n \in Sizes : NUM_CHUNKS(n) # 0 => Becomes(Grow(x, n), Members(x))
            /\ \A b \in Bits :
                  /\ Becomes(SetBit(x, b), Members(x) \cup ({b} \cap All(x)))
                  /\ Becomes(ClearBit(x, b), Members(x) \ {b})
            /\ \A lo, hi \in Bits :
                  LET named == IF hi \in All(x) THEN lo .. hi ELSE {}
                  IN  /\ Becomes(SetBitsInRange(x, lo, hi), Members(x) \cup named)
                      /\ Becomes(ClearBitsInRange(x, lo, hi), Members(x) \ named)
            /\ \A w \in Vectors : vec[w] # NULL /\ vec[w].numBits = x.numBits =>
                  Becomes(And(x, vec[w]), Members(x) \cap Members(vec[w]))

FirstOf(set, First(_)) == IF set = {} THEN NULL ELSE First(set)

\* The queries agree with the set, for every range there is in the vector, and
\* Compare with equality.
QueriesAnswer ==
    \A v \in Vectors : vec[v] # NULL =>
        LET x   == vec[v]
            set == Members(x)
        IN  /\ LowestClearBit(x) = FirstOf(All(x) \ set, Min)
            /\ IsAnyBitSet(x) <=> set # {}
            /\ \A b \in Bits : IsBitSet(x, b) <=> b \in set
            /\ \A hi \in All(x) : \A lo \in 0 .. hi :
                  /\ FindLowestBitInRange(x, lo, hi, FALSE) = FirstOf(set \cap (lo .. hi), Min)
                  /\ FindLowestBitInRange(x, lo, hi, TRUE) = FirstOf((lo .. hi) \ set, Min)
                  /\ FindHighestBitInRange(x, lo, hi, FALSE) = FirstOf(set \cap (lo .. hi), Max)
                  /\ FindHighestBitInRange(x, lo, hi, TRUE) = FirstOf((lo .. hi) \ set, Max)
                  /\ AreAllBitsSetInRange(x, lo, hi) <=> (lo .. hi) \subseteq set
                  /\ AreAllBitsClearInRange(x, lo, hi) <=> (lo .. hi) \cap set = {}
            /\ \A w \in Vectors : vec[w] # NULL =>
                  (Compare(x, vec[w]) <=> x.numBits = vec[w].numBits /\ set = Members(vec[w]))
=============================================================================
