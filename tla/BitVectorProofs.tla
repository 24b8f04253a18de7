--------------------------- MODULE BitVectorProofs --------------------------
(***************************************************************************)
(* A vector of bits, whatever the width of a chunk and however many chunks *)
(* the vector has, is the set of its bits: the invariants of BitVector     *)
(* hold for every set of sizes and of pointers.                            *)
(***************************************************************************)
EXTENDS BitVector, NumberInduction

----------------------------------------------------------------------------
(***************************************************************************)
(* Positions: bit number b of chunk i.                                     *)
(***************************************************************************)

\* There are words.
LEMMA Words == 2 ^ Width \in Nat \ {0}
BY WidthAssumption, PowerType

\* A number is a chunk and a bit of it.
LEMMA Split ==
    ASSUME NEW n \in Nat
    PROVE  /\ CHUNK_INDEX(n) \in Nat /\ n % BITS_PER_CHUNK \in Bit
           /\ CHUNK_INDEX(n) * BITS_PER_CHUNK \in Nat
           /\ n = CHUNK_INDEX(n) * BITS_PER_CHUNK + (n % BITS_PER_CHUNK)
<1>1. \A C \in Nat \ {0} : /\ n \div C \in Nat /\ n % C \in 0 .. (C - 1)
                           /\ (n \div C) * C \in Nat
                           /\ n = (n \div C) * C + (n % C)
  OBVIOUS
<1> QED
  BY <1>1, ChunkAssumption DEF CHUNK_INDEX, Bit

\* A chunk and a bit of it are a number.
LEMMA Join ==
    ASSUME NEW i \in Nat, NEW b \in Bit
    PROVE  /\ i * BITS_PER_CHUNK \in Nat
           /\ i * BITS_PER_CHUNK + b \in Nat
           /\ CHUNK_INDEX(i * BITS_PER_CHUNK + b) = i
           /\ (i * BITS_PER_CHUNK + b) % BITS_PER_CHUNK = b
<1>1. \A C \in Nat \ {0} : \A c \in 0 .. (C - 1) :
          i * C \in Nat /\ i * C + c \in Nat
  OBVIOUS
<1>2. \A C \in Nat \ {0} : \A c \in 0 .. (C - 1) : (i * C + c) \div C = i
  OBVIOUS
<1>3. \A C \in Nat \ {0} : \A c \in 0 .. (C - 1) : (i * C + c) % C = c
  BY <1>2
<1> QED
  BY <1>1, <1>2, <1>3, ChunkAssumption DEF CHUNK_INDEX, Bit

\* Numbers are in the order of their chunks, then of their bits.
LEMMA Lexical ==
    ASSUME NEW i \in Nat, NEW b \in Bit, NEW j \in Nat, NEW c \in Bit
    PROVE  (i * BITS_PER_CHUNK + b <= j * BITS_PER_CHUNK + c)
               <=> (i < j \/ (i = j /\ b <= c))
<1> DEFINE C == BITS_PER_CHUNK
<1>1. C \in Nat \ {0} /\ b \in 0 .. (C - 1) /\ c \in 0 .. (C - 1)
  BY ChunkAssumption DEF Bit
<1> HIDE DEF C
<1>2. i * C \in Nat /\ j * C \in Nat
  BY <1>1
<1>3. CASE i < j
  <2>1. i * C + C <= j * C
    BY <1>1, <1>3
  <2> QED
    BY <1>1, <1>2, <1>3, <2>1 DEF C
<1>4. CASE j < i
  <2>1. j * C + C <= i * C
    BY <1>1, <1>4
  <2> QED
    BY <1>1, <1>2, <1>4, <2>1 DEF C
<1>5. CASE i = j
  BY <1>1, <1>2, <1>5 DEF C
<1> QED
  BY <1>3, <1>4, <1>5

----------------------------------------------------------------------------
(***************************************************************************)
(* Sizes.                                                                  *)
(***************************************************************************)

\* What a number of bits that rounding leaves alone has for chunks.
Fits(n) ==
    /\ n \in 1 .. (2 ^ Width - 1)
    /\ NUM_CHUNKS(n) \in Nat \ {0}
    /\ (NUM_CHUNKS(n) - 1) * BITS_PER_CHUNK < n
    /\ n <= NUM_CHUNKS(n) * BITS_PER_CHUNK

\* A size that is not rounded to 0 gets the chunks it needs, and no more.
LEMMA Rounded ==
    ASSUME NEW n \in 0 .. (2 ^ Width - 1), NUM_CHUNKS(n) # 0
    PROVE  Fits(n)
<1> DEFINE W   == 2 ^ Width
           C   == BITS_PER_CHUNK
           s   == n + C - 1
           r   == s % W
           q   == (r - (r % C)) \div C
<1>1. W \in Nat \ {0} /\ C \in Nat \ {0} /\ n \in 0 .. (W - 1)
  BY ChunkAssumption, Words
<1>2. NUM_CHUNKS(n) = q
  BY DEF NUM_CHUNKS, ROUND_UP
<1> HIDE DEF W, C
<1>3. s \in Nat
  BY <1>1
<1> HIDE DEF s
<1>4. r \in Nat /\ r < W
  BY <1>1, <1>3
<1>5. s < W => r = s
  BY <1>1, <1>3
<1>6. W <= s /\ C <= W => r = s - W
  <2>1. SUFFICES ASSUME W <= s, C <= W PROVE r = s - W
    OBVIOUS
  <2>2. s - W \in 0 .. (W - 1)
    BY <1>1, <1>3, <2>1 DEF s
  <2>3. \A t \in 0 .. (W - 1) : (t + W) % W = t
    BY <1>1
  <2>4. s = (s - W) + W
    BY <1>1, <1>3
  <2> QED
    BY <2>2, <2>3, <2>4
<1> HIDE DEF r
<1>7. q \in Nat /\ q * C <= r /\ r < q * C + C /\ q * C \in Nat
  <2>1. \A a \in Nat : (a - (a % C)) \div C = a \div C
    BY <1>1
  <2>2. \A a \in Nat : /\ a \div C \in Nat /\ (a \div C) * C <= a
                       /\ a < (a \div C) * C + C /\ (a \div C) * C \in Nat
    BY <1>1
  <2> QED
    BY <1>4, <2>1, <2>2
<1> HIDE DEF q
<1>8. q # 0
  BY <1>2
<1>9. C <= r
  <2>1. C <= q * C
    BY <1>1, <1>7, <1>8
  <2> QED
    BY <1>1, <1>4, <1>7, <2>1
<1>10. r = s
  BY <1>1, <1>3, <1>4, <1>5, <1>6, <1>9 DEF s
<1>11. (q - 1) * C = q * C - C
  BY <1>1, <1>7
<1>12. n <= q * C /\ (q - 1) * C < n /\ n # 0
  BY <1>1, <1>7, <1>10, <1>11, <1>9 DEF s
<1> QED
  BY <1>1, <1>2, <1>7, <1>8, <1>12 DEF Fits, W, C

----------------------------------------------------------------------------
(***************************************************************************)
(* The inductive invariant.                                                *)
(***************************************************************************)

\* What TypeOK says of a vector, whose size is one that Create would take:
\* without that the chunks need not reach numBits.
Sound(x) ==
    /\ x.numBits \in Sizes /\ NUM_CHUNKS(x.numBits) # 0
    /\ x \in Vector(x.numBits)
    /\ x.onHeap <=> x.numBits > INLINE_LIMIT
    /\ \A i \in Chunks(x) : \A b \in x.chunk[i] : i * BITS_PER_CHUNK + b < x.numBits

IInv ==
    /\ vec = [v \in Vectors |-> vec[v]]
    /\ \A v \in Vectors : vec[v] # NULL => Sound(vec[v])

\* The chunks of a vector hold its bits.
LEMMA Shape ==
    ASSUME NEW x, Sound(x)
    PROVE  /\ x.numBits \in Nat \ {0} /\ Fits(x.numBits)
           /\ x.chunk \in [Chunks(x) -> SUBSET Bit]
           /\ Chunks(x) \subseteq Nat
           /\ All(x) \subseteq Nat
           /\ \A b \in All(x) : CHUNK_INDEX(b) \in Chunks(x)
           /\ \A i \in Chunks(x) : \A b \in x.chunk[i] :
                 i * BITS_PER_CHUNK + b \in All(x)
<1> DEFINE n == x.numBits
           k == NUM_CHUNKS(n)
<1>1. n \in 0 .. (2 ^ Width - 1) /\ k # 0
  BY SizesAssumption DEF Sound
<1>2. Fits(n)
  BY <1>1, Rounded
<1>3. n \in Nat \ {0} /\ k \in Nat \ {0} /\ n <= k * BITS_PER_CHUNK
  BY <1>1, <1>2, Words DEF Fits
<1>4. x.chunk \in [Chunks(x) -> SUBSET Bit]
  BY DEF Sound, Vector, Chunks
<1>5. Chunks(x) = 0 .. (k - 1) /\ All(x) = 0 .. (n - 1)
  BY DEF Chunks, All
<1> HIDE DEF n, k
<1>6. ASSUME NEW b \in 0 .. (n - 1)
      PROVE  CHUNK_INDEX(b) \in 0 .. (k - 1)
  <2>1. \A C \in Nat \ {0} : n <= k * C => b \div C \in 0 .. (k - 1)
    <3>1. SUFFICES ASSUME NEW C \in Nat \ {0}, n <= k * C, ~ (b \div C < k)
                   PROVE  FALSE
      BY <1>3
    <3>2. b \div C \in Nat /\ (b \div C) * C <= b
      BY <1>3, <3>1
    <3>3. k * C <= (b \div C) * C
      BY <1>3, <3>1, <3>2
    <3>4. k * C \in Nat /\ (b \div C) * C \in Nat
      BY <1>3, <3>1, <3>2
    <3> QED
      BY <1>3, <3>1, <3>2, <3>3, <3>4
  <2> QED
    BY <1>3, <2>1, ChunkAssumption DEF CHUNK_INDEX
<1>7. ASSUME NEW i \in Chunks(x), NEW b \in x.chunk[i]
      PROVE  i * BITS_PER_CHUNK + b \in 0 .. (n - 1)
  <2>1. i \in Nat /\ b \in Bit
    BY <1>3, <1>4, <1>5
  <2>2. i * BITS_PER_CHUNK + b \in Nat
    BY <2>1, Join
  <2>3. i * BITS_PER_CHUNK + b < n
    BY DEF Sound, n
  <2> QED
    BY <1>3, <2>2, <2>3
<1> QED
  BY <1>2, <1>3, <1>4, <1>5, <1>6, <1>7 DEF n

\* Membership, from the number of a bit.
LEMMA MemberIs ==
    ASSUME NEW x, Sound(x), NEW n \in Nat
    PROVE  n \in Members(x) <=> /\ CHUNK_INDEX(n) \in Chunks(x)
                                /\ n % BITS_PER_CHUNK \in x.chunk[CHUNK_INDEX(n)]
<1>1. ASSUME CHUNK_INDEX(n) \in Chunks(x), n % BITS_PER_CHUNK \in x.chunk[CHUNK_INDEX(n)]
      PROVE  n \in All(x)
  <2>1. CHUNK_INDEX(n) * BITS_PER_CHUNK + (n % BITS_PER_CHUNK) \in All(x)
    BY <1>1, Shape
  <2> QED
    BY <2>1, Split
<1> QED
  BY <1>1, Shape DEF Members, All

\* Membership, from a chunk and a bit of it.
LEMMA MemberAt ==
    ASSUME NEW x, Sound(x), NEW i \in Chunks(x), NEW b \in Bit
    PROVE  b \in x.chunk[i] <=> i * BITS_PER_CHUNK + b \in Members(x)
<1>1. i \in Nat
  BY Shape
<1> QED
  BY <1>1, MemberIs, Join

\* Members are among the bits of a vector.
LEMMA MembersInAll ==
    ASSUME NEW x, Sound(x)
    PROVE  Members(x) \subseteq All(x) /\ All(x) \subseteq Nat
BY Shape DEF Members, All

\* Chunks that a call may leave in the place of those of x.
Chunked(x, f) ==
    /\ f \in [Chunks(x) -> SUBSET Bit]
    /\ \A i \in Chunks(x) : \A b \in f[i] : i * BITS_PER_CHUNK + b \in All(x)

\* The bits that chunks f of the vector x stand for.
Standing(x, f) ==
    {n \in All(x) : n % BITS_PER_CHUNK \in f[CHUNK_INDEX(n)]}

\* A vector with other chunks.
LEMMA Rechunked ==
    ASSUME NEW x, Sound(x), NEW f, Chunked(x, f)
    PROVE  LET y == [x EXCEPT !.chunk = f]
           IN  Sound(y) /\ Members(y) = Standing(x, f) /\ y.numBits = x.numBits
<1> DEFINE y == [x EXCEPT !.chunk = f]
<1>1. x \in Vector(x.numBits)
  BY DEF Sound
<1>2. y = [numBits |-> x.numBits, onHeap |-> x.onHeap, chunk |-> f]
  BY <1>1 DEF Vector
<1> HIDE DEF y
<1>3. y.numBits = x.numBits /\ y.onHeap = x.onHeap /\ y.chunk = f
  BY <1>2
<1>4. y \in Vector(y.numBits)
  BY <1>1, <1>2, <1>3 DEF Vector, Chunked, Chunks
<1>5. Chunks(y) = Chunks(x) /\ All(y) = All(x)
  BY <1>3 DEF Chunks, All
<1>6. \A i \in Chunks(y) : \A b \in y.chunk[i] : i * BITS_PER_CHUNK + b < y.numBits
  <2>1. x.numBits \in Nat
    BY Shape
  <2> QED
    BY <1>3, <1>5, <2>1 DEF Chunked, All
<1>7. Sound(y)
  BY <1>3, <1>4, <1>6 DEF Sound
<1>8. Members(y) = Standing(x, f)
  BY <1>3 DEF Members, Standing, All
<1> QED
  BY <1>3, <1>7, <1>8 DEF y

----------------------------------------------------------------------------
(***************************************************************************)
(* The masks.                                                              *)
(***************************************************************************)

\* A shift keeps the bits that stay in the chunk.
LEMMA ShiftFacts ==
    ASSUME NEW n \in Bit
    PROVE  /\ ShiftLeft(Bit, n) = {b \in Bit : n <= b}
           /\ ShiftRight(Bit, n) = {b \in Bit : b + n < BITS_PER_CHUNK}
<1>1. \A C \in Nat \ {0} : \A m \in 0 .. (C - 1) : m % C = m
  OBVIOUS
<1>2. n % BITS_PER_CHUNK = n
  BY <1>1, ChunkAssumption DEF Bit
<1> QED
  BY <1>2, ChunkAssumption DEF ShiftLeft, ShiftRight, Bit

\* The mask of a chunk, at its two ends.
LEMMA MaskIs ==
    ASSUME NEW lo \in Nat, NEW hi \in Nat, NEW i \in Nat, NEW b \in Bit
    PROVE  b \in Mask(i, lo, hi) <=>
               /\ i = CHUNK_INDEX(lo) => lo % BITS_PER_CHUNK <= b
               /\ i = CHUNK_INDEX(hi) => b <= hi % BITS_PER_CHUNK
<1> DEFINE l == lo % BITS_PER_CHUNK
           h == hi % BITS_PER_CHUNK
           g == BITS_PER_CHUNK - 1 - h
<1>1. l \in Bit /\ h \in Bit
  BY Split
<1> HIDE DEF l, h
<1>2. g \in Bit
  BY <1>1, ChunkAssumption DEF Bit
<1>3. b + g < BITS_PER_CHUNK <=> b <= h
  BY <1>1, ChunkAssumption DEF Bit
<1> HIDE DEF g
<1>4. b \in ShiftLeft(Bit, l) <=> l <= b
  BY <1>1, ShiftFacts
<1>5. b \in ShiftRight(Bit, g) <=> b <= h
  BY <1>2, <1>3, ShiftFacts
<1>6. Mask(i, lo, hi) =
          (IF i = CHUNK_INDEX(lo) THEN ShiftLeft(Bit, l) ELSE Bit)
            \cap (IF i = CHUNK_INDEX(hi) THEN ShiftRight(Bit, g) ELSE Bit)
  BY DEF Mask, l, g, h
<1> QED
  BY <1>4, <1>5, <1>6 DEF l, h

\* The masks of its chunks cut a range out of the numbers.
LEMMA InMask ==
    ASSUME NEW lo \in Nat, NEW hi \in Nat, NEW i \in Nat, NEW b \in Bit
    PROVE  (i \in ChunksOf(lo, hi) /\ b \in Mask(i, lo, hi))
               <=> i * BITS_PER_CHUNK + b \in lo .. hi
<1> DEFINE n == i * BITS_PER_CHUNK + b
           l == CHUNK_INDEX(lo)
           p == lo % BITS_PER_CHUNK
           h == CHUNK_INDEX(hi)
           q == hi % BITS_PER_CHUNK
<1>1. n \in Nat
  BY Join
<1>2. l \in Nat /\ p \in Bit /\ lo = l * BITS_PER_CHUNK + p
  BY Split
<1>3. h \in Nat /\ q \in Bit /\ hi = h * BITS_PER_CHUNK + q
  BY Split
<1>4. b \in Mask(i, lo, hi) <=> (i = l => p <= b) /\ (i = h => b <= q)
  BY MaskIs
<1>5. ChunksOf(lo, hi) = l .. h
  BY DEF ChunksOf
<1> HIDE DEF l, p, h, q
<1>6. lo <= n <=> (l < i \/ (l = i /\ p <= b))
  BY <1>2, Lexical
<1>7. n <= hi <=> (i < h \/ (i = h /\ b <= q))
  BY <1>3, Lexical
<1>8. p \in Nat /\ q \in Nat /\ b \in Nat
  BY <1>2, <1>3, ChunkAssumption DEF Bit
<1>9. n \in lo .. hi <=> lo <= n /\ n <= hi
  BY <1>1
<1> HIDE DEF n
<1>10. n \in lo .. hi <=> /\ l < i \/ (l = i /\ p <= b)
                          /\ i < h \/ (i = h /\ b <= q)
  BY <1>6, <1>7, <1>9
<1> QED
  BY <1>2, <1>3, <1>4, <1>5, <1>8, <1>10 DEF n

\* The same, from the number of a bit.
LEMMA NumberInMask ==
    ASSUME NEW lo \in Nat, NEW hi \in Nat, NEW n \in Nat
    PROVE  n \in lo .. hi <=>
               /\ CHUNK_INDEX(n) \in ChunksOf(lo, hi)
               /\ n % BITS_PER_CHUNK \in Mask(CHUNK_INDEX(n), lo, hi)
<1> DEFINE i == CHUNK_INDEX(n)
           b == n % BITS_PER_CHUNK
<1>1. i \in Nat /\ b \in Bit /\ n = i * BITS_PER_CHUNK + b
  BY Split
<1> HIDE DEF i, b
<1>2. (i \in ChunksOf(lo, hi) /\ b \in Mask(i, lo, hi)) <=> n \in lo .. hi
  BY <1>1, InMask
<1> QED
  BY <1>2 DEF i, b

\* A mask is of bits of a chunk.
LEMMA MaskType ==
    ASSUME NEW lo, NEW hi, NEW i
    PROVE  Mask(i, lo, hi) \subseteq Bit
BY DEF Mask, ShiftLeft, ShiftRight

\* A mask of the bits from 0, of the last chunk.
LEMMA LowestBits ==
    ASSUME NEW n \in 1 .. BITS_PER_CHUNK
    PROVE  lowestBitsSet(n) = 0 .. (n - 1)
<1>1. CASE n = BITS_PER_CHUNK
  BY <1>1 DEF lowestBitsSet, INLINE_LIMIT, Bit
<1>2. CASE n # BITS_PER_CHUNK
  <2>1. n \in Bit
    BY <1>2, ChunkAssumption DEF Bit
  <2>2. lowestBitsSet(n) = Bit \ {b \in Bit : n <= b}
    BY <1>2, <2>1, ShiftFacts DEF lowestBitsSet, INLINE_LIMIT
  <2> QED
    BY <1>2, <2>1, <2>2, ChunkAssumption DEF Bit
<1> QED
  BY <1>1, <1>2

----------------------------------------------------------------------------
(***************************************************************************)
(* The updates: what they leave is sound, and is the set it should be.     *)
(***************************************************************************)

\* y is a sound vector of the size of x and has the bits of set.
Becomes(x, y, set) == Sound(y) /\ y.numBits = x.numBits /\ Members(y) = set

\* One with the bits of x has the same.
LEMMA BecomesItself ==
    ASSUME NEW x, Sound(x)
    PROVE  Becomes(x, x, Members(x))
BY DEF Becomes

\* A call that writes chunks f, as the reference set has it.
LEMMA BecomesChunks ==
    ASSUME NEW x, Sound(x), NEW f, NEW set,
           f \in [Chunks(x) -> SUBSET Bit], set \subseteq All(x),
           \A i \in Chunks(x) : \A b \in Bit :
               b \in f[i] <=> i * BITS_PER_CHUNK + b \in set
    PROVE  Becomes(x, [x EXCEPT !.chunk = f], set)
<1>1. Chunked(x, f)
  BY DEF Chunked
<1>2. Standing(x, f) = set
  <2>1. ASSUME NEW n \in All(x)
        PROVE  n % BITS_PER_CHUNK \in f[CHUNK_INDEX(n)] <=> n \in set
    <3>1. CHUNK_INDEX(n) \in Chunks(x) /\ n \in Nat
      BY Shape
    <3>2. n % BITS_PER_CHUNK \in Bit
          /\ n = CHUNK_INDEX(n) * BITS_PER_CHUNK + (n % BITS_PER_CHUNK)
      BY <3>1, Split
    <3> QED
      BY <3>1, <3>2
  <2> QED
    BY <2>1 DEF Standing
<1> QED
  BY <1>1, <1>2, Rechunked DEF Becomes

\* Bit number bit is bit number b of chunk i exactly when both agree.
LEMMA Place ==
    ASSUME NEW n \in Nat, NEW i \in Nat, NEW b \in Bit
    PROVE  i * BITS_PER_CHUNK + b = n <=> i = CHUNK_INDEX(n) /\ b = n % BITS_PER_CHUNK
BY Split, Join

\* cubitvectorSetBit adds the bit, when it is one of the vector.
LEMMA SetBitAnswers ==
    ASSUME NEW x, Sound(x), NEW bit \in Nat
    PROVE  Becomes(x, SetBit(x, bit), Members(x) \cup ({bit} \cap All(x)))
<1>1. CASE bit >= x.numBits
  <2>1. {bit} \cap All(x) = {}
    BY <1>1, Shape DEF All
  <2> QED
    BY <1>1, <2>1, BecomesItself DEF SetBit
<1>2. CASE ~ (bit >= x.numBits)
  <2> DEFINE k == CHUNK_INDEX(bit)
             f == [x.chunk EXCEPT ![k] = @ \cup CHUNK_BITMASK(bit)]
  <2>1. bit \in All(x)
    BY <1>2, Shape DEF All
  <2>2. k \in Chunks(x) /\ bit % BITS_PER_CHUNK \in Bit
    BY <2>1, Shape, Split
  <2>3. SetBit(x, bit) = [x EXCEPT !.chunk = f]
    BY <1>2, <2>2 DEF SetBit
  <2>4. f \in [Chunks(x) -> SUBSET Bit]
    BY <2>2, Shape DEF CHUNK_BITMASK
  <2>5. ASSUME NEW i \in Chunks(x), NEW b \in Bit
        PROVE  b \in f[i] <=> i * BITS_PER_CHUNK + b \in Members(x) \cup {bit}
    <3>1. b \in f[i] <=> b \in x.chunk[i] \/ (i = k /\ b = bit % BITS_PER_CHUNK)
      BY <2>2, Shape DEF CHUNK_BITMASK
    <3>2. i \in Nat
      BY Shape
    <3> QED
      BY <3>1, <3>2, MemberAt, Place
  <2> HIDE DEF f
  <2> QED
    BY <2>1, <2>3, <2>4, <2>5, BecomesChunks, MembersInAll
<1> QED
  BY <1>1, <1>2

\* cubitvectorClearBit takes the bit away.
LEMMA ClearBitAnswers ==
    ASSUME NEW x, Sound(x), NEW bit \in Nat
    PROVE  Becomes(x, ClearBit(x, bit), Members(x) \ {bit})
<1>1. CASE bit >= x.numBits
  <2>1. bit \notin Members(x)
    BY <1>1, Shape, MembersInAll DEF All
  <2>2. Members(x) \ {bit} = Members(x)
    BY <2>1
  <2> QED
    BY <1>1, <2>2, BecomesItself DEF ClearBit
<1>2. CASE ~ (bit >= x.numBits)
  <2> DEFINE k == CHUNK_INDEX(bit)
             f == [x.chunk EXCEPT ![k] = @ \ CHUNK_BITMASK(bit)]
  <2>1. bit \in All(x)
    BY <1>2, Shape DEF All
  <2>2. k \in Chunks(x) /\ bit % BITS_PER_CHUNK \in Bit
    BY <2>1, Shape, Split
  <2>3. ClearBit(x, bit) = [x EXCEPT !.chunk = f]
    BY <1>2, <2>2 DEF ClearBit
  <2>4. f \in [Chunks(x) -> SUBSET Bit]
    BY <2>2, Shape DEF CHUNK_BITMASK
  <2>5. ASSUME NEW i \in Chunks(x), NEW b \in Bit
        PROVE  b \in f[i] <=> i * BITS_PER_CHUNK + b \in Members(x) \ {bit}
    <3>1. b \in f[i] <=> b \in x.chunk[i] /\ ~ (i = k /\ b = bit % BITS_PER_CHUNK)
      BY <2>2, Shape DEF CHUNK_BITMASK
    <3>2. i \in Nat
      BY Shape
    <3> QED
      BY <3>1, <3>2, MemberAt, Place
  <2> HIDE DEF f
  <2> QED
    BY <2>1, <2>3, <2>4, <2>5, BecomesChunks, MembersInAll
<1> QED
  BY <1>1, <1>2

\* The last chunk and how many bits it has.
LEMMA LastChunk ==
    ASSUME NEW x, Sound(x)
    PROVE  LET k == NUM_CHUNKS(x.numBits) - 1
               m == BITS_IN_LAST_CHUNK(x.numBits)
           IN  /\ k \in Nat /\ k = CHUNK_INDEX(x.numBits - 1)
               /\ m \in 1 .. BITS_PER_CHUNK
               /\ x.numBits = k * BITS_PER_CHUNK + m
               /\ Chunks(x) = 0 .. k
<1> DEFINE n == x.numBits
           k == NUM_CHUNKS(n) - 1
           i == CHUNK_INDEX(n - 1)
           b == (n - 1) % BITS_PER_CHUNK
<1>1. /\ n \in Nat \ {0} /\ k \in Nat /\ k * BITS_PER_CHUNK < n
      /\ n <= (k + 1) * BITS_PER_CHUNK
  BY Shape DEF Fits
<1>2. n - 1 \in Nat
  BY <1>1
<1>3. i \in Nat /\ b \in Bit /\ n - 1 = i * BITS_PER_CHUNK + b
      /\ i * BITS_PER_CHUNK \in Nat
  BY <1>2, Split
<1>4. Chunks(x) = 0 .. k
  BY DEF Chunks
<1>5. BITS_IN_LAST_CHUNK(n) = b + 1
  BY DEF BITS_IN_LAST_CHUNK
<1> HIDE DEF n, k, i, b
<1>6. i = k
  <2>1. \A C \in Nat \ {0} : \A c \in 0 .. (C - 1) :
            n - 1 = i * C + c /\ k * C < n /\ n <= (k + 1) * C => i = k
    <3>1. SUFFICES ASSUME NEW C \in Nat \ {0}, NEW c \in 0 .. (C - 1),
                          n - 1 = i * C + c, k * C < n, n <= (k + 1) * C
                   PROVE  i = k
      OBVIOUS
    <3>2. i * C \in Nat /\ k * C \in Nat /\ (k + 1) * C = k * C + C
      BY <1>1, <1>3, <3>1
    <3>3. ~ (i < k)
      <4>1. i < k => i * C + C <= k * C
        BY <1>1, <1>3
      <4> QED
        BY <1>1, <3>1, <3>2, <4>1
    <3>4. ~ (k < i)
      <4>1. k < i => k * C + C <= i * C
        BY <1>1, <1>3
      <4> QED
        BY <1>1, <3>1, <3>2, <4>1
    <3> QED
      BY <1>1, <1>3, <3>3, <3>4
  <2> QED
    BY <1>1, <1>3, <2>1, ChunkAssumption DEF Bit
<1>7. b + 1 \in 1 .. BITS_PER_CHUNK /\ n = i * BITS_PER_CHUNK + (b + 1)
  BY <1>1, <1>3, ChunkAssumption DEF Bit
<1> QED
  BY <1>1, <1>4, <1>5, <1>6, <1>7 DEF n, k, i, b

\* The bits of a vector are the whole chunks before the last, and of that one
\* those below m.
LEMMA AllIs ==
    ASSUME NEW x, Sound(x), NEW i \in Chunks(x), NEW b \in Bit
    PROVE  i * BITS_PER_CHUNK + b \in All(x) <=>
               \/ i < NUM_CHUNKS(x.numBits) - 1
               \/ b < BITS_IN_LAST_CHUNK(x.numBits)
<1> DEFINE n == x.numBits
           k == NUM_CHUNKS(n) - 1
           m == BITS_IN_LAST_CHUNK(n)
<1>1. k \in Nat /\ m \in 1 .. BITS_PER_CHUNK /\ n = k * BITS_PER_CHUNK + m
      /\ Chunks(x) = 0 .. k
  BY LastChunk
<1>2. n \in Nat \ {0} /\ All(x) = 0 .. (n - 1)
  BY Shape DEF All
<1> HIDE DEF n, k, m
<1>3. i \in Nat /\ i <= k /\ b \in Nat
  BY <1>1, ChunkAssumption DEF Bit
<1>4. m - 1 \in Bit /\ m \in Nat
  BY <1>1, ChunkAssumption DEF Bit
<1>5. k * BITS_PER_CHUNK \in Nat /\ i * BITS_PER_CHUNK + b \in Nat
  BY <1>1, <1>3, <1>4, Join
<1>6. n - 1 = k * BITS_PER_CHUNK + (m - 1)
  BY <1>1, <1>4, <1>5
<1>7. i * BITS_PER_CHUNK + b <= n - 1 <=> (i < k \/ (i = k /\ b <= m - 1))
  BY <1>1, <1>3, <1>4, <1>6, Lexical
<1>8. i * BITS_PER_CHUNK + b \in All(x) <=> i * BITS_PER_CHUNK + b <= n - 1
  BY <1>2, <1>5
<1> QED
  BY <1>1, <1>3, <1>4, <1>7, <1>8 DEF n, k, m

\* cubitvectorSetAllBits sets them all, and no bit of the padding.
LEMMA SetAllBitsAnswers ==
    ASSUME NEW x, Sound(x)
    PROVE  Becomes(x, SetAllBits(x), All(x))
<1> DEFINE n == x.numBits
           k == NUM_CHUNKS(n) - 1
           m == BITS_IN_LAST_CHUNK(n)
<1>1. k \in Nat /\ m \in 1 .. BITS_PER_CHUNK /\ n = k * BITS_PER_CHUNK + m
      /\ Chunks(x) = 0 .. k
  BY LastChunk
<1>2. lowestBitsSet(m) = 0 .. (m - 1) /\ 0 .. (m - 1) \subseteq Bit
      /\ \A b \in Bit : b \in lowestBitsSet(m) <=> b < m
  BY <1>1, LowestBits, ChunkAssumption DEF Bit
<1>3. CASE n <= INLINE_LIMIT
  <2> DEFINE f == [x.chunk EXCEPT ![0] = lowestBitsSet(n)]
  <2>1. k = 0 /\ n = m
    <3>1. \A C \in Nat \ {0} : \A c \in 1 .. C : \A j \in Nat :
              j * C + c <= C => j = 0 /\ j * C + c = c
      <4>1. \A C \in Nat \ {0} : \A j \in Nat \ {0} : C <= j * C /\ j * C \in Nat
        OBVIOUS
      <4> QED
        BY <4>1
    <3> HIDE DEF n, k, m
    <3> QED
      BY <1>1, <1>3, <3>1, ChunkAssumption DEF INLINE_LIMIT
  <2>2. SetAllBits(x) = [x EXCEPT !.chunk = f]
    BY <1>3 DEF SetAllBits
  <2>3. f \in [Chunks(x) -> SUBSET Bit]
    BY <1>2, <2>1, Shape
  <2>4. ASSUME NEW i \in Chunks(x), NEW b \in Bit
        PROVE  b \in f[i] <=> i * BITS_PER_CHUNK + b \in All(x)
    <3>1. i = 0
      BY <1>1, <2>1
    <3>2. b \in f[i] <=> b < m
      BY <1>2, <2>1, <3>1, Shape
    <3> QED
      BY <2>1, <3>1, <3>2, AllIs
  <2> HIDE DEF f
  <2> QED
    BY <2>2, <2>3, <2>4, BecomesChunks
<1>4. CASE ~ (n <= INLINE_LIMIT)
  <2> DEFINE f == [i \in Chunks(x) |-> IF i < k THEN Bit ELSE lowestBitsSet(m)]
  <2>1. SetAllBits(x) = [x EXCEPT !.chunk = f]
    BY <1>4 DEF SetAllBits
  <2>2. f \in [Chunks(x) -> SUBSET Bit]
    BY <1>2
  <2>3. ASSUME NEW i \in Chunks(x), NEW b \in Bit
        PROVE  b \in f[i] <=> i * BITS_PER_CHUNK + b \in All(x)
    <3>1. b \in f[i] <=> i < k \/ b < m
      BY <1>2
    <3> QED
      BY <3>1, AllIs
  <2> HIDE DEF f
  <2> QED
    BY <2>1, <2>2, <2>3, BecomesChunks
<1> QED
  BY <1>3, <1>4

\* The numbers that a range names: all, or none when it does not end inside.
Named(x, lo, hi) == IF hi \in All(x) THEN lo .. hi ELSE {}

\* A range that the code refuses names nothing.
LEMMA Refused ==
    ASSUME NEW x, Sound(x), NEW lo \in Nat, NEW hi \in Nat
    PROVE  /\ ~ InRange(x, lo, hi) => Named(x, lo, hi) = {}
           /\ InRange(x, lo, hi) => Named(x, lo, hi) = lo .. hi
           /\ Named(x, lo, hi) \subseteq All(x)
BY Shape DEF InRange, Named, All

\* cubitvectorSetBitsInRange adds the range.
LEMMA SetBitsInRangeAnswers ==
    ASSUME NEW x, Sound(x), NEW lo \in Nat, NEW hi \in Nat
    PROVE  Becomes(x, SetBitsInRange(x, lo, hi), Members(x) \cup Named(x, lo, hi))
<1>1. CASE ~ InRange(x, lo, hi)
  <2>1. Members(x) \cup Named(x, lo, hi) = Members(x)
    BY <1>1, Refused
  <2> QED
    BY <1>1, <2>1, BecomesItself DEF SetBitsInRange
<1>2. CASE InRange(x, lo, hi)
  <2> DEFINE f == [i \in Chunks(x) |-> IF i \in ChunksOf(lo, hi)
                                       THEN x.chunk[i] \cup Mask(i, lo, hi) ELSE x.chunk[i]]
             set == Members(x) \cup Named(x, lo, hi)
  <2>1. SetBitsInRange(x, lo, hi) = [x EXCEPT !.chunk = f]
    BY <1>2 DEF SetBitsInRange
  <2>2. f \in [Chunks(x) -> SUBSET Bit]
    BY Shape, MaskType
  <2>3. ASSUME NEW i \in Chunks(x), NEW b \in Bit
        PROVE  b \in f[i] <=> i * BITS_PER_CHUNK + b \in set
    <3>1. i \in Nat
      BY Shape
    <3>2. b \in f[i] <=> b \in x.chunk[i] \/ (i \in ChunksOf(lo, hi) /\ b \in Mask(i, lo, hi))
      OBVIOUS
    <3>3. b \in f[i] <=> \/ i * BITS_PER_CHUNK + b \in Members(x)
                         \/ i * BITS_PER_CHUNK + b \in lo .. hi
      BY <3>1, <3>2, MemberAt, InMask
    <3> QED
      BY <1>2, <3>3, Refused
  <2>4. set \subseteq All(x)
    BY Refused, MembersInAll
  <2> HIDE DEF f, set
  <2>5. Becomes(x, [x EXCEPT !.chunk = f], set)
    BY <2>2, <2>3, <2>4, BecomesChunks
  <2> QED
    BY <2>1, <2>5 DEF set
<1> QED
  BY <1>1, <1>2

\* cubitvectorClearBitsInRange takes the range away.
LEMMA ClearBitsInRangeAnswers ==
    ASSUME NEW x, Sound(x), NEW lo \in Nat, NEW hi \in Nat
    PROVE  Becomes(x, ClearBitsInRange(x, lo, hi), Members(x) \ Named(x, lo, hi))
<1>1. CASE ~ InRange(x, lo, hi)
  <2>1. Members(x) \ Named(x, lo, hi) = Members(x)
    BY <1>1, Refused
  <2> QED
    BY <1>1, <2>1, BecomesItself DEF ClearBitsInRange
<1>2. CASE InRange(x, lo, hi)
  <2> DEFINE f == [i \in Chunks(x) |-> IF i \in ChunksOf(lo, hi)
                                       THEN x.chunk[i] \ Mask(i, lo, hi) ELSE x.chunk[i]]
             set == Members(x) \ Named(x, lo, hi)
  <2>1. ClearBitsInRange(x, lo, hi) = [x EXCEPT !.chunk = f]
    BY <1>2 DEF ClearBitsInRange
  <2>2. f \in [Chunks(x) -> SUBSET Bit]
    BY Shape
  <2>3. ASSUME NEW i \in Chunks(x), NEW b \in Bit
        PROVE  b \in f[i] <=> i * BITS_PER_CHUNK + b \in set
    <3>1. i \in Nat
      BY Shape
    <3>2. b \in f[i] <=> b \in x.chunk[i] /\ ~ (i \in ChunksOf(lo, hi) /\ b \in Mask(i, lo, hi))
      OBVIOUS
    <3>3. b \in f[i] <=> /\ i * BITS_PER_CHUNK + b \in Members(x)
                         /\ i * BITS_PER_CHUNK + b \notin lo .. hi
      BY <3>1, <3>2, MemberAt, InMask
    <3> QED
      BY <1>2, <3>3, Refused
  <2>4. set \subseteq All(x)
    BY MembersInAll
  <2> HIDE DEF f, set
  <2>5. Becomes(x, [x EXCEPT !.chunk = f], set)
    BY <2>2, <2>3, <2>4, BecomesChunks
  <2> QED
    BY <2>1, <2>5 DEF set
<1> QED
  BY <1>1, <1>2

\* cubitvectorAnd intersects vectors of one size.
LEMMA AndAnswers ==
    ASSUME NEW x, Sound(x), NEW y, Sound(y), y.numBits = x.numBits
    PROVE  Becomes(x, And(x, y), Members(x) \cap Members(y))
<1> DEFINE f == [i \in Chunks(x) |-> x.chunk[i] \cap y.chunk[i]]
<1>1. And(x, y) = [x EXCEPT !.chunk = f]
  BY DEF And
<1>2. Chunks(y) = Chunks(x)
  BY DEF Chunks
<1>3. f \in [Chunks(x) -> SUBSET Bit]
  BY Shape
<1>4. ASSUME NEW i \in Chunks(x), NEW b \in Bit
      PROVE  b \in f[i] <=> i * BITS_PER_CHUNK + b \in Members(x) \cap Members(y)
  BY <1>2, MemberAt
<1>5. Members(x) \cap Members(y) \subseteq All(x)
  BY MembersInAll
<1> HIDE DEF f
<1> QED
  BY <1>1, <1>3, <1>4, <1>5, BecomesChunks

\* Another number of bits makes no difference to an And.
LEMMA AndRefuses ==
    ASSUME NEW x, NEW y, y.numBits # x.numBits
    PROVE  And(x, y) = x
BY DEF And

\* A fresh vector is empty.
LEMMA FreshIsSound ==
    ASSUME NEW n \in Sizes, NUM_CHUNKS(n) # 0
    PROVE  Sound(Fresh(n)) /\ Members(Fresh(n)) = {} /\ Fresh(n).numBits = n
<1> DEFINE x == Fresh(n)
<1>1. x.numBits = n /\ x.onHeap = (n > INLINE_LIMIT)
      /\ x.chunk = [i \in 0 .. (NUM_CHUNKS(n) - 1) |-> {}]
  BY DEF Fresh
<1>2. x \in Vector(n)
  BY DEF Fresh, Vector
<1> HIDE DEF x
<1>3. Sound(x)
  BY <1>1, <1>2 DEF Sound, Chunks
<1>4. Members(x) = {}
  <2>1. \A b \in All(x) : CHUNK_INDEX(b) \in Chunks(x)
    BY <1>3, Shape
  <2> QED
    BY <1>1, <2>1 DEF Members, All, Chunks
<1> QED
  BY <1>1, <1>3, <1>4 DEF x

\* cubitvectorGrow keeps the bits, and those it adds are clear.
LEMMA GrowAnswers ==
    ASSUME NEW x, Sound(x), NEW n \in Sizes, NUM_CHUNKS(n) # 0
    PROVE  Sound(Grow(x, n)) /\ Members(Grow(x, n)) = Members(x)
<1>1. CASE x.numBits >= n
  BY <1>1 DEF Grow
<1>2. CASE ~ (x.numBits >= n)
  <2> DEFINE y == Grow(x, n)
  <2>1. /\ y.numBits = n /\ y.onHeap = (x.onHeap \/ n > INLINE_LIMIT)
        /\ y.chunk = [i \in 0 .. (NUM_CHUNKS(n) - 1) |->
                          IF i \in Chunks(x) THEN x.chunk[i] ELSE {}]
    BY <1>2 DEF Grow
  <2>2. /\ x.numBits \in Nat /\ n \in Nat /\ x.numBits < n
        /\ x.chunk \in [Chunks(x) -> SUBSET Bit]
        /\ x.onHeap \in BOOLEAN /\ INLINE_LIMIT \in Nat
    BY <1>2, Shape, SizesAssumption, ChunkAssumption, Words
       DEF Sound, Vector, INLINE_LIMIT
  <2>3. y = [numBits |-> y.numBits, onHeap |-> y.onHeap, chunk |-> y.chunk]
    BY <1>2 DEF Grow
  <2> HIDE DEF y
  <2>4. y.onHeap = (n > INLINE_LIMIT)
    BY <2>1, <2>2 DEF Sound
  <2>5. y \in Vector(n)
    BY <2>1, <2>2, <2>3 DEF Vector
  <2>6. Chunks(y) = 0 .. (NUM_CHUNKS(n) - 1)
    BY <2>1 DEF Chunks
  <2>7. \A i \in Chunks(y) : \A b \in y.chunk[i] : i * BITS_PER_CHUNK + b < y.numBits
    <3>1. SUFFICES ASSUME NEW i \in Chunks(y), NEW b \in y.chunk[i]
                   PROVE  i * BITS_PER_CHUNK + b < n
      BY <2>1
    <3>2. i \in Chunks(x) /\ b \in x.chunk[i]
      BY <2>1, <2>6
    <3>3. i * BITS_PER_CHUNK + b \in 0 .. (x.numBits - 1)
      BY <3>2, Shape DEF All
    <3> QED
      BY <2>2, <3>3
  <2>8. Sound(y)
    BY <2>1, <2>4, <2>5, <2>7 DEF Sound
  <2>9. ASSUME NEW c \in Nat
        PROVE  c \in Members(y) <=> c \in Members(x)
    <3> DEFINE i == CHUNK_INDEX(c)
    <3>1. c \in Members(y) <=> i \in Chunks(y) /\ c % BITS_PER_CHUNK \in y.chunk[i]
      BY <2>8, MemberIs
    <3>2. c \in Members(x) <=> i \in Chunks(x) /\ c % BITS_PER_CHUNK \in x.chunk[i]
      BY MemberIs
    <3>3. c \in Members(x) => c \in All(y)
      BY <2>1, <2>2, MembersInAll DEF All
    <3>4. c \in Members(x) => i \in Chunks(y)
      BY <2>8, <3>3, Shape
    <3> QED
      BY <2>1, <2>6, <3>1, <3>2, <3>4
  <2>10. Members(y) = Members(x)
    BY <2>8, <2>9, MembersInAll
  <2> QED
    BY <2>8, <2>10 DEF y
<1> QED
  BY <1>1, <1>2

----------------------------------------------------------------------------
(***************************************************************************)
(* The lowest and the highest of the bits in many chunks.                  *)
(***************************************************************************)

\* Min and Max are the only number of a set that bounds it.
LEMMA MinIs ==
    ASSUME NEW S \in SUBSET Nat, NEW m \in S, \A n \in S : m <= n
    PROVE  Min(S) = m
<1>1. Min(S) \in S /\ \A n \in S : Min(S) <= n
  BY DEF Min
<1>2. Min(S) <= m /\ m <= Min(S)
  BY <1>1
<1>3. m \in Nat /\ Min(S) \in Nat
  BY <1>1
<1> QED
  BY <1>2, <1>3

\* The same of Max.
LEMMA MaxIs ==
    ASSUME NEW S \in SUBSET Nat, NEW m \in S, \A n \in S : n <= m
    PROVE  Max(S) = m
<1>1. Max(S) \in S /\ \A n \in S : Max(S) >= n
  BY DEF Max
<1>2. Max(S) >= m /\ m >= Max(S)
  BY <1>1
<1>3. m \in Nat /\ Max(S) \in Nat
  BY <1>1
<1> QED
  BY <1>2, <1>3

\* A set of numbers has a least one.
LEMMA MinFacts ==
    ASSUME NEW S \in SUBSET Nat, S # {}
    PROVE  Min(S) \in S /\ \A n \in S : Min(S) <= n
<1>1. PICK x \in S : \A y \in S : x <= y
  BY HasLeast
<1>2. Min(S) = x
  BY <1>1, MinIs
<1> QED
  BY <1>1, <1>2

\* A bounded set of numbers has a greatest one.
LEMMA MaxFacts ==
    ASSUME NEW S \in SUBSET Nat, S # {}, NEW top \in Nat, \A n \in S : n <= top
    PROVE  Max(S) \in S /\ \A n \in S : n <= Max(S)
<1> DEFINE above == {t \in Nat : \A n \in S : n <= t}
           t0 == Min(above)
<1>1. above \in SUBSET Nat /\ top \in above
  OBVIOUS
<1>2. t0 \in above /\ \A t \in above : t0 <= t
  BY <1>1, MinFacts
<1>3. t0 \in Nat /\ \A n \in S : n <= t0
  BY <1>2
<1>4. t0 \in S
  <2>1. SUFFICES ASSUME t0 \notin S PROVE FALSE
    OBVIOUS
  <2>2. \A n \in S : n <= t0 - 1 /\ n \in Nat /\ t0 - 1 \in Int
    BY <1>3, <2>1
  <2>3. t0 - 1 \in Nat
    <3>1. PICK n \in S : TRUE
      OBVIOUS
    <3>2. n \in Nat /\ n <= t0 - 1
      BY <2>2
    <3> QED
      BY <1>3, <3>2
  <2>4. t0 - 1 \in above
    BY <2>2, <2>3
  <2> QED
    BY <1>2, <1>3, <2>4
<1> HIDE DEF t0
<1> QED
  BY <1>3, <1>4, MaxIs

\* The numbers in set are bits b \in hits[i] of chunks i.
Spread(set, chunks, hits) ==
    \A i \in chunks : \A b \in Bit : b \in hits[i] <=> i * BITS_PER_CHUNK + b \in set

\* The members of set are all filed in the chunks J.
Filed(set, J, hits) ==
    /\ set \in SUBSET Nat /\ J \in SUBSET Nat /\ hits \in [J -> SUBSET Bit]
    /\ Spread(set, J, hits)
    /\ \A n \in set : CHUNK_INDEX(n) \in J

\* Those chunks among J with hits.
Hit(J, hits) == {i \in J : hits[i] # {}}

\* What is in set is found in a chunk.
LEMMA Located ==
    ASSUME NEW set, NEW J, NEW hits, Filed(set, J, hits)
    PROVE  /\ \A n \in set : \E i \in Hit(J, hits) : \E b \in hits[i] : n = i * BITS_PER_CHUNK + b
           /\ \A i \in Hit(J, hits) : \A b \in hits[i] : i * BITS_PER_CHUNK + b \in set
           /\ Hit(J, hits) = {} <=> set = {}
<1> USE DEF Filed
<1>1. ASSUME NEW n \in set
      PROVE  \E i \in Hit(J, hits) : \E b \in hits[i] : n = i * BITS_PER_CHUNK + b
  <2> DEFINE i == CHUNK_INDEX(n)
             b == n % BITS_PER_CHUNK
  <2>1. b \in Bit /\ n = i * BITS_PER_CHUNK + b
    BY Split
  <2>2. i \in J
    OBVIOUS
  <2>3. b \in hits[i]
    BY <2>1, <2>2 DEF Spread
  <2> QED
    BY <2>1, <2>2, <2>3 DEF Hit
<1>2. ASSUME NEW i \in Hit(J, hits), NEW b \in hits[i]
      PROVE  i * BITS_PER_CHUNK + b \in set
  BY DEF Hit, Spread
<1>3. \A i \in Hit(J, hits) : hits[i] # {}
  BY DEF Hit
<1> QED
  BY <1>1, <1>2, <1>3

\* The lowest bit of the first chunk that has one.
LEMMA LowestFound ==
    ASSUME NEW set, NEW J, NEW hits, Filed(set, J, hits), set # {}
    PROVE  Min(Hit(J, hits)) * BITS_PER_CHUNK + Min(hits[Min(Hit(J, hits))]) = Min(set)
<1> DEFINE found == Hit(J, hits)
           i == Min(found)
           b == Min(hits[i])
<1>0. found # {} /\ Filed(set, J, hits)
  BY Located
<1>1. found \in SUBSET Nat /\ found # {} /\ set \in SUBSET Nat
      /\ hits \in [J -> SUBSET Bit]
  BY <1>0 DEF Hit, Filed
<1>2. i \in found /\ \A j \in found : i <= j
  BY <1>1, MinFacts
<1>3. \A j \in found : j \in Nat /\ hits[j] \subseteq Bit /\ hits[j] # {}
  BY <1>1 DEF Hit
<1>4. Bit \subseteq Nat
  BY ChunkAssumption DEF Bit
<1>5. hits[i] \in SUBSET Nat /\ hits[i] # {}
  BY <1>2, <1>3, <1>4
<1>6. b \in hits[i] /\ \A c \in hits[i] : b <= c
  BY <1>5, MinFacts
<1> HIDE DEF found, i, b
<1>7. i * BITS_PER_CHUNK + b \in set
  BY <1>2, <1>6, Located DEF found
<1>8. ASSUME NEW n \in set
      PROVE  i * BITS_PER_CHUNK + b <= n
  <2>1. PICK j \in found : \E c \in hits[j] : n = j * BITS_PER_CHUNK + c
    BY Located DEF found
  <2>2. PICK c \in hits[j] : n = j * BITS_PER_CHUNK + c
    BY <2>1
  <2>3. i < j \/ (i = j /\ b <= c)
    BY <1>2, <1>3, <1>6
  <2>4. i \in Nat /\ j \in Nat /\ b \in Bit /\ c \in Bit
    BY <1>2, <1>3, <1>6
  <2> QED
    BY <2>2, <2>3, <2>4, Lexical
<1>9. Min(set) = i * BITS_PER_CHUNK + b
  BY <1>1, <1>7, <1>8, MinIs
<1> QED
  BY <1>9 DEF found, i, b

\* The highest bit of the last chunk that has one.
LEMMA HighestFound ==
    ASSUME NEW set, NEW J, NEW hits, Filed(set, J, hits), set # {},
           NEW top \in Nat, \A j \in J : j <= top
    PROVE  Max(Hit(J, hits)) * BITS_PER_CHUNK + Max(hits[Max(Hit(J, hits))]) = Max(set)
<1> DEFINE found == Hit(J, hits)
           i == Max(found)
           b == Max(hits[i])
<1>0. found # {} /\ Filed(set, J, hits)
  BY Located
<1>1. found \in SUBSET Nat /\ found # {} /\ (\A j \in found : j <= top)
      /\ set \in SUBSET Nat /\ hits \in [J -> SUBSET Bit]
  BY <1>0 DEF Hit, Filed
<1>2. i \in found /\ \A j \in found : j <= i
  BY <1>1, MaxFacts
<1>3. \A j \in found : j \in Nat /\ hits[j] \subseteq Bit /\ hits[j] # {}
  BY <1>1 DEF Hit
<1>4. Bit \subseteq Nat /\ BITS_PER_CHUNK \in Nat /\ \A c \in Bit : c <= BITS_PER_CHUNK
  BY ChunkAssumption DEF Bit
<1>5. hits[i] \in SUBSET Nat /\ hits[i] # {} /\ \A c \in hits[i] : c <= BITS_PER_CHUNK
  BY <1>2, <1>3, <1>4
<1>6. b \in hits[i] /\ \A c \in hits[i] : c <= b
  BY <1>4, <1>5, MaxFacts
<1> HIDE DEF found, i, b
<1>7. i * BITS_PER_CHUNK + b \in set
  BY <1>2, <1>6, Located DEF found
<1>8. ASSUME NEW n \in set
      PROVE  n <= i * BITS_PER_CHUNK + b
  <2>1. PICK j \in found : \E c \in hits[j] : n = j * BITS_PER_CHUNK + c
    BY Located DEF found
  <2>2. PICK c \in hits[j] : n = j * BITS_PER_CHUNK + c
    BY <2>1
  <2>3. i \in Nat /\ j \in Nat /\ b \in Bit /\ c \in Bit
    BY <1>2, <1>3, <1>6
  <2>4. j < i \/ (i = j /\ c <= b)
    BY <1>2, <1>6, <2>3
  <2> QED
    BY <2>2, <2>3, <2>4, Lexical
<1>9. Max(set) = i * BITS_PER_CHUNK + b
  BY <1>1, <1>7, <1>8, MaxIs
<1> QED
  BY <1>9 DEF found, i, b

----------------------------------------------------------------------------
(***************************************************************************)
(* The queries.                                                            *)
(***************************************************************************)

\* cubitvectorIsBitSet tells membership.
LEMMA IsBitSetAnswers ==
    ASSUME NEW x, Sound(x), NEW bit \in Nat
    PROVE  IsBitSet(x, bit) <=> bit \in Members(x)
<1>1. bit \in Members(x) <=> bit \in All(x) /\ bit % BITS_PER_CHUNK \in x.chunk[CHUNK_INDEX(bit)]
  BY DEF Members, All
<1>2. bit \in All(x) <=> bit < x.numBits
  BY Shape DEF All
<1> QED
  BY <1>1, <1>2 DEF IsBitSet, CHUNK_BITMASK

\* cubitvectorIsAnyBitSet tells whether there are members: it may look at
\* whole chunks because the padding is clear.
LEMMA IsAnyBitSetAnswers ==
    ASSUME NEW x, Sound(x)
    PROVE  IsAnyBitSet(x) <=> Members(x) # {}
<1>1. ASSUME NEW i \in Chunks(x), x.chunk[i] # {}
      PROVE  Members(x) # {}
  <2>1. PICK b \in x.chunk[i] : b \in Bit
    BY <1>1, Shape
  <2> QED
    BY <2>1, MemberAt
<1>2. ASSUME NEW n \in Members(x)
      PROVE  \E i \in Chunks(x) : x.chunk[i] # {}
  <2>1. n \in Nat
    BY MembersInAll
  <2> QED
    BY <2>1, MemberIs
<1> QED
  BY <1>1, <1>2 DEF IsAnyBitSet

\* cubitvectorCompare tells equality.
LEMMA CompareAnswers ==
    ASSUME NEW x, Sound(x), NEW y, Sound(y)
    PROVE  Compare(x, y) <=> x.numBits = y.numBits /\ Members(x) = Members(y)
<1>1. ASSUME x.numBits = y.numBits, \A i \in Chunks(x) : x.chunk[i] = y.chunk[i]
      PROVE  Members(x) = Members(y)
  <2>1. All(x) = All(y)
    BY <1>1 DEF All
  <2>2. \A b \in All(x) : CHUNK_INDEX(b) \in Chunks(x)
    BY Shape
  <2> QED
    BY <1>1, <2>1, <2>2 DEF Members, All
<1>2. ASSUME x.numBits = y.numBits, Members(x) = Members(y), NEW i \in Chunks(x)
      PROVE  x.chunk[i] = y.chunk[i]
  <2>1. i \in Chunks(y)
    BY <1>2 DEF Chunks
  <2>2. \A b \in Bit : b \in x.chunk[i] <=> b \in y.chunk[i]
    BY <1>2, <2>1, MemberAt
  <2>3. x.chunk[i] \subseteq Bit /\ y.chunk[i] \subseteq Bit
    BY <2>1, Shape
  <2> QED
    BY <2>2, <2>3
<1> QED
  BY <1>1, <1>2 DEF Compare

\* What ClearInChunk offers, in every chunk.
ClearHits(x) == [i \in Chunks(x) |-> ClearInChunk(x, i)]

\* The clear bits of a vector, none of its padding.
LEMMA ClearFiled ==
    ASSUME NEW x, Sound(x)
    PROVE  Filed(All(x) \ Members(x), Chunks(x), ClearHits(x))
<1> DEFINE k == NUM_CHUNKS(x.numBits) - 1
           m == BITS_IN_LAST_CHUNK(x.numBits)
<1>1. k \in Nat /\ k = CHUNK_INDEX(x.numBits - 1) /\ m \in 1 .. BITS_PER_CHUNK
      /\ Chunks(x) = 0 .. k
  BY LastChunk
<1>2. ASSUME NEW i \in Chunks(x)
      PROVE  ClearInChunk(x, i) = {b \in Bit : (i < k \/ b < m) /\ b \notin x.chunk[i]}
  <2>1. CASE i = k
    <3>1. ClearInChunk(x, i) = (0 .. (m - 1)) \ x.chunk[i]
      BY <1>1, <2>1 DEF ClearInChunk
    <3> QED
      BY <1>1, <2>1, <3>1, ChunkAssumption DEF Bit
  <2>2. CASE i # k
    <3>1. ClearInChunk(x, i) = (0 .. (BITS_PER_CHUNK - 1)) \ x.chunk[i]
      BY <1>1, <2>2 DEF ClearInChunk
    <3> QED
      BY <1>1, <2>2, <3>1 DEF Bit
  <2> QED
    BY <2>1, <2>2
<1>3. ClearHits(x) \in [Chunks(x) -> SUBSET Bit]
  BY <1>2 DEF ClearHits
<1>4. ASSUME NEW i \in Chunks(x), NEW b \in Bit
      PROVE  b \in ClearHits(x)[i] <=> i * BITS_PER_CHUNK + b \in All(x) \ Members(x)
  <2>1. b \in ClearHits(x)[i] <=> (i < k \/ b < m) /\ b \notin x.chunk[i]
    BY <1>2 DEF ClearHits
  <2> QED
    BY <2>1, AllIs, MemberAt
<1>5. \A n \in All(x) : CHUNK_INDEX(n) \in Chunks(x) /\ n \in Nat
  BY Shape
<1> QED
  BY <1>3, <1>4, <1>5, Shape DEF Filed, Spread

\* cubitvectorSetLowestClearBit finds the lowest clear bit, if there is one.
LEMMA LowestClearBitAnswers ==
    ASSUME NEW x, Sound(x)
    PROVE  LowestClearBit(x) = FirstOf(All(x) \ Members(x), Min)
<1> DEFINE set   == All(x) \ Members(x)
           hits  == ClearHits(x)
           found == Hit(Chunks(x), hits)
<1>1. Filed(set, Chunks(x), hits)
  BY ClearFiled
<1>2. \A i \in Chunks(x) : hits[i] = ClearInChunk(x, i)
  BY DEF ClearHits
<1>3. \A i \in Chunks(x) : ClearInChunk(x, i) # {} => x.chunk[i] # Bit
  <2>1. \A i \in Chunks(x) : ClearInChunk(x, i) \subseteq Bit \ x.chunk[i]
    BY <1>1, <1>2 DEF Filed, ClearInChunk
  <2> QED
    BY <2>1
<1>4. {i \in Chunks(x) : x.chunk[i] # Bit /\ ClearInChunk(x, i) # {}} = found
  BY <1>2, <1>3 DEF Hit
<1>5. LowestClearBit(x) = IF found = {} THEN NULL
                          ELSE Min(found) * BITS_PER_CHUNK + Min(ClearInChunk(x, Min(found)))
  BY <1>4 DEF LowestClearBit
<1>6. found = {} <=> set = {}
  BY <1>1, Located
<1>7. ASSUME set # {}
      PROVE  Min(found) * BITS_PER_CHUNK + Min(ClearInChunk(x, Min(found))) = Min(set)
  <2>1. found \in SUBSET Nat /\ found \subseteq Chunks(x)
    BY Shape DEF Hit
  <2>2. Min(found) \in found
    BY <1>6, <1>7, <2>1, MinFacts
  <2>3. ClearInChunk(x, Min(found)) = hits[Min(found)]
    BY <1>2, <2>1, <2>2
  <2>4. Min(found) * BITS_PER_CHUNK + Min(hits[Min(found)]) = Min(set)
    BY <1>1, <1>7, LowestFound
  <2> QED
    BY <2>3, <2>4
<1> HIDE DEF set, found
<1>8. LowestClearBit(x) = IF set = {} THEN NULL ELSE Min(set)
  BY <1>5, <1>6, <1>7
<1> QED
  BY <1>8 DEF FirstOf, set

\* It sets that bit and no other.
LEMMA SetLowestClearBitAnswers ==
    ASSUME NEW x, Sound(x)
    PROVE  \/ SetLowestClearBit(x) = x
           \/ \E bit \in Nat : SetLowestClearBit(x) = SetBit(x, bit)
<1> DEFINE bit == LowestClearBit(x)
           set == All(x) \ Members(x)
<1>1. CASE bit = NULL
  BY <1>1 DEF SetLowestClearBit
<1>2. CASE bit # NULL
  <2>1. set # {} /\ bit = Min(set)
    BY <1>2, LowestClearBitAnswers DEF FirstOf
  <2>2. set \in SUBSET Nat
    BY Shape
  <2>3. bit \in set
    BY <2>1, <2>2, MinFacts
  <2>4. bit \in Nat /\ ~ (bit >= x.numBits)
    BY <2>2, <2>3, Shape DEF All
  <2>5. SetLowestClearBit(x) = SetBit(x, bit)
    BY <1>2, <2>4 DEF SetLowestClearBit, SetBit
  <2> QED
    BY <2>4, <2>5
<1> QED
  BY <1>1, <1>2

\* What a search looks for in the numbers from lo to hi, and in chunk i.
Sought(x, lo, hi, findClearBit) ==
    IF findClearBit THEN (lo .. hi) \ Members(x) ELSE Members(x) \cap (lo .. hi)

Hits(x, lo, hi, findClearBit) ==
    [i \in ChunksOf(lo, hi) |->
        Mask(i, lo, hi) \cap (IF findClearBit THEN Bit \ x.chunk[i] ELSE x.chunk[i])]

\* A range there is in the vector lies in its chunks.
LEMMA RangeFacts ==
    ASSUME NEW x, Sound(x), NEW hi \in All(x), NEW lo \in 0 .. hi
    PROVE  /\ lo \in Nat /\ hi \in Nat /\ InRange(x, lo, hi)
           /\ lo .. hi \subseteq All(x)
           /\ ChunksOf(lo, hi) \subseteq Chunks(x) /\ ChunksOf(lo, hi) \subseteq Nat
           /\ \A i \in ChunksOf(lo, hi) : i <= CHUNK_INDEX(hi)
           /\ \A n \in lo .. hi : CHUNK_INDEX(n) \in ChunksOf(lo, hi)
<1>1. hi \in Nat /\ lo \in Nat /\ lo .. hi \subseteq All(x) /\ InRange(x, lo, hi)
  BY Shape DEF All, InRange
<1>2. CHUNK_INDEX(lo) \in Nat /\ CHUNK_INDEX(hi) \in Chunks(x) /\ CHUNK_INDEX(hi) \in Nat
  BY <1>1, Split, Shape
<1>3. Chunks(x) = 0 .. (NUM_CHUNKS(x.numBits) - 1) /\ NUM_CHUNKS(x.numBits) \in Nat
  BY Shape DEF Chunks, Fits
<1>4. ChunksOf(lo, hi) \subseteq Chunks(x) /\ ChunksOf(lo, hi) \subseteq Nat
      /\ \A i \in ChunksOf(lo, hi) : i <= CHUNK_INDEX(hi)
  BY <1>2, <1>3 DEF ChunksOf
<1>5. \A n \in lo .. hi : CHUNK_INDEX(n) \in ChunksOf(lo, hi)
  <2>1. \A n \in lo .. hi : n \in Nat
    BY <1>1
  <2> QED
    BY <1>1, <2>1, NumberInMask
<1> QED
  BY <1>1, <1>4, <1>5

\* The masks and the chunks give what is sought.
LEMMA RangeFiled ==
    ASSUME NEW x, Sound(x), NEW hi \in All(x), NEW lo \in 0 .. hi, NEW c \in BOOLEAN
    PROVE  Filed(Sought(x, lo, hi, c), ChunksOf(lo, hi), Hits(x, lo, hi, c))
<1> DEFINE set == Sought(x, lo, hi, c)
           J   == ChunksOf(lo, hi)
           h   == Hits(x, lo, hi, c)
<1>1. lo \in Nat /\ hi \in Nat /\ J \subseteq Chunks(x) /\ J \subseteq Nat
      /\ \A n \in lo .. hi : CHUNK_INDEX(n) \in J
  BY RangeFacts
<1>2. set \subseteq lo .. hi
  BY DEF Sought
<1>3. h \in [J -> SUBSET Bit]
  BY MaskType DEF Hits
<1>4. ASSUME NEW i \in J, NEW b \in Bit
      PROVE  b \in h[i] <=> i * BITS_PER_CHUNK + b \in set
  <2>1. i \in Chunks(x) /\ i \in Nat
    BY <1>1
  <2>2. b \in Mask(i, lo, hi) <=> i * BITS_PER_CHUNK + b \in lo .. hi
    BY <1>1, <2>1, InMask
  <2>3. b \in x.chunk[i] <=> i * BITS_PER_CHUNK + b \in Members(x)
    BY <2>1, MemberAt
  <2>4. b \in h[i] <=> b \in Mask(i, lo, hi) /\ (IF c THEN b \notin x.chunk[i] ELSE b \in x.chunk[i])
    BY DEF Hits
  <2> QED
    BY <2>2, <2>3, <2>4 DEF Sought
<1>5. set \in SUBSET Nat
  BY <1>1, <1>2
<1> HIDE DEF set, J, h
<1>6. Filed(set, J, h)
  BY <1>1, <1>2, <1>3, <1>4, <1>5 DEF Filed, Spread
<1> QED
  BY <1>6 DEF set, J, h

\* cubitvectorFindLowestBitInRange and FindHighest find the ends of that.
LEMMA FindAnswers ==
    ASSUME NEW x, Sound(x), NEW hi \in All(x), NEW lo \in 0 .. hi, NEW c \in BOOLEAN
    PROVE  /\ FindLowestBitInRange(x, lo, hi, c) = FirstOf(Sought(x, lo, hi, c), Min)
           /\ FindHighestBitInRange(x, lo, hi, c) = FirstOf(Sought(x, lo, hi, c), Max)
<1> DEFINE set    == Sought(x, lo, hi, c)
           J      == ChunksOf(lo, hi)
           h      == Hits(x, lo, hi, c)
           F(i)   == Mask(i, lo, hi) \cap (IF c THEN Bit \ x.chunk[i] ELSE x.chunk[i])
           found  == {i \in J : F(i) # {}}
<1>1. Filed(set, J, h)
  BY RangeFiled
<1>2. \A i \in J : h[i] = F(i)
  BY DEF Hits
<1>3. found = Hit(J, h)
  BY <1>2 DEF Hit
<1>4. InRange(x, lo, hi) /\ J \subseteq Nat /\ CHUNK_INDEX(hi) \in Nat
      /\ \A i \in J : i <= CHUNK_INDEX(hi)
  BY RangeFacts, Split
<1>5. FindLowestBitInRange(x, lo, hi, c) =
          IF found = {} THEN NULL ELSE Min(found) * BITS_PER_CHUNK + Min(F(Min(found)))
  BY <1>4 DEF FindLowestBitInRange, FindBitInRange
<1>6. FindHighestBitInRange(x, lo, hi, c) =
          IF found = {} THEN NULL ELSE Max(found) * BITS_PER_CHUNK + Max(F(Max(found)))
  BY <1>4 DEF FindHighestBitInRange, FindBitInRange
<1>7. found = {} <=> set = {}
  BY <1>1, <1>3, Located
<1>8. found \subseteq J
  OBVIOUS
<1> HIDE DEF set, J, h, found
<1>9. ASSUME set # {}
      PROVE  Min(found) * BITS_PER_CHUNK + Min(F(Min(found))) = Min(set)
  <2>1. Min(found) \in J
    BY <1>4, <1>7, <1>8, <1>9, MinFacts
  <2>2. h[Min(found)] = F(Min(found))
    BY <1>2, <2>1
  <2>3. Min(Hit(J, h)) * BITS_PER_CHUNK + Min(h[Min(Hit(J, h))]) = Min(set)
    BY <1>1, <1>9, LowestFound
  <2> HIDE DEF F
  <2> QED
    BY <1>3, <2>2, <2>3
<1>10. ASSUME set # {}
       PROVE  Max(found) * BITS_PER_CHUNK + Max(F(Max(found))) = Max(set)
  <2>1. Max(found) \in J
    BY <1>4, <1>7, <1>8, <1>10, MaxFacts
  <2>2. h[Max(found)] = F(Max(found))
    BY <1>2, <2>1
  <2>3. Max(Hit(J, h)) * BITS_PER_CHUNK + Max(h[Max(Hit(J, h))]) = Max(set)
    BY <1>1, <1>4, <1>10, HighestFound
  <2> HIDE DEF F
  <2> QED
    BY <1>3, <2>2, <2>3
<1> HIDE DEF F
<1>11. FindLowestBitInRange(x, lo, hi, c) = IF set = {} THEN NULL ELSE Min(set)
  BY <1>5, <1>7, <1>9
<1>12. FindHighestBitInRange(x, lo, hi, c) = IF set = {} THEN NULL ELSE Max(set)
  BY <1>6, <1>7, <1>10
<1> QED
  BY <1>11, <1>12 DEF FirstOf, set

\* cubitvectorAreAllBitsSetInRange and AreAllBitsClearInRange find nothing of
\* the other kind.
LEMMA AreAllAnswers ==
    ASSUME NEW x, Sound(x), NEW hi \in All(x), NEW lo \in 0 .. hi
    PROVE  /\ AreAllBitsSetInRange(x, lo, hi) <=> (lo .. hi) \subseteq Members(x)
           /\ AreAllBitsClearInRange(x, lo, hi) <=> (lo .. hi) \cap Members(x) = {}
<1> DEFINE J == ChunksOf(lo, hi)
<1>1. InRange(x, lo, hi) /\ J \subseteq Chunks(x)
  BY RangeFacts
<1>2. ASSUME NEW i \in J
      PROVE  x.chunk[i] \subseteq Bit /\ Mask(i, lo, hi) \subseteq Bit
  BY <1>1, Shape, MaskType
<1>3. Sought(x, lo, hi, TRUE) = (lo .. hi) \ Members(x)
      /\ Sought(x, lo, hi, FALSE) = (lo .. hi) \cap Members(x)
  BY DEF Sought
<1>4. ASSUME NEW c \in BOOLEAN
      PROVE  Sought(x, lo, hi, c) = {} <=> \A i \in J : Hits(x, lo, hi, c)[i] = {}
  <2>1. Filed(Sought(x, lo, hi, c), J, Hits(x, lo, hi, c))
    BY RangeFiled
  <2>2. Hit(J, Hits(x, lo, hi, c)) = {} <=> Sought(x, lo, hi, c) = {}
    BY <2>1, Located
  <2> QED
    BY <2>2 DEF Hit
<1>5. ASSUME NEW i \in J
      PROVE  Mask(i, lo, hi) \cap x.chunk[i] = Mask(i, lo, hi) <=> Hits(x, lo, hi, TRUE)[i] = {}
  BY <1>2 DEF Hits
<1>6. ASSUME NEW i \in J
      PROVE  (Bit \ Mask(i, lo, hi)) \cup x.chunk[i] = Bit \ Mask(i, lo, hi)
                 <=> Hits(x, lo, hi, FALSE)[i] = {}
  <2>1. Hits(x, lo, hi, FALSE)[i] = Mask(i, lo, hi) \cap x.chunk[i]
    BY DEF Hits
  <2> QED
    BY <1>2, <2>1
<1>7. AreAllBitsSetInRange(x, lo, hi) <=> Sought(x, lo, hi, TRUE) = {}
  BY <1>1, <1>4, <1>5 DEF AreAllBitsSetInRange
<1>8. AreAllBitsClearInRange(x, lo, hi) <=> Sought(x, lo, hi, FALSE) = {}
  BY <1>1, <1>4, <1>6 DEF AreAllBitsClearInRange
<1> QED
  BY <1>3, <1>7, <1>8

----------------------------------------------------------------------------
(***************************************************************************)
(* The invariants.                                                         *)
(***************************************************************************)

\* While there is a vector, callers have bits to name.
LEMMA BitsAreNumbers ==
    ASSUME NEW x, Sound(x)
    PROVE  Bits \subseteq Nat
<1> DEFINE S == {n \in Sizes : NUM_CHUNKS(n) # 0}
           W == 2 ^ Width
<1>1. x.numBits \in S
  BY DEF Sound
<1>2. S \in SUBSET Nat /\ W \in Nat /\ \A n \in S : n <= W
  <2>1. Sizes \subseteq 0 .. (W - 1) /\ W \in Nat
    BY SizesAssumption, Words
  <2> HIDE DEF W
  <2>2. \A n \in Sizes : n \in Nat /\ n <= W
    BY <2>1
  <2> QED
    BY <2>1, <2>2
<1>3. Max(S) \in S /\ Max(S) \in Nat
  BY <1>1, <1>2, MaxFacts
<1> HIDE DEF S
<1>4. 0 .. Max(S) \subseteq Nat
  BY <1>3
<1> QED
  BY <1>4 DEF Bits, S

\* A vector put in the place of another.
LEMMA Stored ==
    ASSUME IInv, NEW v \in Vectors, NEW y, y # NULL => Sound(y),
           vec' = [vec EXCEPT ![v] = y]
    PROVE  IInv'
<1>1. vec' = [w \in Vectors |-> IF w = v THEN y ELSE vec[w]]
  BY DEF IInv
<1> QED
  BY <1>1 DEF IInv

\* Every call keeps the invariant.
LEMMA StepKeepsInv ==
    ASSUME IInv, [Next]_vec
    PROVE  IInv'
<1>1. CASE UNCHANGED vec
  BY <1>1 DEF IInv
<1>2. ASSUME NEW v \in Vectors, NEW n \in Sizes, cubitvectorCreate(v, n)
      PROVE  IInv'
  <2>1. Sound(Fresh(n))
    BY <1>2, FreshIsSound DEF cubitvectorCreate
  <2> QED
    BY <1>2, <2>1, Stored DEF cubitvectorCreate
<1>3. ASSUME NEW v \in Vectors, NEW n \in Sizes, cubitvectorGrow(v, n)
      PROVE  IInv'
  <2>1. CASE UNCHANGED vec
    BY <2>1 DEF IInv
  <2>2. CASE vec' = [vec EXCEPT ![v] = Grow(@, n)]
    <3>1. Sound(vec[v]) /\ NUM_CHUNKS(n) # 0
      BY <1>3 DEF cubitvectorGrow, IInv
    <3>2. Sound(Grow(vec[v], n))
      BY <3>1, GrowAnswers
    <3>3. vec' = [vec EXCEPT ![v] = Grow(vec[v], n)]
      BY <2>2
    <3> QED
      BY <3>2, <3>3, Stored
  <2> QED
    BY <1>3, <2>1, <2>2 DEF cubitvectorGrow
<1>4. ASSUME NEW v \in Vectors, NEW w \in Vectors, cubitvectorCreateCopy(v, w)
      PROVE  IInv'
  <2> DEFINE x == vec[w]
             y == [Fresh(x.numBits) EXCEPT !.chunk = x.chunk]
  <2>1. Sound(x) /\ vec' = [vec EXCEPT ![v] = y]
    BY <1>4 DEF cubitvectorCreateCopy, IInv
  <2>2. x.numBits \in Sizes /\ NUM_CHUNKS(x.numBits) # 0
    BY <2>1 DEF Sound
  <2>3. Sound(Fresh(x.numBits)) /\ Fresh(x.numBits).numBits = x.numBits
    BY <2>2, FreshIsSound
  <2>4. Chunked(Fresh(x.numBits), x.chunk)
    <3>1. Chunked(x, x.chunk)
      BY <2>1, Shape DEF Chunked
    <3> QED
      BY <2>3, <3>1 DEF Chunked, Chunks, All
  <2> HIDE DEF x
  <2>5. Sound(y)
    BY <2>3, <2>4, Rechunked
  <2> QED
    BY <2>1, <2>5, Stored
<1>5. ASSUME NEW v \in Vectors, cubitvectorDestroy(v)
      PROVE  IInv'
  BY <1>5, Stored DEF cubitvectorDestroy
<1>6. ASSUME NEW v \in Vectors, vec[v] # NULL, Updates(v)
      PROVE  IInv'
  <2> DEFINE x == vec[v]
  <2>1. Sound(x) /\ Bits \subseteq Nat
    BY <1>6, BitsAreNumbers DEF IInv
  <2>2. CASE vec' = [vec EXCEPT ![v] = SetAllBits(x)]
    BY <2>1, <2>2, SetAllBitsAnswers, Stored DEF Becomes
  <2>3. CASE vec' = [vec EXCEPT ![v] = SetLowestClearBit(x)]
    <3>1. Sound(SetLowestClearBit(x))
      BY <2>1, SetLowestClearBitAnswers, SetBitAnswers DEF Becomes
    <3> QED
      BY <2>3, <3>1, Stored
  <2>4. ASSUME NEW bit \in Bits,
               \/ vec' = [vec EXCEPT ![v] = SetBit(x, bit)]
               \/ vec' = [vec EXCEPT ![v] = ClearBit(x, bit)]
        PROVE  IInv'
    <3>1. Sound(SetBit(x, bit)) /\ Sound(ClearBit(x, bit))
      BY <2>1, SetBitAnswers, ClearBitAnswers DEF Becomes
    <3> QED
      BY <2>4, <3>1, Stored
  <2>5. ASSUME NEW low \in Bits, NEW high \in Bits,
               \/ vec' = [vec EXCEPT ![v] = SetBitsInRange(x, low, high)]
               \/ vec' = [vec EXCEPT ![v] = ClearBitsInRange(x, low, high)]
        PROVE  IInv'
    <3>1. Sound(SetBitsInRange(x, low, high)) /\ Sound(ClearBitsInRange(x, low, high))
      BY <2>1, SetBitsInRangeAnswers, ClearBitsInRangeAnswers DEF Becomes
    <3> QED
      BY <2>5, <3>1, Stored
  <2>6. ASSUME NEW w \in Vectors, vec[w] # NULL, vec' = [vec EXCEPT ![v] = And(x, vec[w])]
        PROVE  IInv'
    <3>1. Sound(vec[w])
      BY <2>6 DEF IInv
    <3>2. Sound(And(x, vec[w]))
      BY <2>1, <3>1, AndAnswers, AndRefuses DEF Becomes
    <3> QED
      BY <2>6, <3>2, Stored
  <2> QED
    BY <1>6, <2>2, <2>3, <2>4, <2>5, <2>6 DEF Updates
<1> QED
  BY <1>1, <1>2, <1>3, <1>4, <1>5, <1>6 DEF Next

\* The invariant holds of every state that calls lead to.
THEOREM Invariant == Spec => []IInv
<1>1. Init => IInv
  BY DEF Init, IInv
<1>2. IInv /\ [Next]_vec => IInv'
  BY StepKeepsInv
<1> QED
  BY <1>1, <1>2, PTL DEF Spec

\* The union holds a pointer to chunks exactly for the sizes that are taken to
\* have one, and the bits beyond numBits stay clear through every sequence of
\* calls, whatever the width of a chunk and of numBits.
THEOREM TypeCorrect == Spec => []TypeOK
<1>1. IInv => TypeOK
  <2>1. ASSUME IInv, NEW v \in Vectors, vec[v] # NULL
        PROVE  /\ Sound(vec[v]) /\ vec[v].numBits \in 1 .. (2 ^ Width - 1)
    BY <2>1, Shape DEF IInv, Fits
  <2> QED
    BY <2>1 DEF TypeOK, Sound
<1> QED
  BY <1>1, Invariant, PTL

\* Every update changes the bits it names and no others: each is the same
\* change of the set that the vector stands for.
THEOREM UpdatesCorrect == Spec => []UpdatesAnswer
<1>1. ASSUME IInv, NEW v \in Vectors, vec[v] # NULL
      PROVE  LET x == vec[v]
             IN  /\ Members(SetAllBits(x)) = All(x)
                 /\ \A n \in Sizes : NUM_CHUNKS(n) # 0 => Members(Grow(x, n)) = Members(x)
                 /\ \A b \in Bits :
                       /\ Members(SetBit(x, b)) = Members(x) \cup ({b} \cap All(x))
                       /\ Members(ClearBit(x, b)) = Members(x) \ {b}
                 /\ \A lo, hi \in Bits :
                       /\ Members(SetBitsInRange(x, lo, hi)) = Members(x) \cup Named(x, lo, hi)
                       /\ Members(ClearBitsInRange(x, lo, hi)) = Members(x) \ Named(x, lo, hi)
                 /\ \A w \in Vectors : vec[w] # NULL /\ vec[w].numBits = x.numBits =>
                       Members(And(x, vec[w])) = Members(x) \cap Members(vec[w])
  <2> DEFINE x == vec[v]
  <2>1. Sound(x) /\ Bits \subseteq Nat
    BY <1>1, BitsAreNumbers DEF IInv
  <2>2. Members(SetAllBits(x)) = All(x)
    BY <2>1, SetAllBitsAnswers DEF Becomes
  <2>3. \A n \in Sizes : NUM_CHUNKS(n) # 0 => Members(Grow(x, n)) = Members(x)
    BY <2>1, GrowAnswers
  <2>4. ASSUME NEW b \in Bits
        PROVE  /\ Members(SetBit(x, b)) = Members(x) \cup ({b} \cap All(x))
               /\ Members(ClearBit(x, b)) = Members(x) \ {b}
    BY <2>1, SetBitAnswers, ClearBitAnswers DEF Becomes
  <2>5. ASSUME NEW lo \in Bits, NEW hi \in Bits
        PROVE  /\ Members(SetBitsInRange(x, lo, hi)) = Members(x) \cup Named(x, lo, hi)
               /\ Members(ClearBitsInRange(x, lo, hi)) = Members(x) \ Named(x, lo, hi)
    BY <2>1, SetBitsInRangeAnswers, ClearBitsInRangeAnswers DEF Becomes
  <2>6. ASSUME NEW w \in Vectors, vec[w] # NULL, vec[w].numBits = x.numBits
        PROVE  Members(And(x, vec[w])) = Members(x) \cap Members(vec[w])
    <3>1. Sound(vec[w])
      BY <1>1, <2>6 DEF IInv
    <3> HIDE DEF x
    <3> QED
      BY <2>1, <2>6, <3>1, AndAnswers DEF Becomes
  <2> QED
    BY <2>2, <2>3, <2>4, <2>5, <2>6
<1>2. IInv => UpdatesAnswer
  BY <1>1 DEF UpdatesAnswer, Named
<1> QED
  BY <1>2, Invariant, PTL

\* Every query answers what the set of bits says, for every range there is in
\* the vector, wherever in the chunks it begins and ends.
THEOREM QueriesCorrect == Spec => []QueriesAnswer
<1>1. ASSUME IInv, NEW v \in Vectors, vec[v] # NULL
      PROVE  LET x   == vec[v]
                 set == Members(x)
             IN  /\ LowestClearBit(x) = FirstOf(All(x) \ set, Min)
                 /\ IsAnyBitSet(x) <=> set # {}
                 /\ \A b \in Bits : IsBitSet(x, b) <=> b \in set
                 /\ \A hi \in All(x) : \A lo \in 0 .. hi :
                       /\ FindLowestBitInRange(x, lo, hi, FALSE) = FirstOf(set \cap (lo .. hi), Min)
                       /\ FindLowestBitInRange(x, lo, hi, TRUE) = FirstOf((lo .. hi) \ set, Min)
                       /\ FindHighestBitInRange(x, lo, hi, FALSE) = FirstOf(set \cap (lo .. hi), Max)
                       /\ FindHighestBitInRange(x, lo, hi, TRUE) = FirstOf((lo .. hi) \ set, Max)
                       /\ AreAllBitsSetInRange(x, lo, hi) <=> (lo .. hi) \subseteq set
                       /\ AreAllBitsClearInRange(x, lo, hi) <=> (lo .. hi) \cap set = {}
                 /\ \A w \in Vectors : vec[w] # NULL =>
                       (Compare(x, vec[w]) <=> x.numBits = vec[w].numBits /\ set = Members(vec[w]))
  <2> DEFINE x   == vec[v]
             set == Members(x)
  <2>1. Sound(x) /\ Bits \subseteq Nat
    BY <1>1, BitsAreNumbers DEF IInv
  <2>2. ASSUME NEW w \in Vectors, vec[w] # NULL
        PROVE  Compare(x, vec[w]) <=> x.numBits = vec[w].numBits /\ set = Members(vec[w])
    <3>1. Sound(vec[w])
      BY <1>1, <2>2 DEF IInv
    <3> QED
      BY <2>1, <3>1, CompareAnswers
  <2> HIDE DEF x
  <2>3. LowestClearBit(x) = FirstOf(All(x) \ set, Min)
    BY <2>1, LowestClearBitAnswers
  <2>4. IsAnyBitSet(x) <=> set # {}
    BY <2>1, IsAnyBitSetAnswers
  <2>5. \A b \in Bits : IsBitSet(x, b) <=> b \in set
    BY <2>1, IsBitSetAnswers
  <2>6. ASSUME NEW hi \in All(x), NEW lo \in 0 .. hi
        PROVE  /\ FindLowestBitInRange(x, lo, hi, FALSE) = FirstOf(set \cap (lo .. hi), Min)
               /\ FindLowestBitInRange(x, lo, hi, TRUE) = FirstOf((lo .. hi) \ set, Min)
               /\ FindHighestBitInRange(x, lo, hi, FALSE) = FirstOf(set \cap (lo .. hi), Max)
               /\ FindHighestBitInRange(x, lo, hi, TRUE) = FirstOf((lo .. hi) \ set, Max)
               /\ AreAllBitsSetInRange(x, lo, hi) <=> (lo .. hi) \subseteq set
               /\ AreAllBitsClearInRange(x, lo, hi) <=> (lo .. hi) \cap set = {}
    <3>1. Sought(x, lo, hi, TRUE) = (lo .. hi) \ set
          /\ Sought(x, lo, hi, FALSE) = set \cap (lo .. hi)
      BY DEF Sought
    <3>2. ASSUME NEW c \in BOOLEAN
          PROVE  /\ FindLowestBitInRange(x, lo, hi, c) = FirstOf(Sought(x, lo, hi, c), Min)
                 /\ FindHighestBitInRange(x, lo, hi, c) = FirstOf(Sought(x, lo, hi, c), Max)
      BY <2>1, FindAnswers
    <3>3. /\ AreAllBitsSetInRange(x, lo, hi) <=> (lo .. hi) \subseteq set
          /\ AreAllBitsClearInRange(x, lo, hi) <=> (lo .. hi) \cap set = {}
      BY <2>1, AreAllAnswers
    <3>4. /\ FindLowestBitInRange(x, lo, hi, TRUE) = FirstOf(Sought(x, lo, hi, TRUE), Min)
          /\ FindHighestBitInRange(x, lo, hi, TRUE) = FirstOf(Sought(x, lo, hi, TRUE), Max)
          /\ FindLowestBitInRange(x, lo, hi, FALSE) = FirstOf(Sought(x, lo, hi, FALSE), Min)
          /\ FindHighestBitInRange(x, lo, hi, FALSE) = FirstOf(Sought(x, lo, hi, FALSE), Max)
      BY <3>2
    <3> QED
      BY <3>1, <3>3, <3>4 DEF FirstOf
  <2> QED
    BY <2>2, <2>3, <2>4, <2>5, <2>6 DEF x
<1>2. IInv => QueriesAnswer
  BY <1>1 DEF QueriesAnswer
<1> QED
  BY <1>2, Invariant, PTL
=============================================================================
