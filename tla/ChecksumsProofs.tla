---------------------------- MODULE ChecksumsProofs ----------------------------
(***************************************************************************)
(* Proofs about Checksums for every number of values of a byte, memory and *)
(* call.  What the sums are is defined by recursion over the buffer and is *)
(* left to TLC; proved here are where the routines read, and that no width *)
(* is exceeded on the way.                                                 *)
(***************************************************************************)
EXTENDS Checksums, TLAPS

-----------------------------------------------------------------------------
\* Arithmetic.

\* The widths of the integer types, as far as the bounds need them.
LEMMA Widths ==
    /\ Radix \in Nat /\ Radix > 1
    /\ U16 \in Nat /\ U16 >= 2 * Radix /\ U16 = Radix * Radix
    /\ U32 \in Nat /\ U32 >= 4 * U16 /\ U32 = U16 * U16
    /\ U64 \in Nat /\ U64 >= 16 * U32 /\ U64 = U32 * U32
<1>1. Radix \in Nat /\ Radix > 1
  BY RadixAssumption
<1>2. U16 \in Nat /\ U16 >= 4 /\ U16 >= 2 * Radix /\ U16 = Radix * Radix
  BY <1>1 DEF U16
<1>3. U32 \in Nat /\ U32 >= 4 * U16 /\ U32 = U16 * U16
  BY <1>2 DEF U32
<1>4. U64 \in Nat /\ U64 >= 16 * U32 /\ U64 = U32 * U32
  BY <1>2, <1>3 DEF U64
<1>. QED
  BY <1>1, <1>2, <1>3, <1>4

\* Quotient and remainder.
LEMMA Division ==
    ASSUME NEW x \in Nat, NEW w \in Nat, w > 0
    PROVE  /\ x \div w \in Nat /\ x % w \in 0 .. (w - 1)
           /\ x = w * (x \div w) + (x % w)
OBVIOUS

LEMMA ModRange ==
    ASSUME NEW x \in Int, NEW w \in Nat, w > 0
    PROVE  x % w \in 0 .. (w - 1)
OBVIOUS

LEMMA ModSmall ==
    ASSUME NEW w \in Nat, NEW x \in 0 .. (w - 1)
    PROVE  x % w = x
OBVIOUS

\* Multiplication keeps the order.
LEMMA Times ==
    ASSUME NEW a \in Nat, NEW b \in Nat, NEW c \in Nat, a <= b
    PROVE  c * a <= c * b
OBVIOUS

\* Two digits of base w are a number below w * w.
LEMMA Digits ==
    ASSUME NEW w \in Nat, w > 0, NEW a \in 0 .. (w - 1), NEW b \in 0 .. (w - 1)
    PROVE  a + w * b \in 0 .. (w * w - 1)
OBVIOUS

\* Adding in the carries twice reduces two digits to one: what fold_and_swap
\* and the pairwise additions of the Arm version rely on.
LEMMA CarriedTwice ==
    ASSUME NEW w \in Nat, w > 1, NEW x \in 0 .. (w * w - 1)
    PROVE  Fold(x, w) \in 0 .. (w - 1)
<1> DEFINE q == x \div w
           r == x % w
<1>1. q \in Nat /\ r \in 0 .. (w - 1) /\ x = w * q + r
  BY Division
<1>2. q < w
  BY <1>1
<1>3. Carried(x, w) = q + r
  BY <1>1 DEF Carried
<1> HIDE DEF q, r
<1>4. CASE q + r < w
  BY <1>1, <1>2, <1>3, <1>4 DEF Fold, Carried
<1>5. CASE q + r >= w
  <2>1. (q + r) \div w = 1 /\ (q + r) % w = q + r - w
    BY <1>1, <1>2, <1>5
  <2>. QED
    BY <1>1, <1>2, <1>3, <2>1 DEF Fold, Carried
<1>. QED
  BY <1>1, <1>4, <1>5

\* The assertions of fold_and_swap hold of every 64-bit sum, and its result is
\* a 16-bit number.
LEMMA FoldAssertsHold ==
    ASSUME NEW x \in 0 .. (U64 - 1)
    PROVE  FoldAsserts(x)
<1>1. Fold(x, U32) \in 0 .. (U32 - 1)
  BY Widths, CarriedTwice
<1>2. Fold(Fold(x, U32), U16) \in 0 .. (U16 - 1)
  BY <1>1, Widths, CarriedTwice
<1>. QED
  BY <1>1, <1>2, Widths DEF FoldAsserts

LEMMA CsumRange ==
    ASSUME NEW x \in 0 .. (U64 - 1), NEW s \in BOOLEAN
    PROVE  fold_and_swap(x, s) \in 0 .. (U16 - 1)
<1> DEFINE y == Fold(Fold(x, U32), U16)
<1>1. Fold(x, U32) \in 0 .. (U32 - 1)
  BY Widths, CarriedTwice
<1>2. y \in 0 .. (U16 - 1)
  BY <1>1, Widths, CarriedTwice
<1> HIDE DEF y
<1>3. y \div Radix \in Nat /\ y % Radix \in Nat
  BY <1>2, Widths, Division
<1>4. (y \div Radix) % Radix \in Nat
  BY <1>3, Widths, Division
<1>5. bswap16(y) \in Nat
  BY <1>3, <1>4, Widths DEF bswap16
<1>6. (IF s THEN bswap16(y) ELSE y) \in Nat
  BY <1>2, <1>5, Widths
<1>7. (IF s THEN bswap16(y) ELSE y) % U16 \in 0 .. (U16 - 1)
  BY <1>6, Widths, Division
<1>. QED
  BY <1>7 DEF fold_and_swap, y

-----------------------------------------------------------------------------
\* What the loads give.

\* The bytes first .. last are in the buffer of the call.
Within(first, last) ==
    /\ call \in Calls
    /\ first \in Int /\ last \in Int
    /\ call.p <= first /\ last < call.p + call.n

LEMMA CallFacts ==
    ASSUME call \in Calls
    PROVE  /\ call.p \in Nat /\ call.n \in Nat /\ call.n < U32
           /\ Portable \/ AArch64 \/ Arm
           /\ ~(Portable /\ AArch64) /\ ~(Portable /\ Arm) /\ ~(AArch64 /\ Arm)
BY CallsAssumption DEF Portable, AArch64, Arm

LEMMA KeptRange ==
    ASSUME NEW first, NEW last, Within(first, last), NEW a \in Int
    PROVE  Kept(m, a, first, last) \in 0 .. (Radix - 1)
<1>1. CASE first <= a /\ a <= last
  <2>1. call.m \in DOMAIN Mem /\ call.p .. (call.p + call.n - 1) \subseteq DOMAIN Mem[call.m]
        /\ call.p \in Nat /\ call.n \in Nat
    BY CallsAssumption DEF Within
  <2>2. a \in call.p .. (call.p + call.n - 1)
    BY <1>1, <2>1 DEF Within
  <2>3. m[a] \in 0 .. (Radix - 1)
    BY <2>1, <2>2, MemAssumption DEF m
  <2>. QED
    BY <1>1, <2>3 DEF Kept
<1>2. CASE ~(first <= a /\ a <= last)
  BY <1>2, Widths DEF Kept
<1>. QED
  BY <1>1, <1>2

LEMMA HalfRange ==
    ASSUME NEW first, NEW last, Within(first, last), NEW a \in Int
    PROVE  Half(m, a, first, last) \in 0 .. (U16 - 1)
<1>1. /\ Kept(m, a, first, last) \in 0 .. (Radix - 1)
      /\ Kept(m, a + 1, first, last) \in 0 .. (Radix - 1)
  BY KeptRange
<1>. QED
  BY <1>1, Widths, Digits DEF Half

LEMMA WordRange ==
    ASSUME NEW first, NEW last, Within(first, last), NEW a \in Int
    PROVE  Word(m, a, first, last) \in 0 .. (U32 - 1)
<1>1. /\ Half(m, a, first, last) \in 0 .. (U16 - 1)
      /\ Half(m, a + 2, first, last) \in 0 .. (U16 - 1)
  BY HalfRange
<1>. QED
  BY <1>1, Widths, Digits DEF Word

LEMMA TwoWordsRange ==
    ASSUME NEW first, NEW last, Within(first, last), NEW a \in Int
    PROVE  TwoWords(a, first, last) \in 0 .. (2 * (U32 - 1))
<1>1. /\ Word(m, a, first, last) \in 0 .. (U32 - 1)
      /\ Word(m, a + 4, first, last) \in 0 .. (U32 - 1)
  BY WordRange
<1>. QED
  BY <1>1, Widths DEF TwoWords

LEMMA Load32Range ==
    ASSUME NEW a \in Int, Within(a, a + 3)
    PROVE  load32(m, a) \in 0 .. (U32 - 1)
BY WordRange DEF load32

\* Loads further into the buffer.
LEMMA WithinWider ==
    ASSUME NEW a, NEW b, Within(a, b), NEW c \in Int, NEW d \in Int, a <= c, d <= b
    PROVE  Within(c, d)
BY CallFacts DEF Within

\* The last bytes are worth less than a word.
LEMMA TailRange ==
    ASSUME NEW a \in Int, NEW n \in 0 .. 3, Within(a, a + n - 1)
    PROVE  slurp_tail(m, a, n) \in 0 .. (U32 - 1)
<1>1. IsSet(n, 2) <=> n >= 2
  BY DEF IsSet
<1>2. (IF IsSet(n, 2) THEN load16(m, a) ELSE 0) \in 0 .. (U16 - 1)
  <2>1. CASE n >= 2
    <3>1. Within(a, a + 1)
      BY <2>1, WithinWider
    <3>. QED
      BY <1>1, <2>1, <3>1, HalfRange DEF load16
  <2>. QED
    BY <1>1, <2>1, Widths
<1>3. (IF IsSet(n, 1) THEN Byte(m, a + 2 * ((n \div 2) % 2)) ELSE 0) \in 0 .. (U16 - 1)
  <2> DEFINE b == a + 2 * ((n \div 2) % 2)
  <2>1. CASE IsSet(n, 1)
    <3>1. b \in Int /\ a <= b /\ b <= a + n - 1
      BY <2>1 DEF IsSet
    <3>2. Within(b, b)
      BY <3>1, WithinWider
    <3>3. Kept(m, b, b, b) \in 0 .. (Radix - 1)
      BY <3>1, <3>2, KeptRange
    <3>. QED
      BY <2>1, <3>1, <3>3, Widths DEF Kept, Byte
  <2>. QED
    BY <2>1, Widths
<1>. QED
  BY <1>2, <1>3, Widths DEF slurp_tail

-----------------------------------------------------------------------------
\* The vector operations.

Quads == (0 .. (U32 - 1)) \X (0 .. (U32 - 1)) \X (0 .. (U32 - 1)) \X (0 .. (U32 - 1))

LEMMA LoadQuad ==
    ASSUME NEW a \in Int, Within(a, a + 15)
    PROVE  vld1q(a) \in Quads
<1>1. ASSUME NEW k \in {0, 4, 8, 12}
      PROVE  load32(m, a + k) \in 0 .. (U32 - 1)
  <2>1. Within(a + k, (a + k) + 3)
    BY WithinWider
  <2>. QED
    BY <2>1, Load32Range
<1>2. a + 0 = a
  OBVIOUS
<1>. QED
  BY <1>1, <1>2 DEF vld1q, Quads

\* A 64-bit number is two words.
LEMMA HiLo ==
    ASSUME NEW x \in 0 .. (U64 - 1)
    PROVE  Hi(x) \in 0 .. (U32 - 1) /\ Lo(x) \in 0 .. (U32 - 1)
<1>1. U32 \in Nat /\ U32 > 0 /\ x \in Nat /\ x < U32 * U32
  BY Widths
<1>2. /\ x \div U32 \in Nat /\ x % U32 \in 0 .. (U32 - 1)
      /\ x = U32 * (x \div U32) + (x % U32)
  BY ONLY <1>1, Division
<1>3. x \div U32 < U32
  <2> SUFFICES ASSUME x \div U32 >= U32 PROVE FALSE
    BY <1>1, <1>2
  <2>1. U32 * U32 <= U32 * (x \div U32)
    BY <1>1, <1>2, Times
  <2>. QED
    BY <1>1, <1>2, <2>1
<1>. QED
  BY <1>1, <1>2, <1>3 DEF Hi, Lo

LEMMA WordsOfLanes ==
    ASSUME NEW v \in Lanes
    PROVE  Words32(v) \in Quads
BY HiLo DEF Words32, Lanes, Quads

LEMMA SumRange ==
    ASSUME NEW x \in Int
    PROVE  x % U64 \in 0 .. (U64 - 1)
BY Widths, ModRange

LEMMA PairwiseAdded ==
    ASSUME NEW v \in Lanes, NEW w \in Quads
    PROVE  vpadal(v, w) \in Lanes
<1>1. v[1] + w[1] + w[2] \in Int /\ v[2] + w[3] + w[4] \in Int
  BY Widths DEF Lanes, Quads
<1>2. /\ (v[1] + w[1] + w[2]) % U64 \in 0 .. (U64 - 1)
      /\ (v[2] + w[3] + w[4]) % U64 \in 0 .. (U64 - 1)
  BY <1>1, SumRange
<1>. QED
  BY <1>2 DEF vpadal, Lanes

LEMMA WidelyAdded ==
    ASSUME NEW v \in Lanes, NEW x \in Int, NEW y \in Int
    PROVE  vaddw(v, x, y) \in Lanes
<1>1. v[1] + x \in Int /\ v[2] + y \in Int
  BY Widths DEF Lanes
<1>2. (v[1] + x) % U64 \in 0 .. (U64 - 1) /\ (v[2] + y) % U64 \in 0 .. (U64 - 1)
  BY <1>1, SumRange
<1>. QED
  BY <1>2 DEF vaddw, Lanes

\* Two pairwise additions leave a word in each lane: they fold its carries twice.
LEMMA AddedTwiceRange ==
    ASSUME NEW v \in Lanes
    PROVE  /\ AddedTwice(v) \in Lanes
           /\ \A l \in 1 .. 2 : AddedTwice(v)[l] \in 0 .. (U32 - 1)
<1>1. v[1] \in 0 .. (U64 - 1) /\ v[2] \in 0 .. (U64 - 1)
  BY DEF Lanes
<1>2. /\ AddedTwice(v)[1] = Fold(v[1], U32) /\ AddedTwice(v)[2] = Fold(v[2], U32)
      /\ AddedTwice(v) = <<AddedTwice(v)[1], AddedTwice(v)[2]>>
  BY DEF AddedTwice, vpaddlq, Fold, Carried, Lo, Hi
<1>3. /\ Fold(v[1], U32) \in 0 .. (U32 - 1)
      /\ Fold(v[2], U32) \in 0 .. (U32 - 1)
  BY <1>1, Widths, CarriedTwice
<1>4. \A l \in 1 .. 2 : AddedTwice(v)[l] \in 0 .. (U32 - 1)
  BY <1>2, <1>3
<1>5. U32 <= U64
  BY Widths
<1>6. AddedTwice(v)[1] \in 0 .. (U64 - 1) /\ AddedTwice(v)[2] \in 0 .. (U64 - 1)
  BY <1>2, <1>3, <1>5, Widths
<1>. QED
  BY <1>2, <1>4, <1>6 DEF Lanes

-----------------------------------------------------------------------------
\* Where the loads go.

\* Loads inside the buffer.
LEMMA Inside ==
    ASSUME NEW p \in Nat, NEW n \in Nat, NEW w \in {4, 8},
           NEW a \in Int, NEW b \in Int, p <= a, b < p + n
    PROVE  a .. b \subseteq Words(p, n, w)
<1>1. p - (p % w) <= p /\ (p + n - 1) - ((p + n - 1) % w) + w - 1 >= p + n - 1
  OBVIOUS
<1>. QED
  BY <1>1 DEF Words

\* The aligned word that holds the first byte, when that is not aligned.
LEMMA HeadWord ==
    ASSUME NEW p \in Nat, NEW n \in Nat, NEW w \in {4, 8}, n >= w
    PROVE  align_ptr(p, w) .. (align_ptr(p, w) + w - 1) \subseteq Words(p, n, w)
<1>1. (p + n - 1) - ((p + n - 1) % w) + w - 1 >= p - (p % w) + w - 1
  OBVIOUS
<1>. QED
  BY <1>1 DEF Words, align_ptr

\* The aligned 8 bytes that hold the last 1 .. 7.
LEMMA TailWord ==
    ASSUME NEW p \in Nat, NEW n \in Nat, NEW a \in Nat, NEW l \in 1 .. 7,
           p <= a, a % 8 = 0, a + l = p + n
    PROVE  a .. (a + 7) \subseteq Words(p, n, 8)
<1>1. (p + n - 1) - ((p + n - 1) % 8) = a
  OBVIOUS
<1>2. p - (p % 8) <= a
  OBVIOUS
<1>. QED
  BY <1>1, <1>2 DEF Words

-----------------------------------------------------------------------------
\* The inductive invariant is IInv of Checksums.

\* The state of a call, spelt out.
Typed ==
    /\ call \in Calls /\ call.p \in Nat /\ call.n \in Nat /\ call.n < U32
    /\ ptr \in Nat /\ nbytes \in Nat /\ nbytes <= call.n /\ i \in Nat
    /\ sum \in Nat /\ sum < U64 /\ csum \in 0 .. (U16 - 1) /\ swap \in BOOLEAN
    /\ vsums \in [0 .. 3 -> Lanes]
    /\ ptr >= call.p
    /\ U32 \in Nat /\ U32 >= 16 /\ U64 \in Nat /\ U64 >= 16 * U32

LEMMA State ==
    ASSUME IInv
    PROVE  Typed
BY CallFacts, Widths DEF IInv, TypeOK, Position, Typed

LEMMA MoreWords ==
    ASSUME NEW k \in Nat, NEW j \in Nat
    PROVE  /\ PerWord(k) \in Nat
           /\ k <= j => PerWord(k) <= PerWord(j)
           /\ j = k + 2 => PerWord(j) = PerWord(k) + 2 * (U32 - 1)
           /\ j = k + 4 => PerWord(j) = PerWord(k) + 4 * (U32 - 1)
           /\ j = k + 16 => PerWord(j) = PerWord(k) + 16 * (U32 - 1)
<1>1. U32 - 1 \in Nat
  BY Widths
<1>2. ASSUME NEW c \in Nat
      PROVE  /\ c * k \in Nat
             /\ k <= j => c * k <= c * j
             /\ c * (k + 2) = c * k + 2 * c
             /\ c * (k + 4) = c * k + 4 * c
             /\ c * (k + 16) = c * k + 16 * c
  BY Times
<1>. QED
  BY <1>1, <1>2 DEF PerWord

\* A sum of fewer words than the buffer has bytes, and then some, does not wrap.
LEMMA SumFits ==
    ASSUME NEW n \in Nat, n < U32, NEW s \in Nat, 4 * s <= PerWord(n + 8)
    PROVE  s < U64 /\ s % U64 = s
<1>1. U32 \in Nat /\ U32 >= 16 /\ U64 \in Nat /\ U64 = U32 * U32
  BY Widths
<1>2. PerWord(n + 8) <= (U32 - 1) * (U32 + 7)
  BY <1>1, Times DEF PerWord
<1>3. (U32 - 1) * (U32 + 7) < 4 * U64
  BY <1>1
<1>4. s < U64
  BY <1>1, <1>2, <1>3 DEF PerWord
<1>. QED
  BY <1>1, <1>4, ModSmall

\* A word added to the sum: k bytes have been passed before.
LEMMA WordAdded ==
    ASSUME NEW k \in Nat, k < U32, NEW s \in Nat, 4 * s <= PerWord(k + 4),
           NEW x \in 0 .. (U32 - 1), NEW t, t = (s + x) % U64
    PROVE  t = s + x /\ t \in 0 .. (U64 - 1) /\ 4 * t <= PerWord(k + 8)
<1>1. PerWord(k + 8) = PerWord(k + 4) + 4 * (U32 - 1)
  BY MoreWords
<1>2. s + x \in Nat /\ 4 * (s + x) <= PerWord(k + 8)
  BY <1>1, Widths, MoreWords
<1>3. s + x < U64 /\ (s + x) % U64 = s + x
  BY <1>2, SumFits
<1>. QED
  BY <1>2, <1>3, Widths

LEMMA BufferWidth == WordSize \in {4, 8}
BY DEF WordSize

LEMMA InsideBuffer ==
    ASSUME NEW a, NEW b, Within(a, b)
    PROVE  a .. b \subseteq Words(call.p, call.n, WordSize)
<1>1. /\ call.p \in Nat /\ call.n \in Nat
      /\ a \in Int /\ b \in Int /\ call.p <= a /\ b < call.p + call.n
  BY CallFacts DEF Within
<1> DEFINE p == call.p
           n == call.n
           w == WordSize
<1>2. p \in Nat /\ n \in Nat /\ w \in {4, 8} /\ p <= a /\ b < p + n
  BY <1>1, BufferWidth
<1> HIDE DEF p, n, w
<1>3. a .. b \subseteq Words(p, n, w)
  BY <1>1, <1>2, Inside
<1>. QED
  BY <1>3 DEF p, n, w

-----------------------------------------------------------------------------
\* Every step keeps the invariant and makes no accumulator smaller.

\* A word of slurp_small, or of what the 16-byte loop of __chksum leaves.
LEMMA SumWordSafe ==
    ASSUME IInv, SumWord
    PROVE  IInv' /\ Grows
<1>1. Typed
  BY State
<1>2. /\ pc = "words" /\ nbytes >= 4
      /\ rd' = ptr .. (ptr + 3)
      /\ ptr' = ptr + 4
      /\ nbytes' = nbytes - 4
      /\ UNCHANGED <<call, pc, i, vsums, swap, csum>>
  BY DEF SumWord
<1>3. ptr + nbytes = call.p + call.n
  BY <1>2 DEF IInv, Partition, Left
<1>w. Within(ptr, ptr + 3)
  BY <1>1, <1>2, <1>3 DEF Within, Typed
<1>4. sum' = sum + load32(m, ptr) /\ load32(m, ptr) \in Nat
      /\ sum' \in 0 .. (U64 - 1) /\ 4 * sum' <= PerWord((ptr - call.p) + 8)
  <2>2. load32(m, ptr) \in 0 .. (U32 - 1)
    BY <1>1, <1>w, Load32Range DEF Typed
  <2>3. ptr - call.p \in Nat /\ ptr - call.p < U32
    BY <1>1, <1>3 DEF Typed
  <2>4. 4 * sum <= PerWord((ptr - call.p) + 4)
    BY <1>2 DEF IInv, Room
  <2>5. sum' = (sum + load32(m, ptr)) % U64
    BY DEF SumWord
  <2>6. sum \in Nat
    BY <1>1 DEF Typed
  <2>. QED
    BY <2>2, <2>3, <2>4, <2>5, <2>6, WordAdded, Widths
<1>5. TypeOK'
  <2>1. ptr' \in Nat /\ nbytes' \in 0 .. call.n
    BY <1>1, <1>2 DEF Typed
  <2>2. ptr % 4 = 0 => ptr' % 4 = 0
    BY <1>1, <1>2 DEF Typed
  <2>. QED
    BY <1>2, <1>4, <2>1, <2>2 DEF IInv, TypeOK, Portable
<1>6. Partition'
  BY <1>1, <1>2, <1>3 DEF Partition, Left, Typed
<1>7. Position'
  BY <1>1, <1>2 DEF IInv, Position, Typed
<1>8. Room'
  <2>1. (ptr' - call.p) + 4 = (ptr - call.p) + 8
    BY <1>1, <1>2 DEF Typed
  <2>. QED
    BY <1>2, <1>4, <2>1 DEF Room
<1>9. Footprint'
  <2>1. ptr .. (ptr + 3) \subseteq Words(call.p, call.n, WordSize)
    BY <1>w, InsideBuffer
  <2>. QED
    BY <1>2, <2>1 DEF Footprint, WordSize, Portable
<1>10. Assertions'
  BY <1>2 DEF Assertions, LaneAssertions
<1>11. Grows
  BY <1>1, <1>2, <1>4 DEF Grows, Typed
<1>. QED
  BY <1>5, <1>6, <1>7, <1>8, <1>9, <1>10, <1>11 DEF IInv

\* The last bytes, and the folding.
LEMMA SumTailSafe ==
    ASSUME IInv, SumTail
    PROVE  IInv' /\ Grows
<1>1. Typed
  BY State
<1>2. /\ pc = "words" /\ nbytes < 4 /\ pc' = "ret"
      /\ rd' = ptr .. (ptr + nbytes - 1)
      /\ csum' = fold_and_swap(sum', swap)
      /\ UNCHANGED <<call, ptr, nbytes, i, vsums, swap>>
  BY DEF SumTail
<1>3. ptr + nbytes = call.p + call.n
  BY <1>2 DEF IInv, Partition, Left
<1>4. Within(ptr, ptr + nbytes - 1)
  BY <1>1, <1>3 DEF Within, Typed
<1>5. sum' >= sum /\ sum' \in 0 .. (U64 - 1)
  <2>1. nbytes \in 0 .. 3 /\ ptr \in Int /\ sum \in Nat
    BY <1>1, <1>2 DEF Typed
  <2>2. slurp_tail(m, ptr, nbytes) \in 0 .. (U32 - 1)
    BY <1>4, <2>1, TailRange
  <2>3. ptr - call.p \in Nat /\ ptr - call.p < U32
    BY <1>1, <1>3 DEF Typed
  <2>4. 4 * sum <= PerWord((ptr - call.p) + 4)
    BY <1>2 DEF IInv, Room
  <2>5. sum' = (sum + slurp_tail(m, ptr, nbytes)) % U64
    BY DEF SumTail
  <2>6. sum' = sum + slurp_tail(m, ptr, nbytes) /\ sum' \in 0 .. (U64 - 1)
    BY <2>1, <2>2, <2>3, <2>4, <2>5, WordAdded
  <2>. QED
    BY <2>1, <2>2, <2>6, Widths
<1>6. csum' \in 0 .. (U16 - 1)
  BY <1>1, <1>2, <1>5, CsumRange DEF Typed
<1>7. TypeOK'
  BY <1>2, <1>5, <1>6 DEF IInv, TypeOK, Portable
<1>8. Position' /\ Partition' /\ Room'
  BY <1>2 DEF IInv, Position, Partition, Room
<1>9. Footprint'
  BY <1>2, <1>4, InsideBuffer DEF Footprint, WordSize, Portable
<1>10. Assertions'
  BY <1>2, <1>5, FoldAssertsHold DEF Assertions, LaneAssertions
<1>11. Grows
  BY <1>2, <1>5 DEF Grows
<1>. QED
  BY <1>7, <1>8, <1>9, <1>10, <1>11 DEF IInv

-----------------------------------------------------------------------------
\* __chksum.

LEMMA Quotient16 ==
    ASSUME NEW n \in Nat
    PROVE  n \div 16 \in Nat /\ n % 16 \in Nat /\ n % 16 <= n
           /\ 16 * (n \div 16) + (n % 16) = n
OBVIOUS

LEMMA NoHeadSafe ==
    ASSUME IInv, NoHead
    PROVE  IInv' /\ Grows
<1>1. Typed
  BY State
<1>2. /\ Portable /\ pc = "entry" /\ nbytes <= MaxUnaligned /\ pc' = "quads"
      /\ i' = nbytes \div 16
      /\ UNCHANGED <<call, ptr, nbytes, sum, vsums, swap, rd, csum>>
  BY DEF NoHead
<1>3. ptr = call.p /\ nbytes = call.n /\ sum = 0
  BY <1>2 DEF IInv, Position, Room
<1>4. i' \in Nat /\ 16 * i' + (nbytes % 16) = nbytes
  BY <1>1, <1>2, Quotient16 DEF Typed
<1>5. TypeOK'
  BY <1>2, <1>3, <1>4, MaxUnalignedAssumption, <1>1 DEF IInv, TypeOK, Portable, Typed
<1>6. Partition'
  BY <1>2, <1>3, <1>4 DEF Partition, Left
<1>7. Position'
  BY <1>1, <1>2 DEF Position, Portable, Typed
<1>8. Room'
  <2>1. PerWord((ptr - call.p) + 4) \in Nat
    BY <1>1, <1>3, MoreWords DEF Typed
  <2>. QED
    BY <1>2, <1>3, <2>1 DEF Room
<1>9. Footprint' /\ Assertions'
  BY <1>2 DEF IInv, Footprint, WordSize, Portable, Assertions, LaneAssertions
<1>10. Grows
  BY <1>1, <1>2 DEF Grows, Typed
<1>. QED
  BY <1>5, <1>6, <1>7, <1>8, <1>9, <1>10 DEF IInv

LEMMA slurp_head32Safe ==
    ASSUME IInv, slurp_head32
    PROVE  IInv' /\ Grows
<1> DEFINE off == ptr % 4
           a == align_ptr(ptr, 4)
<1>1. Typed
  BY State
<1>2. /\ Portable /\ pc = "entry" /\ nbytes > MaxUnaligned /\ pc' = "quads"
      /\ swap' \in BOOLEAN
      /\ i' = nbytes' \div 16
      /\ UNCHANGED <<call, vsums, csum>>
  BY DEF slurp_head32
<1>3. ptr = call.p /\ nbytes = call.n /\ sum = 0
  BY <1>2 DEF IInv, Position, Room
<1>4. nbytes > 3
  BY <1>1, <1>2, MaxUnalignedAssumption DEF Typed
<1>5. /\ ptr' \in Nat /\ ptr' % 4 = 0 /\ ptr' >= ptr
      /\ nbytes' \in 0 .. call.n /\ ptr' + nbytes' = call.p + call.n
      /\ sum' \in 0 .. (U32 - 1)
      /\ rd' \subseteq Words(call.p, call.n, WordSize)
  <2>1. CASE off # 0
    <3>1. /\ sum' = Head(a, off) /\ ptr' = a + 4
          /\ nbytes' = nbytes - (4 - off) /\ rd' = a .. (a + 3)
      BY <2>1 DEF slurp_head32, LeftAfterHead
    <3>2. /\ a \in Nat /\ a + off = ptr /\ off \in 1 .. 3 /\ a % 4 = 0
      BY <1>1, <2>1 DEF Typed, align_ptr
    <3>3. Within(a + off, a + 3)
      BY <1>1, <1>3, <1>4, <3>2 DEF Within, Typed
    <3>4. sum' \in 0 .. (U32 - 1)
      BY <3>1, <3>2, <3>3, WordRange DEF Head
    <3>5. a .. (a + 3) \subseteq Words(call.p, call.n, 4)
      <4>1. a .. (a + 4 - 1) \subseteq Words(call.p, call.n, 4)
        BY <1>1, <1>3, <1>4, HeadWord DEF Typed
      <4>. QED
        BY <3>2, <4>1
    <3> HIDE DEF off, a
    <3>6. ptr' \in Nat /\ ptr' % 4 = 0 /\ ptr' >= ptr
      BY <3>1, <3>2
    <3>7. nbytes' \in 0 .. call.n /\ ptr' + nbytes' = call.p + call.n
      <4>1. call.n \in Nat /\ call.p \in Nat
        BY <1>1 DEF Typed
      <4>2. nbytes' = call.n - (4 - off) /\ ptr' = a + 4
            /\ a + off = call.p /\ off \in 1 .. 3 /\ call.n > 3 /\ a \in Nat
        BY <1>3, <1>4, <3>1, <3>2
      <4>. QED
        BY ONLY <4>1, <4>2
    <3>. QED
      BY <1>2, <3>1, <3>4, <3>5, <3>6, <3>7 DEF WordSize
  <2>2. CASE off = 0
    <3>1. UNCHANGED <<sum, ptr, nbytes, rd>>
      BY <2>2 DEF slurp_head32
    <3>. QED
      BY <1>1, <1>3, <2>2, <3>1 DEF Typed, IInv, Footprint
  <2>. QED
    BY <2>1, <2>2
<1>6. i' \in Nat /\ 16 * i' + (nbytes' % 16) = nbytes'
  <2>1. nbytes' \in Nat
    BY <1>1, <1>5 DEF Typed
  <2>. QED
    BY <1>2, <2>1, Quotient16
<1>7. sum' \in 0 .. (U64 - 1)
  BY <1>5, Widths
<1>8. TypeOK'
  BY <1>2, <1>5, <1>6, <1>7 DEF IInv, TypeOK
<1>9. Partition'
  BY <1>2, <1>5, <1>6 DEF Partition, Left
<1>10. Position'
  BY <1>2, <1>3, <1>5 DEF Position, Portable
<1>11. Room'
  <2> DEFINE k == (ptr' - call.p) + 4
  <2>1. k \in Nat /\ 0 \in Nat /\ 4 \in Nat /\ 4 <= k
    BY <1>1, <1>3, <1>5 DEF Typed
  <2> HIDE DEF k
  <2>2. PerWord(0) = 0
    BY Widths DEF PerWord
  <2>3. PerWord(4) = PerWord(0) + 4 * (U32 - 1) /\ PerWord(4) <= PerWord(k)
    BY <2>1, MoreWords
  <2>4. 4 * sum' <= PerWord(k)
    BY <1>5, <2>1, <2>2, <2>3, Widths, MoreWords
  <2>. QED
    BY <1>2, <2>4 DEF Room, k
<1>12. Footprint' /\ Assertions'
  BY <1>2, <1>5 DEF Footprint, WordSize, Portable, Assertions, LaneAssertions
<1>13. Grows
  BY <1>2, <1>3, <1>5, Widths DEF Grows
<1>. QED
  BY <1>8, <1>9, <1>10, <1>11, <1>12, <1>13 DEF IInv

\* 16 bytes, four words.
LEMMA SumQuadSafe ==
    ASSUME IInv, SumQuad
    PROVE  IInv' /\ Grows
<1> DEFINE x == load32(m, ptr)
           y == load32(m, ptr + 4)
           z == load32(m, ptr + 8)
           u == load32(m, ptr + 12)
           k == ptr - call.p
<1>1. Typed
  BY State
<1>2. /\ pc = "quads" /\ i # 0
      /\ sum' = (sum + x + y + z + u) % U64
      /\ rd' = ptr .. (ptr + 15)
      /\ ptr' = ptr + 16
      /\ i' = i - 1
      /\ UNCHANGED <<call, pc, nbytes, vsums, swap, csum>>
  BY DEF SumQuad
<1>3. ptr + (16 * i + (nbytes % 16)) = call.p + call.n
  BY <1>2 DEF IInv, Partition, Left
<1>4. Within(ptr, ptr + 15)
  BY <1>1, <1>2, <1>3 DEF Within, Typed
<1>5. /\ x \in 0 .. (U32 - 1) /\ y \in 0 .. (U32 - 1)
      /\ z \in 0 .. (U32 - 1) /\ u \in 0 .. (U32 - 1)
  <2>1. /\ Within(ptr, ptr + 3) /\ Within(ptr + 4, ptr + 7)
        /\ Within(ptr + 8, ptr + 11) /\ Within(ptr + 12, ptr + 15)
    BY <1>1, <1>4 DEF Within, Typed
  <2>2. ptr \in Int /\ (ptr + 4) + 3 = ptr + 7 /\ (ptr + 8) + 3 = ptr + 11
        /\ (ptr + 12) + 3 = ptr + 15
    BY <1>1 DEF Typed
  <2>3. ptr + 4 \in Int /\ ptr + 8 \in Int /\ ptr + 12 \in Int
    BY <2>2
  <2>. QED
    BY <2>1, <2>2, <2>3, Load32Range
<1>6. k \in Nat /\ k + 16 <= call.n
  <2>1. nbytes % 16 \in Nat /\ i >= 1 /\ 16 * i >= 16
    BY <1>1, <1>2, Quotient16 DEF Typed
  <2>. QED
    BY <1>1, <1>3, <2>1 DEF Typed
<1> HIDE DEF x, y, z, u, k
<1>7. /\ sum' \in 0 .. (U64 - 1) /\ sum' >= sum
      /\ 4 * sum' <= PerWord(k + 20)
  <2> DEFINE s == sum + x + y + z + u
  <2>1. 4 * sum <= PerWord(k + 4)
    BY <1>2 DEF IInv, Room, k
  <2>2. PerWord(k + 20) = PerWord(k + 4) + 16 * (U32 - 1)
    BY <1>6, MoreWords
  <2>3. sum \in Nat /\ call.n \in Nat /\ call.n < U32
    BY <1>1 DEF Typed
  <2>4. s \in Nat /\ s >= sum /\ 4 * s <= PerWord(k + 20)
    <3>1. PerWord(k + 4) \in Nat /\ U32 \in Nat
      BY <1>6, MoreWords, Widths
    <3>. QED
      BY <1>5, <2>1, <2>2, <2>3, <3>1
  <2>5. PerWord(k + 20) <= PerWord(call.n + 8)
    BY <1>6, <2>3, MoreWords
  <2>6. PerWord(k + 20) \in Nat /\ PerWord(call.n + 8) \in Nat
    BY <1>6, <2>3, MoreWords
  <2> HIDE DEF s
  <2>7. 4 * s <= PerWord(call.n + 8)
    BY <2>4, <2>5, <2>6
  <2>8. s < U64 /\ s % U64 = s
    BY <2>3, <2>4, <2>7, SumFits
  <2>9. sum' = s
    BY <1>2, <2>8 DEF s
  <2>. QED
    BY <2>4, <2>8, <2>9, Widths
<1>8. TypeOK'
  <2>1. ptr' \in Nat /\ i' \in Nat /\ nbytes \in 0 .. call.n
    BY <1>1, <1>2 DEF Typed
  <2>2. ptr % 4 = 0 => ptr' % 4 = 0
    BY <1>1, <1>2 DEF Typed
  <2>. QED
    BY <1>2, <1>7, <2>1, <2>2 DEF IInv, TypeOK, Portable
<1>9. Partition'
  <2>1. ptr' + (16 * i' + (nbytes % 16)) = call.p + call.n
    BY <1>1, <1>2, <1>3 DEF Typed
  <2>. QED
    BY <1>2, <2>1 DEF Partition, Left
<1>10. Position'
  BY <1>1, <1>2 DEF IInv, Position, Portable, Typed
<1>11. Room'
  <2>1. ptr \in Nat /\ call.p \in Nat
    BY <1>1 DEF Typed
  <2>2. (ptr' - call.p) + 4 = k + 20
    BY <1>2, <2>1 DEF k
  <2>. QED
    BY <1>2, <1>7, <2>2 DEF Room
<1>12. Footprint' /\ Assertions'
  BY <1>2, <1>4, InsideBuffer DEF Footprint, WordSize, Portable, Assertions, LaneAssertions
<1>13. Grows
  BY <1>2, <1>7 DEF Grows
<1>. QED
  BY <1>8, <1>9, <1>10, <1>11, <1>12, <1>13 DEF IInv

LEMMA QuadsDoneSafe ==
    ASSUME IInv, QuadsDone
    PROVE  IInv' /\ Grows
<1>1. Typed
  BY State
<1>2. /\ pc = "quads" /\ i = 0 /\ pc' = "words"
      /\ nbytes' = nbytes % 16 /\ rd' = {}
      /\ UNCHANGED <<call, ptr, i, sum, vsums, swap, csum>>
  BY DEF QuadsDone
<1>3. ptr + (16 * i + (nbytes % 16)) = call.p + call.n
  BY <1>2 DEF IInv, Partition, Left
<1>4. nbytes' \in 0 .. call.n
  BY <1>1, <1>2, Quotient16 DEF Typed
<1>5. TypeOK'
  BY <1>2, <1>4 DEF IInv, TypeOK, Portable
<1>6. Partition'
  BY <1>1, <1>2, <1>3, <1>4 DEF Partition, Left, Typed
<1>7. Position' /\ Room'
  BY <1>2 DEF IInv, Position, Room
<1>8. Footprint' /\ Assertions'
  BY <1>2 DEF Footprint, Assertions, LaneAssertions
<1>9. Grows
  BY <1>1, <1>2 DEF Grows, Typed
<1>. QED
  BY <1>5, <1>6, <1>7, <1>8, <1>9 DEF IInv

-----------------------------------------------------------------------------
\* The SIMD versions: aligning the pointer, and the groups of 64 bytes.

LEMMA Quotient64 ==
    ASSUME NEW n \in Nat
    PROVE  /\ n \div 64 \in Nat /\ n % 64 \in 0 .. 63 /\ n % 64 <= n
           /\ 64 * (n \div 64) + (n % 64) = n
OBVIOUS

LEMMA SimdFacts ==
    ASSUME call \in Calls, Simd
    PROVE  ~Portable /\ WordSize = 8
BY CallFacts DEF Simd, WordSize

LEMMA NothingSummed ==
    ASSUME NEW k \in Nat
    PROVE  4 * 0 <= PerWord(k)
BY MoreWords

LEMMA SmallSafe ==
    ASSUME IInv, Small
    PROVE  IInv' /\ Grows
<1>1. Typed
  BY State
<1>2. /\ Simd /\ pc = "entry" /\ pc' = "words"
      /\ UNCHANGED <<call, ptr, nbytes, i, sum, vsums, swap, rd, csum>>
  BY DEF Small, Simd
<1>3. ptr = call.p /\ nbytes = call.n /\ sum = 0
  BY <1>2 DEF IInv, Position, Room
<1>4. ~Portable /\ WordSize = 8
  BY <1>1, <1>2, SimdFacts DEF Typed
<1>5. TypeOK'
  BY <1>2, <1>4 DEF IInv, TypeOK, Portable
<1>6. Partition'
  BY <1>2, <1>3 DEF Partition, Left
<1>7. Position'
  BY <1>2 DEF IInv, Position
<1>8. Room'
  <2>1. (ptr - call.p) + 4 \in Nat
    BY <1>1, <1>3 DEF Typed
  <2>. QED
    BY <1>2, <1>3, <2>1, NothingSummed DEF Room
<1>9. Footprint' /\ Assertions'
  BY <1>2 DEF IInv, Footprint, WordSize, Portable, Assertions, LaneAssertions
<1>10. Grows
  BY <1>1, <1>2 DEF Grows, Typed
<1>. QED
  BY <1>5, <1>6, <1>7, <1>8, <1>9, <1>10 DEF IInv

LEMMA LargeSafe ==
    ASSUME IInv, Large
    PROVE  IInv' /\ Grows
<1> DEFINE off == ptr % 8
           a == align_ptr(ptr, 8)
<1>1. Typed
  BY State
<1>2. /\ Simd /\ pc = "entry" /\ nbytes >= 8 /\ pc' = "groups"
      /\ swap' \in BOOLEAN
      /\ SlurpHead64
      /\ UNCHANGED <<call, i, vsums, csum>>
  BY <1>1, MinAlignedAssumption DEF Large, Simd, Typed
<1>3. ptr = call.p /\ nbytes = call.n /\ sum = 0 /\ i = 0
  BY <1>2 DEF IInv, Position, Room
<1>4. ~Portable /\ WordSize = 8
  BY <1>1, <1>2, SimdFacts DEF Typed
<1>5. /\ ptr' \in Nat /\ ptr' % 8 = 0 /\ ptr' >= ptr
      /\ nbytes' \in 0 .. call.n /\ ptr' + nbytes' = call.p + call.n
      /\ sum' \in 0 .. (2 * (U32 - 1))
      /\ rd' \subseteq Words(call.p, call.n, WordSize)
  <2>1. CASE off # 0
    <3>1. /\ sum' = TwoWords(a, a + off, a + 7) /\ ptr' = a + 8
          /\ nbytes' = nbytes - (8 - off) /\ rd' = a .. (a + 7)
      BY <1>2, <2>1 DEF SlurpHead64, First
    <3>2. /\ a \in Nat /\ a + off = ptr /\ off \in 1 .. 7 /\ a % 8 = 0
      BY <1>1, <2>1 DEF Typed, align_ptr
    <3>3. Within(a + off, a + 7)
      BY <1>1, <1>2, <1>3, <3>2 DEF Within, Typed
    <3>4. sum' \in 0 .. (2 * (U32 - 1))
      BY <3>1, <3>2, <3>3, TwoWordsRange
    <3>5. a .. (a + 7) \subseteq Words(call.p, call.n, 8)
      <4>1. a .. (a + 8 - 1) \subseteq Words(call.p, call.n, 8)
        BY <1>1, <1>2, <1>3, HeadWord DEF Typed
      <4>. QED
        BY <3>2, <4>1
    <3> HIDE DEF off, a
    <3>6. ptr' \in Nat /\ ptr' % 8 = 0 /\ ptr' >= ptr
      BY <3>1, <3>2
    <3>7. nbytes' \in 0 .. call.n /\ ptr' + nbytes' = call.p + call.n
      <4>1. call.n \in Nat /\ call.p \in Nat
        BY <1>1 DEF Typed
      <4>2. nbytes' = call.n - (8 - off) /\ ptr' = a + 8
            /\ a + off = call.p /\ off \in 1 .. 7 /\ call.n >= 8 /\ a \in Nat
        BY <1>2, <1>3, <3>1, <3>2
      <4>. QED
        BY ONLY <4>1, <4>2
    <3>. QED
      BY <1>4, <3>1, <3>4, <3>5, <3>6, <3>7
  <2>2. CASE off = 0
    <3>1. UNCHANGED <<sum, ptr, nbytes, rd>>
      BY <1>2, <2>2 DEF SlurpHead64
    <3>. QED
      BY <1>1, <1>3, <2>2, <3>1 DEF Typed, IInv, Footprint
  <2>. QED
    BY <2>1, <2>2
<1>6. sum' \in 0 .. (U64 - 1)
  BY <1>5, Widths
<1>7. TypeOK'
  BY <1>2, <1>4, <1>5, <1>6 DEF IInv, TypeOK, Portable
<1>8. Partition'
  BY <1>1, <1>2, <1>3, <1>5 DEF Partition, Left, Typed
<1>9. Position'
  <2>1. 0 <= nbytes' \div 64
    <3>1. nbytes' \in Nat
      BY <1>1, <1>5 DEF Typed
    <3>2. nbytes' \div 64 \in Nat
      BY <3>1, Quotient64
    <3>. QED
      BY <3>2
  <2>. QED
    BY <1>2, <1>3, <1>5, <2>1 DEF Position, Simd, AArch64, Arm
<1>10. Room'
  BY <1>2, <1>5, Widths DEF IInv, Room
<1>11. Footprint' /\ Assertions'
  BY <1>2, <1>5 DEF Footprint, WordSize, Portable, Assertions, LaneAssertions
<1>12. Grows
  <2>1. pc # "groups"
    BY <1>2
  <2>2. sum' >= sum
    BY <1>3, <1>5, Widths
  <2>. QED
    BY <2>1, <2>2 DEF Grows
<1>. QED
  BY <1>7, <1>8, <1>9, <1>10, <1>11, <1>12 DEF IInv

\* A group adds two words to each lane, and a buffer has few groups.
LEMMA LaneAdded ==
    ASSUME NEW n \in Nat, n < U32, NEW j \in Nat, j < n \div 64,
           NEW q, q = PerWord(2 * j), NEW c, c = PerWord(2 * (j + 1)),
           NEW v \in Nat, v <= q,
           NEW a \in 0 .. (U32 - 1), NEW b \in 0 .. (U32 - 1),
           NEW t, t = (v + a + b) % U64
    PROVE  t >= v /\ t <= c
<1>1. 2 * (j + 1) \in Nat /\ 2 * (j + 1) <= U32
  BY Widths
<1>2. c = q + 2 * (U32 - 1)
  <2>1. 2 * j \in Nat /\ 2 * (j + 1) = 2 * j + 2
    OBVIOUS
  <2>. QED
    BY <1>1, <2>1, MoreWords
<1>3. c < U64
  <2>1. c <= (U32 - 1) * U32
    BY <1>1, Widths, Times DEF PerWord
  <2>2. (U32 - 1) * U32 < U64
    BY Widths
  <2>3. c \in Nat
    BY <1>1, MoreWords
  <2>. QED
    BY <2>1, <2>2, <2>3, Widths
<1>4. c \in Nat /\ q \in Nat
  BY <1>1, MoreWords
<1>5. v + a + b \in Nat /\ v + a + b <= c
  BY <1>2, <1>4, Widths
<1>6. (v + a + b) % U64 = v + a + b
  <2>1. v + a + b \in 0 .. (U64 - 1) /\ U64 \in Nat
    BY <1>3, <1>4, <1>5, Widths
  <2>. QED
    BY <2>1, ModSmall
<1>. QED
  BY <1>5, <1>6, Widths

LEMMA Group64Safe ==
    ASSUME IInv, Group64
    PROVE  IInv' /\ Grows
<1>1. Typed
  BY State
<1>2. /\ pc = "groups" /\ i < nbytes \div 64
      /\ vsums' = [k \in 0 .. 3 |-> vpadal(vsums[k], vld1q(ptr + 16 * k))]
      /\ rd' = ptr .. (ptr + 63)
      /\ ptr' = ptr + 64
      /\ i' = i + 1
      /\ UNCHANGED <<call, pc, nbytes, sum, swap, csum>>
  BY DEF Group64
<1>3. ptr + (nbytes - 64 * i) = call.p + call.n /\ Simd
  BY <1>2 DEF IInv, Partition, Left, Position
<1>4. ~Portable /\ WordSize = 8
  BY <1>1, <1>3, SimdFacts DEF Typed
<1>5. ptr + 64 <= call.p + call.n
  <2>1. nbytes \in Nat /\ i \in Nat /\ ptr \in Nat /\ call.p + call.n \in Nat
    BY <1>1 DEF Typed
  <2>2. 64 * (nbytes \div 64) <= nbytes /\ nbytes \div 64 \in Nat
    BY <2>1, Quotient64
  <2>. QED
    BY <1>2, <1>3, <2>1, <2>2
<1>6. Within(ptr, ptr + 63)
  BY <1>1, <1>5 DEF Within, Typed
<1>7. ASSUME NEW k \in 0 .. 3
      PROVE  vsums[k] \in Lanes /\ vld1q(ptr + 16 * k) \in Quads
  <2>1. vsums[k] \in Lanes
    BY <1>1 DEF Typed
  <2>2. ptr + 16 * k \in Int /\ ptr <= ptr + 16 * k /\ (ptr + 16 * k) + 15 <= ptr + 63
    BY <1>1 DEF Typed
  <2>3. Within(ptr + 16 * k, (ptr + 16 * k) + 15)
    BY <1>6, <2>2, WithinWider
  <2>. QED
    BY <2>1, <2>2, <2>3, LoadQuad
<1>8. vsums' \in [0 .. 3 -> Lanes]
  BY <1>2, <1>7, PairwiseAdded
<1>9. ASSUME NEW k \in 0 .. 3, NEW l \in 1 .. 2
      PROVE  vsums'[k][l] >= vsums[k][l] /\ vsums'[k][l] <= PerWord(2 * i')
  <2> DEFINE v == vsums[k]
             w == vld1q(ptr + 16 * k)
  <2>1. vsums'[k] = vpadal(v, w)
    BY <1>2
  <2>2. v \in Lanes /\ w \in Quads
    BY <1>7
  <2>3. \A h \in 1 .. 2 : v[h] <= PerWord(2 * i)
    BY <1>2 DEF IInv, Room
  <2> HIDE DEF v, w
  <2>4. /\ v[1] \in Nat /\ v[2] \in Nat
        /\ w[1] \in 0 .. (U32 - 1) /\ w[2] \in 0 .. (U32 - 1)
        /\ w[3] \in 0 .. (U32 - 1) /\ w[4] \in 0 .. (U32 - 1)
    BY <2>2, Widths DEF Lanes, Quads
  <2>5. nbytes \in Nat /\ nbytes < U32 /\ i \in Nat
    BY <1>1 DEF Typed
  <2> DEFINE q == PerWord(2 * i)
             c == PerWord(2 * (i + 1))
             t1 == vpadal(v, w)[1]
             t2 == vpadal(v, w)[2]
  <2>6. t1 = (v[1] + w[1] + w[2]) % U64 /\ t2 = (v[2] + w[3] + w[4]) % U64
    BY DEF vpadal
  <2>7. v[1] <= q /\ v[2] <= q /\ q = PerWord(2 * i) /\ c = PerWord(2 * (i + 1))
    BY <2>3
  <2> HIDE DEF q, c, t1, t2
  <2>8. t1 >= v[1] /\ t1 <= c /\ t2 >= v[2] /\ t2 <= c
    <3>1. i < nbytes \div 64
      BY <1>2
    <3>2. t1 >= v[1] /\ t1 <= c
      BY ONLY <2>4, <2>5, <2>6, <2>7, <3>1, LaneAdded
    <3>3. t2 >= v[2] /\ t2 <= c
      BY ONLY <2>4, <2>5, <2>6, <2>7, <3>1, LaneAdded
    <3>. QED
      BY <3>2, <3>3
  <2>9. vpadal(v, w)[l] >= v[l] /\ vpadal(v, w)[l] <= c
    <3>1. CASE l = 1
      BY <2>8, <3>1 DEF t1
    <3>2. CASE l = 2
      BY <2>8, <3>2 DEF t2
    <3>. QED
      BY <3>1, <3>2
  <2>. QED
    BY <1>2, <2>1, <2>7, <2>9 DEF v
<1>10. TypeOK'
  <2>1. ptr' \in Nat /\ i' \in Nat /\ (ptr % 8 = 0 => ptr' % 8 = 0)
    BY <1>1, <1>2 DEF Typed
  <2>. QED
    BY <1>2, <1>4, <1>8, <2>1 DEF IInv, TypeOK, Portable
<1>11. Partition'
  <2>1. ptr' + (nbytes - 64 * i') = call.p + call.n
    BY <1>1, <1>2, <1>3 DEF Typed
  <2>. QED
    BY <1>2, <2>1 DEF Partition, Left
<1>12. Position'
  <2>1. ptr' >= call.p /\ i + 1 <= nbytes \div 64
    BY <1>1, <1>2, Quotient64 DEF Typed
  <2>. QED
    BY <1>2, <1>3, <2>1 DEF Position, Simd, AArch64, Arm
<1>13. Room'
  BY <1>2, <1>9 DEF IInv, Room
<1>14. Footprint' /\ Assertions'
  BY <1>2, <1>6, InsideBuffer DEF Footprint, WordSize, Portable, Assertions, LaneAssertions
<1>15. Grows
  BY <1>1, <1>2, <1>9 DEF Grows, Typed
<1>. QED
  BY <1>10, <1>11, <1>12, <1>13, <1>14, <1>15 DEF IInv

-----------------------------------------------------------------------------
\* What is left after the groups.

\* What the masked load of the last bytes adds, and where it reads.
LEMMA MaskedTail ==
    ASSUME call \in Calls, NEW p0 \in Nat, NEW l \in 0 .. 7, NEW t,
           p0 >= call.p, p0 + l = call.p + call.n, p0 % 8 = 0,
           t = IF l # 0 THEN TwoWords(p0, p0, p0 + l - 1) ELSE 0
    PROVE  /\ t \in 0 .. (2 * (U32 - 1))
           /\ (IF l # 0 THEN p0 .. (p0 + 7) ELSE {}) \subseteq Words(call.p, call.n, 8)
<1>1. call.p \in Nat /\ call.n \in Nat
  BY CallFacts
<1>2. CASE l # 0
  <2>1. Within(p0, p0 + l - 1)
    BY <1>1 DEF Within
  <2>2. TwoWords(p0, p0, p0 + l - 1) \in 0 .. (2 * (U32 - 1))
    BY <2>1, TwoWordsRange
  <2>3. p0 .. (p0 + 7) \subseteq Words(call.p, call.n, 8)
    <3>1. l \in 1 .. 7
      BY <1>2
    <3> DEFINE p == call.p
               n == call.n
    <3>2. p \in Nat /\ n \in Nat /\ p <= p0 /\ p0 + l = p + n
      BY <1>1
    <3> HIDE DEF p, n
    <3>3. p0 .. (p0 + 7) \subseteq Words(p, n, 8)
      BY <3>1, <3>2, TailWord
    <3>. QED
      BY <3>3 DEF p, n
  <2>. QED
    BY <1>2, <2>2, <2>3
<1>3. CASE l = 0
  BY <1>3, Widths
<1>. QED
  BY <1>2, <1>3

\* What the sum of the words of a quad, folded once, is worth.
LEMMA HorizontalSum ==
    ASSUME NEW w \in Quads, NEW val, val = w[1] + w[2] + w[3] + w[4]
    PROVE  Hi(val) \in 0 .. (U32 - 1) /\ Lo(val) \in 0 .. (U32 - 1)
<1>1. val \in 0 .. (U64 - 1)
  BY Widths DEF Quads
<1>. QED
  BY <1>1, HiLo

\* A few words added to the sum of a head fit.
LEMMA FewWords ==
    ASSUME NEW s \in Nat, NEW x \in Nat, s + x <= 8 * (U32 - 1),
           NEW t, t = (s + x) % U64
    PROVE  t = s + x /\ t \in 0 .. (U64 - 1)
<1>1. U64 \in Nat /\ s + x \in 0 .. (U64 - 1)
  BY Widths
<1>2. (s + x) % U64 = s + x
  BY <1>1, ModSmall
<1>. QED
  BY <1>1, <1>2

\* The code of __chksum_aarch64_simd after its loop.
LEMMA TrailingSafe ==
    ASSUME IInv, Trailing
    PROVE  IInv' /\ Grows
<1> DEFINE n == nbytes % 64
           p16 == IF IsSet(n, 32) THEN ptr + 32 ELSE ptr
           p8 == IF IsSet(n, 16) THEN p16 + 16 ELSE p16
           p0 == IF IsSet(n, 8) THEN p8 + 8 ELSE p8
           v0 == vpadal(vsums[0], Words32(vsums[2]))
           v1 == vpadal(vsums[1], Words32(vsums[3]))
           w0 == IF IsSet(n, 32) THEN vpadal(v0, vld1q(ptr)) ELSE v0
           w1 == IF IsSet(n, 32) THEN vpadal(v1, vld1q(ptr + 16)) ELSE v1
           x == vpadal(w0, Words32(w1))
           y == IF IsSet(n, 16) THEN vpadal(x, vld1q(p16)) ELSE x
           z == IF IsSet(n, 8) THEN vaddw(y, load32(m, p8), load32(m, p8 + 4)) ELSE y
           words == Words32(z)
           val == words[1] + words[2] + words[3] + words[4]
           left == n % 8
           tail == IF left # 0 THEN TwoWords(p0, p0, p0 + left - 1) ELSE 0
<1>1. Typed
  BY State
<1>2. /\ AArch64 /\ pc = "groups" /\ i >= nbytes \div 64 /\ pc' = "ret"
      /\ csum' = fold_and_swap(sum', swap)
      /\ UNCHANGED <<call, i, swap>>
  BY DEF Trailing
<1>3. /\ vsums' = [vsums EXCEPT ![0] = z, ![1] = w1]
      /\ sum' = (sum + Hi(val) + Lo(val) + tail) % U64
      /\ ptr' = p0
      /\ nbytes' = left
      /\ rd' = ptr .. (p0 - 1) \cup (IF left # 0 THEN p0 .. (p0 + 7) ELSE {})
  BY DEF Trailing, Last
<1>4. n \in 0 .. 63 /\ n <= nbytes /\ ptr + n = call.p + call.n
  <2>1. ptr + (nbytes - 64 * i) = call.p + call.n /\ i <= nbytes \div 64
    BY <1>2 DEF IInv, Partition, Left, Position
  <2>2. i = nbytes \div 64
    BY <1>1, <1>2, <2>1, Quotient64 DEF Typed
  <2>. QED
    BY <1>1, <2>1, <2>2, Quotient64 DEF Typed
<1>5. ~Portable /\ WordSize = 8 /\ Simd
  BY <1>1, <1>2, SimdFacts DEF Typed, Simd
<1>6. ptr % 8 = 0 /\ ptr \in Nat /\ ptr >= call.p
  BY <1>1, <1>2 DEF IInv, TypeOK, Typed
<1>7. /\ p16 = IF IsSet(n, 32) THEN ptr + 32 ELSE ptr
      /\ p8 = IF IsSet(n, 16) THEN p16 + 16 ELSE p16
      /\ p0 = IF IsSet(n, 8) THEN p8 + 8 ELSE p8
  OBVIOUS
<1>l. /\ w0 = IF IsSet(n, 32) THEN vpadal(v0, vld1q(ptr)) ELSE v0
      /\ w1 = IF IsSet(n, 32) THEN vpadal(v1, vld1q(ptr + 16)) ELSE v1
      /\ x = vpadal(w0, Words32(w1))
      /\ y = IF IsSet(n, 16) THEN vpadal(x, vld1q(p16)) ELSE x
      /\ z = IF IsSet(n, 8) THEN vaddw(y, load32(m, p8), load32(m, p8 + 4)) ELSE y
  OBVIOUS
<1>s. /\ words = Words32(z)
      /\ val = words[1] + words[2] + words[3] + words[4]
      /\ tail = IF left # 0 THEN TwoWords(p0, p0, p0 + left - 1) ELSE 0
      /\ left = n % 8
  OBVIOUS
<1>8. v0 \in Lanes /\ v1 \in Lanes
  <2>1. vsums[0] \in Lanes /\ vsums[1] \in Lanes /\ vsums[2] \in Lanes /\ vsums[3] \in Lanes
    BY <1>1 DEF Typed
  <2>. QED
    BY <2>1, WordsOfLanes, PairwiseAdded
<1> HIDE DEF n, p16, p8, p0, v0, v1, w0, w1, x, y, z, words, val, left, tail
<1>9. /\ p16 \in Nat /\ p8 \in Nat /\ p0 \in Nat
      /\ ptr <= p16 /\ p16 <= p8 /\ p8 <= p0
      /\ p0 + left = ptr + n /\ p0 % 8 = 0 /\ left \in 0 .. 7
  <2>1. n = 32 * (n \div 32) + 16 * ((n \div 16) % 2) + 8 * ((n \div 8) % 2) + left
    BY <1>4, <1>s
  <2>2. /\ n \div 32 \in {0, 1} /\ (n \div 32) % 2 = n \div 32
        /\ (n \div 16) % 2 \in {0, 1} /\ (n \div 8) % 2 \in {0, 1} /\ left \in 0 .. 7
    BY <1>4, <1>s
  <2>3. p16 = ptr + 32 * (n \div 32) /\ p16 \in Nat
    BY <1>6, <1>7, <2>2 DEF IsSet
  <2>4. p8 = p16 + 16 * ((n \div 16) % 2) /\ p8 \in Nat
    BY <1>7, <2>2, <2>3 DEF IsSet
  <2>5. p0 = p8 + 8 * ((n \div 8) % 2) /\ p0 \in Nat
    BY <1>7, <2>2, <2>4 DEF IsSet
  <2>. QED
    BY <1>4, <1>6, <2>1, <2>2, <2>3, <2>4, <2>5
<1>10. Within(ptr, p0 - 1)
  BY <1>1, <1>4, <1>6, <1>9 DEF Within, Typed
<1>11. w1 \in Lanes /\ z \in Lanes
  <2>w. w0 \in Lanes /\ w1 \in Lanes
    <3>1. CASE IsSet(n, 32)
      <4>1. ptr + 16 \in Int /\ (ptr + 16) + 15 \in Int /\ ptr + 15 \in Int
            /\ ptr + 15 <= p0 - 1 /\ (ptr + 16) + 15 <= p0 - 1
        BY <1>6, <1>7, <1>9, <3>1
      <4>2. Within(ptr, ptr + 15) /\ Within(ptr + 16, (ptr + 16) + 15)
        BY <1>6, <1>10, <4>1, WithinWider
      <4>3. vld1q(ptr) \in Quads /\ vld1q(ptr + 16) \in Quads
        BY <1>6, <4>1, <4>2, LoadQuad
      <4>. QED
        BY <1>l, <1>8, <3>1, <4>3, PairwiseAdded
    <3>2. CASE ~IsSet(n, 32)
      BY <1>l, <1>8, <3>2
    <3>. QED
      BY <3>1, <3>2
  <2>x. x \in Lanes
    BY <1>l, <2>w, WordsOfLanes, PairwiseAdded
  <2>y. y \in Lanes
    <3>1. CASE IsSet(n, 16)
      <4>1. p16 + 15 \in Int /\ p16 + 15 <= p0 - 1
        <5>1. p8 = p16 + 16
          BY <1>7, <3>1
        <5>. QED
          BY <1>9, <5>1
      <4>2. Within(p16, p16 + 15)
        BY <1>9, <1>10, <4>1, WithinWider
      <4>3. vld1q(p16) \in Quads
        BY <1>9, <4>2, LoadQuad
      <4>. QED
        BY <1>l, <2>x, <3>1, <4>3, PairwiseAdded
    <3>2. CASE ~IsSet(n, 16)
      BY <1>l, <2>x, <3>2
    <3>. QED
      BY <3>1, <3>2
  <2>z. z \in Lanes
    <3>1. CASE IsSet(n, 8)
      <4>1. p8 + 3 \in Int /\ p8 + 3 <= p0 - 1 /\ p8 + 4 \in Int
            /\ (p8 + 4) + 3 \in Int /\ (p8 + 4) + 3 <= p0 - 1
            /\ ptr <= p8 /\ ptr <= p8 + 4
        BY <1>6, <1>7, <1>9, <3>1
      <4>2. Within(p8, p8 + 3) /\ Within(p8 + 4, (p8 + 4) + 3)
        BY <1>9, <1>10, <4>1, WithinWider
      <4>3. load32(m, p8) \in Int /\ load32(m, p8 + 4) \in Int
        BY <1>9, <4>1, <4>2, Load32Range, Widths
      <4>. QED
        BY <1>l, <2>y, <3>1, <4>3, WidelyAdded
    <3>2. CASE ~IsSet(n, 8)
      BY <1>l, <2>y, <3>2
    <3>. QED
      BY <3>1, <3>2
  <2>. QED
    BY <2>w, <2>z
<1>12. Hi(val) \in 0 .. (U32 - 1) /\ Lo(val) \in 0 .. (U32 - 1)
  BY <1>s, <1>11, WordsOfLanes, HorizontalSum
<1>13. /\ tail \in 0 .. (2 * (U32 - 1))
       /\ (IF left # 0 THEN p0 .. (p0 + 7) ELSE {}) \subseteq Words(call.p, call.n, 8)
  <2>1. call \in Calls /\ p0 >= call.p /\ p0 + left = call.p + call.n
    BY <1>1, <1>4, <1>6, <1>9 DEF Typed
  <2>. QED
    BY ONLY <1>s, <1>9, <2>1, MaskedTail
<1>14. sum' \in 0 .. (U64 - 1) /\ sum' >= sum
  <2>1. sum \in Nat /\ sum <= 2 * (U32 - 1)
    BY <1>1, <1>2 DEF IInv, Room, Typed
  <2> DEFINE added == Hi(val) + Lo(val) + tail
  <2>2. added \in Nat /\ sum + added <= 8 * (U32 - 1)
    BY <1>12, <1>13, <2>1, Widths
  <2>3. sum' = (sum + added) % U64
    <3>1. sum + Hi(val) + Lo(val) + tail = sum + added
      BY <1>12, <1>13, <2>1, Widths
    <3>. QED
      BY <1>3, <3>1
  <2> HIDE DEF added
  <2>4. sum' = sum + added /\ sum' \in 0 .. (U64 - 1)
    BY <2>1, <2>2, <2>3, FewWords
  <2>. QED
    BY <2>1, <2>2, <2>4
<1>15. csum' \in 0 .. (U16 - 1)
  BY <1>1, <1>2, <1>14, CsumRange DEF Typed
<1>16. vsums' \in [0 .. 3 -> Lanes]
  BY <1>1, <1>3, <1>11 DEF Typed
<1>17. TypeOK'
  <2>1. left \in 0 .. call.n
    BY <1>1, <1>4, <1>6, <1>9 DEF Typed
  <2>. QED
    BY <1>1, <1>2, <1>3, <1>9, <1>14, <1>15, <1>16, <2>1 DEF TypeOK, Typed
<1>18. Position' /\ Partition' /\ Room'
  <2>1. p0 >= call.p
    BY <1>1, <1>6, <1>9 DEF Typed
  <2>. QED
    BY <1>2, <1>3, <2>1 DEF Position, Partition, Room
<1>19. Footprint'
  <2>1. ptr .. (p0 - 1) \subseteq Words(call.p, call.n, 8)
    BY <1>5, <1>10, InsideBuffer
  <2>. QED
    BY <1>2, <1>3, <1>5, <1>13, <2>1 DEF Footprint, WordSize, Portable
<1>20. Assertions'
  BY <1>2, <1>14, FoldAssertsHold DEF Assertions, LaneAssertions
<1>21. Grows
  BY <1>2, <1>14 DEF Grows
<1>. QED
  BY <1>17, <1>18, <1>19, <1>20, <1>21 DEF IInv

-----------------------------------------------------------------------------
\* The code of __chksum_arm_simd after its loop.

LEMMA ArmFacts ==
    ASSUME call \in Calls, Arm
    PROVE  ~Portable /\ WordSize = 8
BY SimdFacts DEF Simd

LEMMA FoldGroupsSafe ==
    ASSUME IInv, FoldGroups
    PROVE  IInv' /\ Grows
<1> DEFINE v0 == vpadal(vsums[0], Words32(vsums[2]))
           v1 == vpadal(vsums[1], Words32(vsums[3]))
           z == vpadal(v0, Words32(v1))
<1>1. Typed
  BY State
<1>2. /\ Arm /\ pc = "groups" /\ i >= nbytes \div 64 /\ pc' = "sixteens"
      /\ nbytes' = nbytes % 64 /\ rd' = {}
      /\ UNCHANGED <<call, ptr, i, sum, swap, csum>>
  BY DEF FoldGroups
<1>3. vsums' = [vsums EXCEPT ![0] = z, ![1] = v1]
  BY DEF FoldGroups
<1>4. z \in Lanes /\ v1 \in Lanes
  <2>1. vsums[0] \in Lanes /\ vsums[1] \in Lanes /\ vsums[2] \in Lanes /\ vsums[3] \in Lanes
    BY <1>1 DEF Typed
  <2>2. v0 \in Lanes /\ v1 \in Lanes
    BY <2>1, WordsOfLanes, PairwiseAdded
  <2>. QED
    BY <2>2, WordsOfLanes, PairwiseAdded
<1> HIDE DEF v0, v1, z
<1>5. nbytes' \in 0 .. call.n /\ ptr + nbytes' = call.p + call.n
  <2>1. ptr + (nbytes - 64 * i) = call.p + call.n /\ i <= nbytes \div 64
    BY <1>2 DEF IInv, Partition, Left, Position
  <2>2. i = nbytes \div 64
    BY <1>1, <1>2, <2>1, Quotient64 DEF Typed
  <2>. QED
    BY <1>1, <1>2, <2>1, <2>2, Quotient64 DEF Typed
<1>6. vsums' \in [0 .. 3 -> Lanes]
  BY <1>1, <1>3, <1>4 DEF Typed
<1>7. ~Portable /\ ptr % 8 = 0
  BY <1>1, <1>2, ArmFacts DEF IInv, TypeOK, Typed
<1>8. TypeOK'
  BY <1>2, <1>5, <1>6, <1>7 DEF IInv, TypeOK, Portable
<1>9. Partition' /\ Position' /\ Room'
  BY <1>2, <1>5 DEF IInv, Partition, Left, Position, Arm, Room
<1>10. Footprint' /\ Assertions'
  BY <1>2 DEF Footprint, Assertions, LaneAssertions
<1>11. Grows
  BY <1>1, <1>2 DEF Grows, Typed
<1>. QED
  BY <1>8, <1>9, <1>10, <1>11 DEF IInv

LEMMA SixteenSafe ==
    ASSUME IInv, Sixteen
    PROVE  IInv' /\ Grows
<1> DEFINE z == vpadal(vsums[0], vld1q(ptr))
<1>1. Typed
  BY State
<1>2. /\ pc = "sixteens" /\ nbytes >= 16
      /\ rd' = ptr .. (ptr + 15)
      /\ ptr' = ptr + 16
      /\ nbytes' = nbytes - 16
      /\ UNCHANGED <<call, pc, i, sum, swap, csum>>
  BY DEF Sixteen
<1>3. vsums' = [vsums EXCEPT ![0] = z]
  BY DEF Sixteen
<1>4. ptr + nbytes = call.p + call.n /\ Arm
  BY <1>2 DEF IInv, Partition, Left, Position
<1>5. Within(ptr, ptr + 15)
  BY <1>1, <1>2, <1>4 DEF Within, Typed
<1>6. z \in Lanes
  <2>1. vsums[0] \in Lanes /\ ptr \in Int
    BY <1>1 DEF Typed
  <2>. QED
    BY <1>5, <2>1, LoadQuad, PairwiseAdded
<1> HIDE DEF z
<1>7. vsums' \in [0 .. 3 -> Lanes]
  BY <1>1, <1>3, <1>6 DEF Typed
<1>8. ~Portable
  BY <1>1, <1>4, ArmFacts DEF Typed
<1>9. /\ ptr' \in Nat /\ ptr' >= call.p /\ (ptr % 8 = 0 => ptr' % 8 = 0)
      /\ nbytes' \in 0 .. call.n /\ ptr' + nbytes' = call.p + call.n
  BY <1>1, <1>2, <1>4 DEF Typed
<1>10. TypeOK'
  BY <1>2, <1>7, <1>8, <1>9 DEF IInv, TypeOK, Portable
<1>11. Partition' /\ Position' /\ Room'
  BY <1>2, <1>4, <1>9 DEF IInv, Partition, Left, Position, Arm, Room
<1>12. Footprint' /\ Assertions'
  BY <1>2, <1>5, InsideBuffer DEF Footprint, WordSize, Portable, Assertions, LaneAssertions
<1>13. Grows
  BY <1>1, <1>2 DEF Grows, Typed
<1>. QED
  BY <1>10, <1>11, <1>12, <1>13 DEF IInv

\* Narrowing loses nothing: the lanes are words.
LEMMA NarrowSafe ==
    ASSUME IInv, Narrow
    PROVE  IInv' /\ Grows
<1> DEFINE v == AddedTwice(vsums[0])
<1>1. Typed
  BY State
<1>2. /\ pc = "sixteens" /\ nbytes < 16 /\ pc' = "tail"
      /\ rd' = {}
      /\ UNCHANGED <<call, ptr, nbytes, i, swap, csum>>
  BY DEF Narrow
<1>3. /\ vsums' = [vsums EXCEPT ![0] = v]
      /\ sum' = (sum + Lo(v[1]) + Lo(v[2])) % U64
  BY DEF Narrow
<1>4. v \in Lanes /\ v[1] \in 0 .. (U32 - 1) /\ v[2] \in 0 .. (U32 - 1)
  <2>1. vsums[0] \in Lanes
    BY <1>1 DEF Typed
  <2>. QED
    BY <2>1, AddedTwiceRange
<1> HIDE DEF v
<1>5. vsums' \in [0 .. 3 -> Lanes] /\ vsums'[0] = v
  BY <1>1, <1>3, <1>4 DEF Typed
<1>6. sum <= 2 * (U32 - 1) /\ Arm /\ ptr + nbytes = call.p + call.n
  BY <1>2 DEF IInv, Room, Position, Partition, Left
<1>7. sum' \in 0 .. (U64 - 1) /\ sum' >= sum /\ sum' <= 4 * (U32 - 1)
  <2> DEFINE added == Lo(v[1]) + Lo(v[2])
  <2>1. Lo(v[1]) \in 0 .. (U32 - 1) /\ Lo(v[2]) \in 0 .. (U32 - 1)
    BY <1>4, Widths, ModRange DEF Lo
  <2>2. added \in Nat /\ added <= 2 * (U32 - 1) /\ sum \in Nat
    BY <1>1, <2>1, Widths DEF Typed
  <2>3. sum' = (sum + added) % U64
    <3>1. sum + Lo(v[1]) + Lo(v[2]) = sum + added
      BY <2>1, <2>2, Widths
    <3>. QED
      BY <1>3, <3>1
  <2>4. sum + added <= 8 * (U32 - 1)
    BY <1>6, <2>2, Widths
  <2> HIDE DEF added
  <2>5. sum' = sum + added /\ sum' \in 0 .. (U64 - 1)
    BY <2>2, <2>3, <2>4, FewWords
  <2>. QED
    BY <1>6, <2>2, <2>5, Widths
<1>8. ~Portable
  BY <1>1, <1>6, ArmFacts DEF Typed
<1>9. TypeOK'
  BY <1>2, <1>5, <1>7, <1>8 DEF IInv, TypeOK, Portable
<1>10. Partition' /\ Position' /\ Room'
  BY <1>2, <1>6, <1>7 DEF IInv, Partition, Left, Position, Arm, Room
<1>11. Footprint' /\ Assertions'
  <2>1. \A l \in 1 .. 2 : vsums'[0][l] < U32
    <3>1. v[1] < U32 /\ v[2] < U32
      BY <1>4, Widths
    <3>. QED
      BY <1>5, <3>1
  <2>. QED
    BY <1>2, <2>1 DEF Footprint, Assertions, LaneAssertions
<1>12. Grows
  BY <1>2, <1>7 DEF Grows
<1>. QED
  BY <1>9, <1>10, <1>11, <1>12 DEF IInv

LEMMA Tail8Safe ==
    ASSUME IInv, Tail8
    PROVE  IInv' /\ Grows
<1> DEFINE p0 == IF IsSet(nbytes, 8) THEN ptr + 8 ELSE ptr
           left == nbytes % 8
           eight == IF IsSet(nbytes, 8) THEN TwoWords(ptr, ptr, ptr + 7) ELSE 0
           tail == IF left # 0 THEN TwoWords(p0, p0, p0 + left - 1) ELSE 0
<1>1. Typed
  BY State
<1>2. /\ pc = "tail" /\ pc' = "ret"
      /\ csum' = fold_and_swap(sum', swap)
      /\ UNCHANGED <<call, i, vsums, swap>>
  BY DEF Tail8
<1>3. /\ sum' = (sum + eight + Lo(tail) + Hi(tail)) % U64
      /\ ptr' = p0
      /\ nbytes' = left
      /\ rd' = ptr .. (p0 - 1) \cup (IF left # 0 THEN p0 .. (p0 + 7) ELSE {})
  BY DEF Tail8
<1>4. /\ p0 = IF IsSet(nbytes, 8) THEN ptr + 8 ELSE ptr
      /\ left = nbytes % 8
      /\ eight = IF IsSet(nbytes, 8) THEN TwoWords(ptr, ptr, ptr + 7) ELSE 0
  OBVIOUS
<1>s. tail = IF left # 0 THEN TwoWords(p0, p0, p0 + left - 1) ELSE 0
  OBVIOUS
<1> HIDE DEF p0, left, eight, tail
<1>5. /\ ptr + nbytes = call.p + call.n /\ Arm /\ nbytes < 16
      /\ sum <= 4 * (U32 - 1)
  BY <1>2 DEF IInv, Room, Position, Partition, Left
<1>6. ~Portable /\ WordSize = 8
  BY <1>1, <1>5, ArmFacts DEF Typed
<1>7. ptr % 8 = 0 /\ ptr \in Nat /\ nbytes \in 0 .. 15 /\ ptr >= call.p
  BY <1>1, <1>2, <1>5 DEF IInv, TypeOK, Typed
<1>8. /\ p0 \in Nat /\ p0 >= ptr /\ p0 % 8 = 0
      /\ left \in 0 .. 7 /\ p0 + left = ptr + nbytes
      /\ IsSet(nbytes, 8) => p0 = ptr + 8
  <2>1. CASE IsSet(nbytes, 8)
    <3>1. nbytes = 8 + left /\ left \in 0 .. 7 /\ p0 = ptr + 8
      BY <1>4, <1>7, <2>1 DEF IsSet
    <3>. QED
      BY <1>7, <3>1
  <2>2. CASE ~IsSet(nbytes, 8)
    <3>1. nbytes = left /\ left \in 0 .. 7 /\ p0 = ptr
      BY <1>4, <1>7, <2>2 DEF IsSet
    <3>. QED
      BY <1>7, <2>2, <3>1
  <2>. QED
    BY <2>1, <2>2
<1>9. Within(ptr, p0 - 1)
  BY <1>1, <1>5, <1>7, <1>8 DEF Within, Typed
<1>10. eight \in 0 .. (2 * (U32 - 1))
  <2>1. CASE IsSet(nbytes, 8)
    <3>1. p0 - 1 = ptr + 7 /\ ptr \in Int
      BY <1>7, <1>8, <2>1
    <3>2. Within(ptr, ptr + 7)
      BY <1>9, <3>1
    <3>. QED
      BY <1>4, <2>1, <3>1, <3>2, TwoWordsRange
  <2>2. CASE ~IsSet(nbytes, 8)
    BY <1>4, <2>2, Widths
  <2>. QED
    BY <2>1, <2>2
<1>11. /\ tail \in 0 .. (2 * (U32 - 1))
       /\ (IF left # 0 THEN p0 .. (p0 + 7) ELSE {}) \subseteq Words(call.p, call.n, 8)
  <2>1. call \in Calls /\ p0 >= call.p /\ p0 + left = call.p + call.n
    BY <1>1, <1>5, <1>7, <1>8 DEF Typed
  <2>. QED
    BY ONLY <1>s, <1>8, <2>1, MaskedTail
<1>12. sum' \in 0 .. (U64 - 1) /\ sum' >= sum
  <2> DEFINE added == eight + Lo(tail) + Hi(tail)
  <2>1. tail \in 0 .. (U64 - 1)
    BY <1>11, Widths
  <2>2. Lo(tail) \in 0 .. (U32 - 1) /\ Hi(tail) \in 0 .. (U32 - 1)
    BY <2>1, HiLo
  <2>3. added \in Nat /\ added <= 4 * (U32 - 1) /\ sum \in Nat
    BY <1>1, <1>10, <2>2, Widths DEF Typed
  <2>4. sum' = (sum + added) % U64
    <3>1. sum + eight + Lo(tail) + Hi(tail) = sum + added
      BY <1>10, <2>2, <2>3, Widths
    <3>. QED
      BY <1>3, <3>1
  <2>5. sum + added <= 8 * (U32 - 1)
    BY <1>5, <2>3, Widths
  <2> HIDE DEF added
  <2>6. sum' = sum + added /\ sum' \in 0 .. (U64 - 1)
    BY <2>3, <2>4, <2>5, FewWords
  <2>. QED
    BY <2>3, <2>6
<1>13. csum' \in 0 .. (U16 - 1)
  BY <1>1, <1>2, <1>12, CsumRange DEF Typed
<1>14. TypeOK'
  <2>1. left \in 0 .. call.n
    BY <1>1, <1>5, <1>7, <1>8 DEF Typed
  <2>. QED
    BY <1>1, <1>2, <1>3, <1>8, <1>12, <1>13, <2>1 DEF TypeOK, Typed
<1>15. Position' /\ Partition' /\ Room'
  <2>1. p0 >= call.p
    BY <1>1, <1>7, <1>8 DEF Typed
  <2>. QED
    BY <1>2, <1>3, <2>1 DEF Position, Partition, Room
<1>16. Footprint'
  <2>1. ptr .. (p0 - 1) \subseteq Words(call.p, call.n, 8)
    BY <1>6, <1>9, InsideBuffer
  <2>. QED
    BY <1>2, <1>3, <1>6, <1>11, <2>1 DEF Footprint, WordSize, Portable
<1>17. Assertions'
  BY <1>2, <1>12, FoldAssertsHold DEF Assertions, LaneAssertions
<1>18. Grows
  BY <1>2, <1>12 DEF Grows
<1>. QED
  BY <1>14, <1>15, <1>16, <1>17, <1>18 DEF IInv

-----------------------------------------------------------------------------
\* The invariant, and what follows from it.

LEMMA Initially ==
    ASSUME Init
    PROVE  IInv
<1>1. call \in Calls /\ call.p \in Nat /\ call.n \in Nat
  BY CallFacts DEF Init
<1>2. 0 \in 0 .. (U64 - 1) /\ 0 \in 0 .. (U16 - 1)
  BY Widths
<1>3. vsums \in [0 .. 3 -> Lanes] /\ \A k \in 0 .. 3 : \A l \in 1 .. 2 : vsums[k][l] = 0
  BY <1>2 DEF Init, Lanes
<1>4. TypeOK
  <2>1. ptr \in Nat /\ nbytes \in 0 .. call.n /\ i \in Nat
    BY <1>1 DEF Init
  <2>2. pc = "entry" /\ swap \in BOOLEAN
        /\ sum \in 0 .. (U64 - 1) /\ csum \in 0 .. (U16 - 1)
    BY <1>2 DEF Init
  <2>. QED
    BY <1>1, <1>3, <2>1, <2>2 DEF TypeOK
<1>5. Partition /\ Position
  BY <1>1 DEF Init, Partition, Left, Position
<1>6. Room
  <2>1. PerWord(2 * i) = 0
    BY Widths DEF Init, PerWord
  <2>. QED
    BY <1>3, <2>1 DEF Init, Room
<1>7. Footprint /\ Assertions
  BY DEF Init, Footprint, Assertions, LaneAssertions
<1>. QED
  BY <1>4, <1>5, <1>6, <1>7 DEF IInv

LEMMA Steps ==
    ASSUME IInv, [Next]_vars
    PROVE  IInv' /\ [Grows]_vars
<1>1. CASE Next
  BY <1>1, slurp_head32Safe, NoHeadSafe, SumQuadSafe, QuadsDoneSafe, SmallSafe,
     LargeSafe, Group64Safe, TrailingSafe, FoldGroupsSafe, SixteenSafe, NarrowSafe,
     Tail8Safe, SumWordSafe, SumTailSafe DEF Next
<1>2. CASE UNCHANGED vars
  <2>1. IInv'
    BY <1>2 DEF vars, IInv, TypeOK, Partition, Left, Position, Room, Footprint, WordSize,
                Assertions, LaneAssertions, Portable, Simd, AArch64, Arm
  <2>. QED
    BY <1>2, <2>1
<1>. QED
  BY <1>1, <1>2

\* The inductive invariant: labels, pointers and accumulators are related as
\* the loops of the three routines keep them.
THEOREM Invariance == Spec => []IInv
<1>1. Init => IInv
  BY Initially
<1>2. IInv /\ [Next]_vars => IInv'
  BY Steps
<1>. QED
  BY <1>1, <1>2, PTL DEF Spec

\* Registers keep to their widths and the pointer to its alignment, for every
\* memory, pointer and size.
THEOREM TypeCorrect == Spec => []TypeOK
<1>1. IInv => TypeOK
  BY DEF IInv
<1>. QED
  BY <1>1, Invariance, PTL

\* No load of the three routines is outside the aligned words the buffer is in:
\* of chksum_common.h's slurp_small, the loops, and the masked heads and tails.
THEOREM ReadsOnlyWords == Spec => []Footprint
<1>1. IInv => Footprint
  BY DEF IInv
<1>. QED
  BY <1>1, Invariance, PTL

\* The assertions of fold_and_swap and those of the Arm version on its lanes
\* hold for every memory: two foldings are always enough.
THEOREM AssertionsHold == Spec => []Assertions
<1>1. IInv => Assertions
  BY DEF IInv
<1>. QED
  BY <1>1, Invariance, PTL

\* No accumulator of 64 bits wraps around, however large the buffer an unsigned
\* int can count.
THEOREM NeverWraps == Spec => NoWrap
<1>1. IInv /\ [Next]_vars => [Grows]_vars
  BY Steps
<1>. QED
  BY <1>1, Invariance, PTL DEF Spec, NoWrap

=============================================================================
