---------------------------- MODULE ComparesProofs ----------------------------
(***************************************************************************)
(* Proofs about Compares for every set of valid calls of memcmp, strcmp    *)
(* and strncmp.  First words as bytes in the order of memory, what marks   *)
(* the NULs in them, and what the first mark of a syndrome says; then the  *)
(* steps of strcmp, of strncmp and of memcmp; and last all three.          *)
(***************************************************************************)
EXTENDS Compares, SimdProofs

-----------------------------------------------------------------------------
(* Words as bytes.                                                         *)

\* A word is half a vector register.
LEMMA WordSize ==
    N \in Nat /\ N >= 2 /\ W = 2 * N /\ 4 * W = 8 * N /\ W \in Nat
BY WAssumption DEF N

\* Each bit of a word is one of a byte of it.
LEMMA BitOfWord ==
    ASSUME NEW k
    PROVE  k \in XBits <=> \E i \in 0 .. (N - 1), b \in 0 .. 7 : k = 8 * i + b
<1>1. N \in Nat /\ XBits = 0 .. (8 * N - 1)
  BY WordSize DEF XBits
<1>2. ASSUME k \in XBits
      PROVE  \E i \in 0 .. (N - 1), b \in 0 .. 7 : k = 8 * i + b
  <2>1. k \div 8 \in 0 .. (N - 1) /\ k % 8 \in 0 .. 7 /\ k = 8 * (k \div 8) + (k % 8)
    BY <1>1, <1>2
  <2>. QED
    BY <2>1
<1>3. ASSUME NEW i \in 0 .. (N - 1), NEW b \in 0 .. 7, k = 8 * i + b PROVE k \in XBits
  BY <1>1, <1>3
<1>. QED
  BY <1>2, <1>3

\* The bits of the bytes tell words from each other.
LEMMA SameWord ==
    ASSUME NEW X \in SUBSET XBits, NEW Y \in SUBSET XBits,
           \A i \in 0 .. (N - 1) : LowBits(X, i) = LowBits(Y, i)
    PROVE  X = Y
<1>1. ASSUME NEW i \in 0 .. (N - 1), NEW b \in 0 .. 7 PROVE 8 * i + b \in X <=> 8 * i + b \in Y
  BY DEF LowBits
<1>2. ASSUME NEW k \in XBits PROVE k \in X <=> k \in Y
  BY <1>1, BitOfWord
<1>. QED
  BY <1>2

\* The bits of a byte.
LEMMA LowOf ==
    ASSUME NEW X, NEW i \in Int, NEW b
    PROVE  /\ LowBits(X, i) \in SUBSET (0 .. 7)
           /\ b \in LowBits(X, i) <=> b \in 0 .. 7 /\ 8 * i + b \in X
BY DEF LowBits

\* The bytes of a word that is shifted right, or left, by whole bytes; and of one reversed.
LEMMA LowLsr ==
    ASSUME NEW X \in SUBSET XBits, NEW j \in 0 .. (N - 1), NEW n \in Int, n % (8 * N) = 8 * j,
           NEW i \in 0 .. (N - 1)
    PROVE  /\ lsr(X, n) \in SUBSET XBits
           /\ LowBits(lsr(X, n), i) = IF i + j < N THEN LowBits(X, i + j) ELSE {}
<1>1. lsr(X, n) = {k - 8 * j : k \in {l \in X : l >= 8 * j}}
  BY WordSize DEF lsr
<1>2. N \in Nat /\ XBits = 0 .. (8 * N - 1)
  BY WordSize DEF XBits
<1>3. \A k \in X : k \in 0 .. (8 * N - 1)
  BY <1>2
<1>4. \A k \in Int : k \in lsr(X, n) <=> k >= 0 /\ k + 8 * j \in X
  <2>1. \A l \in X : l >= 8 * j => l - 8 * j >= 0 /\ (l - 8 * j) + 8 * j = l /\ l \in Int
    BY <1>2, <1>3
  <2>. QED
    BY <1>1, <1>2, <1>3, <2>1
<1>5. lsr(X, n) \in SUBSET XBits
  BY <1>1, <1>2, <1>3
<1>6. ASSUME NEW b \in 0 .. 7
      PROVE  8 * i + b \in lsr(X, n) <=> (i + j < N /\ 8 * (i + j) + b \in X)
  <2>1. 8 * i + b \in Int /\ 8 * i + b >= 0 /\ (8 * i + b) + 8 * j = 8 * (i + j) + b
    BY <1>2
  <2>2. 8 * (i + j) + b \in X => i + j < N
    BY <1>2, <1>3
  <2>. QED
    BY <1>4, <2>1, <2>2
<1>. QED
  BY <1>5, <1>6 DEF LowBits

LEMMA LowLsl ==
    ASSUME NEW X \in SUBSET XBits, NEW j \in 0 .. (N - 1), NEW n \in Int, n % (8 * N) = 8 * j,
           NEW i \in 0 .. (N - 1)
    PROVE  /\ lsl(X, n) \in SUBSET XBits
           /\ LowBits(lsl(X, n), i) = IF i >= j THEN LowBits(X, i - j) ELSE {}
<1>1. lsl(X, n) = {k + 8 * j : k \in {l \in X : l + 8 * j \in XBits}}
  BY WordSize DEF lsl
<1>2. N \in Nat /\ XBits = 0 .. (8 * N - 1)
  BY WordSize DEF XBits
<1>3. \A k \in X : k \in 0 .. (8 * N - 1)
  BY <1>2
<1>4. \A k \in XBits : k \in lsl(X, n) <=> k - 8 * j \in X
  <2>1. \A l \in X : l \in Int /\ (l + 8 * j) - 8 * j = l
    BY <1>2, <1>3
  <2>2. \A k \in XBits : (k - 8 * j) + 8 * j = k
    BY <1>2
  <2>. QED
    BY <1>1, <1>2, <1>3, <2>1, <2>2
<1>5. lsl(X, n) \in SUBSET XBits
  BY <1>1
<1>6. ASSUME NEW b \in 0 .. 7
      PROVE  8 * i + b \in lsl(X, n) <=> (i >= j /\ 8 * (i - j) + b \in X)
  <2>1. 8 * i + b \in XBits /\ (8 * i + b) - 8 * j = 8 * (i - j) + b
    BY <1>2
  <2>2. 8 * (i - j) + b \in X => i >= j
    BY <1>2, <1>3
  <2>. QED
    BY <1>4, <2>1, <2>2
<1>. QED
  BY <1>5, <1>6 DEF LowBits

LEMMA LowRev ==
    ASSUME NEW X \in SUBSET XBits, NEW i \in 0 .. (N - 1)
    PROVE  /\ rev(X) \in SUBSET XBits
           /\ LowBits(rev(X), i) = LowBits(X, (N - 1) - i)
<1>1. N \in Nat /\ XBits = 0 .. (8 * N - 1)
  BY WordSize DEF XBits
<1>2. ASSUME NEW j \in 0 .. (N - 1), NEW b \in 0 .. 7
      PROVE  8 * (N - 1 - ((8 * j + b) \div 8)) + ((8 * j + b) % 8) = 8 * (N - 1 - j) + b
  <2>1. (8 * j + b) \div 8 = j /\ (8 * j + b) % 8 = b
    BY <1>1
  <2>. QED
    BY <2>1
<1>3. \A k \in X : \E j \in 0 .. (N - 1), b \in 0 .. 7 : k = 8 * j + b
  BY BitOfWord
<1>4. rev(X) \in SUBSET XBits
  <2>1. ASSUME NEW k \in X PROVE 8 * (N - 1 - (k \div 8)) + (k % 8) \in XBits
    <3>1. PICK j \in 0 .. (N - 1), b \in 0 .. 7 : k = 8 * j + b
      BY <1>3
    <3>2. 8 * (N - 1 - (k \div 8)) + (k % 8) = 8 * (N - 1 - j) + b
      BY <1>2, <3>1
    <3>. QED
      BY <1>1, <3>2
  <2>. QED
    BY <2>1 DEF rev
<1>5. ASSUME NEW b \in 0 .. 7
      PROVE  8 * i + b \in rev(X) <=> 8 * ((N - 1) - i) + b \in X
  <2>1. ASSUME 8 * ((N - 1) - i) + b \in X PROVE 8 * i + b \in rev(X)
    <3>1. (N - 1) - i \in 0 .. (N - 1) /\ N - 1 - ((N - 1) - i) = i
      BY <1>1
    <3>2. 8 * (N - 1 - ((8 * ((N - 1) - i) + b) \div 8)) + ((8 * ((N - 1) - i) + b) % 8) = 8 * i + b
      BY <1>2, <3>1
    <3>. QED
      BY <2>1, <3>2 DEF rev
  <2>2. ASSUME 8 * i + b \in rev(X) PROVE 8 * ((N - 1) - i) + b \in X
    <3>1. PICK k \in X : 8 * i + b = 8 * (N - 1 - (k \div 8)) + (k % 8)
      BY <2>2 DEF rev
    <3>2. PICK j \in 0 .. (N - 1), d \in 0 .. 7 : k = 8 * j + d
      BY <1>3
    <3>3. 8 * i + b = 8 * (N - 1 - j) + d
      BY <1>2, <3>1, <3>2
    <3>4. i = N - 1 - j /\ b = d
      BY <1>1, <3>3
    <3>5. k = 8 * ((N - 1) - i) + b
      BY <1>1, <3>2, <3>4
    <3>. QED
      BY <3>5
  <2>. QED
    BY <2>1, <2>2
<1>. QED
  BY <1>4, <1>5 DEF LowBits

\* The number that the bits of a byte make.
LEMMA NumberIn ==
    ASSUME NEW X, NEW lo
    PROVE  /\ Number(X, lo) \in 0 .. 255
           /\ Number(X, lo) = 0 <=> \A b \in 0 .. 7 : ~(lo + b \in X)
<1>1. Number(X, lo) \in 0 .. 255
  BY NumberIs
<1>2. ASSUME \A b \in 0 .. 7 : ~(lo + b \in X) PROVE Number(X, lo) = 0
  BY <1>2, NumberIs
<1>3. ASSUME Number(X, lo) = 0, NEW b \in 0 .. 7 PROVE ~(lo + b \in X)
  <2>1. b \in {0, 1, 2, 3, 4, 5, 6, 7}
    OBVIOUS
  <2>. QED
    BY <1>3, <2>1, NumberIs
<1>. QED
  BY <1>1, <1>2, <1>3

\* Byte i as a number, wherever its bits are taken from.
LEMMA NumberOfLow ==
    ASSUME NEW X, NEW i \in Int
    PROVE  Number(X, 8 * i) = Number(LowBits(X, i), 0)
<1>1. \A b \in 0 .. 7 : 0 + b \in LowBits(X, i) <=> 8 * i + b \in X
  BY DEF LowBits
<1>2. /\ 0 + 0 \in LowBits(X, i) <=> 8 * i + 0 \in X
      /\ 0 + 1 \in LowBits(X, i) <=> 8 * i + 1 \in X
      /\ 0 + 2 \in LowBits(X, i) <=> 8 * i + 2 \in X
      /\ 0 + 3 \in LowBits(X, i) <=> 8 * i + 3 \in X
      /\ 0 + 4 \in LowBits(X, i) <=> 8 * i + 4 \in X
      /\ 0 + 5 \in LowBits(X, i) <=> 8 * i + 5 \in X
      /\ 0 + 6 \in LowBits(X, i) <=> 8 * i + 6 \in X
      /\ 0 + 7 \in LowBits(X, i) <=> 8 * i + 7 \in X
  BY <1>1
<1>. HIDE DEF LowBits
<1>. QED
  BY <1>2, NumberIs

\* A byte is the number of its bits.
LEMMA NumberOfBits ==
    ASSUME NEW x \in 0 .. 255
    PROVE  /\ Number(BitsOf(x), 0) = x
           /\ BitsOf(x) = {} <=> x = 0
<1>1. x = (x % 2) + 2 * ((x \div 2) % 2) + 4 * ((x \div 4) % 2) + 8 * ((x \div 8) % 2)
             + 16 * ((x \div 16) % 2) + 32 * ((x \div 32) % 2) + 64 * ((x \div 64) % 2)
             + 128 * ((x \div 128) % 2)
  OBVIOUS
<1>2. \A u \in Int : u % 2 = IF u % 2 = 1 THEN 1 ELSE 0
  OBVIOUS
<1>3. /\ x % 2 = IF 0 + 0 \in BitsOf(x) THEN 1 ELSE 0
      /\ (x \div 2) % 2 = IF 0 + 1 \in BitsOf(x) THEN 1 ELSE 0
      /\ (x \div 4) % 2 = IF 0 + 2 \in BitsOf(x) THEN 1 ELSE 0
      /\ (x \div 8) % 2 = IF 0 + 3 \in BitsOf(x) THEN 1 ELSE 0
      /\ (x \div 16) % 2 = IF 0 + 4 \in BitsOf(x) THEN 1 ELSE 0
      /\ (x \div 32) % 2 = IF 0 + 5 \in BitsOf(x) THEN 1 ELSE 0
      /\ (x \div 64) % 2 = IF 0 + 6 \in BitsOf(x) THEN 1 ELSE 0
      /\ (x \div 128) % 2 = IF 0 + 7 \in BitsOf(x) THEN 1 ELSE 0
  BY <1>2, BitsAre
<1>4. Number(BitsOf(x), 0) = x
  BY <1>1, <1>3, NumberIs
<1>5. BitsOf(x) \in SUBSET (0 .. 7)
  BY BitsAre
<1>6. Number(BitsOf(x), 0) = 0 <=> \A b \in 0 .. 7 : ~(0 + b \in BitsOf(x))
  BY NumberIn
<1>. QED
  BY <1>4, <1>5, <1>6

\* The highest bit in which two numbers differ tells which is greater.
LEMMA NumberOrder ==
    ASSUME NEW X, NEW Y, NEW lo, NEW top \in 0 .. 7, lo + top \in Y, ~(lo + top \in X),
           \A b \in (top + 1) .. 7 : lo + b \in X <=> lo + b \in Y
    PROVE  Number(X, lo) < Number(Y, lo)
<1>1. top \in {0, 1, 2, 3, 4, 5, 6, 7}
  OBVIOUS
<1>2. \A b \in {1, 2, 3, 4, 5, 6, 7} : b > top => (lo + b \in X <=> lo + b \in Y)
  OBVIOUS
<1>3. /\ 1 > top => (lo + 1 \in X <=> lo + 1 \in Y)
      /\ 2 > top => (lo + 2 \in X <=> lo + 2 \in Y)
      /\ 3 > top => (lo + 3 \in X <=> lo + 3 \in Y)
      /\ 4 > top => (lo + 4 \in X <=> lo + 4 \in Y)
      /\ 5 > top => (lo + 5 \in X <=> lo + 5 \in Y)
      /\ 6 > top => (lo + 6 \in X <=> lo + 6 \in Y)
      /\ 7 > top => (lo + 7 \in X <=> lo + 7 \in Y)
  BY <1>2
<1>. QED
  BY <1>1, <1>3, NumberIs

\* The trick of zeroones finds a NUL if there is one, and marks the first of them.
LEMMA HasZeroNone ==
    ASSUME NEW X
    PROVE  HasZero(X) = {} <=> \A i \in 0 .. (N - 1) : LowBits(X, i) # {}
<1> DEFINE x == [i \in 0 .. (N - 1) |-> Number(X, 8 * i)]
<1>1. N \in Nat /\ N \in 0 .. N
  BY WordSize
<1>2. ASSUME NEW i \in 0 .. (N - 1) PROVE x[i] \in 0 .. 255 /\ (x[i] = 0 <=> LowBits(X, i) = {})
  <2>1. x[i] = Number(X, 8 * i) /\ i \in Int
    OBVIOUS
  <2>2. LowBits(X, i) = {} <=> \A b \in 0 .. 7 : ~(8 * i + b \in X)
    BY DEF LowBits
  <2>. QED
    BY <2>1, <2>2, NumberIn
<1>3. HasZero(X) = Zeros(x, N)
  BY DEF HasZero
<1>. HIDE DEF x
<1>4. ASSUME \A i \in 0 .. (N - 1) : LowBits(X, i) # {} PROVE HasZero(X) = {}
  <2>1. \A j \in 0 .. (N - 1) : x[j] \in 1 .. 255
    BY <1>2, <1>4
  <2>2. \A j \in N .. (N - 1) : x[j] \in 0 .. 255
    BY <1>1
  <2>. QED
    BY <1>1, <1>3, <2>1, <2>2, ZerosNone
<1>5. ASSUME NEW i \in 0 .. (N - 1), LowBits(X, i) = {} PROVE HasZero(X) # {}
  <2> DEFINE T == {j \in 0 .. (N - 1) : LowBits(X, j) = {}}
  <2>1. PICK f \in T : \A j \in T : f <= j
    <3>1. T \subseteq Nat /\ i \in T
      BY <1>1, <1>5
    <3>. QED
      BY <3>1, LeastOf
  <2>2. f \in 0 .. (N - 1) /\ x[f] = 0 /\ \A j \in 0 .. (f - 1) : x[j] \in 1 .. 255
    <3>1. f \in 0 .. (N - 1) /\ LowBits(X, f) = {}
      OBVIOUS
    <3>2. ASSUME NEW j \in 0 .. (f - 1) PROVE x[j] \in 1 .. 255
      <4>1. j \in 0 .. (N - 1) /\ ~(f <= j)
        BY <1>1, <3>1
      <4>. QED
        BY <1>2, <2>1, <4>1
    <3>. QED
      BY <1>2, <3>1, <3>2
  <2>3. 8 * f + 7 \in Zeros(x, N)
    BY <1>1, <2>2, ZerosFirst
  <2>. QED
    BY <1>3, <2>3
<1>. QED
  BY <1>4, <1>5

LEMMA HasZeroFirst ==
    ASSUME NEW X, NEW f \in 0 .. (N - 1), LowBits(X, f) = {},
           \A i \in 0 .. (f - 1) : LowBits(X, i) # {}
    PROVE  /\ HasZero(X) \in SUBSET XBits
           /\ \A i \in 0 .. (f - 1) : LowBits(HasZero(X), i) = {}
           /\ LowBits(HasZero(X), f) = {7}
           /\ \A i \in 0 .. (N - 1) : LowBits(HasZero(X), i) \subseteq {7}
<1> DEFINE x == [i \in 0 .. (N - 1) |-> Number(X, 8 * i)]
<1>1. N \in Nat /\ N \in 0 .. N
  BY WordSize
<1>2. ASSUME NEW i \in 0 .. (N - 1) PROVE x[i] \in 0 .. 255 /\ (x[i] = 0 <=> LowBits(X, i) = {})
  <2>1. x[i] = Number(X, 8 * i) /\ i \in Int
    OBVIOUS
  <2>2. LowBits(X, i) = {} <=> \A b \in 0 .. 7 : ~(8 * i + b \in X)
    BY DEF LowBits
  <2>. QED
    BY <2>1, <2>2, NumberIn
<1>3. HasZero(X) = Zeros(x, N)
  BY DEF HasZero
<1>. HIDE DEF x
<1>4. x[f] = 0 /\ \A j \in 0 .. (f - 1) : x[j] \in 1 .. 255
  <2>1. ASSUME NEW j \in 0 .. (f - 1) PROVE x[j] \in 1 .. 255
    <3>1. j \in 0 .. (N - 1)
      BY <1>1
    <3>. QED
      BY <1>2, <3>1
  <2>. QED
    BY <1>2, <2>1
<1>5. /\ 8 * f + 7 \in HasZero(X)
      /\ \A b \in HasZero(X) : \E i \in f .. (N - 1) : b = 8 * i + 7
  BY <1>1, <1>3, <1>4, ZerosFirst
<1>6. ASSUME NEW i \in 0 .. (N - 1), NEW b \in LowBits(HasZero(X), i) PROVE b = 7 /\ i >= f
  <2>1. 8 * i + b \in HasZero(X) /\ b \in 0 .. 7
    BY DEF LowBits
  <2>2. PICK j \in f .. (N - 1) : 8 * i + b = 8 * j + 7
    BY <1>5, <2>1
  <2>. QED
    BY <1>1, <2>1, <2>2
<1>7. 7 \in LowBits(HasZero(X), f)
  BY <1>5 DEF LowBits
<1>8. HasZero(X) \in SUBSET XBits
  <2>1. \A i \in f .. (N - 1) : 8 * i + 7 \in XBits
    BY WordSize DEF XBits
  <2>. QED
    BY <1>5, <2>1
<1>9. \A i \in 0 .. (f - 1) : i \in 0 .. (N - 1) /\ ~(i >= f)
  BY <1>1
<1>. QED
  BY <1>6, <1>7, <1>8, <1>9

-----------------------------------------------------------------------------
(* In the order of memory.                                                 *)

\* Bytes in the order of memory: a byte has bits, and a word is known by its bytes.
LEMMA BitsIn ==
    ASSUME NEW X, NEW i \in 0 .. (N - 1)
    PROVE  Bits(X, i) \in SUBSET (0 .. 7)
BY DEF Bits, LowBits

LEMMA SameBits ==
    ASSUME NEW X \in SUBSET XBits, NEW Y \in SUBSET XBits,
           \A i \in 0 .. (N - 1) : Bits(X, i) = Bits(Y, i)
    PROVE  X = Y
<1>1. ASSUME NEW i \in 0 .. (N - 1) PROVE LowBits(X, i) = LowBits(Y, i)
  <2>1. (N - 1) - i \in 0 .. (N - 1) /\ N - 1 - ((N - 1) - i) = i
    BY WordSize
  <2>2. LowBits(X, i) = Bits(X, IF big THEN (N - 1) - i ELSE i)
    BY <2>1 DEF Bits
  <2>3. LowBits(Y, i) = Bits(Y, IF big THEN (N - 1) - i ELSE i)
    BY <2>1 DEF Bits
  <2>. QED
    BY <2>1, <2>2, <2>3
<1>. QED
  BY <1>1, SameWord

\* Of words, byte by byte.
LEMMA BitsOps ==
    ASSUME NEW i \in 0 .. (N - 1)
    PROVE  Bits({}, i) = {} /\ Bits(XBits, i) = AllOnes
<1>1. \A j \in 0 .. (N - 1), b \in 0 .. 7 : 8 * j + b \in XBits
  BY BitOfWord
<1>2. \A j : LowBits({}, j) = {}
  BY DEF LowBits
<1>3. \A j \in 0 .. (N - 1) : LowBits(XBits, j) = AllOnes
  BY <1>1 DEF LowBits, AllOnes
<1>4. N - 1 - i \in 0 .. (N - 1)
  BY WordSize
<1>. QED
  BY <1>2, <1>3, <1>4 DEF Bits

\* Bitwise instructions work byte by byte.
LEMMA BitsBitwise ==
    ASSUME NEW X, NEW Y, NEW Z, NEW i \in 0 .. (N - 1), NEW b
    PROVE  /\ Z = X \cup Y => (b \in Bits(Z, i) <=> b \in Bits(X, i) \/ b \in Bits(Y, i))
           /\ Z = X \cap Y => (b \in Bits(Z, i) <=> b \in Bits(X, i) /\ b \in Bits(Y, i))
           /\ Z = X \ Y => (b \in Bits(Z, i) <=> b \in Bits(X, i) /\ ~(b \in Bits(Y, i)))
<1>1. \A U, j : b \in LowBits(U, j) <=> b \in 0 .. 7 /\ 8 * j + b \in U
  BY DEF LowBits
<1>2. \E j \in Int : \A U : Bits(U, i) = LowBits(U, j)
  BY WordSize DEF Bits
<1>. QED
  BY <1>1, <1>2

LEMMA BitsCup ==
    ASSUME NEW X, NEW Y, NEW Z, Z = X \cup Y, NEW i \in 0 .. (N - 1)
    PROVE  Bits(Z, i) = Bits(X, i) \cup Bits(Y, i)
BY BitsBitwise

LEMMA BitsCap ==
    ASSUME NEW X, NEW Y, NEW Z, Z = X \cap Y, NEW i \in 0 .. (N - 1)
    PROVE  Bits(Z, i) = Bits(X, i) \cap Bits(Y, i)
BY BitsBitwise

LEMMA BitsLess ==
    ASSUME NEW X, NEW Y, NEW Z, Z = X \ Y, NEW i \in 0 .. (N - 1)
    PROVE  Bits(Z, i) = Bits(X, i) \ Bits(Y, i)
BY BitsBitwise

LEMMA BitsXor ==
    ASSUME NEW X, NEW Y, NEW Z, Z = SymmetricDiff(X, Y), NEW i \in 0 .. (N - 1)
    PROVE  Bits(Z, i) = SymmetricDiff(Bits(X, i), Bits(Y, i))
<1> DEFINE P == X \ Y
           Q == Y \ X
<1>1. Z = P \cup Q
  BY DEF SymmetricDiff
<1>2. Bits(P, i) = Bits(X, i) \ Bits(Y, i)
  BY BitsLess
<1>3. Bits(Q, i) = Bits(Y, i) \ Bits(X, i)
  BY BitsLess
<1> HIDE DEF P, Q
<1>4. Bits(Z, i) = Bits(P, i) \cup Bits(Q, i)
  BY <1>1, BitsCup
<1>. QED
  BY <1>2, <1>3, <1>4 DEF SymmetricDiff

\* Reversal by either macro, and shifts towards lower and higher addresses.
LEMMA BitsRevBE ==
    ASSUME NEW X \in SUBSET XBits, NEW i \in 0 .. (N - 1)
    PROVE  /\ RevBE(X) \in SUBSET XBits
           /\ LowBits(RevBE(X), i) = Bits(X, i)
           /\ Bits(RevBE(X), i) = LowBits(X, i)
<1>1. N - 1 - i \in 0 .. (N - 1) /\ (N - 1) - (N - 1 - i) = i
  BY WordSize
<1>2. /\ rev(X) \in SUBSET XBits
      /\ LowBits(rev(X), i) = LowBits(X, N - 1 - i)
      /\ LowBits(rev(X), N - 1 - i) = LowBits(X, i)
  BY <1>1, LowRev
<1>. QED
  BY <1>2 DEF RevBE, Bits

LEMMA BitsRevLE ==
    ASSUME NEW X \in SUBSET XBits, NEW i \in 0 .. (N - 1)
    PROVE  /\ RevLE(X) \in SUBSET XBits
           /\ LowBits(RevLE(X), N - 1 - i) = Bits(X, i)
<1>1. N - 1 - i \in 0 .. (N - 1) /\ (N - 1) - (N - 1 - i) = i
  BY WordSize
<1>2. /\ rev(X) \in SUBSET XBits
      /\ LowBits(rev(X), N - 1 - i) = LowBits(X, i)
  BY <1>1, LowRev
<1>. QED
  BY <1>2 DEF RevLE, Bits

\* Shifts by j bytes, towards the bytes of lower, and of higher, addresses.
LEMMA BitsFW ==
    ASSUME NEW X \in SUBSET XBits, NEW j \in 0 .. (N - 1), NEW n \in Int, n % (8 * N) = 8 * j,
           NEW i \in 0 .. (N - 1)
    PROVE  /\ LS_FW(X, n) \in SUBSET XBits
           /\ Bits(LS_FW(X, n), i) = IF i + j < N THEN Bits(X, i + j) ELSE {}
<1>1. N - 1 - i \in 0 .. (N - 1) /\ (N - 1 - i >= j <=> i + j < N)
      /\ (N - 1 - i) - j = N - 1 - (i + j)
  BY WordSize
<1>2. CASE big
  BY <1>1, <1>2, LowLsl DEF LS_FW, Bits
<1>3. CASE ~big
  BY <1>3, LowLsr DEF LS_FW, Bits
<1>. QED
  BY <1>2, <1>3

LEMMA BitsBK ==
    ASSUME NEW X \in SUBSET XBits, NEW j \in 0 .. (N - 1), NEW n \in Int, n % (8 * N) = 8 * j,
           NEW i \in 0 .. (N - 1)
    PROVE  /\ LS_BK(X, n) \in SUBSET XBits
           /\ Bits(LS_BK(X, n), i) = IF i >= j THEN Bits(X, i - j) ELSE {}
<1>1. N - 1 - i \in 0 .. (N - 1) /\ ((N - 1 - i) + j < N <=> i >= j)
      /\ (N - 1 - i) + j = N - 1 - (i - j)
  BY WordSize
<1>2. CASE big
  BY <1>1, <1>2, LowLsr DEF LS_BK, Bits
<1>3. CASE ~big
  BY <1>3, LowLsl DEF LS_BK, Bits
<1>. QED
  BY <1>2, <1>3

\* A bit is of one byte only.
LEMMA SameBit ==
    ASSUME NEW p \in Int, NEW q \in Int, NEW b \in 0 .. 7, NEW d \in 0 .. 7, 8 * p + b = 8 * q + d
    PROVE  d = b /\ p = q
OBVIOUS

\* What ldr loads.
LEMMA BitsLdr ==
    ASSUME NEW a
    PROVE  /\ Ldr(a) \in SUBSET XBits
           /\ \A i \in 0 .. (N - 1) : Bits(Ldr(a), i) = BitsOf(m[a + i])
<1> DEFINE pos(i) == IF big THEN N - 1 - i ELSE i
<1>1. N \in Nat /\ \A i \in 0 .. (N - 1) : pos(i) \in 0 .. (N - 1)
  BY WordSize
<1>2. \A x : BitsOf(x) \in SUBSET (0 .. 7)
  BY DEF BitsOf
<1>3. \A k : k \in Ldr(a) <=> \E i \in 0 .. (N - 1) : \E b \in BitsOf(m[a + i]) : k = 8 * pos(i) + b
  <2> DEFINE octet(i) == {8 * pos(i) + b : b \in BitsOf(m[a + i])}
  <2>1. Ldr(a) = UNION {octet(i) : i \in 0 .. (N - 1)}
    BY DEF Ldr, ldr
  <2>. HIDE DEF octet, pos
  <2>2. \A k : k \in Ldr(a) <=> \E i \in 0 .. (N - 1) : k \in octet(i)
    BY <2>1
  <2>3. \A i, k : k \in octet(i) <=> \E b \in BitsOf(m[a + i]) : k = 8 * pos(i) + b
    BY DEF octet
  <2>. QED
    BY <2>2, <2>3
<1>4. Ldr(a) \in SUBSET XBits
  <2>1. ASSUME NEW k \in Ldr(a) PROVE k \in XBits
    <3>1. PICK i \in 0 .. (N - 1) : \E b \in BitsOf(m[a + i]) : k = 8 * pos(i) + b
      BY <1>3
    <3>2. PICK b \in BitsOf(m[a + i]) : k = 8 * pos(i) + b
      BY <3>1
    <3>. HIDE DEF pos
    <3>. QED
      BY <1>1, <1>2, <3>2, BitOfWord
  <2>. QED
    BY <2>1
<1>5. \A i, j \in 0 .. (N - 1) : pos(i) = pos(j) => i = j
  BY <1>1
<1>6. \A i \in 0 .. (N - 1) : Bits(Ldr(a), i) = LowBits(Ldr(a), pos(i))
  BY DEF Bits
<1>. HIDE DEF pos
<1>7. ASSUME NEW i \in 0 .. (N - 1), NEW b \in 0 .. 7
      PROVE  8 * pos(i) + b \in Ldr(a) <=> b \in BitsOf(m[a + i])
  <2>1. ASSUME 8 * pos(i) + b \in Ldr(a) PROVE b \in BitsOf(m[a + i])
    <3>1. PICK j \in 0 .. (N - 1) : \E d \in BitsOf(m[a + j]) : 8 * pos(i) + b = 8 * pos(j) + d
      BY <1>3, <2>1
    <3>2. PICK d \in BitsOf(m[a + j]) : 8 * pos(i) + b = 8 * pos(j) + d
      BY <3>1
    <3>3. d \in 0 .. 7 /\ pos(i) \in Int /\ pos(j) \in Int
      BY <1>1, <1>2
    <3>4. d = b /\ pos(i) = pos(j)
      BY <3>2, <3>3, SameBit
    <3>5. i = j
      BY <1>5, <3>4
    <3>. QED
      BY <3>4, <3>5
  <2>2. ASSUME b \in BitsOf(m[a + i]) PROVE 8 * pos(i) + b \in Ldr(a)
    BY <1>3, <2>2
  <2>. QED
    BY <2>1, <2>2
<1>8. \A i \in 0 .. (N - 1) : LowBits(Ldr(a), pos(i)) = BitsOf(m[a + i])
  BY <1>2, <1>7 DEF LowBits
<1>. QED
  BY <1>4, <1>6, <1>8

\* The NULs of a word: none is marked, or the first before all others.
LEMMA NulsNone ==
    ASSUME NEW X \in SUBSET XBits
    PROVE  /\ Nuls(X) = {} <=> \A i \in 0 .. (N - 1) : Bits(X, i) # {}
           /\ HasZero(X) = {} <=> \A i \in 0 .. (N - 1) : Bits(X, i) # {}
<1>1. RevBE(X) \in SUBSET XBits
      /\ \A i \in 0 .. (N - 1) : LowBits(RevBE(X), i) = Bits(X, i)
  <2>1. 0 \in 0 .. (N - 1)
    BY WordSize
  <2>. QED
    BY <2>1, BitsRevBE
<1>2. HasZero(RevBE(X)) = {} <=> \A i \in 0 .. (N - 1) : Bits(X, i) # {}
  BY <1>1, HasZeroNone
<1>3. \A Y : RevBE(Y) = {} <=> Y = {}
  BY DEF RevBE, rev
<1>4. (\A i \in 0 .. (N - 1) : LowBits(X, i) # {}) <=> \A i \in 0 .. (N - 1) : Bits(X, i) # {}
  <2>1. \A i \in 0 .. (N - 1) : N - 1 - i \in 0 .. (N - 1) /\ N - 1 - (N - 1 - i) = i
    BY WordSize
  <2>2. ASSUME \A i \in 0 .. (N - 1) : Bits(X, i) # {}, NEW i \in 0 .. (N - 1)
        PROVE  LowBits(X, i) # {}
    BY <2>1, <2>2 DEF Bits
  <2>. QED
    BY <2>1, <2>2 DEF Bits
<1>. QED
  BY <1>2, <1>3, <1>4, HasZeroNone DEF Nuls

\* The first NUL of a word is marked by its top bit.
LEMMA NulsFirst ==
    ASSUME NEW X \in SUBSET XBits, NEW f \in 0 .. (N - 1), Bits(X, f) = {},
           \A i \in 0 .. (f - 1) : Bits(X, i) # {}
    PROVE  /\ Nuls(X) \in SUBSET XBits
           /\ \A i \in 0 .. (f - 1) : Bits(Nuls(X), i) = {}
           /\ Bits(Nuls(X), f) = {7}
           /\ \A i \in 0 .. (N - 1) : Bits(Nuls(X), i) \subseteq {7}
<1>1. RevBE(X) \in SUBSET XBits
      /\ \A i \in 0 .. (N - 1) : LowBits(RevBE(X), i) = Bits(X, i)
  BY BitsRevBE
<1>2. \A i \in 0 .. (f - 1) : i \in 0 .. (N - 1)
  BY WordSize
<1> DEFINE Z == HasZero(RevBE(X))
<1>3. /\ Z \in SUBSET XBits
      /\ \A i \in 0 .. (f - 1) : LowBits(Z, i) = {}
      /\ LowBits(Z, f) = {7}
      /\ \A i \in 0 .. (N - 1) : LowBits(Z, i) \subseteq {7}
  <2>1. LowBits(RevBE(X), f) = {} /\ \A i \in 0 .. (f - 1) : LowBits(RevBE(X), i) # {}
    BY <1>1, <1>2
  <2>. QED
    BY <2>1, HasZeroFirst
<1>4. Nuls(X) = RevBE(Z)
  BY DEF Nuls
<1>. HIDE DEF Z
<1>5. Nuls(X) \in SUBSET XBits /\ \A i \in 0 .. (N - 1) : Bits(Nuls(X), i) = LowBits(Z, i)
  BY <1>3, <1>4, BitsRevBE
<1>. QED
  BY <1>2, <1>3, <1>5

-----------------------------------------------------------------------------
(* The end that strcmp and strncmp share.                                  *)

\* The first bit from the top of the syndrome is in byte f.
LEMMA MarkPlace ==
    ASSUME RegistersInv, NEW f \in 0 .. (N - 1), FirstMark(f)
    PROVE  \E t \in Bits(syndrome, f) : /\ clz(RevLE(syndrome)) = 8 * f + (7 - t) /\ t \in 0 .. 7
                                        /\ \A b \in Bits(syndrome, f) : b <= t
<1> DEFINE Z == RevLE(syndrome)
           k == (8 * N - 1) - clz(Z)
<1>1. N \in Nat /\ 4 * W = 8 * N /\ syndrome \in SUBSET XBits
  BY WordSize DEF RegistersInv
<1>2. Z \in SUBSET XBits /\ \A i \in 0 .. (N - 1) : LowBits(Z, N - 1 - i) = Bits(syndrome, i)
  BY <1>1, BitsRevLE
<1>. HIDE DEF Z
<1>3. \A i \in 0 .. (N - 1) :
        \A b : b \in Bits(syndrome, i) <=> b \in 0 .. 7 /\ 8 * (N - 1 - i) + b \in Z
  <2>1. \A i \in 0 .. (N - 1) : N - 1 - i \in Int
    BY <1>1
  <2>. QED
    BY <1>2, <2>1, LowOf
<1>4. PICK e \in Bits(syndrome, f) : TRUE
  BY DEF FirstMark
<1>5. e \in 0 .. 7 /\ 8 * (N - 1 - f) + e \in Z
  BY <1>3
<1>6. clz(Z) \in XBits /\ k \in Z /\ \A l \in Z : l <= k
  BY <1>1, <1>2, <1>5, clzIs
<1>7. PICK q \in 0 .. (N - 1), t \in 0 .. 7 : k = 8 * q + t
  BY <1>2, <1>6, BitOfWord
<1>8. q = N - 1 - f
  <2>1. 8 * (N - 1 - f) + e <= 8 * q + t
    BY <1>5, <1>6, <1>7
  <2>2. q >= N - 1 - f
    BY <1>1, <1>5, <2>1
  <2>3. N - 1 - q \in 0 .. (N - 1) /\ N - 1 - (N - 1 - q) = q
    BY <1>1
  <2>4. t \in Bits(syndrome, N - 1 - q)
    BY <1>3, <1>6, <1>7, <2>3
  <2>5. ~(N - 1 - q \in 0 .. (f - 1))
    BY <2>4 DEF FirstMark
  <2>. QED
    BY <1>1, <2>2, <2>3, <2>5
<1>9. t \in Bits(syndrome, f)
  BY <1>3, <1>6, <1>7, <1>8
<1>10. ASSUME NEW b \in Bits(syndrome, f) PROVE b <= t
  <2>1. b \in 0 .. 7 /\ 8 * (N - 1 - f) + b \in Z
    BY <1>3
  <2>2. 8 * (N - 1 - f) + b <= 8 * (N - 1 - f) + t
    BY <1>6, <1>7, <1>8, <2>1
  <2>. QED
    BY <1>1, <2>1, <2>2
<1>11. clz(Z) = 8 * f + (7 - t)
  <2>1. clz(Z) \in Int
    BY <1>1, <1>6 DEF XBits
  <2>2. (8 * N - 1) - clz(Z) = 8 * (N - 1 - f) + t
    BY <1>7, <1>8
  <2>. QED
    BY <1>1, <2>1, <2>2
<1>. QED
  BY <1>9, <1>10, <1>11 DEF Z

\* The first bit of the syndrome is in the byte of the first mark.
LEMMA MarkedByte ==
    ASSUME RegistersInv, NEW f \in 0 .. (N - 1), FirstMark(f)
    PROVE  clz(RevLE(syndrome)) \in (8 * f) .. (8 * f + 7) /\ clz(RevLE(syndrome)) \div 8 = f
<1>1. PICK t \in Bits(syndrome, f) : clz(RevLE(syndrome)) = 8 * f + (7 - t) /\ t \in 0 .. 7
  BY MarkPlace
<1>. QED
  BY <1>1

\* The bytes from there on are in the order of the words' bytes at f.
LEMMA EndOrder ==
    ASSUME RegistersInv, NEW f \in 0 .. (N - 1), FirstMark(f)
    PROVE  Sign(ByteAt(RevLE(data1), clz(RevLE(syndrome))) - ByteAt(RevLE(data2), clz(RevLE(syndrome))))
           = Sign(Octet(data1, f) - Octet(data2, f))
<1>1. PICK t \in Bits(syndrome, f) : /\ clz(RevLE(syndrome)) = 8 * f + (7 - t) /\ t \in 0 .. 7
                                     /\ \A b \in Bits(syndrome, f) : b <= t
  BY MarkPlace
<1> DEFINE R1 == RevLE(data1)
           R2 == RevLE(data2)
           g == N - 1 - f
           lo == 8 * (N - 1) - clz(RevLE(syndrome))
<1>2. /\ N \in Nat /\ g \in 0 .. (N - 1)
      /\ LowBits(R1, g) = Bits(data1, f) /\ LowBits(R2, g) = Bits(data2, f)
  BY WordSize, BitsRevLE DEF RegistersInv
<1>3. lo = (8 * g + t) - 7
  BY <1>1, <1>2
<1>4. ByteAt(R1, clz(RevLE(syndrome))) = Number(R1, lo)
      /\ ByteAt(R2, clz(RevLE(syndrome))) = Number(R2, lo)
  BY DEF ByteAt
<1>5. Octet(data1, f) = Number(Bits(data1, f), 0) /\ Octet(data2, f) = Number(Bits(data2, f), 0)
  BY DEF Octet
<1>6. \A b \in 0 .. 7 : /\ b \in Bits(data1, f) <=> 8 * g + b \in R1
                        /\ b \in Bits(data2, f) <=> 8 * g + b \in R2
  BY <1>2, LowOf
<1>. HIDE DEF R1, R2, g, lo
<1>7. CASE t = 7
  <2>1. lo = 8 * g /\ g \in Int
    BY <1>2, <1>3, <1>7
  <2>2. Number(R1, lo) = Number(LowBits(R1, g), 0) /\ Number(R2, lo) = Number(LowBits(R2, g), 0)
    BY <2>1, NumberOfLow
  <2>3. /\ ByteAt(R1, clz(RevLE(syndrome))) = Octet(data1, f)
        /\ ByteAt(R2, clz(RevLE(syndrome))) = Octet(data2, f)
    BY <1>2, <1>4, <1>5, <2>2
  <2>. QED
    BY <2>3, Zenon DEF R1, R2
<1>8. CASE t # 7
  <2>1. Bits(syndrome, f) = SymmetricDiff(Bits(data1, f), Bits(data2, f))
    <3>1. ~(7 \in Bits(syndrome, f))
      BY <1>1, <1>8
    <3>. QED
      BY <3>1 DEF FirstMark
  <2>2. \A b \in (t + 1) .. 7 : b \in Bits(data1, f) <=> b \in Bits(data2, f)
    <3>1. \A b \in (t + 1) .. 7 : ~(b <= t)
      BY <1>1
    <3>2. \A b \in (t + 1) .. 7 : ~(b \in Bits(syndrome, f))
      BY <1>1, <3>1
    <3>. QED
      BY <2>1, <3>2 DEF SymmetricDiff
  <2>3. \A b \in (t + 1) .. 7 : 0 + b \in Bits(data1, f) <=> 0 + b \in Bits(data2, f)
    <3>1. \A b \in (t + 1) .. 7 : 0 + b = b
      BY <1>1
    <3>. QED
      BY <2>2, <3>1
  <2>4. 0 + t = t /\ lo + 7 = 8 * g + t /\ 7 \in 0 .. 7
    BY <1>1, <1>2, <1>3
  <2>5. \A b \in (7 + 1) .. 7 : FALSE
    OBVIOUS
  <2>6. /\ Number(R1, lo) \in Int /\ Number(R2, lo) \in Int
        /\ Octet(data1, f) \in Int /\ Octet(data2, f) \in Int
    BY <1>5, NumberIn
  <2>7. CASE t \in Bits(data2, f) /\ ~(t \in Bits(data1, f))
    <3>1. Octet(data1, f) < Octet(data2, f)
      BY <1>1, <1>5, <2>3, <2>4, <2>7, NumberOrder
    <3>2. lo + 7 \in R2 /\ ~(lo + 7 \in R1)
      BY <1>1, <1>6, <2>4, <2>7
    <3>3. Number(R1, lo) < Number(R2, lo)
      BY <2>4, <2>5, <3>2, NumberOrder
    <3>4. Sign(Number(R1, lo) - Number(R2, lo)) = Sign(Octet(data1, f) - Octet(data2, f))
      BY <2>6, <3>1, <3>3 DEF Sign
    <3>. QED
      BY <1>4, <3>4, Zenon DEF R1, R2
  <2>8. CASE t \in Bits(data1, f) /\ ~(t \in Bits(data2, f))
    <3>1. Octet(data2, f) < Octet(data1, f)
      BY <1>1, <1>5, <2>3, <2>4, <2>8, NumberOrder
    <3>2. lo + 7 \in R1 /\ ~(lo + 7 \in R2)
      BY <1>1, <1>6, <2>4, <2>8
    <3>3. Number(R2, lo) < Number(R1, lo)
      BY <2>4, <2>5, <3>2, NumberOrder
    <3>4. Sign(Number(R1, lo) - Number(R2, lo)) = Sign(Octet(data1, f) - Octet(data2, f))
      BY <2>6, <3>1, <3>3 DEF Sign
    <3>. QED
      BY <1>4, <3>4, Zenon DEF R1, R2
  <2>. QED
    BY <1>1, <2>1, <2>7, <2>8 DEF SymmetricDiff
<1>. QED
  BY <1>7, <1>8

\* clz of no bits.
LEMMA NoMark ==
    clz(RevLE({})) = 8 * N
BY WordSize DEF clz, RevLE, rev

-----------------------------------------------------------------------------
(* Strings in memory.                                                      *)

\* The last address, which ends a granule, as do its multiples a word.
LEMMA MemoryIs ==
    ASSUME ValidStrings(call)
    PROVE  /\ call.s1 \in Nat /\ call.s2 \in Nat /\ call.n \in Nat /\ big \in BOOLEAN
           /\ \E k \in Nat : DOMAIN m = 0 .. k /\ (k + 1) % W = 0
           /\ \A a \in DOMAIN m : a \in Nat /\ m[a] \in 0 .. 255
<1>1. PICK k \in DOMAIN m : DOMAIN m = 0 .. k /\ (k + 1) % W = 0
  BY DEF ValidStrings, m
<1>2. k \in Nat
  BY <1>1
<1>. QED
  BY <1>1, <1>2 DEF ValidStrings, m, big

\* A byte is its bits.
LEMMA ByteBits ==
    ASSUME NEW x \in 0 .. 255, NEW y \in 0 .. 255
    PROVE  /\ BitsOf(x) = BitsOf(y) <=> x = y
           /\ BitsOf(x) = {} <=> x = 0
BY NumberOfBits

\* A string has a first NUL.
LEMMA NulIs ==
    ASSUME ValidStrings(call), NEW s \in {call.s1, call.s2}
    PROVE  /\ Nul(s) \in DOMAIN m /\ Nul(s) \in Nat /\ Nul(s) >= s /\ m[Nul(s)] = 0
           /\ \A b \in s .. (Nul(s) - 1) : m[b] # 0
<1>1. PICK k \in Nat : DOMAIN m = 0 .. k
  BY MemoryIs
<1>2. s \in Nat
  BY MemoryIs
<1> DEFINE T == {a \in DOMAIN m : a >= s /\ m[a] = 0}
<1>3. T \subseteq Nat /\ T # {}
  BY <1>1 DEF ValidStrings, m
<1>4. PICK a \in T : \A b \in T : a <= b
  BY <1>3, LeastOf
<1>5. \A b \in s .. (a - 1) : m[b] # 0
  <2>1. \A b \in s .. (a - 1) : b \in DOMAIN m /\ b >= s /\ ~(a <= b)
    BY <1>1, <1>2, <1>4
  <2>. QED
    BY <1>4, <2>1
<1>6. \E x \in DOMAIN m : x >= s /\ m[x] = 0 /\ \A b \in s .. (x - 1) : m[b] # 0
  BY <1>4, <1>5
<1>7. Nul(s) \in DOMAIN m /\ Nul(s) >= s /\ m[Nul(s)] = 0 /\ \A b \in s .. (Nul(s) - 1) : m[b] # 0
  BY <1>6 DEF Nul
<1>. QED
  BY <1>1, <1>7

\* If the first k bytes are the same, the byte after them is in both strings.
LEMMA AlikeReaches ==
    ASSUME ValidStrings(call), NEW k \in Nat, Alike(k)
    PROVE  /\ call.s1 + k <= Nul(call.s1) /\ call.s2 + k <= Nul(call.s2)
           /\ call.s1 + k \in DOMAIN m /\ call.s2 + k \in DOMAIN m
           /\ \A i \in 0 .. k : call.s1 + i \in DOMAIN m /\ call.s2 + i \in DOMAIN m
           /\ k \in DOMAIN m
<1>1. PICK l \in Nat : DOMAIN m = 0 .. l
  BY MemoryIs
<1>2. call.s1 \in Nat /\ call.s2 \in Nat
  BY MemoryIs
<1>3. \A i \in 0 .. (k - 1) : m[call.s1 + i] # 0 /\ m[call.s2 + i] # 0
  BY DEF Alike, SameAt, EndsAt
<1>4. ASSUME NEW s \in {call.s1, call.s2}, \A i \in 0 .. (k - 1) : m[s + i] # 0
      PROVE  s + k <= Nul(s) /\ s + k \in DOMAIN m
  <2>1. Nul(s) \in Nat /\ Nul(s) >= s /\ m[Nul(s)] = 0 /\ Nul(s) \in DOMAIN m /\ s \in Nat
    BY <1>2, NulIs
  <2>2. ASSUME Nul(s) < s + k
        PROVE  FALSE
    <3>1. Nul(s) - s \in 0 .. (k - 1) /\ s + (Nul(s) - s) = Nul(s)
      BY <2>1, <2>2
    <3>. QED
      BY <1>4, <2>1, <3>1
  <2>. QED
    BY <1>1, <2>1, <2>2
<1>5. call.s1 + k <= Nul(call.s1) /\ call.s2 + k <= Nul(call.s2)
  BY <1>3, <1>4
<1>6. call.s1 + k \in DOMAIN m /\ call.s2 + k \in DOMAIN m
  BY <1>3, <1>4
<1>. QED
  BY <1>1, <1>2, <1>5, <1>6

\* There is a byte that decides, and it is the first.
LEMMA DecisionExists ==
    ASSUME ValidStrings(call)
    PROVE  \E k \in Nat : Alike(k) /\ Decides(k)
<1> DEFINE T == {i \in Nat : Decides(i)}
           e == Nul(call.s1) - call.s1
<1>1. e \in Nat /\ call.s1 + e = Nul(call.s1) /\ m[Nul(call.s1)] = 0
  BY NulIs, MemoryIs
<1>2. e \in T
  BY <1>1 DEF Decides, EndsAt
<1>3. PICK k \in T : \A j \in T : k <= j
  BY <1>2, LeastOf
<1>4. \A i \in 0 .. (k - 1) : i \in Nat /\ ~(k <= i)
  BY <1>3
<1>5. \A i \in 0 .. (k - 1) : ~Decides(i)
  BY <1>3, <1>4
<1>. QED
  BY <1>3, <1>5 DEF Alike, Decides

\* What has been passed over as the same ends before what decides.
LEMMA AlikeBefore ==
    ASSUME NEW k \in Int, NEW f \in Nat, Alike(k), Decides(f)
    PROVE  k <= f
<1>1. ~(f \in 0 .. (k - 1))
  BY DEF Alike, Decides
<1>. QED
  BY <1>1

LEMMA AlikeLess ==
    ASSUME NEW k \in Int, NEW j \in Int, j <= k, Alike(k)
    PROVE  Alike(j)
<1>1. \A i \in 0 .. (j - 1) : i \in 0 .. (k - 1)
  OBVIOUS
<1>. QED
  BY <1>1 DEF Alike

\* Multiples of n are n apart; those of W are multiples of N.
LEMMA Apart ==
    ASSUME NEW n \in Nat, n > 0, NEW a \in Int, NEW g \in Int, a % n = 0, g % n = 0, a < g
    PROVE  a + n <= g
<1>1. SUFFICES ASSUME g < a + n PROVE FALSE
  OBVIOUS
<1>2. PICK d \in 1 .. (n - 1) : g = a + d
  <2>1. g - a \in 1 .. (n - 1) /\ g = a + (g - a)
    BY <1>1
  <2>. QED
    BY <2>1
<1>3. PICK q \in Int : a = n * q
  <2>1. a \div n \in Int /\ a = n * (a \div n) + 0
    BY DivMod
  <2>. QED
    BY <2>1
<1>4. d \in 0 .. (n - 1) /\ g = n * q + d
  BY <1>2, <1>3
<1>5. g % n = d
  BY <1>4, DivModIs
<1>. QED
  BY <1>2, <1>5

\* What is aligned to a pair of words is aligned to a word.
LEMMA ModTwice ==
    ASSUME NEW a \in Int, a % W = 0
    PROVE  a % N = 0
<1>1. N \in Nat /\ N > 0 /\ W = 2 * N /\ W \in Nat /\ W > 0
  BY WordSize
<1> DEFINE q == a \div W
<1>2. q \in Int /\ a = W * q + (a % W)
  BY <1>1, DivMod
<1> HIDE DEF q
<1>3. 2 * q \in Int /\ a = N * (2 * q) + 0 /\ 0 \in 0 .. (N - 1)
  BY <1>1, <1>2
<1>. QED
  BY <1>1, <1>3, DivModIs

\* The start of a chunk.
LEMMA StartIs ==
    ASSUME NEW n \in Nat, n > 0, NEW x \in Nat
    PROVE  /\ x - (x % n) \in Nat /\ (x - (x % n)) % n = 0 /\ x % n \in 0 .. (n - 1)
           /\ x - (x % n) <= x /\ x < (x - (x % n)) + n
           /\ (x + n) - (x % n) = (x - (x % n)) + n /\ ((x - (x % n)) + n) % n = 0
<1>0. x \in Int
  OBVIOUS
<1>1. x % n \in 0 .. (n - 1) /\ (x - (x % n)) % n = 0
  BY <1>0, DivMod, ModOfAligned
<1>3. x - (x % n) >= 0
  <2>1. ASSUME x - (x % n) < 0 PROVE FALSE
    <3>1. x \in 0 .. (n - 1)
      BY <1>1, <2>1
    <3>2. x % n = x
      BY <3>1, ModSmall
    <3>. QED
      BY <2>1, <3>2
  <2>. QED
    BY <1>1, <2>1
<1>4. x - (x % n) \in Int
  BY <1>1
<1>5. ((x - (x % n)) + n) % n = 0
  BY <1>1, <1>4, ModPlus
<1>. QED
  BY <1>1, <1>3, <1>5

\* The granule of a byte holds the aligned chunk, of half a granule or one, that the
\* byte is in.
LEMMA ChunkHeld ==
    ASSUME NEW n \in {N, W}, NEW a \in Int, a % n = 0,
           NEW x \in Nat, a <= x, x < a + n
    PROVE  /\ x - (x % W) <= a /\ a + n <= (x - (x % W)) + W
           /\ a \in Nat
<1>1. N \in Nat /\ N > 0 /\ W = 2 * N /\ W \in Nat /\ W > 0 /\ n \in Nat /\ n > 0
  BY WordSize
<1>2. PICK g \in Nat : g = x - (x % W) /\ g % W = 0 /\ g <= x /\ x < g + W /\ (g + W) % W = 0
  BY <1>1, StartIs
<1>3. g \in Int /\ g + W \in Int
  BY <1>1, <1>2
<1>4. g % n = 0 /\ (g + W) % n = 0
  BY <1>2, <1>3, ModTwice
<1>5. g <= a
  <2>1. ASSUME a < g PROVE FALSE
    <3>1. a + n <= g
      BY <1>1, <1>3, <1>4, <2>1, Apart
    <3>. QED
      BY <1>1, <1>2, <3>1
  <2>. QED
    BY <2>1
<1>6. a + n <= g + W
  <2>1. a < g + W
    BY <1>1, <1>2
  <2>. QED
    BY <1>1, <1>3, <1>4, <2>1, Apart
<1>. QED
  BY <1>2, <1>5, <1>6

\* Granules are in the order of the bytes they hold.
LEMMA GranuleOrder ==
    ASSUME NEW lo \in Nat, NEW x \in Nat, lo <= x
    PROVE  lo - (lo % W) <= x - (x % W) /\ lo - (lo % W) \in Nat
<1>1. W \in Nat /\ W > 0
  BY WordSize
<1>2. PICK g \in Nat : g = lo - (lo % W) /\ g % W = 0 /\ g <= lo
  BY <1>1, StartIs
<1>3. g \in Int /\ g <= x
  BY <1>2
<1>4. g <= x - (x % W)
  BY <1>1, <1>2, <1>3, Chunks
<1>. QED
  BY <1>2, <1>4

\* An aligned chunk that reaches a byte of an argument is within its granules, as is a byte.
LEMMA ChunkIn ==
    ASSUME NEW n \in {N, W}, NEW a \in Int, a % n = 0,
           NEW lo \in Nat, NEW x \in Nat, NEW hi \in Nat, lo <= x, x <= hi, a <= x, x < a + n
    PROVE  Chunk(a, n) \subseteq Granules(lo, hi)
<1>1. /\ x - (x % W) <= a /\ a + n <= (x - (x % W)) + W
  BY ChunkHeld
<1>2. lo - (lo % W) <= x - (x % W) /\ x - (x % W) <= hi - (hi % W)
  BY GranuleOrder
<1>3. lo % W \in Int /\ x % W \in Int /\ hi % W \in Int /\ n \in Nat /\ W \in Nat
  BY WordSize, DivMod
<1>. QED
  BY <1>1, <1>2, <1>3 DEF Chunk, Granules

\* And bytes that are between two of them.
LEMMA BytesIn ==
    ASSUME NEW lo \in Nat, NEW x \in Nat, NEW hi \in Nat, lo <= x, x <= hi
    PROVE  x \in Granules(lo, hi)
<1>1. lo % W \in 0 .. (W - 1) /\ hi % W \in 0 .. (W - 1) /\ W \in Nat
  BY WordSize, DivMod
<1>. QED
  BY <1>1 DEF Granules

\* And it is in memory.
LEMMA ChunkInMemory ==
    ASSUME ValidStrings(call), NEW n \in {N, W}, NEW a \in Int, a % n = 0,
           NEW x \in DOMAIN m, a <= x, x < a + n
    PROVE  Chunk(a, n) \subseteq DOMAIN m
<1>1. PICK k \in Nat : DOMAIN m = 0 .. k /\ (k + 1) % W = 0
  BY MemoryIs
<1>2. x \in Nat /\ x - (x % W) <= a /\ a + n <= (x - (x % W)) + W /\ a \in Nat
  BY <1>1, ChunkHeld
<1>3. W \in Nat /\ W > 0 /\ n \in Nat
  BY WordSize
<1>4. PICK g \in Nat : g = x - (x % W) /\ g % W = 0 /\ g <= x
  BY <1>2, <1>3, StartIs
<1>5. g + W <= k + 1
  <2>1. g < k + 1 /\ g \in Int /\ k + 1 \in Int
    BY <1>1, <1>4
  <2>. QED
    BY <1>1, <1>3, <1>4, <2>1, Apart
<1>6. a + n <= k + 1
  BY <1>1, <1>2, <1>3, <1>4, <1>5
<1>. QED
  BY <1>1, <1>2, <1>3, <1>6 DEF Chunk

-----------------------------------------------------------------------------
(* The first mark.                                                         *)

\* FirstMark and RegistersInv, of any registers.
FirstMarkOf(Y, D1, D2, f) ==
    /\ \A i \in 0 .. (f - 1) : Bits(Y, i) = {}
    /\ Bits(Y, f) # {}
    /\ \/ 7 \in Bits(Y, f)
       \/ Bits(Y, f) = SymmetricDiff(Bits(D1, f), Bits(D2, f))

\* The marks Z are of the NULs of the bytes of D, the first of them and none before it.
MarksNuls(Z, D) ==
    \A f \in 0 .. (N - 1) :
       (\A i \in 0 .. (f - 1) : Bits(D, i) # {})
          => Bits(Z, f) = IF Bits(D, f) = {} THEN {7} ELSE {}

\* The first byte of a word that is a NUL.
LEMMA FirstNul ==
    ASSUME NEW X, \E i \in 0 .. (N - 1) : Bits(X, i) = {}
    PROVE  \E g \in 0 .. (N - 1) : Bits(X, g) = {} /\ \A i \in 0 .. (g - 1) : Bits(X, i) # {}
<1> DEFINE T == {i \in 0 .. (N - 1) : Bits(X, i) = {}}
<1>0. T # {}
  OBVIOUS
<1>1. T \subseteq Nat /\ N \in Nat
  BY WordSize
<1>2. PICK g \in T : \A i \in T : g <= i
  BY <1>0, <1>1, LeastOf
<1>3. g \in 0 .. (N - 1) /\ Bits(X, g) = {}
  OBVIOUS
<1>4. \A i \in 0 .. (g - 1) : i \in 0 .. (N - 1) /\ ~(g <= i)
  BY <1>1, <1>3
<1>. QED
  BY <1>2, <1>3, <1>4

\* Nuls marks the NULs of a word.
LEMMA NulsMark ==
    ASSUME NEW X \in SUBSET XBits
    PROVE  MarksNuls(Nuls(X), X) /\ Nuls(X) \in SUBSET XBits
<1>1. CASE \A i \in 0 .. (N - 1) : Bits(X, i) # {}
  <2>1. Nuls(X) = {}
    BY <1>1, NulsNone
  <2>. QED
    BY <1>1, <2>1, BitsOps DEF MarksNuls
<1>2. CASE ~(\A i \in 0 .. (N - 1) : Bits(X, i) # {})
  <2>1. PICK g \in 0 .. (N - 1) : Bits(X, g) = {} /\ \A i \in 0 .. (g - 1) : Bits(X, i) # {}
    BY <1>2, FirstNul
  <2>2. /\ Nuls(X) \in SUBSET XBits
        /\ \A i \in 0 .. (g - 1) : Bits(Nuls(X), i) = {}
        /\ Bits(Nuls(X), g) = {7}
    BY <2>1, NulsFirst
  <2>3. ASSUME NEW f \in 0 .. (N - 1), \A i \in 0 .. (f - 1) : Bits(X, i) # {}
        PROVE  Bits(Nuls(X), f) = IF Bits(X, f) = {} THEN {7} ELSE {}
    <3>1. ~(g \in 0 .. (f - 1))
      BY <2>1, <2>3
    <3>2. f = g \/ f \in 0 .. (g - 1)
      BY <3>1, WordSize
    <3>. QED
      BY <2>1, <2>2, <3>2
  <2>. QED
    BY <2>2, <2>3 DEF MarksNuls
<1>. QED
  BY <1>1, <1>2

\* Of the words D1 and D2 the bytes lo .. (hi - 1) are compared, those of the strings from
\* base on or, before the strings, ones; up to the first that decides the marks are those
\* of the NULs.
Holds(D1, D2, base, i) ==
    IF base + i < 0 THEN Bits(D1, i) = AllOnes /\ Bits(D2, i) = AllOnes
    ELSE /\ call.s1 + (base + i) \in DOMAIN m /\ call.s2 + (base + i) \in DOMAIN m
         /\ Bits(D1, i) = BitsOf(m[call.s1 + (base + i)])
         /\ Bits(D2, i) = BitsOf(m[call.s2 + (base + i)])

Clear(D1, D2, i) == Bits(D1, i) = Bits(D2, i) /\ Bits(D1, i) # {}

\* Bytes lo .. (hi - 1) of the words can be compared with the help of the marks Z.
Comparable(D1, D2, Z, base, lo, hi) ==
    /\ \A i \in lo .. (hi - 1) : Holds(D1, D2, base, i)
    /\ \A f \in lo .. (hi - 1) :
          (\A i \in lo .. (f - 1) : Clear(D1, D2, i))
             => /\ Bits(Z, f) \subseteq {7}
                /\ Bits(D1, f) = Bits(D2, f) => Bits(Z, f) = IF Bits(D1, f) = {} THEN {7} ELSE {}
    /\ Alike(base + lo)

\* None decides; or byte f does, and has the first mark in Y.
NoneDecides(D1, D2, Y, base, lo, hi) == /\ \A i \in lo .. (hi - 1) : Clear(D1, D2, i)
                                        /\ \A i \in 0 .. (hi - 1) : Bits(Y, i) = {}
                                        /\ Alike(base + hi)
OneDecides(D1, D2, Y, base, lo, f) ==
    /\ ~Clear(D1, D2, f) /\ \A i \in lo .. (f - 1) : Clear(D1, D2, i)
    /\ base + f \in Nat /\ Alike(base + f) /\ Decides(base + f)
    /\ FirstMarkOf(Y, D1, D2, f)
    /\ Octet(D1, f) - Octet(D2, f) = m[call.s1 + (base + f)] - m[call.s2 + (base + f)]

\* A byte that is clear decides nothing.
LEMMA ClearIs ==
    ASSUME ValidStrings(call), NEW D1, NEW D2, NEW base \in Int, NEW i \in 0 .. (N - 1),
           Holds(D1, D2, base, i)
    PROVE  /\ Clear(D1, D2, i) <=> (base + i < 0 \/ ~Decides(base + i))
           /\ base + i >= 0
                => Octet(D1, i) = m[call.s1 + (base + i)] /\ Octet(D2, i) = m[call.s2 + (base + i)]
<1>1. CASE base + i < 0
  <2>1. Bits(D1, i) = AllOnes /\ Bits(D2, i) = AllOnes
    BY <1>1 DEF Holds
  <2>2. 0 \in AllOnes
    BY DEF AllOnes
  <2>3. Clear(D1, D2, i)
    BY <2>1, <2>2 DEF Clear
  <2>4. ~(base + i >= 0)
    BY <1>1, WordSize
  <2>. QED
    BY <1>1, <2>3, <2>4
<1>2. CASE ~(base + i < 0)
  <2>. DEFINE x == m[call.s1 + (base + i)]
              y == m[call.s2 + (base + i)]
  <2>1. x \in 0 .. 255 /\ y \in 0 .. 255
    BY <1>2, MemoryIs DEF Holds
  <2>2. Bits(D1, i) = BitsOf(x) /\ Bits(D2, i) = BitsOf(y)
    BY <1>2 DEF Holds
  <2>3. Decides(base + i) <=> (x # y \/ x = 0)
    BY DEF Decides, SameAt, EndsAt
  <2>. HIDE DEF x, y
  <2>4. (BitsOf(x) = BitsOf(y) <=> x = y) /\ (BitsOf(x) = {} <=> x = 0)
    BY <2>1, ByteBits
  <2>5. Number(BitsOf(x), 0) = x /\ Number(BitsOf(y), 0) = y
    BY <2>1, NumberOfBits
  <2>6. Octet(D1, i) = x /\ Octet(D2, i) = y
    BY <2>2, <2>5 DEF Octet
  <2>7. Clear(D1, D2, i) <=> ~Decides(base + i)
    BY <2>2, <2>3, <2>4 DEF Clear
  <2>. QED
    BY <1>2, <2>6, <2>7 DEF x, y
<1>. QED
  BY <1>1, <1>2

\* A syndrome of words whose bytes lo .. (hi - 1) are compared has its first mark at the
\* first byte that decides, or none.
LEMMA ComparedUpTo ==
    ASSUME ValidStrings(call), NEW base \in Int, NEW lo \in 0 .. N, NEW hi \in lo .. N,
           NEW D1, NEW D2, NEW Z, NEW Y,
           \A i \in 0 .. (hi - 1) : Bits(Y, i) = IF lo <= i
                                                 THEN SymmetricDiff(Bits(D1, i), Bits(D2, i)) \cup Bits(Z, i)
                                                 ELSE {},
           Comparable(D1, D2, Z, base, lo, hi)
    PROVE  \/ NoneDecides(D1, D2, Y, base, lo, hi)
           \/ \E f \in lo .. (hi - 1) : OneDecides(D1, D2, Y, base, lo, f)
<1> DEFINE T == {i \in lo .. (hi - 1) : ~Clear(D1, D2, i)}
<1>1. N \in Nat /\ lo \in Nat /\ hi \in Nat /\ lo <= hi /\ hi <= N
  BY WordSize
<1>2. \A i \in lo .. (hi - 1) : i \in 0 .. (N - 1) /\ lo <= i /\ i < hi /\ base + i \in Int
  BY <1>1
<1>6. /\ \A i \in lo .. (hi - 1) : Holds(D1, D2, base, i)
      /\ Alike(base + lo)
  BY DEF Comparable
<1>3. ASSUME NEW f \in lo .. hi, \A i \in lo .. (f - 1) : Clear(D1, D2, i)
      PROVE  Alike(base + f) /\ \A i \in 0 .. (f - 1) : i \in 0 .. (N - 1) => Bits(Y, i) = {}
  <2>1. ASSUME NEW i \in lo .. (f - 1)
        PROVE  /\ i \in lo .. (hi - 1) /\ Clear(D1, D2, i)
               /\ base + i < 0 \/ ~Decides(base + i)
               /\ Bits(Y, i) = {}
    <3>1. i \in lo .. (hi - 1) /\ Clear(D1, D2, i)
      BY <1>1, <1>3, <2>1
    <3>2. i \in 0 .. (N - 1) /\ lo <= i /\ i < hi
      BY <1>2, <3>1
    <3>3. base + i < 0 \/ ~Decides(base + i)
      BY <1>6, <3>1, <3>2, ClearIs
    <3>4. \A j \in lo .. (i - 1) : Clear(D1, D2, j)
      <4>1. \A j \in lo .. (i - 1) : j \in lo .. (f - 1)
        BY <1>1, <2>1
      <4>. QED
        BY <1>3, <4>1
    <3>5. Bits(D1, i) = Bits(D2, i) /\ Bits(D1, i) # {}
      BY <3>1 DEF Clear
    <3>6. Bits(Z, i) = {}
      BY <3>1, <3>4, <3>5 DEF Comparable
    <3>7. SymmetricDiff(Bits(D1, i), Bits(D2, i)) = {}
      BY <3>5 DEF SymmetricDiff
    <3>8. Bits(Y, i) = SymmetricDiff(Bits(D1, i), Bits(D2, i)) \cup Bits(Z, i)
      BY <1>1, <3>2
    <3>. QED
      BY <3>1, <3>3, <3>6, <3>7, <3>8
  <2>2. ASSUME NEW j \in 0 .. ((base + f) - 1)
        PROVE  ~Decides(j)
    <3>1. CASE j < base + lo
      <4>1. j \in 0 .. ((base + lo) - 1)
        BY <1>1, <2>2, <3>1
      <4>. QED
        BY <1>6, <4>1 DEF Alike, Decides
    <3>2. CASE ~(j < base + lo)
      <4>1. j - base \in lo .. (f - 1) /\ base + (j - base) = j /\ ~(j < 0)
        BY <1>1, <2>2, <3>2
      <4>. QED
        BY <2>1, <4>1
    <3>. QED
      BY <3>1, <3>2
  <2>3. Alike(base + f)
    BY <2>2 DEF Alike, Decides
  <2>4. ASSUME NEW i \in 0 .. (f - 1), i \in 0 .. (N - 1)
        PROVE  Bits(Y, i) = {}
    <3>1. CASE lo <= i
      <4>1. i \in lo .. (f - 1)
        BY <1>1, <2>4, <3>1
      <4>. QED
        BY <2>1, <4>1
    <3>2. CASE ~(lo <= i)
      <4>1. i \in 0 .. (hi - 1)
        BY <1>1, <2>4, <3>2
      <4>. QED
        BY <3>2, <4>1
    <3>. QED
      BY <3>1, <3>2
  <2>. QED
    BY <2>3, <2>4
<1>4. CASE T = {}
  <2>1. hi \in lo .. hi /\ \A i \in lo .. (hi - 1) : Clear(D1, D2, i)
    BY <1>1, <1>4
  <2>2. Alike(base + hi) /\ \A i \in 0 .. (hi - 1) : i \in 0 .. (N - 1) => Bits(Y, i) = {}
    BY <1>3, <2>1
  <2>3. \A i \in 0 .. (hi - 1) : i \in 0 .. (N - 1)
    BY <1>1
  <2>. QED
    BY <2>1, <2>2, <2>3 DEF NoneDecides
<1>5. CASE T # {}
  <2>1. T \subseteq Nat
    BY <1>1
  <2>2. PICK f \in T : \A j \in T : f <= j
    BY <1>5, <2>1, LeastOf
  <2>3. f \in lo .. (hi - 1) /\ ~Clear(D1, D2, f) /\ f \in lo .. hi /\ f \in 0 .. (N - 1) /\ lo <= f
        /\ f < hi
    <3>1. f \in lo .. (hi - 1) /\ ~Clear(D1, D2, f)
      OBVIOUS
    <3>. QED
      BY <1>1, <3>1
  <2>4. \A i \in lo .. (f - 1) : Clear(D1, D2, i)
    <3>1. \A i \in lo .. (f - 1) : i \in lo .. (hi - 1) /\ ~(f <= i)
      BY <1>1, <2>3
    <3>. QED
      BY <2>2, <3>1
  <2>5. Alike(base + f) /\ \A i \in 0 .. (f - 1) : Bits(Y, i) = {}
    <3>1. \A i \in 0 .. (f - 1) : i \in 0 .. (N - 1)
      BY <1>1, <2>3
    <3>. QED
      BY <1>3, <2>3, <2>4, <3>1
  <2>6. ~(base + f < 0) /\ Decides(base + f)
    BY <1>6, <2>3, ClearIs
  <2>7. base + f \in Nat /\ base + f >= 0
    BY <1>1, <2>3, <2>6
  <2>8. Octet(D1, f) = m[call.s1 + (base + f)] /\ Octet(D2, f) = m[call.s2 + (base + f)]
    BY <1>6, <2>3, <2>7, ClearIs
  <2>9. Bits(Y, f) = SymmetricDiff(Bits(D1, f), Bits(D2, f)) \cup Bits(Z, f)
    BY <1>1, <2>3
  <2>10. /\ Bits(Z, f) \subseteq {7}
         /\ Bits(D1, f) = Bits(D2, f) => Bits(Z, f) = IF Bits(D1, f) = {} THEN {7} ELSE {}
    BY <2>3, <2>4 DEF Comparable
  <2>11. Bits(D1, f) # Bits(D2, f) \/ Bits(D1, f) = {}
    BY <2>3 DEF Clear
  <2>12. FirstMarkOf(Y, D1, D2, f)
    <3>1. CASE 7 \in Bits(Z, f)
      BY <2>5, <2>9, <3>1 DEF FirstMarkOf
    <3>2. CASE ~(7 \in Bits(Z, f))
      <4>1. Bits(Z, f) = {}
        BY <2>10, <3>2
      <4>2. Bits(D1, f) # Bits(D2, f)
        BY <2>10, <2>11, <3>2
      <4>3. SymmetricDiff(Bits(D1, f), Bits(D2, f)) # {}
        BY <4>2 DEF SymmetricDiff
      <4>. QED
        BY <2>5, <2>9, <4>1, <4>3 DEF FirstMarkOf
    <3>. QED
      BY <3>1, <3>2
  <2>13. Octet(D1, f) - Octet(D2, f) = m[call.s1 + (base + f)] - m[call.s2 + (base + f)]
    BY <2>8
  <2>. QED
    BY <2>3, <2>4, <2>5, <2>6, <2>7, <2>12, <2>13 DEF OneDecides
<1>. QED
  BY <1>4, <1>5

\* If there are no others the syndrome is empty if nothing decides.
LEMMA Compared ==
    ASSUME ValidStrings(call), NEW base \in Int, NEW lo \in 0 .. N, NEW hi \in lo .. N,
           NEW D1, NEW D2, NEW Z, NEW Y \in SUBSET XBits,
           \A i \in 0 .. (N - 1) : Bits(Y, i) = IF lo <= i /\ i < hi
                                                THEN SymmetricDiff(Bits(D1, i), Bits(D2, i)) \cup Bits(Z, i)
                                                ELSE {},
           Comparable(D1, D2, Z, base, lo, hi)
    PROVE  /\ Y = {} => NoneDecides(D1, D2, Y, base, lo, hi)
           /\ Y # {} => \E f \in lo .. (hi - 1) : OneDecides(D1, D2, Y, base, lo, f)
<1>1. N \in Nat /\ lo \in Nat /\ hi \in Nat /\ lo <= hi /\ hi <= N
  BY WordSize
<1>2. \A i \in 0 .. (hi - 1) : Bits(Y, i) = IF lo <= i
                                            THEN SymmetricDiff(Bits(D1, i), Bits(D2, i)) \cup Bits(Z, i)
                                            ELSE {}
  <2>1. \A i \in 0 .. (hi - 1) : i \in 0 .. (N - 1) /\ i < hi
    BY <1>1
  <2>. QED
    BY <2>1
<1>3. \/ NoneDecides(D1, D2, Y, base, lo, hi)
      \/ \E f \in lo .. (hi - 1) : OneDecides(D1, D2, Y, base, lo, f)
  BY <1>2, ComparedUpTo
<1>4. CASE \A i \in 0 .. (hi - 1) : Bits(Y, i) = {}
  <2>1. ASSUME NEW i \in 0 .. (N - 1) PROVE Bits(Y, i) = {}
    <3>1. CASE i < hi
      <4>1. i \in 0 .. (hi - 1)
        BY <1>1, <2>1, <3>1
      <4>. QED
        BY <1>4, <4>1
    <3>. QED
      BY <2>1, <3>1
  <2>2. \A i \in 0 .. (N - 1) : Bits(Y, i) = Bits({}, i)
    BY <2>1, BitsOps
  <2>3. Y = {}
    <3>1. {} \in SUBSET XBits
      OBVIOUS
    <3>. QED
      BY <2>2, <3>1, SameBits
  <2>4. ~(\E f \in lo .. (hi - 1) : OneDecides(D1, D2, Y, base, lo, f))
    <3>1. \A f \in lo .. (hi - 1) : f \in 0 .. (hi - 1)
      BY <1>1
    <3>. QED
      BY <1>4, <3>1 DEF OneDecides, FirstMarkOf
  <2>. QED
    BY <1>3, <2>3, <2>4
<1>5. CASE ~(\A i \in 0 .. (hi - 1) : Bits(Y, i) = {})
  <2>1. PICK i \in 0 .. (hi - 1) : Bits(Y, i) # {}
    BY <1>5
  <2>2. i \in 0 .. (N - 1)
    BY <1>1, <2>1
  <2>3. Y # {}
    BY <2>1, <2>2, BitsOps
  <2>4. ~NoneDecides(D1, D2, Y, base, lo, hi)
    BY <1>5 DEF NoneDecides
  <2>. QED
    BY <1>3, <2>3, <2>4
<1>. QED
  BY <1>4, <1>5

\* It is so if the marks are of the NULs of one of the words.
LEMMA MarksDo ==
    ASSUME NEW lo \in 0 .. N, NEW hi \in lo .. N, NEW D1, NEW D2, NEW Z,
           \/ MarksNuls(Z, D1) /\ \A i \in 0 .. (lo - 1) : Bits(D1, i) # {}
           \/ MarksNuls(Z, D2) /\ \A i \in 0 .. (lo - 1) : Bits(D2, i) # {},
           NEW base, Alike(base + lo),
           \A i \in lo .. (hi - 1) : Holds(D1, D2, base, i)
    PROVE  Comparable(D1, D2, Z, base, lo, hi)
<1>. SUFFICES ASSUME NEW f \in lo .. (hi - 1), \A i \in lo .. (f - 1) : Clear(D1, D2, i)
              PROVE  /\ Bits(Z, f) \subseteq {7}
                     /\ Bits(D1, f) = Bits(D2, f)
                          => Bits(Z, f) = IF Bits(D1, f) = {} THEN {7} ELSE {}
  BY DEF Comparable
<1>1. N \in Nat /\ lo \in Nat /\ hi \in Nat /\ f \in 0 .. (N - 1)
  BY WordSize
<1>2. \A i \in 0 .. (f - 1) : i \in 0 .. (lo - 1) \/ (Bits(D1, i) # {} /\ Bits(D2, i) # {})
  <2>1. \A i \in 0 .. (f - 1) : i \in 0 .. (lo - 1) \/ i \in lo .. (f - 1)
    BY <1>1
  <2>. QED
    BY <2>1 DEF Clear
<1>3. CASE MarksNuls(Z, D1) /\ \A i \in 0 .. (lo - 1) : Bits(D1, i) # {}
  <2>1. \A i \in 0 .. (f - 1) : Bits(D1, i) # {}
    BY <1>2, <1>3
  <2>. QED
    BY <1>1, <1>3, <2>1 DEF MarksNuls
<1>4. CASE MarksNuls(Z, D2) /\ \A i \in 0 .. (lo - 1) : Bits(D2, i) # {}
  <2>1. \A i \in 0 .. (f - 1) : Bits(D2, i) # {}
    BY <1>2, <1>4
  <2>. QED
    BY <1>1, <1>4, <2>1 DEF MarksNuls
<1>. QED
  BY <1>3, <1>4

-----------------------------------------------------------------------------
(* Shift amounts.                                                          *)

\* Bits and bytes modulo the size of a word.
LEMMA EightMod ==
    ASSUME NEW a \in Int
    PROVE  (8 * a) % (8 * N) = 8 * (a % N) /\ a % N \in 0 .. (N - 1)
<1>1. N \in Nat /\ N > 0
  BY WordSize
<1> DEFINE q == a \div N
           r == a % N
<1>2. q \in Int /\ r \in 0 .. (N - 1) /\ a = N * q + r
  BY <1>1, DivMod
<1> HIDE DEF q, r
<1>3. 8 * N \in Nat /\ 8 * r \in 0 .. (8 * N - 1) /\ 8 * a \in Int
  BY <1>1, <1>2
<1>4. 8 * a = (8 * N) * q + 8 * r
  BY <1>1, <1>2
<1>5. (8 * a) % (8 * N) = 8 * r
  BY <1>2, <1>3, <1>4, DivModIs
<1>. QED
  BY <1>2, <1>5 DEF r

\* How far it is to the next multiple.
LEMMA NegMod ==
    ASSUME NEW a \in Int
    PROVE  (-a) % N = IF a % N = 0 THEN 0 ELSE N - (a % N)
<1>1. N \in Nat /\ N > 0
  BY WordSize
<1> DEFINE q == a \div N
           r == a % N
<1>2. q \in Int /\ r \in 0 .. (N - 1) /\ a = N * q + r
  BY <1>1, DivMod
<1> HIDE DEF q, r
<1>3. CASE r = 0
  <2>1. -a = N * (-q) + 0 /\ -q \in Int /\ -a \in Int /\ 0 \in 0 .. (N - 1)
    BY <1>1, <1>2, <1>3
  <2>2. (-a) % N = 0
    BY <1>1, <2>1, DivModIs
  <2>. QED
    BY <1>3, <2>2 DEF r
<1>4. CASE r # 0
  <2>1. -a = N * (-q - 1) + (N - r) /\ -q - 1 \in Int /\ -a \in Int /\ N - r \in 0 .. (N - 1)
    BY <1>1, <1>2, <1>4
  <2>2. (-a) % N = N - r
    BY <1>1, <2>1, DivModIs
  <2>. QED
    BY <1>4, <2>2 DEF r
<1>. QED
  BY <1>3, <1>4

\* Adding what is aligned changes no offset.
LEMMA ModAdd ==
    ASSUME NEW a \in Int, NEW b \in Int, a % N = 0
    PROVE  (a + b) % N = b % N /\ (b + a) % N = b % N /\ (b - a) % N = b % N
<1>1. N \in Nat /\ N > 0
  BY WordSize
<1> DEFINE p == a \div N
           q == b \div N
           r == b % N
<1>2. p \in Int /\ a = N * p + (a % N) /\ q \in Int /\ r \in 0 .. (N - 1) /\ b = N * q + r
  BY <1>1, DivMod
<1> DEFINE s == p + q
           d == q - p
<1>3. s \in Int /\ d \in Int /\ a + b \in Int /\ b + a \in Int /\ b - a \in Int
  BY <1>2
<1> HIDE DEF p, q, r
<1>4. a + b = N * s + r /\ b + a = N * s + r /\ b - a = N * d + r
  BY <1>1, <1>2
<1> HIDE DEF s, d
<1>5. (a + b) % N = r
  BY <1>1, <1>2, <1>3, <1>4, DivModIs
<1>6. (b + a) % N = r
  BY <1>1, <1>2, <1>3, <1>4, DivModIs
<1>7. (b - a) % N = r
  BY <1>1, <1>2, <1>3, <1>4, DivModIs
<1>. QED
  BY <1>5, <1>6, <1>7 DEF r

-----------------------------------------------------------------------------
(* strcmp                                                                  *)

\* The instance's operators.
LEMMA StrcmpSimd ==
    /\ strcmp!N = N /\ strcmp!XBits = XBits /\ strcmp!AllOnes = AllOnes
    /\ strcmp!Zeroones = Zeroones
    /\ \A X, n : strcmp!lsr(X, n) = lsr(X, n) /\ strcmp!lsl(X, n) = lsl(X, n)
    /\ \A X : strcmp!rev(X) = rev(X) /\ strcmp!clz(X) = clz(X)
    /\ \A X, k : strcmp!Number(X, k) = Number(X, k)
    /\ \A X : strcmp!HasZero(X) = HasZero(X)
    /\ \A x : strcmp!BitsOf(x) = BitsOf(x)
    /\ \A A, B : strcmp!SymmetricDiff(A, B) = SymmetricDiff(A, B)
    /\ \A mem, a, b : strcmp!ldr(mem, a, b) = ldr(mem, a, b)
<1>1. strcmp!N = N
  BY DEF strcmp!N, N
<1>2. strcmp!XBits = XBits
  BY DEF strcmp!XBits, XBits
<1>3. strcmp!AllOnes = AllOnes
  BY DEF strcmp!AllOnes, AllOnes
<1>4. strcmp!Zeroones = Zeroones
  BY <1>1 DEF strcmp!Zeroones, Zeroones
<1>5. \A X, n : strcmp!lsr(X, n) = lsr(X, n)
  BY DEF strcmp!lsr, lsr
<1>6. \A X, n : strcmp!lsl(X, n) = lsl(X, n)
  BY <1>2 DEF strcmp!lsl, lsl
<1>7. \A X : strcmp!rev(X) = rev(X)
  BY <1>1 DEF strcmp!rev, rev
<1>8. \A X : strcmp!clz(X) = clz(X)
  BY DEF strcmp!clz, clz, strcmp!Max, Max
<1>9. \A X, k : strcmp!Number(X, k) = Number(X, k)
  BY DEF strcmp!Number, Number
<1>10. \A x, k : strcmp!Zeros(x, k) = Zeros(x, k)
  BY <1>1 DEF strcmp!Zeros, Zeros
<1>11. \A X : strcmp!HasZero(X) = HasZero(X)
  BY <1>1, <1>9, <1>10 DEF strcmp!HasZero, HasZero
<1>12. \A x : strcmp!BitsOf(x) = BitsOf(x)
  BY DEF strcmp!BitsOf, BitsOf
<1>13. \A A, B : strcmp!SymmetricDiff(A, B) = SymmetricDiff(A, B)
  BY DEF strcmp!SymmetricDiff, SymmetricDiff
<1>14. \A mem, a, b : strcmp!ldr(mem, a, b) = ldr(mem, a, b)
  BY <1>1, <1>12 DEF strcmp!ldr, ldr
<1>. QED
  BY <1>1, <1>2, <1>3, <1>4, <1>5, <1>6, <1>7, <1>8, <1>9, <1>11, <1>12, <1>13, <1>14

\* The definitions of Comparing, as Strcmp has them.
LEMMA StrcmpNames ==
    /\ strcmp!m = m /\ strcmp!big = big
    /\ \A a, n : strcmp!Chunk(a, n) = Chunk(a, n)
    /\ \A x : strcmp!Sign(x) = Sign(x)
    /\ \A i : strcmp!Order(i) = Order(i) /\ strcmp!SameAt(i) = SameAt(i) /\ strcmp!EndsAt(i) = EndsAt(i)
    /\ \A a : strcmp!Ldr(a) = Ldr(a)
    /\ \A X : strcmp!RevLE(X) = RevLE(X) /\ strcmp!RevBE(X) = RevBE(X) /\ strcmp!Nuls(X) = Nuls(X)
    /\ \A X, n : strcmp!LS_FW(X, n) = LS_FW(X, n)
    /\ \A X, k : strcmp!ByteAt(X, k) = ByteAt(X, k)
    /\ \A s : strcmp!Nul(s) = Nul(s)
    /\ \A a, b : strcmp!Granules(a, b) = Granules(a, b)
<1>1. strcmp!m = m /\ strcmp!big = big
  BY DEF strcmp!m, m, strcmp!big, big
<1>2. \A a, n : strcmp!Chunk(a, n) = Chunk(a, n)
  BY DEF strcmp!Chunk, Chunk
<1>3. \A x : strcmp!Sign(x) = Sign(x)
  BY DEF strcmp!Sign, Sign
<1>4. \A i : strcmp!Order(i) = Order(i)
  BY <1>1, <1>3 DEF strcmp!Order, Order
<1>5. \A i : strcmp!SameAt(i) = SameAt(i) /\ strcmp!EndsAt(i) = EndsAt(i)
  BY <1>1 DEF strcmp!SameAt, SameAt, strcmp!EndsAt, EndsAt
<1>6. \A a : strcmp!Ldr(a) = Ldr(a)
  BY <1>1, StrcmpSimd DEF strcmp!Ldr, Ldr
<1>7. \A X : strcmp!RevLE(X) = RevLE(X)
  BY <1>1, StrcmpSimd DEF strcmp!RevLE, RevLE
<1>8. \A X : strcmp!RevBE(X) = RevBE(X)
  BY <1>1, StrcmpSimd DEF strcmp!RevBE, RevBE
<1>9. \A X : strcmp!Nuls(X) = Nuls(X)
  BY <1>8, StrcmpSimd DEF strcmp!Nuls, Nuls
<1>10. \A X, n : strcmp!LS_FW(X, n) = LS_FW(X, n)
  BY <1>1, StrcmpSimd DEF strcmp!LS_FW, LS_FW
<1>11. \A X, k : strcmp!ByteAt(X, k) = ByteAt(X, k)
  BY StrcmpSimd DEF strcmp!ByteAt, ByteAt
<1>12. \A s : strcmp!Nul(s) = Nul(s)
  BY <1>1 DEF strcmp!Nul, Nul
<1>13. \A a, b : strcmp!Granules(a, b) = Granules(a, b)
  BY DEF strcmp!Granules, Granules
<1>. QED
  BY <1>1, <1>2, <1>3, <1>4, <1>5, <1>6, <1>7, <1>8, <1>9, <1>10, <1>11, <1>12, <1>13

\* And those of the invariants.
LEMMA StrcmpInvNames ==
    /\ \A c : strcmp!ValidStrings(c) = ValidStrings(c)
    /\ \A k : strcmp!Alike(k) = Alike(k)
    /\ \A X, i : strcmp!LowBits(X, i) = LowBits(X, i) /\ strcmp!Bits(X, i) = Bits(X, i)
                 /\ strcmp!Octet(X, i) = Octet(X, i)
    /\ strcmp!RegistersInv = RegistersInv
    /\ \A x : strcmp!MarksOrder(x) = MarksOrder(x)
<1>1. \A c : strcmp!ValidStrings(c) = ValidStrings(c)
  BY DEF strcmp!ValidStrings, ValidStrings
<1>2. \A k : strcmp!Alike(k) = Alike(k)
  BY StrcmpNames DEF strcmp!Alike, Alike
<1>3. \A X, i : strcmp!LowBits(X, i) = LowBits(X, i)
  BY DEF strcmp!LowBits, LowBits
<1>4. \A X, i : strcmp!Bits(X, i) = Bits(X, i)
  BY <1>3, StrcmpSimd, StrcmpNames DEF strcmp!Bits, Bits
<1>5. \A X, i : strcmp!Octet(X, i) = Octet(X, i)
  BY <1>4, StrcmpSimd DEF strcmp!Octet, Octet
<1>6. strcmp!RegistersInv = RegistersInv
  BY StrcmpSimd DEF strcmp!RegistersInv, RegistersInv
<1>7. \A f : strcmp!FirstMark(f) = FirstMark(f)
  BY <1>4, StrcmpSimd DEF strcmp!FirstMark, FirstMark
<1>8. \A x : strcmp!MarksOrder(x) = MarksOrder(x)
  BY <1>5, <1>7, StrcmpSimd, StrcmpNames DEF strcmp!MarksOrder, MarksOrder
<1>. QED
  BY <1>1, <1>2, <1>3, <1>4, <1>5, <1>6, <1>8

\* What decides.
LEMMA StrcmpStopIs ==
    ASSUME ValidStrings(call), NEW k \in Nat, Alike(k), Decides(k)
    PROVE  strcmp!Stop = k /\ strcmp!Answer = Order(k)
<1> DEFINE P(i) == Decides(i)
<1>1. DOMAIN m \subseteq Nat /\ k \in DOMAIN m
  BY MemoryIs, AlikeReaches
<1>2. P(k) /\ \A j \in 0 .. (k - 1) : ~P(j)
  BY DEF Alike, Decides
<1>3. strcmp!Stop = CHOOSE i \in DOMAIN m : P(i) /\ \A j \in 0 .. (i - 1) : ~P(j)
  BY StrcmpNames DEF strcmp!Stop, strcmp!FirstOf, Decides
<1>. HIDE DEF P
<1>4. ASSUME NEW i \in DOMAIN m, P(i), \A j \in 0 .. (i - 1) : ~P(j)
      PROVE  i = k
  <2>1. ~(i < k) /\ ~(k < i)
    BY <1>1, <1>2, <1>4
  <2>. QED
    BY <2>1, <1>1
<1>5. strcmp!Stop = k
  BY <1>1, <1>2, <1>3, <1>4
<1>. QED
  BY <1>5, StrcmpNames DEF strcmp!Answer

\* The aligned word after the place at s1 + k of the second string.
AheadOf(a) == a + ((-a) % N)

\* TailInv, of any registers and place p in the second string.
TailOf(D, H, p) ==
    /\ D \subseteq XBits /\ H = HasZero(D)
    /\ \E f \in (p % N) .. (N - 1) :
          /\ LowBits(D, f) = {} /\ \A i \in 0 .. (f - 1) : LowBits(D, i) # {}
          /\ \A i \in (p % N) .. f : LowBits(D, i) = BitsOf(m[(p - (p % N)) + i])

\* What the invariant says of the next state, when the call is the same.
LEMMA StrcmpKept ==
    ASSUME ValidStrings(call), call' = call, pc' \in strcmp!Labels,
           data1' \subseteq XBits, data2' \subseteq XBits, syndrome' \subseteq XBits,
           strcmp!PlaceInv',
           pc' \notin {"end", "ret"} => Alike(src1' - call.s1),
           pc' = "loop_unaligned" => LET p == src1' + (call.s2 - call.s1)
                                     IN  \A a \in p .. (AheadOf(p) - 1) : m[a] # 0,
           rd1' \subseteq Granules(call.s1, Nul(call.s1)),
           rd2' \subseteq Granules(call.s2, Nul(call.s2)),
           pc' = "tail" => TailOf(data3', has_nul', src1' + (call.s2 - call.s1)),
           pc' = "end" => \E f \in 0 .. (N - 1) :
                             /\ FirstMarkOf(syndrome', data1', data2', f)
                             /\ Sign(Octet(data1', f) - Octet(data2', f)) = strcmp!Answer,
           pc' = "ret" => Sign(result') = strcmp!Answer
    PROVE  strcmp!IInv'
<1>1. m' = m /\ big' = big
  BY DEF m, big
<1>2. strcmp!ValidStrings(call)'
  BY DEF ValidStrings, strcmp!ValidStrings
<1>3. strcmp!RegistersInv'
  BY StrcmpSimd DEF strcmp!RegistersInv, strcmp!XBits
<1>4. strcmp!Nul(call.s1)' = Nul(call.s1) /\ strcmp!Nul(call.s2)' = Nul(call.s2)
  BY DEF Nul, strcmp!Nul, m, strcmp!m
<1>5. strcmp!Footprint'
  BY <1>4 DEF strcmp!Footprint, strcmp!Granules, Granules
<1>6. strcmp!PassedInv'
  <2>1. ASSUME pc' \notin {"end", "ret"}
        PROVE  strcmp!Alike(src1 - call.s1)'
    BY <2>1 DEF Alike, strcmp!Alike, SameAt, strcmp!SameAt, EndsAt, strcmp!EndsAt, m, strcmp!m
  <2>2. ASSUME pc' = "loop_unaligned"
        PROVE  (\A a \in strcmp!Place2 .. (strcmp!Ahead - 1) : strcmp!m[a] # 0)'
    BY <2>2 DEF strcmp!Place2, strcmp!Ahead, AheadOf, strcmp!off2, m, strcmp!m, N, strcmp!N
  <2>. QED
    BY <2>1, <2>2 DEF strcmp!PassedInv
<1>7. ASSUME pc' = "tail"
      PROVE  strcmp!TailInv'
  <2>1. TailOf(data3', has_nul', src1' + (call.s2 - call.s1))
    BY <1>7
  <2>2. strcmp!HasZero(data3)' = HasZero(data3')
    BY DEF HasZero, strcmp!HasZero, Zeros, strcmp!Zeros, Number, strcmp!Number, N, strcmp!N
  <2> DEFINE p == src1' + (call.s2 - call.s1)
  <2>3. /\ strcmp!Place2' = p /\ strcmp!Into2' = p % N /\ strcmp!XBits' = XBits
        /\ strcmp!N' = N /\ strcmp!m' = m
    BY DEF strcmp!Into2, strcmp!Place2, strcmp!off2, strcmp!XBits, XBits, strcmp!N, N, strcmp!m, m
  <2>4. /\ \A i : (strcmp!LowBits(data3, i))' = LowBits(data3', i)
        /\ \A x : (strcmp!BitsOf(x))' = BitsOf(x)
    BY DEF strcmp!LowBits, LowBits, strcmp!BitsOf, BitsOf
  <2>5. PICK f \in (p % N) .. (N - 1) :
           /\ LowBits(data3', f) = {} /\ \A i \in 0 .. (f - 1) : LowBits(data3', i) # {}
           /\ \A i \in (p % N) .. f : LowBits(data3', i) = BitsOf(m[(p - (p % N)) + i])
    BY <2>1 DEF TailOf
  <2>6. (data3 \subseteq strcmp!XBits /\ has_nul = strcmp!HasZero(data3))'
    BY <2>1, <2>2, <2>3 DEF TailOf
  <2> HIDE DEF p
  <2>7. (\E f_1 \in strcmp!Into2 .. (strcmp!N - 1) :
           /\ strcmp!LowBits(data3, f_1) = {}
           /\ \A i \in 0 .. (f_1 - 1) : strcmp!LowBits(data3, i) # {}
           /\ \A i \in strcmp!Into2 .. f_1 :
                 strcmp!LowBits(data3, i)
                   = strcmp!BitsOf(strcmp!m[(strcmp!Place2 - strcmp!Into2) + i]))'
    BY <2>3, <2>4, <2>5
  <2>. QED
    BY <2>6, <2>7 DEF strcmp!TailInv
<1>8. strcmp!Stop' = strcmp!Stop /\ strcmp!Answer' = strcmp!Answer
  <2>1. strcmp!Stop' = strcmp!Stop
    BY DEF strcmp!Stop, strcmp!FirstOf, strcmp!SameAt, strcmp!EndsAt, strcmp!m
  <2>. QED
    BY <2>1 DEF strcmp!Answer, strcmp!Order, strcmp!m, strcmp!Sign
<1>9. ASSUME pc' = "end"
      PROVE  strcmp!MarksOrder(strcmp!Answer)'
  <2>1. PICK f \in 0 .. (N - 1) : /\ FirstMarkOf(syndrome', data1', data2', f)
                                  /\ Sign(Octet(data1', f) - Octet(data2', f)) = strcmp!Answer
    BY <1>9
  <2>2. strcmp!FirstMark(f)'
    BY <2>1 DEF strcmp!FirstMark, FirstMarkOf, strcmp!Bits, Bits, strcmp!LowBits, LowBits, big,
       strcmp!big,
       strcmp!SymmetricDiff, SymmetricDiff, N, strcmp!N
  <2>3. strcmp!Octet(data1, f)' = Octet(data1', f) /\ strcmp!Octet(data2, f)' = Octet(data2', f)
    BY DEF Octet, strcmp!Octet, Number, strcmp!Number, strcmp!Bits, Bits, strcmp!LowBits,
       LowBits, big,
       strcmp!big, N, strcmp!N
  <2>4. strcmp!Sign(strcmp!Octet(data1, f) - strcmp!Octet(data2, f))' = strcmp!Answer'
    BY <1>8, <2>1, <2>3 DEF Sign, strcmp!Sign
  <2>. QED
    BY <2>2, <2>4 DEF strcmp!MarksOrder, N, strcmp!N
<1>10. ASSUME pc' = "ret"
       PROVE  strcmp!Sign(result)' = strcmp!Answer'
  BY <1>8, <1>10 DEF strcmp!Sign, Sign
<1>. QED
  BY <1>2, <1>3, <1>5, <1>6, <1>7, <1>9, <1>10 DEF strcmp!IInv, strcmp!Labels

\* An aligned chunk, of half a granule or one, with a byte of a string that is known to
\* be in it.
LEMMA ChunkOfString ==
    ASSUME ValidStrings(call), NEW s \in {call.s1, call.s2}, NEW k \in Nat, Alike(k),
           NEW n \in {N, W}, NEW a \in Int, a % n = 0, a <= s + k, s + k < a + n,
           NEW hi \in Nat, s + k <= hi
    PROVE  /\ Chunk(a, n) \subseteq Granules(s, hi) /\ Chunk(a, n) \subseteq DOMAIN m
           /\ \A i \in 0 .. (n - 1) : a + i \in DOMAIN m
<1>1. s \in Nat /\ s + k \in Nat /\ s <= s + k
  BY MemoryIs
<1>2. s + k \in DOMAIN m
  BY AlikeReaches
<1>3. Chunk(a, n) \subseteq Granules(s, hi)
  BY <1>1, ChunkIn
<1>4. Chunk(a, n) \subseteq DOMAIN m
  BY <1>2, ChunkInMemory
<1>5. \A i \in 0 .. (n - 1) : a + i \in Chunk(a, n)
  BY WordSize DEF Chunk
<1>. QED
  BY <1>3, <1>4, <1>5

\* Words loaded from there on, or before the strings bytes of ones.
LEMMA HoldsOf ==
    ASSUME NEW base \in Int, NEW d1, NEW d2,
           NEW a, NEW b, a = call.s1 + base, b = call.s2 + base,
           call.s1 \in Nat, call.s2 \in Nat, NEW lo \in Nat,
           \A i \in lo .. (N - 1) :
              IF base + i < 0 THEN Bits(d1, i) = AllOnes /\ Bits(d2, i) = AllOnes
              ELSE /\ Bits(d1, i) = BitsOf(m[a + i]) /\ Bits(d2, i) = BitsOf(m[b + i])
                   /\ a + i \in DOMAIN m /\ b + i \in DOMAIN m
    PROVE  \A i \in lo .. (N - 1) : Holds(d1, d2, base, i)
<1>1. \A i \in lo .. (N - 1) : call.s1 + (base + i) = a + i /\ call.s2 + (base + i) = b + i
  BY WordSize
<1>. QED
  BY <1>1 DEF Holds

\* The syndrome of two words, with marks of NULs.
SyndromeOf(Y, d1, d2, Z) == Y = SymmetricDiff(d1, d2) \cup Z

\* The words compared, as L(start_realigned) does, with the marks of the NULs of one of
\* them.
LEMMA MarksCompared ==
    ASSUME ValidStrings(call), NEW base \in Int, NEW d1 \in SUBSET XBits, NEW d2 \in SUBSET XBits,
           NEW Z \in SUBSET XBits, MarksNuls(Z, d1) \/ MarksNuls(Z, d2),
           NEW Y, SyndromeOf(Y, d1, d2, Z),
           \A i \in 0 .. (N - 1) : Holds(d1, d2, base, i), Alike(base)
    PROVE  /\ Y \in SUBSET XBits
           /\ Y = {} => NoneDecides(d1, d2, Y, base, 0, N)
           /\ Y # {} => \E f \in 0 .. (N - 1) : OneDecides(d1, d2, Y, base, 0, f)
<1>2. Y \in SUBSET XBits
  BY DEF SymmetricDiff, SyndromeOf
<1>3. 0 \in 0 .. N /\ N \in 0 .. N /\ \A i \in 0 .. (0 - 1) : FALSE
  BY WordSize
<1>4. base + 0 = base
  OBVIOUS
<1>5. Comparable(d1, d2, Z, base, 0, N)
  BY <1>3, <1>4, MarksDo
<1>6. \A i \in 0 .. (N - 1) : Bits(Y, i) = SymmetricDiff(Bits(d1, i), Bits(d2, i)) \cup Bits(Z, i)
  <2> DEFINE E == SymmetricDiff(d1, d2)
  <2>2. \A i \in 0 .. (N - 1) : Bits(E, i) = SymmetricDiff(Bits(d1, i), Bits(d2, i))
    BY BitsXor
  <2>3. Y = E \cup Z
    BY DEF SyndromeOf
  <2> HIDE DEF E
  <2>4. \A i \in 0 .. (N - 1) : Bits(Y, i) = Bits(E, i) \cup Bits(Z, i)
    BY <2>3, BitsCup
  <2>. QED
    BY <2>2, <2>4
<1>7. \A i \in 0 .. (N - 1) : Bits(Y, i) = IF 0 <= i /\ i < N
                                          THEN SymmetricDiff(Bits(d1, i), Bits(d2, i)) \cup Bits(Z, i)
                                          ELSE {}
  <2>1. \A i \in 0 .. (N - 1) : 0 <= i /\ i < N
    BY WordSize
  <2>. QED
    BY <1>6, <2>1
<1>8. /\ Y = {} => NoneDecides(d1, d2, Y, base, 0, N)
      /\ Y # {} => \E f \in 0 .. (N - 1) : OneDecides(d1, d2, Y, base, 0, f)
  BY <1>2, <1>3, <1>5, <1>7, Compared
<1>. QED
  BY <1>2, <1>8

\* A syndrome of whole words.
LEMMA AllCompared ==
    ASSUME ValidStrings(call), NEW base \in Int, NEW d1 \in SUBSET XBits, NEW d2 \in SUBSET XBits,
           NEW Y, Y = SymmetricDiff(d1, d2) \cup Nuls(d1),
           \A i \in 0 .. (N - 1) : Holds(d1, d2, base, i), Alike(base)
    PROVE  /\ Y \in SUBSET XBits
           /\ Y = {} => NoneDecides(d1, d2, Y, base, 0, N)
           /\ Y # {} => \E f \in 0 .. (N - 1) : OneDecides(d1, d2, Y, base, 0, f)
<1>1. MarksNuls(Nuls(d1), d1) /\ Nuls(d1) \in SUBSET XBits
  BY NulsMark
<1>2. SyndromeOf(Y, d1, d2, Nuls(d1))
  BY DEF SyndromeOf
<1>. QED
  BY <1>1, <1>2, MarksCompared

\* A byte that decides.
LEMMA StrcmpDecides ==
    ASSUME ValidStrings(call), NEW base \in Int, NEW lo, NEW f, NEW d1, NEW d2, NEW Y,
           OneDecides(d1, d2, Y, base, lo, f)
    PROVE  /\ FirstMarkOf(Y, d1, d2, f)
           /\ Sign(Octet(d1, f) - Octet(d2, f)) = strcmp!Answer
<1>1. base + f \in Nat /\ Alike(base + f) /\ Decides(base + f)
  BY DEF OneDecides
<1>2. strcmp!Answer = Order(base + f)
  BY <1>1, StrcmpStopIs
<1>. QED
  BY <1>2 DEF OneDecides, Order

\* Words compared from base on: the first mark of the syndrome is at what decides.
LEMMA StrcmpCompared ==
    ASSUME ValidStrings(call), NEW base \in Int, NEW d1 \in SUBSET XBits, NEW d2 \in SUBSET XBits,
           strcmp!StartRealigned(d1, d2),
           \A i \in 0 .. (N - 1) : Holds(d1, d2, base, i), Alike(base)
    PROVE  /\ data1' \subseteq XBits /\ data2' \subseteq XBits /\ syndrome' \subseteq XBits
           /\ pc' \in {"loop_aligned", "end"}
           /\ pc' = "loop_aligned" => Alike(base + N)
           /\ pc' = "end" => \E f \in 0 .. (N - 1) :
                                /\ FirstMarkOf(syndrome', data1', data2', f)
                                /\ Sign(Octet(data1', f) - Octet(data2', f)) = strcmp!Answer
<1>1. /\ data1' = d1 /\ data2' = d2 /\ syndrome' = SymmetricDiff(d1, d2) \cup Nuls(d1)
      /\ pc' = IF syndrome' = {} THEN "loop_aligned" ELSE "end"
  BY StrcmpSimd, StrcmpNames DEF strcmp!StartRealigned
<1>2. /\ syndrome' \in SUBSET XBits
      /\ syndrome' = {} => Alike(base + N)
      /\ syndrome' # {} => \E f \in 0 .. (N - 1) : OneDecides(d1, d2, syndrome', base, 0, f)
  <2>1. /\ syndrome' \in SUBSET XBits
        /\ syndrome' = {} => NoneDecides(d1, d2, syndrome', base, 0, N)
        /\ syndrome' # {} => \E f \in 0 .. (N - 1) : OneDecides(d1, d2, syndrome', base, 0, f)
    BY <1>1, AllCompared
  <2>. QED
    BY <2>1 DEF NoneDecides
<1>3. ASSUME pc' = "end"
      PROVE  \E f \in 0 .. (N - 1) : /\ FirstMarkOf(syndrome', data1', data2', f)
                                     /\ Sign(Octet(data1', f) - Octet(data2', f)) = strcmp!Answer
  <2>1. PICK f \in 0 .. (N - 1) : OneDecides(d1, d2, syndrome', base, 0, f)
    BY <1>1, <1>2, <1>3
  <2>. QED
    BY <1>1, <2>1, StrcmpDecides
<1>. QED
  BY <1>1, <1>2, <1>3

-----------------------------------------------------------------------------
\* What the invariant says.
LEMMA StrcmpIs ==
    ASSUME strcmp!IInv
    PROVE  /\ ValidStrings(call) /\ RegistersInv /\ pc \in strcmp!Labels
           /\ call.s1 \in Nat /\ call.s2 \in Nat /\ N \in Nat /\ N >= 2
           /\ src1 \in Nat /\ src1 >= call.s1 /\ src1 - call.s1 \in Nat
           /\ strcmp!off2 = call.s2 - call.s1 /\ strcmp!off2 \in Int
           /\ strcmp!PlaceInv
           /\ pc \notin {"end", "ret"} => Alike(src1 - call.s1)
           /\ rd1 \subseteq Granules(call.s1, Nul(call.s1))
           /\ rd2 \subseteq Granules(call.s2, Nul(call.s2))
<1>1. ValidStrings(call) /\ RegistersInv /\ strcmp!PlaceInv
  BY StrcmpInvNames DEF strcmp!IInv
<1>2. call.s1 \in Nat /\ call.s2 \in Nat /\ N \in Nat /\ N >= 2
  BY <1>1, MemoryIs, WordSize
<1>3. src1 \in Nat /\ src1 >= call.s1
  BY DEF strcmp!IInv, strcmp!PlaceInv
<1>4. src1 - call.s1 \in Nat /\ strcmp!off2 = call.s2 - call.s1 /\ strcmp!off2 \in Int
  BY <1>2, <1>3 DEF strcmp!off2
<1>5. pc \notin {"end", "ret"} => Alike(src1 - call.s1)
  BY StrcmpInvNames DEF strcmp!IInv, strcmp!PassedInv
<1>6. rd1 \subseteq Granules(call.s1, Nul(call.s1)) /\ rd2 \subseteq Granules(call.s2, Nul(call.s2))
  BY StrcmpNames DEF strcmp!IInv, strcmp!Footprint
<1>. QED
  BY <1>1, <1>2, <1>3, <1>4, <1>5, <1>6 DEF strcmp!IInv

\* Each step of strcmp keeps the invariant.  The strings may be aligned alike,
LEMMA StrcmpEntry ==
    ASSUME strcmp!IInv, strcmp!Entry
    PROVE  strcmp!IInv'
<1>1. /\ ValidStrings(call) /\ RegistersInv /\ call.s1 \in Nat /\ call.s2 \in Nat /\ N \in Nat
      /\ N >= 2
      /\ src1 \in Nat /\ src1 >= call.s1
      /\ strcmp!off2 = call.s2 - call.s1 /\ strcmp!off2 \in Int
      /\ pc \notin {"end", "ret"} => Alike(src1 - call.s1)
      /\ rd1 \subseteq Granules(call.s1, Nul(call.s1))
      /\ rd2 \subseteq Granules(call.s2, Nul(call.s2))
  BY StrcmpIs
<1>2. /\ pc = "entry" /\ src1 = call.s1 /\ src2 = call.s2
      /\ call' = call /\ src1' = src1 /\ src2' = src2 /\ rd1' = rd1 /\ rd2' = rd2
      /\ data1' = data1 /\ data2' = data2 /\ syndrome' = syndrome
  BY DEF strcmp!IInv, strcmp!PlaceInv, strcmp!Entry
<1>3. pc' = CASE strcmp!off2 % N # 0 /\ src1 % N = 0 -> "src1_aligned"
              [] strcmp!off2 % N # 0 /\ src1 % N # 0 -> "do_misaligned"
              [] strcmp!off2 % N = 0 /\ src1 % N = 0 -> "loop_aligned"
              [] strcmp!off2 % N = 0 /\ src1 % N # 0 -> "mutual_align"
  BY StrcmpSimd DEF strcmp!Entry
<1>4. /\ pc' \in {"src1_aligned", "do_misaligned", "loop_aligned", "mutual_align"}
      /\ pc' \in {"mutual_align", "loop_aligned"} => strcmp!off2 % N = 0
      /\ pc' \in {"do_misaligned", "src1_aligned"} => strcmp!off2 % N # 0
      /\ pc' \in {"mutual_align", "do_misaligned"} => src1 % N # 0
      /\ pc' \in {"loop_aligned", "src1_aligned"} => src1 % N = 0
  BY <1>3
<1>5. strcmp!off2' = strcmp!off2 /\ strcmp!N' = N
  BY <1>2, StrcmpSimd DEF strcmp!off2, strcmp!N
<1>6. strcmp!PlaceInv'
  BY <1>1, <1>2, <1>4, <1>5 DEF strcmp!PlaceInv, strcmp!Place2
<1>. QED
  BY <1>1, <1>2, <1>4, <1>6, StrcmpKept DEF strcmp!Labels, RegistersInv

\* two words are compared,
LEMMA StrcmpLoopAligned ==
    ASSUME strcmp!IInv, strcmp!LoopAligned
    PROVE  strcmp!IInv'
<1>1. /\ ValidStrings(call) /\ RegistersInv /\ call.s1 \in Nat /\ call.s2 \in Nat /\ N \in Nat
      /\ N >= 2
      /\ src1 \in Nat /\ src1 >= call.s1 /\ src1 - call.s1 \in Nat
      /\ strcmp!off2 = call.s2 - call.s1 /\ strcmp!off2 \in Int
      /\ pc \notin {"end", "ret"} => Alike(src1 - call.s1)
  BY StrcmpIs
<1>2. /\ pc = "loop_aligned" /\ src1 % N = 0 /\ strcmp!off2 % N = 0
      /\ call' = call /\ src1' = src1 + N
      /\ rd1' = Chunk(src1, N) /\ rd2' = Chunk(src1 + strcmp!off2, N)
      /\ strcmp!StartRealigned(Ldr(src1), Ldr(src1 + strcmp!off2))
  BY StrcmpSimd, StrcmpNames DEF strcmp!IInv, strcmp!PlaceInv, strcmp!LoopAligned, strcmp!LoadWords
<1> DEFINE base == src1 - call.s1
           b == src1 + strcmp!off2
<1>3. /\ base \in Nat /\ base \in Int /\ Alike(base) /\ src1 = call.s1 + base /\ b = call.s2 + base
      /\ b \in Int /\ src1 \in Int
  BY <1>1, <1>2
<1>4. b % N = 0
  <2>1. b % N = strcmp!off2 % N
    BY <1>1, <1>2, <1>3, ModAdd
  <2>. QED
    BY <1>2, <2>1
<1>5. /\ Nul(call.s1) \in Nat /\ Nul(call.s2) \in Nat
      /\ call.s1 + base <= Nul(call.s1) /\ call.s2 + base <= Nul(call.s2)
  BY <1>1, <1>3, AlikeReaches, NulIs
<1> HIDE DEF base, b
<1>6. /\ rd1' \subseteq Granules(call.s1, Nul(call.s1))
      /\ \A i \in 0 .. (N - 1) : src1 + i \in DOMAIN m
  <2>1. src1 <= call.s1 + base /\ call.s1 + base < src1 + N
    BY <1>1, <1>3
  <2>. QED
    BY <1>1, <1>2, <1>3, <1>5, <2>1, ChunkOfString
<1>7. /\ rd2' \subseteq Granules(call.s2, Nul(call.s2))
      /\ \A i \in 0 .. (N - 1) : b + i \in DOMAIN m
  <2>1. b <= call.s2 + base /\ call.s2 + base < b + N
    BY <1>1, <1>3
  <2>. QED
    BY <1>1, <1>2, <1>3, <1>4, <1>5, <2>1, ChunkOfString DEF b
<1>8. \A i \in 0 .. (N - 1) : Holds(Ldr(src1), Ldr(b), base, i)
  <2>1. \A i \in 0 .. (N - 1) : ~(base + i < 0)
    BY <1>1, <1>3
  <2>2. \A i \in 0 .. (N - 1) :
          Bits(Ldr(src1), i) = BitsOf(m[src1 + i]) /\ Bits(Ldr(b), i) = BitsOf(m[b + i])
    BY BitsLdr
  <2>. QED
    BY <1>1, <1>3, <1>6, <1>7, <2>1, <2>2, HoldsOf
<1>9. Ldr(src1) \in SUBSET XBits /\ Ldr(b) \in SUBSET XBits
  BY BitsLdr
<1>10. /\ data1' \subseteq XBits /\ data2' \subseteq XBits /\ syndrome' \subseteq XBits
       /\ pc' \in {"loop_aligned", "end"}
       /\ pc' = "loop_aligned" => Alike(base + N)
       /\ pc' = "end" => \E f \in 0 .. (N - 1) :
                                /\ FirstMarkOf(syndrome', data1', data2', f)
                                /\ Sign(Octet(data1', f) - Octet(data2', f)) = strcmp!Answer
  <2>1. strcmp!StartRealigned(Ldr(src1), Ldr(b))
    BY <1>2 DEF b
  <2>. QED
    BY <1>1, <1>3, <1>8, <1>9, <2>1, StrcmpCompared
<1>11. src1' - call.s1 = base + N
  BY <1>1, <1>2 DEF base
<1>12. strcmp!PlaceInv'
  <2>1. strcmp!off2' = strcmp!off2 /\ strcmp!N' = N
    BY <1>2, StrcmpSimd DEF strcmp!off2, strcmp!N
  <2>2. src1' % N = 0 /\ src1' \in Nat /\ src1' >= call.s1
    BY <1>1, <1>2, ModPlus
  <2>. QED
    BY <1>2, <1>10, <2>1, <2>2 DEF strcmp!PlaceInv
<1>. QED
  BY <1>1, <1>2, <1>6, <1>7, <1>10, <1>11, <1>12, StrcmpKept DEF strcmp!Labels

\* Words with the bytes before the strings set.
LEMMA BytesBefore ==
    ASSUME NEW d, NEW r \in 1 .. (N - 1), NEW n \in Int, n % (8 * N) = 8 * (N - r),
           NEW i \in 0 .. (N - 1), d \in SUBSET XBits
    PROVE  /\ d \cup LS_FW(XBits, n) \in SUBSET XBits
           /\ i < r => Bits(d \cup LS_FW(XBits, n), i) = AllOnes
           /\ i >= r => Bits(d \cup LS_FW(XBits, n), i) = Bits(d, i)
<1>1. N - r \in 0 .. (N - 1) /\ r \in Int /\ N \in Nat
  BY WordSize
<1>2. XBits \in SUBSET XBits
  OBVIOUS
<1>3. /\ LS_FW(XBits, n) \in SUBSET XBits
      /\ Bits(LS_FW(XBits, n), i) = IF i + (N - r) < N THEN Bits(XBits, i + (N - r)) ELSE {}
  BY <1>1, <1>2, BitsFW
<1>4. Bits(d \cup LS_FW(XBits, n), i) = Bits(d, i) \cup Bits(LS_FW(XBits, n), i)
  BY BitsCup
<1>5. CASE i < r
  <2>1. i + (N - r) \in 0 .. (N - 1) /\ i + (N - r) < N
    BY <1>1, <1>5
  <2>2. Bits(XBits, i + (N - r)) = AllOnes
    BY <2>1, BitsOps
  <2>3. Bits(d, i) \subseteq AllOnes
    BY BitsIn DEF AllOnes
  <2>. QED
    BY <1>1, <1>3, <1>4, <1>5, <2>1, <2>2, <2>3
<1>6. CASE ~(i < r)
  <2>1. ~(i + (N - r) < N)
    BY <1>1, <1>6
  <2>. QED
    BY <1>3, <1>4, <1>6, <2>1
<1>. QED
  BY <1>5, <1>6

\* The same, where they are aligned alike.
LEMMA FirstWords ==
    ASSUME ValidStrings(call), NEW r \in 1 .. (N - 1), NEW n \in Int, n % (8 * N) = 8 * (N - r),
           NEW a, a = call.s1 - r, a % N = 0, NEW b, b = call.s2 - r, b % N = 0
    PROVE  /\ Ldr(a) \cup LS_FW(XBits, n) \in SUBSET XBits
           /\ Ldr(b) \cup LS_FW(XBits, n) \in SUBSET XBits
           /\ \A i \in 0 .. (N - 1) :
                Holds(Ldr(a) \cup LS_FW(XBits, n), Ldr(b) \cup LS_FW(XBits, n), -r, i)
           /\ Alike(-r) /\ Alike(0)
           /\ call.s1 \in Chunk(a, N) /\ call.s2 \in Chunk(b, N) /\ a \in Int /\ b \in Int
<1>1. call.s1 \in Nat /\ call.s2 \in Nat /\ N \in Nat /\ N >= 2 /\ -r \in Int
  BY MemoryIs, WordSize
<1>2. a \in Int /\ b \in Int /\ a = call.s1 + (-r) /\ b = call.s2 + (-r)
  BY <1>1
<1>3. Alike(-r) /\ Alike(0)
  <2>1. \A i \in 0 .. (-r - 1) : FALSE
    BY <1>1
  <2>2. \A i \in 0 .. (0 - 1) : FALSE
    OBVIOUS
  <2>. QED
    BY <2>1, <2>2 DEF Alike
<1>4. call.s1 \in Chunk(a, N) /\ call.s2 \in Chunk(b, N)
  BY <1>1, <1>2 DEF Chunk
<1>5. /\ \A i \in 0 .. (N - 1) : a + i \in DOMAIN m
      /\ \A i \in 0 .. (N - 1) : b + i \in DOMAIN m
  <2>1. 0 \in Nat /\ Nul(call.s1) \in Nat /\ Nul(call.s2) \in Nat
        /\ call.s1 + 0 <= Nul(call.s1) /\ call.s2 + 0 <= Nul(call.s2)
    BY <1>3, AlikeReaches, NulIs
  <2>2. /\ a <= call.s1 + 0 /\ call.s1 + 0 < a + N
        /\ b <= call.s2 + 0 /\ call.s2 + 0 < b + N
    <3>1. call.s1 + 0 = a + r /\ call.s2 + 0 = b + r
      BY <1>1
    <3>2. a <= a + r /\ b <= b + r
      BY <1>2
    <3>3. a + r < a + N /\ b + r < b + N
      BY <1>1, <1>2
    <3>. QED
      BY <3>1, <3>2, <3>3
  <2>3. \A i \in 0 .. (N - 1) : a + i \in DOMAIN m
    BY <1>2, <1>3, <2>1, <2>2, ChunkOfString
  <2>4. \A i \in 0 .. (N - 1) : b + i \in DOMAIN m
    BY <1>2, <1>3, <2>1, <2>2, ChunkOfString
  <2>. QED
    BY <2>3, <2>4
<1>6. Ldr(a) \in SUBSET XBits /\ Ldr(b) \in SUBSET XBits
  BY BitsLdr
<1> DEFINE d1 == Ldr(a) \cup LS_FW(XBits, n)
           d2 == Ldr(b) \cup LS_FW(XBits, n)
<1>7. d1 \in SUBSET XBits /\ d2 \in SUBSET XBits
  <2>1. 0 \in 0 .. (N - 1)
    BY <1>1
  <2>. QED
    BY <1>6, <2>1, BytesBefore
<1>8. \A i \in 0 .. (N - 1) :
         /\ i < r => Bits(d1, i) = AllOnes /\ Bits(d2, i) = AllOnes
         /\ i >= r => Bits(d1, i) = Bits(Ldr(a), i) /\ Bits(d2, i) = Bits(Ldr(b), i)
  BY <1>6, BytesBefore
<1>9. \A i \in 0 .. (N - 1) :
        Bits(Ldr(a), i) = BitsOf(m[a + i]) /\ Bits(Ldr(b), i) = BitsOf(m[b + i])
  BY BitsLdr
<1>10. \A i \in 0 .. (N - 1) : (-r + i < 0 <=> i < r) /\ (i < r \/ i >= r)
  BY <1>1
<1> HIDE DEF d1, d2
<1>11. \A i \in 0 .. (N - 1) :
          IF -r + i < 0 THEN Bits(d1, i) = AllOnes /\ Bits(d2, i) = AllOnes
          ELSE /\ Bits(d1, i) = BitsOf(m[a + i]) /\ Bits(d2, i) = BitsOf(m[b + i])
               /\ a + i \in DOMAIN m /\ b + i \in DOMAIN m
  BY <1>5, <1>8, <1>9, <1>10
<1>12. \A i \in 0 .. (N - 1) : Holds(d1, d2, -r, i)
  BY <1>1, <1>2, <1>11, HoldsOf
<1>. QED
  BY <1>2, <1>3, <1>4, <1>7, <1>12 DEF d1, d2

\* strcmp's shift.
LEMMA ShiftIs ==
    ASSUME NEW a \in Int
    PROVE  /\ strcmp!Shift(a) \in Int
           /\ strcmp!Shift(a) = IF a % N = 0 THEN 0 ELSE 8 * (N - (a % N))
           /\ strcmp!Shift(a) % (8 * N) = strcmp!Shift(a)
           /\ (-strcmp!Shift(a)) % (8 * N) = 8 * (a % N)
<1>1. N \in Nat /\ N >= 2 /\ a % N \in 0 .. (N - 1)
  BY WordSize, EightMod
<1>2. strcmp!Shift(a) = (8 * (-a)) % (8 * N)
  <2>1. -(8 * a) = 8 * (-a)
    OBVIOUS
  <2>. QED
    BY <2>1, StrcmpSimd DEF strcmp!Shift
<1>3. strcmp!Shift(a) = 8 * ((-a) % N)
  <2>1. -a \in Int
    OBVIOUS
  <2>. QED
    BY <1>2, <2>1, EightMod
<1>4. (-a) % N = IF a % N = 0 THEN 0 ELSE N - (a % N)
  BY NegMod
<1>5. strcmp!Shift(a) = IF a % N = 0 THEN 0 ELSE 8 * (N - (a % N))
  BY <1>3, <1>4
<1> DEFINE r == a % N
           j == IF r = 0 THEN 0 ELSE N - r
<1>6. strcmp!Shift(a) = 8 * j /\ r \in 0 .. (N - 1) /\ j \in 0 .. (N - 1)
  BY <1>1, <1>5
<1> HIDE DEF r
<1>7. j % N = j /\ (-j) % N = r
  <2>1. j % N = j
    BY <1>1, <1>6, ModSmall
  <2>2. (-j) % N = IF j % N = 0 THEN 0 ELSE N - (j % N)
    BY <1>6, NegMod
  <2>. QED
    BY <1>1, <1>6, <2>1, <2>2
<1>8. (8 * j) % (8 * N) = 8 * j
  BY <1>6, <1>7, EightMod
<1>9. (-strcmp!Shift(a)) % (8 * N) = 8 * r
  <2>1. -(8 * j) = 8 * (-j) /\ -j \in Int
    BY <1>6
  <2>. QED
    BY <1>6, <1>7, <2>1, EightMod
<1>. QED
  BY <1>5, <1>6, <1>8, <1>9 DEF r

\* the first of them with ones for the bytes before the strings,
LEMMA StrcmpMutualAlign ==
    ASSUME strcmp!IInv, strcmp!MutualAlign
    PROVE  strcmp!IInv'
<1>1. /\ ValidStrings(call) /\ call.s1 \in Nat /\ call.s2 \in Nat /\ N \in Nat /\ N >= 2
      /\ strcmp!off2 = call.s2 - call.s1 /\ strcmp!off2 \in Int
  BY StrcmpIs
<1> DEFINE r == call.s1 % N
           a == call.s1 - r
           b == call.s2 - r
           n == strcmp!Shift(call.s2)
           before == LS_FW(XBits, n)
<1>2. /\ pc = "mutual_align" /\ src1 = call.s1 /\ src2 = call.s2
      /\ r # 0 /\ strcmp!off2 % N = 0 /\ call' = call
  BY StrcmpSimd DEF strcmp!IInv, strcmp!PlaceInv, strcmp!MutualAlign
<1>3. /\ src1' = a + N /\ rd1' = Chunk(a, N) /\ rd2' = Chunk(a + strcmp!off2, N)
      /\ strcmp!StartRealigned(Ldr(a) \cup before, Ldr(a + strcmp!off2) \cup before)
  BY <1>2, StrcmpSimd, StrcmpNames DEF strcmp!MutualAlign, strcmp!LoadWords
<1>4. /\ r \in 1 .. (N - 1) /\ a \in Nat /\ a % N = 0 /\ a + N >= call.s1
  <2>1. PICK g \in Nat : g = call.s1 - (call.s1 % N) /\ g % N = 0 /\ call.s1 % N \in 0 .. (N - 1)
    <3>1. call.s1 \in Nat /\ N \in Nat /\ N > 0
      BY <1>1
    <3>. QED
      BY <3>1, StartIs
  <2>. QED
    BY <1>1, <1>2, <2>1
<1>5. a + strcmp!off2 = b /\ b \in Int
  BY <1>1, <1>4
<1>6. b % N = 0
  <2>1. (a + strcmp!off2) % N = strcmp!off2 % N
    BY <1>1, <1>4, ModAdd
  <2>. QED
    BY <1>2, <1>5, <2>1
<1>7. n \in Int /\ n % (8 * N) = 8 * (N - r)
  <2>1. call.s2 = b + r /\ r \in Int
    BY <1>1, <1>4
  <2>2. (b + r) % N = r % N
    BY <1>5, <1>6, <2>1, ModAdd
  <2>3. r % N = r
    BY <1>1, <1>4, ModSmall
  <2>4. call.s2 % N = r
    BY <2>1, <2>2, <2>3
  <2>. QED
    BY <1>1, <1>2, <2>4, ShiftIs
<1> HIDE DEF r, n
<1>8. /\ Ldr(a) \cup before \in SUBSET XBits /\ Ldr(b) \cup before \in SUBSET XBits
      /\ \A i \in 0 .. (N - 1) : Holds(Ldr(a) \cup before, Ldr(b) \cup before, -r, i)
      /\ Alike(-r) /\ Alike(0) /\ call.s1 \in Chunk(a, N) /\ call.s2 \in Chunk(b, N)
  BY <1>1, <1>4, <1>5, <1>6, <1>7, FirstWords
<1>9. strcmp!StartRealigned(Ldr(a) \cup before, Ldr(b) \cup before) /\ rd2' = Chunk(b, N)
  BY <1>3, <1>5
<1>10. -r \in Int /\ (a + N) - call.s1 = -r + N
  BY <1>1, <1>4
<1>11. a \in Int /\ 0 \in Nat /\ Nul(call.s1) \in Nat /\ Nul(call.s2) \in Nat
       /\ call.s1 + 0 <= Nul(call.s1) /\ call.s2 + 0 <= Nul(call.s2)
       /\ a <= call.s1 + 0 /\ call.s1 + 0 < a + N /\ b <= call.s2 + 0 /\ call.s2 + 0 < b + N
  <2>1. call.s1 + 0 <= Nul(call.s1) /\ call.s2 + 0 <= Nul(call.s2)
    BY <1>1, <1>8, AlikeReaches
  <2>2. a <= call.s1 + 0 /\ call.s1 + 0 < a + N /\ b <= call.s2 + 0 /\ call.s2 + 0 < b + N
    BY <1>1, <1>4, <1>5
  <2>. QED
    BY <1>1, <1>4, <2>1, <2>2, NulIs
<1> HIDE DEF a, b, before
<1>12. rd1' \subseteq Granules(call.s1, Nul(call.s1))
  BY <1>1, <1>3, <1>4, <1>8, <1>11, ChunkOfString
<1>13. rd2' \subseteq Granules(call.s2, Nul(call.s2))
  BY <1>1, <1>5, <1>6, <1>8, <1>9, <1>11, ChunkOfString
<1>14. /\ data1' \subseteq XBits /\ data2' \subseteq XBits /\ syndrome' \subseteq XBits
       /\ pc' \in {"loop_aligned", "end"}
       /\ pc' = "loop_aligned" => Alike(-r + N)
       /\ pc' = "end" => \E f \in 0 .. (N - 1) :
                                /\ FirstMarkOf(syndrome', data1', data2', f)
                                /\ Sign(Octet(data1', f) - Octet(data2', f)) = strcmp!Answer
  BY <1>1, <1>8, <1>9, <1>10, StrcmpCompared
<1>15. strcmp!PlaceInv'
  <2>1. strcmp!off2' = strcmp!off2 /\ strcmp!N' = N
    BY <1>2, StrcmpSimd DEF strcmp!off2, strcmp!N
  <2>2. src1' % N = 0 /\ src1' \in Nat /\ src1' >= call.s1
    BY <1>1, <1>3, <1>4, ModPlus
  <2>. QED
    BY <1>2, <1>14, <2>1, <2>2 DEF strcmp!PlaceInv
<1>. QED
  BY <1>1, <1>2, <1>3, <1>10, <1>12, <1>13, <1>14, <1>15, StrcmpKept DEF strcmp!Labels

\* A byte of each string, at k.
LEMMA AlikeMore ==
    ASSUME NEW k \in Nat, Alike(k), ~Decides(k)
    PROVE  Alike(k + 1)
<1>1. \A i \in 0 .. ((k + 1) - 1) : i \in 0 .. (k - 1) \/ i = k
  OBVIOUS
<1>. QED
  BY <1>1 DEF Alike, Decides

\* The next byte of each string, which may be loaded.
LEMMA BytesOfStrings ==
    ASSUME ValidStrings(call), NEW k \in Nat, Alike(k)
    PROVE  /\ {call.s1 + k} \subseteq Granules(call.s1, Nul(call.s1))
           /\ {call.s2 + k} \subseteq Granules(call.s2, Nul(call.s2))
           /\ m[call.s1 + k] \in 0 .. 255 /\ m[call.s2 + k] \in 0 .. 255
           /\ Decides(k) <=> ~(m[call.s1 + k] # 0 /\ m[call.s1 + k] = m[call.s2 + k])
<1>1. call.s1 \in Nat /\ call.s2 \in Nat /\ Nul(call.s1) \in Nat /\ Nul(call.s2) \in Nat
  BY MemoryIs, NulIs
<1>2. call.s1 + k <= Nul(call.s1) /\ call.s2 + k <= Nul(call.s2)
  BY AlikeReaches
<1>3. call.s1 + k \in DOMAIN m /\ call.s2 + k \in DOMAIN m
  BY AlikeReaches
<1>4. /\ call.s1 + k \in Nat /\ call.s1 <= call.s1 + k
      /\ call.s2 + k \in Nat /\ call.s2 <= call.s2 + k
  BY <1>1
<1>5. call.s1 + k \in Granules(call.s1, Nul(call.s1))
  BY <1>1, <1>2, <1>4, BytesIn
<1>6. call.s2 + k \in Granules(call.s2, Nul(call.s2))
  BY <1>1, <1>2, <1>4, BytesIn
<1>7. m[call.s1 + k] \in 0 .. 255 /\ m[call.s2 + k] \in 0 .. 255
  BY <1>3, MemoryIs
<1>8. Decides(k) <=> ~(m[call.s1 + k] # 0 /\ m[call.s1 + k] = m[call.s2 + k])
  BY DEF Decides, SameAt, EndsAt
<1>. QED
  BY <1>5, <1>6, <1>7, <1>8

\* strcmp: a byte at a time.
LEMMA StrcmpDoMisaligned ==
    ASSUME strcmp!IInv, strcmp!DoMisaligned
    PROVE  strcmp!IInv'
<1>1. /\ ValidStrings(call) /\ RegistersInv /\ call.s1 \in Nat /\ call.s2 \in Nat /\ N \in Nat
      /\ N >= 2
      /\ src1 \in Nat /\ src1 >= call.s1 /\ src1 - call.s1 \in Nat
      /\ strcmp!off2 = call.s2 - call.s1 /\ strcmp!off2 \in Int
      /\ pc \notin {"end", "ret"} => Alike(src1 - call.s1)
  BY StrcmpIs
<1> DEFINE k == src1 - call.s1
<1>2. /\ pc = "do_misaligned" /\ src2 = src1 + strcmp!off2 /\ strcmp!off2 % N # 0
      /\ call' = call /\ src1' = src1 + 1 /\ src2' = src2 + 1
      /\ rd1' = {src1} /\ rd2' = {src2}
      /\ data1' = data1 /\ data2' = data2 /\ syndrome' = syndrome
      /\ IF m[src1] # 0 /\ m[src1] = m[src2]
         THEN pc' = IF src1' % N # 0 THEN "do_misaligned" ELSE "src1_aligned"
         ELSE result' = m[src1] - m[src2] /\ pc' = "ret"
  BY StrcmpSimd, StrcmpNames
     DEF strcmp!IInv, strcmp!PlaceInv, strcmp!Place2, strcmp!DoMisaligned
<1>3. k \in Nat /\ src1 = call.s1 + k /\ src2 = call.s2 + k /\ Alike(k) /\ src1' - call.s1 = k + 1
  BY <1>1, <1>2
<1> HIDE DEF k
<1>4. /\ rd1' \subseteq Granules(call.s1, Nul(call.s1))
      /\ rd2' \subseteq Granules(call.s2, Nul(call.s2))
      /\ Decides(k) <=> ~(m[src1] # 0 /\ m[src1] = m[src2])
  BY <1>1, <1>2, <1>3, BytesOfStrings
<1>5. CASE Decides(k)
  <2>1. result' = m[src1] - m[src2] /\ pc' = "ret"
    BY <1>2, <1>4, <1>5
  <2>2. strcmp!Answer = Order(k)
    BY <1>1, <1>3, <1>5, StrcmpStopIs
  <2>3. Sign(result') = strcmp!Answer
    BY <1>3, <2>1, <2>2 DEF Order
  <2>4. strcmp!PlaceInv'
    BY <1>1, <1>2, <2>1 DEF strcmp!PlaceInv
  <2>. QED
    BY <1>1, <1>2, <1>4, <2>1, <2>3, <2>4, StrcmpKept DEF strcmp!Labels, RegistersInv
<1>6. CASE ~Decides(k)
  <2>1. pc' \in {"do_misaligned", "src1_aligned"}
        /\ (pc' = "do_misaligned" => src1' % N # 0) /\ (pc' = "src1_aligned" => src1' % N = 0)
    BY <1>2, <1>4, <1>6
  <2>2. Alike(k + 1)
    BY <1>3, <1>6, AlikeMore
  <2>3. strcmp!off2' = strcmp!off2 /\ strcmp!N' = N
    BY <1>2, StrcmpSimd DEF strcmp!off2, strcmp!N
  <2>4. src1' \in Nat /\ src1' >= call.s1 /\ src2' = src1' + strcmp!off2
    BY <1>1, <1>2
  <2>5. strcmp!PlaceInv'
    BY <1>2, <2>1, <2>3, <2>4 DEF strcmp!PlaceInv, strcmp!Place2
  <2>. QED
    BY <1>1, <1>2, <1>3, <1>4, <2>1, <2>2, <2>5, StrcmpKept DEF strcmp!Labels, RegistersInv
<1>. QED
  BY <1>5, <1>6

\* The end.
LEMMA StrcmpEndStep ==
    ASSUME strcmp!IInv, strcmp!StrcmpEnd
    PROVE  strcmp!IInv'
<1>1. /\ ValidStrings(call) /\ RegistersInv /\ call.s1 \in Nat
      /\ src1 \in Nat /\ src1 >= call.s1
      /\ rd1 \subseteq Granules(call.s1, Nul(call.s1))
      /\ rd2 \subseteq Granules(call.s2, Nul(call.s2))
  BY StrcmpIs
<1>2. /\ pc = "end" /\ pc' = "ret" /\ call' = call /\ src1' = src1
      /\ rd1' = rd1 /\ rd2' = rd2
      /\ data1' = data1 /\ data2' = data2 /\ syndrome' = syndrome
      /\ result' = ByteAt(RevLE(data1), clz(RevLE(syndrome))) - ByteAt(RevLE(data2), clz(RevLE(syndrome)))
  BY StrcmpSimd, StrcmpNames DEF strcmp!StrcmpEnd, strcmp!EndQuick
<1>3. MarksOrder(strcmp!Answer)
  BY <1>2, StrcmpInvNames DEF strcmp!IInv
<1>4. PICK f \in 0 .. (N - 1) :
             FirstMark(f) /\ Sign(Octet(data1, f) - Octet(data2, f)) = strcmp!Answer
  BY <1>3 DEF MarksOrder
<1>5. Sign(result') = strcmp!Answer
  BY <1>1, <1>2, <1>4, EndOrder
<1>6. strcmp!PlaceInv'
  BY <1>1, <1>2 DEF strcmp!PlaceInv
<1>. QED
  BY <1>1, <1>2, <1>5, <1>6, StrcmpKept DEF strcmp!Labels, RegistersInv

-----------------------------------------------------------------------------
\* D is the word at a, its bytes in the order of memory, with those before o filled.
WordFrom(D, o, a) == /\ D \in SUBSET XBits
                     /\ \A i \in 0 .. (o - 1) : LowBits(D, i) # {}
                     /\ \A i \in o .. (N - 1) :
                          LowBits(D, i) = BitsOf(m[a + i]) /\ a + i \in DOMAIN m

\* Whether it has a NUL from there on.
LEMMA NulFrom ==
    ASSUME ValidStrings(call), NEW o \in 0 .. (N - 1), NEW a \in Int, NEW D, WordFrom(D, o, a)
    PROVE  /\ HasZero(D) = {} => \A x \in (a + o) .. (a + (N - 1)) : m[x] # 0
           /\ HasZero(D) # {} => \E f \in o .. (N - 1) :
                                    /\ LowBits(D, f) = {}
                                    /\ \A i \in 0 .. (f - 1) : LowBits(D, i) # {}
                                    /\ m[a + f] = 0 /\ \A i \in o .. (f - 1) : m[a + i] # 0
<1>1. N \in Nat /\ N >= 2 /\ o \in Nat
  BY WordSize
<1>0. /\ D \in SUBSET XBits
      /\ \A i \in 0 .. (o - 1) : LowBits(D, i) # {}
      /\ \A i \in o .. (N - 1) : LowBits(D, i) = BitsOf(m[a + i]) /\ a + i \in DOMAIN m
  BY DEF WordFrom
<1>2. \A i \in o .. (N - 1) : i \in 0 .. (N - 1) /\ (LowBits(D, i) = {} <=> m[a + i] = 0)
  <2>1. \A i \in o .. (N - 1) : m[a + i] \in 0 .. 255
    BY <1>0, MemoryIs
  <2>2. \A i \in o .. (N - 1) : BitsOf(m[a + i]) = {} <=> m[a + i] = 0
    BY <2>1, NumberOfBits
  <2>. QED
    BY <1>0, <1>1, <2>2
<1>3. HasZero(D) = {} <=> \A i \in 0 .. (N - 1) : LowBits(D, i) # {}
  BY HasZeroNone
<1>4. CASE HasZero(D) = {}
  <2>1. \A i \in o .. (N - 1) : m[a + i] # 0
    BY <1>2, <1>3, <1>4
  <2>2. \A x \in (a + o) .. (a + (N - 1)) : x - a \in o .. (N - 1) /\ a + (x - a) = x
    BY <1>1
  <2>. QED
    BY <1>4, <2>1, <2>2
<1>5. CASE HasZero(D) # {}
  <2> DEFINE T == {i \in 0 .. (N - 1) : LowBits(D, i) = {}}
  <2>1. T # {}
    BY <1>3, <1>5
  <2>2. T \subseteq Nat
    BY <1>1
  <2>3. PICK f \in T : \A i \in T : f <= i
    BY <2>1, <2>2, LeastOf
  <2>4. f \in 0 .. (N - 1) /\ LowBits(D, f) = {}
    OBVIOUS
  <2>5. f \in o .. (N - 1)
    <3>1. ~(f \in 0 .. (o - 1))
      BY <1>0, <2>4
    <3>. QED
      BY <1>1, <2>4, <3>1
  <2>6. \A i \in 0 .. (f - 1) : LowBits(D, i) # {}
    <3>1. \A i \in 0 .. (f - 1) : i \in 0 .. (N - 1) /\ ~(f <= i)
      BY <1>1, <2>4
    <3>. QED
      BY <2>3, <3>1
  <2>7. \A i \in o .. (f - 1) : m[a + i] # 0
    <3>1. \A i \in o .. (f - 1) : i \in 0 .. (f - 1) /\ i \in o .. (N - 1)
      BY <1>1, <2>4
    <3>. QED
      BY <1>2, <2>6, <3>1
  <2>8. m[a + f] = 0
    BY <1>2, <2>4, <2>5
  <2>. QED
    BY <1>5, <2>4, <2>5, <2>6, <2>7, <2>8
<1>. QED
  BY <1>4, <1>5

\* The marks of NULs, in the order of significance.
LEMMA HasZeroMark ==
    ASSUME NEW X
    PROVE  /\ HasZero(X) \in SUBSET XBits
           /\ \A g \in 0 .. (N - 1) : (\A i \in 0 .. (g - 1) : LowBits(X, i) # {})
                 => LowBits(HasZero(X), g) = IF LowBits(X, g) = {} THEN {7} ELSE {}
<1>1. CASE \A i \in 0 .. (N - 1) : LowBits(X, i) # {}
  <2>1. HasZero(X) = {}
    BY <1>1, HasZeroNone
  <2>2. \A i \in 0 .. (N - 1) : LowBits({}, i) = {}
    BY DEF LowBits
  <2>. QED
    BY <1>1, <2>1, <2>2
<1>2. CASE ~(\A i \in 0 .. (N - 1) : LowBits(X, i) # {})
  <2> DEFINE T == {i \in 0 .. (N - 1) : LowBits(X, i) = {}}
  <2>1. T # {}
    BY <1>2
  <2>2. T \subseteq Nat /\ N \in Nat
    BY WordSize
  <2>3. PICK f \in T : \A i \in T : f <= i
    BY <2>1, <2>2, LeastOf
  <2>4. f \in 0 .. (N - 1) /\ LowBits(X, f) = {}
    OBVIOUS
  <2>5. \A i \in 0 .. (f - 1) : LowBits(X, i) # {}
    <3>1. \A i \in 0 .. (f - 1) : i \in 0 .. (N - 1) /\ ~(f <= i)
      BY <2>2, <2>4
    <3>. QED
      BY <2>3, <3>1
  <2>6. /\ HasZero(X) \in SUBSET XBits
        /\ \A i \in 0 .. (f - 1) : LowBits(HasZero(X), i) = {}
        /\ LowBits(HasZero(X), f) = {7}
    BY <2>4, <2>5, HasZeroFirst
  <2>7. ASSUME NEW g \in 0 .. (N - 1), \A i \in 0 .. (g - 1) : LowBits(X, i) # {}
        PROVE  LowBits(HasZero(X), g) = IF LowBits(X, g) = {} THEN {7} ELSE {}
    <3>1. ~(f \in 0 .. (g - 1))
      BY <2>4, <2>7
    <3>2. g = f \/ g \in 0 .. (f - 1)
      BY <2>2, <2>4, <3>1
    <3>. QED
      BY <2>4, <2>5, <2>6, <3>2
  <2>. QED
    BY <2>6, <2>7
<1>. QED
  BY <1>1, <1>2

\* The place in the second string, where the strings are not aligned alike.
LEMMA StrcmpPlace ==
    ASSUME strcmp!IInv, src1 % N = 0, strcmp!off2 % N # 0, pc \notin {"end", "ret"},
           NEW k, k = src1 - call.s1, NEW p, p = src1 + strcmp!off2, NEW o, o = p % N
    PROVE  /\ ValidStrings(call) /\ N \in Nat /\ N >= 2 /\ k \in Nat /\ Alike(k)
           /\ call.s1 \in Nat /\ call.s2 \in Nat
           /\ src1 = call.s1 + k /\ p = call.s2 + k /\ p \in Nat
           /\ o = strcmp!off2 % N /\ o \in 1 .. (N - 1)
           /\ p - o \in Nat /\ (p - o) % N = 0 /\ (p + N) % N = o
           /\ AheadOf(p) = p + (N - o) /\ AheadOf(p) = (p - o) + N /\ AheadOf(p) % N = 0
           /\ AheadOf(p + N) = AheadOf(p) + N
           /\ strcmp!shift \in Int /\ strcmp!shift % (8 * N) = 8 * (N - o)
           /\ (-strcmp!shift) % (8 * N) = 8 * o
           /\ call.s1 + k <= Nul(call.s1) /\ call.s2 + k <= Nul(call.s2)
           /\ Nul(call.s1) \in Nat /\ Nul(call.s2) \in Nat
<1>1. /\ ValidStrings(call) /\ call.s1 \in Nat /\ call.s2 \in Nat /\ N \in Nat /\ N >= 2
      /\ src1 \in Nat /\ src1 >= call.s1 /\ src1 - call.s1 \in Nat
      /\ strcmp!off2 = call.s2 - call.s1 /\ strcmp!off2 \in Int
      /\ Alike(src1 - call.s1)
  BY StrcmpIs
<1>2. k \in Nat /\ Alike(k) /\ src1 = call.s1 + k /\ p = call.s2 + k /\ p \in Nat
  BY <1>1
<1>3. o = strcmp!off2 % N
  <2>1. src1 \in Int /\ strcmp!off2 \in Int
    BY <1>1
  <2>. QED
    BY <2>1, ModAdd
<1>4. N > 0 /\ p \in Int
  BY <1>1, <1>2
<1>5. o \in 1 .. (N - 1) /\ p - o \in Nat /\ (p - o) % N = 0
  <2>1. PICK g \in Nat : g = p - (p % N) /\ g % N = 0 /\ p % N \in 0 .. (N - 1)
    BY <1>1, <1>2, <1>4, StartIs
  <2>. QED
    BY <1>1, <1>3, <2>1
<1>6. (p + N) % N = o
  BY <1>1, <1>4, ModPlus
<1>7. (-p) % N = N - o
  BY <1>4, <1>5, NegMod
<1>8. AheadOf(p) = p + (N - o) /\ AheadOf(p) = (p - o) + N
  BY <1>1, <1>2, <1>5, <1>7 DEF AheadOf
<1>9. AheadOf(p) % N = 0
  BY <1>1, <1>4, <1>5, <1>8, ModPlus
<1>10. AheadOf(p + N) = AheadOf(p) + N
  <2>1. (-(p + N)) % N = N - o
    <3>1. p + N \in Int
      BY <1>1, <1>2
    <3>. QED
      BY <1>5, <1>6, <3>1, NegMod
  <2>2. p + N + (N - o) = p + (N - o) + N
    BY <1>1, <1>2, <1>5
  <2>. QED
    BY <1>8, <2>1, <2>2 DEF AheadOf
<1>11. /\ strcmp!shift \in Int /\ strcmp!shift % (8 * N) = 8 * (N - o)
       /\ (-strcmp!shift) % (8 * N) = 8 * o
  <2>1. strcmp!shift = strcmp!Shift(strcmp!off2)
    BY DEF strcmp!shift
  <2>2. /\ strcmp!shift \in Int
        /\ strcmp!shift = IF strcmp!off2 % N = 0 THEN 0 ELSE 8 * (N - (strcmp!off2 % N))
        /\ strcmp!shift % (8 * N) = strcmp!shift
        /\ (-strcmp!shift) % (8 * N) = 8 * (strcmp!off2 % N)
    BY <1>1, <2>1, ShiftIs
  <2>. QED
    BY <1>3, <2>2
<1>12. /\ call.s1 + k <= Nul(call.s1) /\ call.s2 + k <= Nul(call.s2)
       /\ Nul(call.s1) \in Nat /\ Nul(call.s2) \in Nat
  BY <1>1, <1>2, AlikeReaches, NulIs
<1>. QED
  BY <1>1, <1>2, <1>3, <1>5, <1>6, <1>8, <1>9, <1>10, <1>11, <1>12

\* The aligned words of the second string, when src1 is advanced by a word.
LEMMA StrcmpPlaceKept ==
    ASSUME strcmp!IInv, call' = call, src1' \in {src1, src1 + N}, src1 % N = 0,
           strcmp!off2 % N # 0, pc' \in {"loop_unaligned", "tail", "end"}
    PROVE  strcmp!PlaceInv'
<1>1. /\ N \in Nat /\ N >= 2 /\ src1 \in Nat /\ src1 >= call.s1 /\ call.s1 \in Nat
  BY StrcmpIs
<1>2. strcmp!off2' = strcmp!off2 /\ strcmp!N' = N
  BY StrcmpSimd DEF strcmp!off2, strcmp!N
<1>3. src1' % N = 0 /\ src1' \in Nat /\ src1' >= call.s1
  <2>1. CASE src1' = src1
    BY <1>1, <2>1
  <2>2. CASE src1' = src1 + N
    <3>1. src1 \in Int /\ N > 0
      BY <1>1
    <3>2. (src1 + N) % N = src1 % N
      BY <1>1, <3>1, ModPlus
    <3>. QED
      BY <1>1, <2>2, <3>2
  <2>. QED
    BY <2>1, <2>2
<1>. QED
  BY <1>2, <1>3 DEF strcmp!PlaceInv

\* The first aligned word of the second string, filled.
LEMMA FilledIs ==
    ASSUME NEW a \in Int, NEW o \in 1 .. (N - 1), NEW n \in Int, n % (8 * N) = 8 * (N - o),
           NEW i \in 0 .. (N - 1), NEW D, D = strcmp!Filled(RevBE(Ldr(a)), n)
    PROVE  /\ D \in SUBSET XBits
           /\ i < o => LowBits(D, i) # {}
           /\ i >= o => LowBits(D, i) = BitsOf(m[a + i])
<1>1. N - o \in 0 .. (N - 1) /\ o \in Nat /\ N \in Nat
  BY WordSize
<1>2. Zeroones \in SUBSET XBits /\ \A j \in 0 .. (N - 1) : 0 \in LowBits(Zeroones, j)
  <2>1. ASSUME NEW j \in 0 .. (N - 1)
        PROVE  8 * j + 0 \in XBits /\ 8 * j + 0 \in Zeroones /\ 0 \in 0 .. 7
    BY <1>1, BitOfWord DEF Zeroones
  <2>2. \A j \in 0 .. (N - 1) : 8 * j + 0 = 8 * j
    BY <1>1
  <2>. QED
    BY <2>1, <2>2 DEF LowBits, Zeroones
<1>3. /\ lsr(Zeroones, n) \in SUBSET XBits
      /\ LowBits(lsr(Zeroones, n), i)
           = IF i + (N - o) < N THEN LowBits(Zeroones, i + (N - o)) ELSE {}
  BY <1>1, <1>2, LowLsr
<1>4. Ldr(a) \in SUBSET XBits /\ Bits(Ldr(a), i) = BitsOf(m[a + i])
  BY BitsLdr
<1>5. RevBE(Ldr(a)) \in SUBSET XBits /\ LowBits(RevBE(Ldr(a)), i) = BitsOf(m[a + i])
  BY <1>4, BitsRevBE
<1>0. D = RevBE(Ldr(a)) \cup lsr(Zeroones, n)
  BY StrcmpSimd DEF strcmp!Filled
<1>6. LowBits(D, i) = LowBits(RevBE(Ldr(a)), i) \cup LowBits(lsr(Zeroones, n), i)
  BY <1>0 DEF LowBits
<1>7. ASSUME i < o
      PROVE  LowBits(D, i) # {}
  <2>1. i + (N - o) \in 0 .. (N - 1) /\ i + (N - o) < N
    BY <1>1, <1>7
  <2>2. 0 \in LowBits(lsr(Zeroones, n), i)
    BY <1>2, <1>3, <2>1
  <2>. QED
    BY <1>6, <2>2
<1>8. ASSUME i >= o
      PROVE  LowBits(D, i) = BitsOf(m[a + i])
  <2>1. ~(i + (N - o) < N)
    BY <1>1, <1>8
  <2>2. LowBits(lsr(Zeroones, n), i) = {}
    BY <1>3, <2>1
  <2>. QED
    BY <1>5, <1>6, <2>2
<1>9. D \in SUBSET XBits
  BY <1>0, <1>3, <1>5
<1>. QED
  BY <1>7, <1>8, <1>9

\* The word has a NUL from the place p on.
LEMMA TailFound ==
    ASSUME NEW D \in SUBSET XBits, NEW p, NEW o, NEW a, p % N = o, p - o = a,
           NEW H, H = HasZero(D),
           NEW f \in o .. (N - 1), LowBits(D, f) = {}, \A i \in 0 .. (f - 1) : LowBits(D, i) # {},
           \A i \in o .. f : LowBits(D, i) = BitsOf(m[a + i])
    PROVE  TailOf(D, H, p)
BY DEF TailOf

\* strcmp: the first aligned word of the second string.
LEMMA StrcmpSrc1Aligned ==
    ASSUME strcmp!IInv, strcmp!Src1Aligned
    PROVE  strcmp!IInv'
<1> DEFINE k == src1 - call.s1
           p == src1 + strcmp!off2
           o == p % N
           a == p - o
           n == strcmp!Shift(p)
<1>1. /\ pc = "src1_aligned" /\ src2 = p /\ src1 % N = 0 /\ strcmp!off2 % N # 0
      /\ call' = call /\ src1' = src1 /\ rd1' = {} /\ rd2' = Chunk(a, N)
      /\ data1' = data1 /\ data2' = data2 /\ syndrome' = syndrome
      /\ data3' = strcmp!Filled(RevBE(Ldr(a)), n)
      /\ has_nul' = HasZero(data3')
      /\ pc' = IF has_nul' # {} THEN "tail" ELSE "loop_unaligned"
  BY StrcmpSimd, StrcmpNames
     DEF strcmp!IInv, strcmp!PlaceInv, strcmp!Place2, strcmp!Src1Aligned
<1>2. /\ ValidStrings(call) /\ N \in Nat /\ N >= 2 /\ k \in Nat /\ Alike(k)
      /\ call.s1 \in Nat /\ call.s2 \in Nat
      /\ src1 = call.s1 + k /\ p = call.s2 + k /\ p \in Nat
      /\ o \in 1 .. (N - 1) /\ a \in Nat /\ a % N = 0
      /\ AheadOf(p) = a + N
      /\ call.s2 + k <= Nul(call.s2) /\ Nul(call.s2) \in Nat
  <2>1. pc \notin {"end", "ret"}
    BY <1>1
  <2>. QED
    BY <1>1, <2>1, StrcmpPlace
<1>3. n \in Int /\ n % (8 * N) = 8 * (N - o)
  <2>1. p \in Int /\ o # 0
    BY <1>2
  <2>. QED
    BY <2>1, ShiftIs
<1>4. RegistersInv /\ strcmp!off2 = call.s2 - call.s1
  BY StrcmpIs
<1> HIDE DEF k, n
<1>5. /\ rd2' \subseteq Granules(call.s2, Nul(call.s2))
      /\ \A i \in 0 .. (N - 1) : a + i \in DOMAIN m
  <2>1. a <= call.s2 + k /\ call.s2 + k < a + N /\ a \in Int
    BY <1>2
  <2>. QED
    BY <1>1, <1>2, <2>1, ChunkOfString
<1>6. /\ data3' \in SUBSET XBits
      /\ \A i \in 0 .. (N - 1) : /\ i < o => LowBits(data3', i) # {}
                                 /\ i >= o => LowBits(data3', i) = BitsOf(m[a + i])
  <2>1. a \in Int /\ 0 \in 0 .. (N - 1)
    BY <1>2
  <2>2. ASSUME NEW i \in 0 .. (N - 1)
        PROVE  /\ data3' \in SUBSET XBits
               /\ i < o => LowBits(data3', i) # {}
               /\ i >= o => LowBits(data3', i) = BitsOf(m[a + i])
    <3>1. /\ o \in 1 .. (N - 1) /\ a \in Int /\ data3' = strcmp!Filled(RevBE(Ldr(a)), n)
          /\ n \in Int /\ n % (8 * N) = 8 * (N - o)
      BY <1>1, <1>2, <1>3, <2>1
    <3> HIDE DEF a, o
    <3>. QED
      BY <3>1, FilledIs
  <2>. QED
    BY <2>1, <2>2
<1>7. /\ has_nul' = {} => \A x \in p .. (AheadOf(p) - 1) : m[x] # 0
      /\ has_nul' # {} => TailOf(data3', has_nul', p)
  <2>1. /\ a \in Int /\ AheadOf(p) - 1 = a + (N - 1) /\ a + o = p /\ p % N = o /\ p - o = a
        /\ o \in 0 .. (N - 1)
    <3>1. p % N = o /\ p - o = a
      OBVIOUS
    <3>2. a \in Int /\ o \in 0 .. (N - 1)
      BY <1>2
    <3> HIDE DEF a, o, p
    <3>3. a + o = p
      BY <1>2, <3>1
    <3>4. AheadOf(p) - 1 = a + (N - 1)
      <4>1. AheadOf(p) = a + N /\ a \in Nat /\ N \in Nat
        BY <1>2
      <4>. QED
        BY <4>1
    <3>. QED
      BY <3>1, <3>2, <3>3, <3>4
  <2>2. WordFrom(data3', o, a)
    <3>1. \A i \in 0 .. (o - 1) : i \in 0 .. (N - 1) /\ i < o
      BY <1>2
    <3>2. \A i \in o .. (N - 1) : i \in 0 .. (N - 1) /\ i >= o
      BY <1>2
    <3> HIDE DEF a, o
    <3>. QED
      BY <1>5, <1>6, <3>1, <3>2 DEF WordFrom
  <2>3. has_nul' = HasZero(data3') /\ data3' \in SUBSET XBits
    BY <1>1, <1>6
  <2>4. \A i, f : f \in o .. (N - 1) /\ i \in o .. f => i \in o .. (N - 1)
    BY <1>2
  <2> HIDE DEF a, o, p
  <2>5. /\ HasZero(data3') = {} => \A x \in (a + o) .. (a + (N - 1)) : m[x] # 0
        /\ HasZero(data3') # {} => \E f \in o .. (N - 1) :
                        /\ LowBits(data3', f) = {}
                        /\ \A i \in 0 .. (f - 1) : LowBits(data3', i) # {}
                        /\ m[a + f] = 0 /\ \A i \in o .. (f - 1) : m[a + i] # 0
    <3>1. ValidStrings(call) /\ o \in 0 .. (N - 1) /\ a \in Int
      BY <1>2, <2>1
    <3>. QED
      BY <2>2, <3>1, NulFrom
  <2>6. ASSUME has_nul' # {}
        PROVE  TailOf(data3', has_nul', p)
    <3>1. PICK f \in o .. (N - 1) :
                 LowBits(data3', f) = {} /\ \A i \in 0 .. (f - 1) : LowBits(data3', i) # {}
      BY <2>3, <2>5, <2>6
    <3>2. \A i \in o .. f : LowBits(data3', i) = BitsOf(m[a + i])
      BY <2>2, <2>4 DEF WordFrom
    <3>3. p % N = o /\ p - o = a
      BY <2>1
    <3>. QED
      BY <2>3, <3>1, <3>2, <3>3, TailFound
  <2>. QED
    BY <2>1, <2>3, <2>5, <2>6
<1>8. strcmp!PlaceInv'
  <2>1. pc' \in {"loop_unaligned", "tail", "end"}
    BY <1>1
  <2>. QED
    BY <1>1, <2>1, StrcmpPlaceKept
<1>9. src1' + (call.s2 - call.s1) = p /\ src1' - call.s1 = k
  BY <1>1, <1>4 DEF k
<1>10. pc' = "loop_unaligned" => LET q == src1' + (call.s2 - call.s1)
                                 IN  \A x \in q .. (AheadOf(q) - 1) : m[x] # 0
  BY <1>1, <1>7, <1>9
<1>11. pc' = "tail" => TailOf(data3', has_nul', src1' + (call.s2 - call.s1))
  BY <1>1, <1>7, <1>9
<1>12. pc' \in {"loop_unaligned", "tail"}
  BY <1>1
<1> HIDE DEF p, o, a
<1>. QED
  BY <1>1, <1>2, <1>4, <1>5, <1>8, <1>9, <1>10, <1>11, <1>12, StrcmpKept DEF strcmp!Labels,
     RegistersInv

\* Where no byte of the second string from p to the next aligned word is a NUL, that word
\* is in the string's granules, and the unaligned word at p too.
LEMMA WordsAhead ==
    ASSUME ValidStrings(call), NEW k \in Nat, Alike(k), NEW p, p = call.s2 + k,
           NEW o \in 1 .. (N - 1), NEW A \in Nat, A = p + (N - o), A % N = 0,
           \A x \in p .. (A - 1) : m[x] # 0
    PROVE  /\ Chunk(A, N) \subseteq Granules(call.s2, Nul(call.s2))
           /\ Chunk(p, N) \subseteq Granules(call.s2, Nul(call.s2))
           /\ \A i \in 0 .. (N - 1) : A + i \in DOMAIN m /\ p + i \in DOMAIN m
<1>1. /\ N \in Nat /\ N >= 2 /\ call.s2 \in Nat /\ p \in Nat /\ N \in {N, W}
      /\ Nul(call.s2) \in Nat /\ m[Nul(call.s2)] = 0 /\ Nul(call.s2) \in DOMAIN m
  <2>1. N \in Nat /\ N >= 2 /\ call.s2 \in Nat
    BY WordSize, MemoryIs
  <2>2. Nul(call.s2) \in Nat /\ m[Nul(call.s2)] = 0 /\ Nul(call.s2) \in DOMAIN m
    BY NulIs
  <2>. QED
    BY <2>1, <2>2
<1>2. p <= Nul(call.s2) /\ call.s2 <= p
  BY <1>1, AlikeReaches
<1>3. A <= Nul(call.s2) /\ p <= A
  <2>1. ~(Nul(call.s2) \in p .. (A - 1))
    BY <1>1
  <2>. QED
    BY <1>1, <1>2, <2>1
<1>4. PICK l \in Nat : DOMAIN m = 0 .. l
  BY MemoryIs
<1>5. A \in DOMAIN m /\ A \in Int /\ A <= A /\ A < A + N /\ call.s2 <= A
  <2>1. A \in DOMAIN m
    BY <1>1, <1>3, <1>4
  <2>2. A \in Int /\ A <= A /\ A < A + N
    BY <1>1
  <2>3. call.s2 <= A
    BY <1>1, <1>2, <1>3
  <2>. QED
    BY <2>1, <2>2, <2>3
<1>6. Chunk(A, N) \subseteq DOMAIN m
  BY <1>1, <1>5, ChunkInMemory
<1>7. Chunk(A, N) \subseteq Granules(call.s2, Nul(call.s2))
  BY <1>1, <1>3, <1>5, ChunkIn
<1>8. \A i \in 0 .. (N - 1) : A + i \in Chunk(A, N)
  BY <1>1 DEF Chunk
<1>9. A + (N - 1) \in DOMAIN m /\ A + (N - 1) \in Granules(call.s2, Nul(call.s2))
  <2>1. N - 1 \in 0 .. (N - 1)
    BY <1>1
  <2>. QED
    BY <1>6, <1>7, <1>8, <2>1
<1>10. p \in Granules(call.s2, Nul(call.s2))
  BY <1>1, <1>2, BytesIn
<1>11. ASSUME NEW x \in Chunk(p, N)
       PROVE  p <= x /\ x <= A + (N - 1) /\ x \in Int
  BY <1>1 DEF Chunk
<1>12. \A i \in 0 .. (N - 1) : p + i \in DOMAIN m
  <2>1. ASSUME NEW i \in 0 .. (N - 1) PROVE p + i <= A + (N - 1) /\ p + i \in Nat
    BY <1>1, <1>3
  <2>. QED
    BY <1>4, <1>9, <2>1
<1>13. Chunk(p, N) \subseteq Granules(call.s2, Nul(call.s2))
  <2> DEFINE L == call.s2 - (call.s2 % W)
             R == (Nul(call.s2) - (Nul(call.s2) % W)) + W - 1
  <2>1. L \in Int /\ R \in Int
    <3>1. call.s2 % W \in Int /\ Nul(call.s2) % W \in Int /\ W \in Nat
      BY <1>1, WordSize, DivMod
    <3>. QED
      BY <1>1, <3>1
  <2>2. Granules(call.s2, Nul(call.s2)) = L .. R
    BY DEF Granules
  <2> HIDE DEF L, R
  <2>3. L <= p /\ A + (N - 1) <= R
    BY <1>9, <1>10, <2>2
  <2>4. p \in Int /\ A + (N - 1) \in Int
    BY <1>1
  <2>5. ASSUME NEW x \in Chunk(p, N)
        PROVE  x \in L .. R
    <3>1. p <= x /\ x <= A + (N - 1) /\ x \in Int
      BY <1>11
    <3>. QED
      BY <2>1, <2>3, <2>4, <3>1
  <2>. QED
    BY <2>2, <2>5
<1>. QED
  BY <1>6, <1>7, <1>8, <1>12, <1>13

\* The marks of the NULs of the word at A, shifted to where they are in the word at p.
LEMMA MarksAhead ==
    ASSUME ValidStrings(call), NEW p \in Nat, NEW A \in Nat, A - p \in 1 .. (N - 1),
           \A x \in p .. (A - 1) : m[x] # 0,
           \A i \in 0 .. (N - 1) : p + i \in DOMAIN m,
           NEW n \in Int, n % (8 * N) = 8 * (A - p),
           NEW H, H = HasZero(RevBE(Ldr(A)))
    PROVE  /\ MarksNuls(RevBE(lsl(H, n)), Ldr(p)) /\ RevBE(lsl(H, n)) \in SUBSET XBits
           /\ H = {} => \A f \in 0 .. (N - 1) : Bits(RevBE(lsl(H, n)), f) = {}
<1> DEFINE D == RevBE(Ldr(A))
           j == A - p
<1>1. N \in Nat /\ N >= 2 /\ j \in 1 .. (N - 1) /\ j \in 0 .. (N - 1) /\ A = p + j
  BY WordSize
<1>2. Ldr(A) \in SUBSET XBits /\ \A i \in 0 .. (N - 1) : Bits(Ldr(A), i) = BitsOf(m[A + i])
  BY BitsLdr
<1>3. Ldr(p) \in SUBSET XBits /\ \A i \in 0 .. (N - 1) : Bits(Ldr(p), i) = BitsOf(m[p + i])
  BY BitsLdr
<1>4. \A i \in 0 .. (N - 1) : LowBits(D, i) = BitsOf(m[A + i])
  BY <1>2, BitsRevBE
<1>5. H = HasZero(D)
  OBVIOUS
<1> HIDE DEF D, j
<1>6. /\ H \in SUBSET XBits
      /\ \A g \in 0 .. (N - 1) : (\A i \in 0 .. (g - 1) : LowBits(D, i) # {})
            => LowBits(H, g) = IF LowBits(D, g) = {} THEN {7} ELSE {}
  BY <1>5, HasZeroMark
<1>7. /\ lsl(H, n) \in SUBSET XBits
      /\ \A f \in 0 .. (N - 1) : LowBits(lsl(H, n), f) = IF f >= j THEN LowBits(H, f - j) ELSE {}
  <2>1. n % (8 * N) = 8 * j
    BY DEF j
  <2>. QED
    BY <1>1, <1>6, <2>1, LowLsl
<1>8. /\ RevBE(lsl(H, n)) \in SUBSET XBits
      /\ \A f \in 0 .. (N - 1) : Bits(RevBE(lsl(H, n)), f) = LowBits(lsl(H, n), f)
  BY <1>1, <1>7, BitsRevBE
<1>9. ASSUME NEW f \in 0 .. (N - 1), \A i \in 0 .. (f - 1) : Bits(Ldr(p), i) # {}
      PROVE  LowBits(lsl(H, n), f) = IF Bits(Ldr(p), f) = {} THEN {7} ELSE {}
  <2>1. CASE f < j
    <3>1. m[p + f] # 0
      <4>1. p + f \in p .. (A - 1)
        BY <1>1, <2>1
      <4>. QED
        BY <4>1
    <3>2. m[p + f] \in 0 .. 255
      BY MemoryIs
    <3>3. Bits(Ldr(p), f) # {}
      BY <1>3, <3>1, <3>2, NumberOfBits
    <3>4. ~(f >= j)
      BY <1>1, <2>1
    <3>. QED
      BY <1>7, <3>3, <3>4
  <2>2. CASE ~(f < j)
    <3> DEFINE g == f - j
    <3>1. g \in 0 .. (N - 1) /\ f >= j /\ A + g = p + f
      BY <1>1, <2>2
    <3>2. ASSUME NEW i \in 0 .. (g - 1)
          PROVE  LowBits(D, i) # {}
      <4>1. i \in 0 .. (N - 1) /\ j + i \in 0 .. (f - 1) /\ j + i \in 0 .. (N - 1)
            /\ A + i = p + (j + i)
        BY <1>1, <2>2
      <4>. QED
        BY <1>3, <1>4, <1>9, <4>1
    <3>3. LowBits(D, g) = Bits(Ldr(p), f)
      BY <1>3, <1>4, <3>1
    <3> HIDE DEF g
    <3>4. LowBits(H, g) = IF LowBits(D, g) = {} THEN {7} ELSE {}
      BY <1>6, <3>1, <3>2
    <3>5. LowBits(lsl(H, n), f) = LowBits(H, g)
      BY <1>7, <3>1 DEF g
    <3>. QED
      BY <3>3, <3>4, <3>5
  <2>. QED
    BY <2>1, <2>2
<1>10. ASSUME H = {}, NEW f \in 0 .. (N - 1)
       PROVE  LowBits(lsl(H, n), f) = {}
  BY <1>7, <1>10 DEF LowBits
<1>. QED
  BY <1>8, <1>9, <1>10 DEF MarksNuls

\* strcmp: a word of the first string and an unaligned one of the second, whose NULs are
\* looked for a word ahead.
LEMMA StrcmpLoopUnaligned ==
    ASSUME strcmp!IInv, strcmp!LoopUnaligned
    PROVE  strcmp!IInv'
<1> DEFINE k == src1 - call.s1
           p == src1 + strcmp!off2
           o == p % N
           A == AheadOf(p)
           n == strcmp!shift
           Z == RevBE(lsl(has_nul', n))
<1>1. /\ pc = "loop_unaligned" /\ src1 % N = 0 /\ strcmp!off2 % N # 0
      /\ call' = call /\ src1' = src1 + N /\ rd1' = Chunk(src1, N)
      /\ rd2' = Chunk(A, N) \cup Chunk(p, N)
      /\ data3' = RevBE(Ldr(A)) /\ has_nul' = HasZero(data3')
      /\ data1' = Ldr(src1) /\ data2' = Ldr(p)
      /\ syndrome' = SymmetricDiff(data1', data2') \cup Z
      /\ pc' = CASE has_nul' = {} /\ data1' = data2' -> "loop_unaligned"
                 [] syndrome' # {} -> "end"
                 [] has_nul' # {} /\ syndrome' = {} -> "tail"
  BY StrcmpSimd, StrcmpNames
     DEF strcmp!IInv, strcmp!PlaceInv, strcmp!LoopUnaligned, strcmp!Ahead, AheadOf
<1>2. /\ ValidStrings(call) /\ N \in Nat /\ N >= 2 /\ k \in Nat /\ Alike(k)
      /\ call.s1 \in Nat /\ call.s2 \in Nat
      /\ src1 = call.s1 + k /\ p = call.s2 + k /\ p \in Nat
      /\ o \in 1 .. (N - 1) /\ (p + N) % N = o
      /\ A = p + (N - o) /\ A % N = 0 /\ AheadOf(p + N) = A + N
      /\ n \in Int /\ n % (8 * N) = 8 * (N - o)
      /\ call.s1 + k <= Nul(call.s1) /\ Nul(call.s1) \in Nat
  <2>1. pc \notin {"end", "ret"}
    BY <1>1
  <2>. QED
    BY <1>1, <2>1, StrcmpPlace
<1>3. strcmp!off2 = call.s2 - call.s1
  BY StrcmpIs
<1>4. \A x \in p .. (A - 1) : m[x] # 0
  BY <1>1, StrcmpSimd, StrcmpNames DEF strcmp!IInv, strcmp!PassedInv, strcmp!Place2,
     strcmp!Ahead, AheadOf
<1> HIDE DEF k, p, o, A, n
<1>5. A \in Nat /\ A \in Int /\ p \in Int /\ src1 \in Int /\ N > 0 /\ k \in Int
  BY <1>2
<1>6. /\ rd2' \subseteq Granules(call.s2, Nul(call.s2))
      /\ \A i \in 0 .. (N - 1) : A + i \in DOMAIN m /\ p + i \in DOMAIN m
  BY <1>1, <1>2, <1>4, <1>5, WordsAhead
<1>7. /\ rd1' \subseteq Granules(call.s1, Nul(call.s1))
      /\ \A i \in 0 .. (N - 1) : src1 + i \in DOMAIN m
  <2>1. src1 <= call.s1 + k /\ call.s1 + k < src1 + N
    BY <1>2, <1>5
  <2>. QED
    BY <1>1, <1>2, <1>5, <2>1, ChunkOfString
<1> DEFINE d1 == Ldr(src1)
           d2 == Ldr(p)
<1>8. /\ d1 \in SUBSET XBits /\ \A i \in 0 .. (N - 1) : Bits(d1, i) = BitsOf(m[src1 + i])
      /\ d2 \in SUBSET XBits /\ \A i \in 0 .. (N - 1) : Bits(d2, i) = BitsOf(m[p + i])
  BY BitsLdr
<1>9. data1' = d1 /\ data2' = d2
  BY <1>1
<1>10. /\ MarksNuls(Z, d2) /\ Z \in SUBSET XBits
       /\ has_nul' = {} => \A f \in 0 .. (N - 1) : Bits(Z, f) = {}
  <2>1. has_nul' = HasZero(RevBE(Ldr(A)))
    BY <1>1
  <2>2. \A i \in 0 .. (N - 1) : p + i \in DOMAIN m
    BY <1>6
  <2>3. A - p \in 1 .. (N - 1) /\ A - p = N - o
    BY <1>2, <1>5
  <2>4. ValidStrings(call) /\ n \in Int /\ n % (8 * N) = 8 * (A - p) /\ p \in Nat /\ A \in Nat
    BY <1>2, <1>5, <2>3
  <2>. QED
    BY <1>4, <2>1, <2>2, <2>3, <2>4, MarksAhead
<1> HIDE DEF d1, d2, Z
<1>11. \A i \in 0 .. (N - 1) : Holds(d1, d2, k, i)
  <2>1. \A i \in 0 .. (N - 1) : ~(k + i < 0)
    BY <1>2
  <2>2. 0 \in Nat /\ call.s1 \in Nat /\ call.s2 \in Nat /\ src1 = call.s1 + k /\ p = call.s2 + k
    BY <1>2
  <2>. QED
    BY <1>5, <1>6, <1>7, <1>8, <2>1, <2>2, HoldsOf
<1>12. syndrome' = SymmetricDiff(d1, d2) \cup Z
  BY <1>1, <1>9
<1>13. /\ syndrome' \in SUBSET XBits
       /\ syndrome' = {} => NoneDecides(d1, d2, syndrome', k, 0, N)
       /\ syndrome' # {} => \E f \in 0 .. (N - 1) : OneDecides(d1, d2, syndrome', k, 0, f)
  <2>1. ValidStrings(call) /\ Alike(k) /\ k \in Int /\ d1 \in SUBSET XBits /\ d2 \in SUBSET XBits
    BY <1>2, <1>5, <1>8
  <2>2. SyndromeOf(syndrome', d1, d2, Z)
    BY <1>12 DEF SyndromeOf
  <2>. QED
    BY <1>10, <1>11, <2>1, <2>2, MarksCompared
<1>14. has_nul' = {} /\ d1 = d2 => syndrome' = {}
  <2>1. ASSUME has_nul' = {}
        PROVE  Z = {}
    <3>1. {} \in SUBSET XBits
      OBVIOUS
    <3>2. \A i \in 0 .. (N - 1) : Bits(Z, i) = Bits({}, i)
      BY <1>10, <2>1, BitsOps
    <3>. QED
      BY <1>10, <3>1, <3>2, SameBits
  <2>. QED
    BY <1>12, <2>1 DEF SymmetricDiff
<1>15. d1 # d2 => syndrome' # {}
  BY <1>12 DEF SymmetricDiff
<1>16. /\ pc' \in {"loop_unaligned", "end", "tail"}
       /\ pc' = "end" => syndrome' # {}
       /\ pc' = "loop_unaligned" => syndrome' = {} /\ has_nul' = {}
       /\ pc' = "tail" => syndrome' = {} /\ has_nul' # {}
  BY <1>1, <1>9, <1>14, <1>15
<1>17. WordFrom(data3', 0, A)
  <2>1. Ldr(A) \in SUBSET XBits /\ \A i \in 0 .. (N - 1) : Bits(Ldr(A), i) = BitsOf(m[A + i])
    BY BitsLdr
  <2>2. 0 \in 0 .. (N - 1) /\ \A i \in 0 .. (0 - 1) : FALSE
    BY <1>2
  <2>3. RevBE(Ldr(A)) \in SUBSET XBits
        /\ \A i \in 0 .. (N - 1) : LowBits(RevBE(Ldr(A)), i) = BitsOf(m[A + i])
    BY <2>1, <2>2, BitsRevBE
  <2>. QED
    BY <1>1, <1>6, <2>2, <2>3 DEF WordFrom
<1>18. /\ has_nul' = {} => \A x \in (A + 0) .. (A + (N - 1)) : m[x] # 0
       /\ has_nul' # {} => \E f \in 0 .. (N - 1) :
                             /\ LowBits(data3', f) = {}
                             /\ \A i \in 0 .. (f - 1) : LowBits(data3', i) # {}
                             /\ m[A + f] = 0 /\ \A i \in 0 .. (f - 1) : m[A + i] # 0
  <2>1. 0 \in 0 .. (N - 1) /\ has_nul' = HasZero(data3') /\ ValidStrings(call) /\ A \in Int
    BY <1>1, <1>2, <1>5
  <2>. QED
    BY <1>17, <2>1, NulFrom
<1>19. ASSUME pc' = "loop_unaligned"
       PROVE  \A x \in (p + N) .. (AheadOf(p + N) - 1) : m[x] # 0
  <2>1. \A x \in (p + N) .. (AheadOf(p + N) - 1) : x \in (A + 0) .. (A + (N - 1))
    <3>1. AheadOf(p + N) - 1 = A + (N - 1) /\ A <= p + N /\ N \in Nat
      BY <1>2, <1>5
    <3>. QED
      BY <1>5, <3>1
  <2>. QED
    BY <1>16, <1>18, <1>19, <2>1
<1>20. syndrome' = {} => Alike(k + N) /\ \A i \in 0 .. (N - 1) : Bits(d2, i) # {}
  <2>1. ASSUME syndrome' = {}
        PROVE  Alike(k + N) /\ \A i \in 0 .. (N - 1) : Bits(d2, i) # {}
    <3>1. NoneDecides(d1, d2, syndrome', k, 0, N)
      BY <1>13, <2>1
    <3>. QED
      BY <3>1 DEF NoneDecides, Clear
  <2>. QED
    BY <2>1
<1>21. ASSUME pc' = "tail"
       PROVE  TailOf(data3', has_nul', p + N)
  <2>1. PICK f \in 0 .. (N - 1) : /\ LowBits(data3', f) = {} /\ \A i \in 0 .. (f - 1) : LowBits(data3', i) # {}
                                  /\ m[A + f] = 0
    BY <1>16, <1>18, <1>21
  <2>2. f >= o
    <3>1. ASSUME f < o PROVE FALSE
      <4> DEFINE g == (N - o) + f
      <4>1. g \in 0 .. (N - 1) /\ p + g = A + f
        BY <1>2, <3>1
      <4>2. Bits(d2, g) = BitsOf(0)
        BY <1>8, <2>1, <4>1
      <4>3. BitsOf(0) = {}
        BY NumberOfBits
      <4> HIDE DEF g
      <4>4. Bits(d2, g) # {}
        BY <1>16, <1>20, <1>21, <4>1
      <4>. QED
        BY <4>2, <4>3, <4>4
    <3>. QED
      BY <1>2, <3>1
  <2>3. f \in o .. (N - 1)
    BY <1>2, <2>2
  <2>4. (p + N) % N = o /\ (p + N) - o = A
    BY <1>2, <1>5
  <2>5. \A i \in o .. f : LowBits(data3', i) = BitsOf(m[A + i])
    <3>1. \A i \in o .. f : i \in 0 .. (N - 1)
      BY <1>2
    <3>. QED
      BY <1>17, <3>1 DEF WordFrom
  <2>6. data3' \in SUBSET XBits /\ has_nul' = HasZero(data3')
    BY <1>1, <1>17 DEF WordFrom
  <2>. QED
    BY <2>1, <2>3, <2>4, <2>5, <2>6, TailFound
<1>22. pc' = "end" => \E f \in 0 .. (N - 1) :
                         /\ FirstMarkOf(syndrome', data1', data2', f)
                         /\ Sign(Octet(data1', f) - Octet(data2', f)) = strcmp!Answer
  <2>1. ASSUME pc' = "end"
        PROVE  \E f \in 0 .. (N - 1) :
                         /\ FirstMarkOf(syndrome', data1', data2', f)
                         /\ Sign(Octet(data1', f) - Octet(data2', f)) = strcmp!Answer
    <3>1. PICK f \in 0 .. (N - 1) : OneDecides(d1, d2, syndrome', k, 0, f)
      BY <1>13, <1>16, <2>1
    <3>. QED
      BY <1>2, <1>5, <1>9, <3>1, StrcmpDecides
  <2>. QED
    BY <2>1
<1>23. strcmp!PlaceInv'
  <2>1. src1' \in {src1, src1 + N}
    BY <1>1
  <2>. QED
    BY <1>1, <1>16, <2>1, StrcmpPlaceKept
<1>24. src1' + (call.s2 - call.s1) = p + N /\ src1' - call.s1 = k + N
  BY <1>1, <1>2, <1>3, <1>5
<1>25. /\ pc' = "loop_unaligned" => LET q == src1' + (call.s2 - call.s1)
                                    IN  \A x \in q .. (AheadOf(q) - 1) : m[x] # 0
       /\ pc' = "tail" => TailOf(data3', has_nul', src1' + (call.s2 - call.s1))
       /\ pc' \notin {"end", "ret"} => Alike(src1' - call.s1)
  BY <1>16, <1>19, <1>20, <1>21, <1>24
<1>26. data1' \subseteq XBits /\ data2' \subseteq XBits /\ syndrome' \subseteq XBits
  BY <1>8, <1>9, <1>13
<1>27. pc' \in strcmp!Labels /\ pc' # "ret"
  BY <1>16 DEF strcmp!Labels
<1>. QED
  BY <1>1, <1>2, <1>6, <1>7, <1>22, <1>23, <1>25, <1>26, <1>27, StrcmpKept

NulAt(D, o, f) == /\ f \in o .. (N - 1)
                  /\ LowBits(D, f) = {} /\ \A i \in 0 .. (f - 1) : LowBits(D, i) # {}

\* What remains of the aligned word, from its byte o on, with its first NUL at byte f, and
\* the marks of its NULs.
LEMMA Remains ==
    ASSUME NEW D \in SUBSET XBits, NEW o \in 1 .. (N - 1), NEW n \in Int, n % (8 * N) = 8 * o,
           NEW f, NulAt(D, o, f), NEW d, d = RevBE(lsr(D, n)), NEW Z, Z = RevBE(lsr(HasZero(D), n))
    PROVE  /\ d \in SUBSET XBits /\ Z \in SUBSET XBits /\ MarksNuls(Z, d)
           /\ \A i \in 0 .. (f - o) : Bits(d, i) = LowBits(D, o + i)
           /\ Bits(d, f - o) = {}
<1>1. /\ N \in Nat /\ o \in 0 .. (N - 1) /\ f \in o .. (N - 1)
      /\ LowBits(D, f) = {} /\ \A i \in 0 .. (f - 1) : LowBits(D, i) # {}
  BY WordSize DEF NulAt
<1>2. /\ lsr(D, n) \in SUBSET XBits
      /\ \A i \in 0 .. (N - 1) : LowBits(lsr(D, n), i) = IF i + o < N THEN LowBits(D, i + o) ELSE {}
  BY <1>1, LowLsr
<1>3. HasZero(D) \in SUBSET XBits
  BY HasZeroMark
<1>4. /\ lsr(HasZero(D), n) \in SUBSET XBits
      /\ \A i \in 0 .. (N - 1) : LowBits(lsr(HasZero(D), n), i)
                                = IF i + o < N THEN LowBits(HasZero(D), i + o) ELSE {}
  BY <1>1, <1>3, LowLsr
<1>5. d \in SUBSET XBits /\ \A i \in 0 .. (N - 1) : Bits(d, i) = LowBits(lsr(D, n), i)
  BY <1>1, <1>2, BitsRevBE
<1>6. Z \in SUBSET XBits /\ \A i \in 0 .. (N - 1) : Bits(Z, i) = LowBits(lsr(HasZero(D), n), i)
  BY <1>1, <1>4, BitsRevBE
<1>7. ASSUME NEW i \in 0 .. (f - o)
      PROVE  /\ Bits(d, i) = LowBits(D, o + i) /\ Bits(Z, i) = LowBits(HasZero(D), o + i)
             /\ i \in 0 .. (N - 1) /\ o + i \in 0 .. f /\ o + i \in 0 .. (N - 1)
  <2>1. i \in 0 .. (N - 1) /\ i + o < N /\ i + o = o + i /\ o + i \in 0 .. f
        /\ o + i \in 0 .. (N - 1)
    BY <1>1
  <2>. QED
    BY <1>2, <1>4, <1>5, <1>6, <2>1
<1>8. Bits(d, f - o) = {} /\ f - o \in 0 .. (f - o)
  <2>1. f - o \in 0 .. (f - o) /\ o + (f - o) = f
    BY <1>1
  <2>. QED
    BY <1>1, <1>7, <2>1
<1>9. ASSUME NEW g \in 0 .. (N - 1), \A i \in 0 .. (g - 1) : Bits(d, i) # {}
      PROVE  Bits(Z, g) = IF Bits(d, g) = {} THEN {7} ELSE {}
  <2>1. ~(f - o \in 0 .. (g - 1))
    BY <1>8, <1>9
  <2>2. g \in 0 .. (f - o)
    BY <1>1, <2>1
  <2>3. ASSUME NEW i \in 0 .. ((o + g) - 1)
        PROVE  LowBits(D, i) # {}
    <3>1. i \in 0 .. (f - 1)
      BY <1>1, <2>2
    <3>. QED
      BY <1>1, <3>1
  <2>4. LowBits(HasZero(D), o + g) = IF LowBits(D, o + g) = {} THEN {7} ELSE {}
    <3>1. o + g \in 0 .. (N - 1)
      BY <1>7, <2>2
    <3>. QED
      BY <2>3, <3>1, HasZeroMark
  <2>. QED
    BY <1>7, <2>2, <2>4
<1>. QED
  BY <1>5, <1>6, <1>7, <1>8, <1>9 DEF MarksNuls

\* strcmp: the last bytes of the second string are what is left of data3.
LEMMA StrcmpTail ==
    ASSUME strcmp!IInv, strcmp!Tail
    PROVE  strcmp!IInv'
<1> DEFINE k == src1 - call.s1
           p == src1 + strcmp!off2
           o == p % N
           a == p - o
           n == -strcmp!shift
           Z == RevBE(lsr(has_nul, n))
           d1 == Ldr(src1)
           d2 == RevBE(lsr(data3, n))
<1>1. /\ pc = "tail" /\ src1 % N = 0 /\ strcmp!off2 % N # 0
      /\ call' = call /\ src1' = src1 /\ rd1' = Chunk(src1, N) /\ rd2' = {}
      /\ data1' = d1 /\ data2' = d2
      /\ syndrome' = SymmetricDiff(data1', data2') \cup Z
      /\ pc' = "end"
  BY StrcmpSimd, StrcmpNames DEF strcmp!IInv, strcmp!PlaceInv, strcmp!Tail
<1>2. /\ ValidStrings(call) /\ N \in Nat /\ N >= 2 /\ k \in Nat /\ Alike(k)
      /\ call.s1 \in Nat /\ call.s2 \in Nat
      /\ src1 = call.s1 + k /\ p = call.s2 + k /\ p \in Nat
      /\ o \in 1 .. (N - 1) /\ a \in Nat /\ a % N = 0
      /\ strcmp!shift \in Int /\ n % (8 * N) = 8 * o
      /\ call.s1 + k <= Nul(call.s1) /\ Nul(call.s1) \in Nat
      /\ call.s2 + k <= Nul(call.s2) /\ Nul(call.s2) \in Nat
  <2>1. pc \notin {"end", "ret"}
    BY <1>1
  <2>. QED
    BY <1>1, <2>1, StrcmpPlace
<1>3. strcmp!TailInv
  BY <1>1 DEF strcmp!IInv
<1>4. /\ strcmp!XBits = XBits /\ strcmp!N = N /\ strcmp!HasZero(data3) = HasZero(data3)
      /\ strcmp!Place2 = p /\ strcmp!Into2 = o /\ strcmp!m = m
      /\ \A i : strcmp!LowBits(data3, i) = LowBits(data3, i)
      /\ \A x : strcmp!BitsOf(x) = BitsOf(x)
  BY StrcmpSimd, StrcmpNames, StrcmpInvNames DEF strcmp!Into2, strcmp!Place2
<1>5. strcmp!Place2 - strcmp!Into2 = a
  BY <1>4
<1> HIDE DEF k, p, o, a, n, Z, d1, d2
<1>6. /\ data3 \in SUBSET XBits /\ has_nul = HasZero(data3)
      /\ \E f \in o .. (N - 1) :
            /\ LowBits(data3, f) = {} /\ \A i \in 0 .. (f - 1) : LowBits(data3, i) # {}
            /\ \A i \in o .. f : LowBits(data3, i) = BitsOf(m[a + i])
  BY <1>3, <1>4, <1>5 DEF strcmp!TailInv
<1>7. PICK f \in o .. (N - 1) :
         /\ LowBits(data3, f) = {} /\ \A i \in 0 .. (f - 1) : LowBits(data3, i) # {}
         /\ \A i \in o .. f : LowBits(data3, i) = BitsOf(m[a + i])
  BY <1>6
<1> DEFINE h == f - o
<1>8. n \in Int /\ src1 \in Int /\ k \in Int /\ a \in Int /\ f \in 0 .. (N - 1)
  BY <1>2 DEF n
<1>9. /\ d2 \in SUBSET XBits /\ Z \in SUBSET XBits /\ MarksNuls(Z, d2)
      /\ \A i \in 0 .. h : Bits(d2, i) = LowBits(data3, o + i)
      /\ Bits(d2, h) = {}
  <2>1. d2 = RevBE(lsr(data3, n)) /\ Z = RevBE(lsr(HasZero(data3), n))
    BY <1>6 DEF d2, Z
  <2>2. o \in 1 .. (N - 1) /\ n % (8 * N) = 8 * o /\ n \in Int
    BY <1>2, <1>8
  <2>3. NulAt(data3, o, f)
    BY <1>7 DEF NulAt
  <2>4. data3 \in SUBSET XBits
    BY <1>6
  <2>. QED
    BY <2>1, <2>2, <2>3, <2>4, Remains
<1>10. d1 \in SUBSET XBits /\ \A i \in 0 .. (N - 1) : Bits(d1, i) = BitsOf(m[src1 + i])
  BY BitsLdr DEF d1
<1>11. /\ rd1' \subseteq Granules(call.s1, Nul(call.s1))
       /\ \A i \in 0 .. (N - 1) : src1 + i \in DOMAIN m
  <2>1. src1 <= call.s1 + k /\ call.s1 + k < src1 + N /\ src1 % N = 0
    BY <1>1, <1>2, <1>8
  <2>2. rd1' = Chunk(src1, N)
    BY <1>1
  <2>. QED
    BY <1>2, <1>8, <2>1, <2>2, ChunkOfString
<1>12. \A i \in 0 .. (N - 1) : a + i \in DOMAIN m
  <2>1. a <= call.s2 + k /\ call.s2 + k < a + N
    BY <1>2 DEF a
  <2>. QED
    BY <1>2, <1>8, <2>1, ChunkOfString
<1>13. h \in 0 .. (N - 1) /\ h + 1 \in 0 .. N /\ (h + 1) - 1 = h /\ 0 \in 0 .. N
  BY <1>2, <1>7
<1>14. \A i \in 0 .. h : Holds(d1, d2, k, i)
  <2>1. ASSUME NEW i \in 0 .. h
        PROVE  /\ ~(k + i < 0) /\ i \in 0 .. (N - 1) /\ o + i \in o .. f /\ o + i \in 0 .. (N - 1)
               /\ call.s1 + (k + i) = src1 + i /\ call.s2 + (k + i) = a + (o + i)
    <3>1. ~(k + i < 0) /\ call.s1 + (k + i) = src1 + i /\ call.s2 + (k + i) = p + i
      BY <1>2
    <3>2. p + i = a + (o + i)
      BY <1>2 DEF a
    <3>. QED
      BY <1>2, <1>7, <3>1, <3>2
  <2>2. ASSUME NEW i \in 0 .. h
        PROVE  /\ src1 + i \in DOMAIN m /\ a + (o + i) \in DOMAIN m
               /\ Bits(d1, i) = BitsOf(m[src1 + i]) /\ Bits(d2, i) = BitsOf(m[a + (o + i)])
    BY <1>7, <1>9, <1>10, <1>11, <1>12, <2>1
  <2>. QED
    BY <2>1, <2>2 DEF Holds
<1> HIDE DEF h
<1>15. Comparable(d1, d2, Z, k, 0, h + 1)
  <2>1. \A i \in 0 .. (0 - 1) : FALSE
    OBVIOUS
  <2>2. h + 1 \in 0 .. N /\ 0 \in 0 .. N
    BY <1>13
  <2>3. Alike(k + 0)
    BY <1>2
  <2>4. \A i \in 0 .. ((h + 1) - 1) : Holds(d1, d2, k, i)
    BY <1>13, <1>14
  <2>5. k \in Int
    BY <1>8
  <2>. QED
    BY <1>9, <2>1, <2>2, <2>3, <2>4, <2>5, MarksDo
<1>16. syndrome' = SymmetricDiff(d1, d2) \cup Z
  BY <1>1
<1>17. \A i \in 0 .. (N - 1) :
         Bits(syndrome', i) = SymmetricDiff(Bits(d1, i), Bits(d2, i)) \cup Bits(Z, i)
  <2> DEFINE E == SymmetricDiff(d1, d2)
  <2>1. \A i \in 0 .. (N - 1) : Bits(E, i) = SymmetricDiff(Bits(d1, i), Bits(d2, i))
    BY BitsXor
  <2>2. syndrome' = E \cup Z
    BY <1>16
  <2> HIDE DEF E
  <2>3. \A i \in 0 .. (N - 1) : Bits(syndrome', i) = Bits(E, i) \cup Bits(Z, i)
    BY <2>2, BitsCup
  <2>. QED
    BY <2>1, <2>3
<1>18. \/ NoneDecides(d1, d2, syndrome', k, 0, h + 1)
       \/ \E g \in 0 .. ((h + 1) - 1) : OneDecides(d1, d2, syndrome', k, 0, g)
  <2>1. \A i \in 0 .. ((h + 1) - 1) : 0 <= i /\ i \in 0 .. (N - 1)
    BY <1>2, <1>13
  <2>2. \A i \in 0 .. ((h + 1) - 1) :
           Bits(syndrome', i)
             = IF 0 <= i THEN SymmetricDiff(Bits(d1, i), Bits(d2, i)) \cup Bits(Z, i) ELSE {}
    BY <1>17, <2>1
  <2>3. ValidStrings(call) /\ k \in Int /\ 0 \in 0 .. N /\ h + 1 \in 0 .. N
    BY <1>2, <1>8, <1>13
  <2>. QED
    BY <1>15, <2>2, <2>3, ComparedUpTo
<1>19. PICK g \in 0 .. (N - 1) : OneDecides(d1, d2, syndrome', k, 0, g)
  <2>1. ~NoneDecides(d1, d2, syndrome', k, 0, h + 1)
    <3>1. h \in 0 .. ((h + 1) - 1)
      BY <1>13
    <3>. QED
      BY <1>9, <3>1 DEF NoneDecides, Clear
  <2>2. \A g \in 0 .. ((h + 1) - 1) : g \in 0 .. (N - 1)
    BY <1>2, <1>13
  <2>. QED
    BY <1>18, <2>1, <2>2
<1>20. /\ FirstMarkOf(syndrome', data1', data2', g)
       /\ Sign(Octet(data1', g) - Octet(data2', g)) = strcmp!Answer
  <2>1. data1' = d1 /\ data2' = d2 /\ ValidStrings(call) /\ k \in Int
    BY <1>1, <1>2, <1>8
  <2>. QED
    BY <1>19, <2>1, StrcmpDecides
<1>21. strcmp!PlaceInv'
  <2>1. src1' \in {src1, src1 + N} /\ pc' \in {"loop_unaligned", "tail", "end"}
    BY <1>1
  <2>. QED
    BY <1>1, <2>1, StrcmpPlaceKept
<1>22. data1' \subseteq XBits /\ data2' \subseteq XBits /\ syndrome' \subseteq XBits
  BY <1>1, <1>9, <1>10, <1>16 DEF SymmetricDiff
<1>. QED
  BY <1>1, <1>2, <1>11, <1>20, <1>21, <1>22, StrcmpKept DEF strcmp!Labels

-----------------------------------------------------------------------------
\* Every step of strcmp keeps its invariant.
LEMMA StrcmpInv ==
    ASSUME strcmp!IInv, strcmp!Next
    PROVE  strcmp!IInv'
BY StrcmpEntry, StrcmpLoopAligned, StrcmpMutualAlign, StrcmpDoMisaligned, StrcmpSrc1Aligned,
   StrcmpLoopUnaligned, StrcmpTail, StrcmpEndStep DEF strcmp!Next

\* And so does a step that changes nothing of it; it holds at the call.
LEMMA StrcmpStutter ==
    ASSUME strcmp!IInv, UNCHANGED strcmp!vars
    PROVE  strcmp!IInv'
<1>1. /\ call' = call /\ pc' = pc /\ src1' = src1 /\ src2' = src2 /\ rd1' = rd1 /\ rd2' = rd2
      /\ result' = result /\ data1' = data1 /\ data2' = data2 /\ syndrome' = syndrome
      /\ data3' = data3 /\ has_nul' = has_nul
  BY DEF strcmp!vars
<1>2. /\ ValidStrings(call) /\ RegistersInv /\ pc \in strcmp!Labels
      /\ strcmp!off2 = call.s2 - call.s1 /\ strcmp!PlaceInv
      /\ pc \notin {"end", "ret"} => Alike(src1 - call.s1)
      /\ rd1 \subseteq Granules(call.s1, Nul(call.s1))
      /\ rd2 \subseteq Granules(call.s2, Nul(call.s2))
  BY StrcmpIs
<1>3. strcmp!PlaceInv'
  <2>1. strcmp!off2' = strcmp!off2 /\ strcmp!N' = strcmp!N
    BY <1>1 DEF strcmp!off2, strcmp!N
  <2>. QED
    BY <1>1, <1>2, <2>1 DEF strcmp!PlaceInv, strcmp!Place2
<1>4. pc = "loop_unaligned" => LET p == src1 + (call.s2 - call.s1)
                               IN  \A x \in p .. (AheadOf(p) - 1) : m[x] # 0
  BY <1>2, StrcmpSimd, StrcmpNames DEF strcmp!IInv, strcmp!PassedInv, strcmp!Place2,
     strcmp!Ahead, AheadOf
<1>5. ASSUME pc = "tail"
      PROVE  TailOf(data3, has_nul, src1 + (call.s2 - call.s1))
  <2>1. strcmp!TailInv
    BY <1>5 DEF strcmp!IInv
  <2>2. /\ strcmp!XBits = XBits /\ strcmp!N = N /\ strcmp!HasZero(data3) = HasZero(data3)
        /\ strcmp!Place2 = src1 + (call.s2 - call.s1)
        /\ strcmp!Into2 = (src1 + (call.s2 - call.s1)) % N /\ strcmp!m = m
        /\ \A i : strcmp!LowBits(data3, i) = LowBits(data3, i)
        /\ \A x : strcmp!BitsOf(x) = BitsOf(x)
    BY <1>2, StrcmpSimd, StrcmpNames, StrcmpInvNames DEF strcmp!Into2, strcmp!Place2
  <2>. QED
    BY <2>1, <2>2 DEF strcmp!TailInv, TailOf
<1>6. ASSUME pc = "end"
      PROVE  \E f \in 0 .. (N - 1) : /\ FirstMarkOf(syndrome, data1, data2, f)
                                     /\ Sign(Octet(data1, f) - Octet(data2, f)) = strcmp!Answer
  <2>1. MarksOrder(strcmp!Answer)
    BY <1>6, StrcmpInvNames DEF strcmp!IInv
  <2>. QED
    BY <2>1 DEF MarksOrder, FirstMark, FirstMarkOf
<1>7. pc = "ret" => Sign(result) = strcmp!Answer
  BY StrcmpNames DEF strcmp!IInv
<1>. QED
  BY <1>1, <1>2, <1>3, <1>4, <1>5, <1>6, <1>7, StrcmpKept DEF RegistersInv

LEMMA StrcmpInit ==
    ASSUME strcmp!Init, ValidStrings(call)
    PROVE  strcmp!IInv
<1>1. /\ pc = "entry" /\ src1 = call.s1 /\ src2 = call.s2 /\ rd1 = {} /\ rd2 = {}
      /\ data1 = {} /\ data2 = {} /\ syndrome = {}
  BY DEF strcmp!Init, strcmp!Called, strcmp!Cleared
<1>2. call.s1 \in Nat /\ call.s2 \in Nat
  BY MemoryIs
<1>3. strcmp!ValidStrings(call) /\ strcmp!RegistersInv
  BY <1>1, StrcmpInvNames DEF RegistersInv
<1>4. strcmp!PlaceInv
  BY <1>1, <1>2 DEF strcmp!PlaceInv
<1>5. strcmp!PassedInv
  <2>1. \A i \in 0 .. ((src1 - call.s1) - 1) : FALSE
    BY <1>1, <1>2
  <2>. QED
    BY <1>1, <2>1 DEF strcmp!PassedInv, strcmp!Alike
<1>6. strcmp!Footprint
  BY <1>1 DEF strcmp!Footprint
<1>. QED
  BY <1>1, <1>3, <1>4, <1>5, <1>6 DEF strcmp!IInv, strcmp!Labels

-----------------------------------------------------------------------------
(* strncmp                                                                 *)

\* The instance's operators.
LEMMA StrncmpSimd ==
    /\ strncmp!N = N /\ strncmp!XBits = XBits /\ strncmp!AllOnes = AllOnes
    /\ strncmp!Zeroones = Zeroones
    /\ \A X, n : strncmp!lsr(X, n) = lsr(X, n) /\ strncmp!lsl(X, n) = lsl(X, n)
    /\ \A X : strncmp!rev(X) = rev(X) /\ strncmp!clz(X) = clz(X)
    /\ \A X, k : strncmp!Number(X, k) = Number(X, k)
    /\ \A X : strncmp!HasZero(X) = HasZero(X)
    /\ \A x : strncmp!BitsOf(x) = BitsOf(x)
    /\ \A A, B : strncmp!SymmetricDiff(A, B) = SymmetricDiff(A, B)
    /\ \A mem, a, b : strncmp!ldr(mem, a, b) = ldr(mem, a, b)
    /\ \A X, Y : strncmp!Below(X, Y) = Below(X, Y)
    /\ \A T : strncmp!Min(T) = Min(T)
<1>1. strncmp!N = N
  BY DEF strncmp!N, N
<1>2. strncmp!XBits = XBits
  BY DEF strncmp!XBits, XBits
<1>3. strncmp!AllOnes = AllOnes
  BY DEF strncmp!AllOnes, AllOnes
<1>4. strncmp!Zeroones = Zeroones
  BY <1>1 DEF strncmp!Zeroones, Zeroones
<1>5. \A X, n : strncmp!lsr(X, n) = lsr(X, n)
  BY DEF strncmp!lsr, lsr
<1>6. \A X, n : strncmp!lsl(X, n) = lsl(X, n)
  BY <1>2 DEF strncmp!lsl, lsl
<1>7. \A X : strncmp!rev(X) = rev(X)
  BY <1>1 DEF strncmp!rev, rev
<1>8. \A X : strncmp!clz(X) = clz(X)
  BY DEF strncmp!clz, clz, strncmp!Max, Max
<1>9. \A X, k : strncmp!Number(X, k) = Number(X, k)
  BY DEF strncmp!Number, Number
<1>10. \A x, k : strncmp!Zeros(x, k) = Zeros(x, k)
  BY <1>1 DEF strncmp!Zeros, Zeros
<1>11. \A X : strncmp!HasZero(X) = HasZero(X)
  BY <1>1, <1>9, <1>10 DEF strncmp!HasZero, HasZero
<1>12. \A x : strncmp!BitsOf(x) = BitsOf(x)
  BY DEF strncmp!BitsOf, BitsOf
<1>13. \A A, B : strncmp!SymmetricDiff(A, B) = SymmetricDiff(A, B)
  BY DEF strncmp!SymmetricDiff, SymmetricDiff
<1>14. \A mem, a, b : strncmp!ldr(mem, a, b) = ldr(mem, a, b)
  BY <1>1, <1>12 DEF strncmp!ldr, ldr
<1>15. \A X, Y : strncmp!Below(X, Y) = Below(X, Y)
  BY DEF strncmp!Below, Below
<1>16. \A T : strncmp!Min(T) = Min(T)
  BY DEF strncmp!Min, Min
<1>. QED
  BY <1>1, <1>2, <1>3, <1>4, <1>5, <1>6, <1>7, <1>8, <1>9, <1>11, <1>12, <1>13, <1>14, <1>15, <1>16

\* The definitions of Comparing, as Strncmp has them.
LEMMA StrncmpNames ==
    /\ strncmp!m = m /\ strncmp!big = big
    /\ \A a, n : strncmp!Chunk(a, n) = Chunk(a, n)
    /\ \A x : strncmp!Sign(x) = Sign(x)
    /\ \A i : strncmp!Order(i) = Order(i) /\ strncmp!SameAt(i) = SameAt(i) /\ strncmp!EndsAt(i) = EndsAt(i)
    /\ \A a : strncmp!Ldr(a) = Ldr(a)
    /\ \A X : strncmp!RevLE(X) = RevLE(X) /\ strncmp!RevBE(X) = RevBE(X) /\ strncmp!Nuls(X) = Nuls(X)
    /\ \A X, n : strncmp!LS_FW(X, n) = LS_FW(X, n) /\ strncmp!LS_BK(X, n) = LS_BK(X, n)
    /\ \A X, k : strncmp!ByteAt(X, k) = ByteAt(X, k)
    /\ \A s : strncmp!Nul(s) = Nul(s)
    /\ \A a, b : strncmp!Granules(a, b) = Granules(a, b)
<1>1. strncmp!m = m /\ strncmp!big = big
  BY DEF strncmp!m, m, strncmp!big, big
<1>2. \A a, n : strncmp!Chunk(a, n) = Chunk(a, n)
  BY DEF strncmp!Chunk, Chunk
<1>3. \A x : strncmp!Sign(x) = Sign(x)
  BY DEF strncmp!Sign, Sign
<1>4. \A i : strncmp!Order(i) = Order(i)
  BY <1>1, <1>3 DEF strncmp!Order, Order
<1>5. \A i : strncmp!SameAt(i) = SameAt(i) /\ strncmp!EndsAt(i) = EndsAt(i)
  BY <1>1 DEF strncmp!SameAt, SameAt, strncmp!EndsAt, EndsAt
<1>6. \A a : strncmp!Ldr(a) = Ldr(a)
  BY <1>1, StrncmpSimd DEF strncmp!Ldr, Ldr
<1>7. \A X : strncmp!RevLE(X) = RevLE(X)
  BY <1>1, StrncmpSimd DEF strncmp!RevLE, RevLE
<1>8. \A X : strncmp!RevBE(X) = RevBE(X)
  BY <1>1, StrncmpSimd DEF strncmp!RevBE, RevBE
<1>9. \A X : strncmp!Nuls(X) = Nuls(X)
  BY <1>8, StrncmpSimd DEF strncmp!Nuls, Nuls
<1>10. \A X, n : strncmp!LS_FW(X, n) = LS_FW(X, n) /\ strncmp!LS_BK(X, n) = LS_BK(X, n)
  BY <1>1, StrncmpSimd DEF strncmp!LS_FW, LS_FW, strncmp!LS_BK, LS_BK
<1>11. \A X, k : strncmp!ByteAt(X, k) = ByteAt(X, k)
  BY StrncmpSimd DEF strncmp!ByteAt, ByteAt
<1>12. \A s : strncmp!Nul(s) = Nul(s)
  BY <1>1 DEF strncmp!Nul, Nul
<1>13. \A a, b : strncmp!Granules(a, b) = Granules(a, b)
  BY DEF strncmp!Granules, Granules
<1>. QED
  BY <1>1, <1>2, <1>3, <1>4, <1>5, <1>6, <1>7, <1>8, <1>9, <1>10, <1>11, <1>12, <1>13

\* And those of the invariants.
LEMMA StrncmpInvNames ==
    /\ \A c : strncmp!ValidStrings(c) = ValidStrings(c)
    /\ \A k : strncmp!Alike(k) = Alike(k)
    /\ \A X, i : strncmp!LowBits(X, i) = LowBits(X, i) /\ strncmp!Bits(X, i) = Bits(X, i)
                 /\ strncmp!Octet(X, i) = Octet(X, i)
    /\ strncmp!RegistersInv = RegistersInv
    /\ \A f : strncmp!FirstMark(f) = FirstMark(f)
    /\ \A x : strncmp!MarksOrder(x) = MarksOrder(x)
    /\ \A i : strncmp!Decides(i) = Decides(i)
<1>1. \A c : strncmp!ValidStrings(c) = ValidStrings(c)
  BY DEF strncmp!ValidStrings, ValidStrings
<1>2. \A k : strncmp!Alike(k) = Alike(k)
  BY StrncmpNames DEF strncmp!Alike, Alike
<1>3. \A X, i : strncmp!LowBits(X, i) = LowBits(X, i)
  BY DEF strncmp!LowBits, LowBits
<1>4. \A X, i : strncmp!Bits(X, i) = Bits(X, i)
  BY <1>3, StrncmpSimd, StrncmpNames DEF strncmp!Bits, Bits
<1>5. \A X, i : strncmp!Octet(X, i) = Octet(X, i)
  BY <1>4, StrncmpSimd DEF strncmp!Octet, Octet
<1>6. strncmp!RegistersInv = RegistersInv
  BY StrncmpSimd DEF strncmp!RegistersInv, RegistersInv
<1>7. \A f : strncmp!FirstMark(f) = FirstMark(f)
  BY <1>4, StrncmpSimd DEF strncmp!FirstMark, FirstMark
<1>8. \A x : strncmp!MarksOrder(x) = MarksOrder(x)
  BY <1>5, <1>7, StrncmpSimd, StrncmpNames DEF strncmp!MarksOrder, MarksOrder
<1>9. \A i : strncmp!Decides(i) = Decides(i)
  BY StrncmpNames DEF strncmp!Decides, Decides
<1>. QED
  BY <1>1, <1>2, <1>3, <1>4, <1>5, <1>6, <1>7, <1>8, <1>9

\* What decides: the limit, or what decides a comparison without it.
LEMMA StrncmpStopIs ==
    ASSUME ValidStrings(call), NEW k \in Nat, Alike(k), k <= call.n, k = call.n \/ Decides(k)
    PROVE  /\ strncmp!Stop = k
           /\ strncmp!Answer = IF k = call.n THEN 2 ELSE Order(k)
<1> DEFINE P(i) == i = call.n \/ Decides(i)
<1>0. call.n \in Nat
  BY MemoryIs
<1>1. DOMAIN m \subseteq Nat /\ k \in DOMAIN m
  BY MemoryIs, AlikeReaches
<1>2. P(k) /\ \A j \in 0 .. (k - 1) : ~P(j)
  <2>1. \A j \in 0 .. (k - 1) : j # call.n
    BY <1>0
  <2>. QED
    BY <2>1 DEF Alike, Decides
<1>3. strncmp!Stop = CHOOSE i \in DOMAIN m : P(i) /\ \A j \in 0 .. (i - 1) : ~P(j)
  BY StrncmpNames DEF strncmp!Stop, strncmp!FirstOf, Decides
<1>. HIDE DEF P
<1>4. ASSUME NEW i \in DOMAIN m, P(i), \A j \in 0 .. (i - 1) : ~P(j)
      PROVE  i = k
  <2>1. ~(i < k) /\ ~(k < i)
    BY <1>1, <1>2, <1>4
  <2>. QED
    BY <2>1, <1>1
<1>5. strncmp!Stop = k
  BY <1>1, <1>2, <1>3, <1>4
<1>. QED
  BY <1>5, StrncmpNames DEF strncmp!Answer, Sign

\* What decides exists.
LEMMA StrncmpStopExists ==
    ASSUME ValidStrings(call)
    PROVE  \E s \in Nat : /\ strncmp!Stop = s /\ Alike(s) /\ s <= call.n
                          /\ s = call.n \/ Decides(s)
<1>0. call.n \in Nat
  BY MemoryIs
<1>1. PICK k \in Nat : Alike(k) /\ Decides(k)
  BY DecisionExists
<1>2. CASE k <= call.n
  BY <1>1, <1>2, StrncmpStopIs
<1>3. CASE ~(k <= call.n)
  <2>1. call.n \in Int /\ call.n <= k /\ k \in Int /\ call.n <= call.n
    BY <1>0, <1>3
  <2>2. Alike(call.n)
    BY <1>1, <2>1, AlikeLess
  <2>. QED
    BY <1>0, <2>1, <2>2, StrncmpStopIs
<1>. QED
  BY <1>2, <1>3

\* A limit that is left and is reached; and a byte before it that decides.
LEMMA LimitReached ==
    ASSUME ValidStrings(call), NEW k \in Int, NEW l \in Nat, strncmp!Leaves(k, l), Alike(k + l)
    PROVE  k + l = call.n /\ strncmp!Answer = 2
<1>0. call.n \in Nat
  BY MemoryIs
<1>1. PICK s \in Nat : /\ strncmp!Stop = s /\ Alike(s) /\ s <= call.n
                       /\ s = call.n \/ Decides(s)
  BY StrncmpStopExists
<1>2. k + l = call.n
  <2>1. k + l = call.n \/ (k + l < call.n /\ s < k + l)
    BY <1>1 DEF strncmp!Leaves
  <2>2. ASSUME k + l < call.n, s < k + l PROVE FALSE
    <3>1. Decides(s) /\ k + l \in Int
      BY <1>0, <1>1, <2>2
    <3>2. k + l <= s
      BY <3>1, AlikeBefore
    <3>. QED
      BY <1>1, <2>2, <3>1, <3>2
  <2>. QED
    BY <2>1, <2>2
<1>. QED
  BY <1>0, <1>2, StrncmpStopIs

\* A byte before the limit that decides is what decides the comparison.
LEMMA DecidedBefore ==
    ASSUME ValidStrings(call), NEW k \in Int, NEW l \in Nat, strncmp!Leaves(k, l),
           NEW f \in Nat, f < l, k + f \in Nat, Alike(k + f), Decides(k + f)
    PROVE  strncmp!Answer = Order(k + f) /\ strncmp!Stop = k + f /\ k + f < call.n
<1>0. call.n \in Nat
  BY MemoryIs
<1>1. k + f < call.n
  BY <1>0 DEF strncmp!Leaves
<1>2. k + f <= call.n /\ k + f # call.n
  BY <1>0, <1>1
<1>. QED
  BY <1>1, <1>2, StrncmpStopIs

-----------------------------------------------------------------------------
\* FullInv and SyndromeInv, of any registers, limit and base.
FullOf(D1, D2, l, base) ==
    /\ \A i \in 0 .. (N - 1) : Holds(D1, D2, base, i)
    /\ l > N => \E i \in 0 .. (N - 1) : base + i >= 0 /\ Decides(base + i)

SyndromeIs(Y, D1, D2, l, base) ==
    \E f \in 0 .. N :
        /\ IF f < N THEN FirstMarkOf(Y, D1, D2, f) ELSE Y = {} /\ l <= N
        /\ l <= f => Alike(base + l)
        /\ f < l => /\ f < N /\ base + f >= 0 /\ Alike(base + f) /\ Decides(base + f)
                    /\ Sign(Octet(D1, f) - Octet(D2, f)) = Order(base + f)

\* What depends on the call alone.
LEMMA StrncmpSame ==
    ASSUME call' = call
    PROVE  /\ strncmp!m' = m /\ strncmp!N' = N /\ strncmp!XBits' = XBits
           /\ strncmp!Stop' = strncmp!Stop /\ strncmp!Answer' = strncmp!Answer
           /\ strncmp!offset' = strncmp!offset /\ strncmp!Into2' = strncmp!Into2
           /\ \A s : (strncmp!LastByte(s))' = strncmp!LastByte(s)
           /\ \A a, b : (strncmp!Granules(a, b))' = Granules(a, b)
           /\ \A i : (strncmp!Decides(i))' = Decides(i)
           /\ \A k : (strncmp!Alike(k))' = Alike(k)
           /\ \A i : (strncmp!Order(i))' = Order(i)
           /\ \A x : (strncmp!Sign(x))' = Sign(x)
           /\ \A x : (strncmp!BitsOf(x))' = BitsOf(x)
           /\ \A a : (strncmp!Ldr(a))' = Ldr(a)
<1>1. strncmp!m' = m /\ strncmp!N' = N /\ strncmp!XBits' = XBits
  BY DEF m, strncmp!m, N, strncmp!N, XBits, strncmp!XBits
<1>2. strncmp!Stop' = strncmp!Stop
  BY DEF strncmp!Stop, strncmp!FirstOf, strncmp!SameAt, strncmp!EndsAt, strncmp!m
<1>3. strncmp!Answer' = strncmp!Answer
  BY <1>2 DEF strncmp!Answer, strncmp!Order, strncmp!m, strncmp!Sign
<1>4. strncmp!offset' = strncmp!offset /\ strncmp!Into2' = strncmp!Into2
  BY DEF strncmp!offset, strncmp!Into2, strncmp!N
<1>5. \A s : (strncmp!Nul(s))' = strncmp!Nul(s)
  BY DEF strncmp!Nul, strncmp!m
<1>6. \A s : (strncmp!LastByte(s))' = strncmp!LastByte(s)
  BY <1>5 DEF strncmp!LastByte, strncmp!Min
<1>7. \A a, b : (strncmp!Granules(a, b))' = Granules(a, b)
  BY DEF strncmp!Granules, Granules
<1>8. \A i : (strncmp!SameAt(i))' = SameAt(i) /\ (strncmp!EndsAt(i))' = EndsAt(i)
  BY DEF SameAt, strncmp!SameAt, EndsAt, strncmp!EndsAt, m, strncmp!m
<1>9. \A i : (strncmp!Decides(i))' = Decides(i)
  BY <1>8 DEF Decides, strncmp!Decides
<1>10. \A k : (strncmp!Alike(k))' = Alike(k)
  BY <1>8 DEF Alike, strncmp!Alike
<1>11. \A x : (strncmp!Sign(x))' = Sign(x)
  BY DEF Sign, strncmp!Sign
<1>12. \A i : (strncmp!Order(i))' = Order(i)
  BY DEF Order, strncmp!Order, Sign, strncmp!Sign, m, strncmp!m
<1>13. \A x : (strncmp!BitsOf(x))' = BitsOf(x)
  BY DEF BitsOf, strncmp!BitsOf
<1>14. \A mem, a, b : (strncmp!ldr(mem, a, b))' = ldr(mem, a, b)
  BY DEF ldr, strncmp!ldr, BitsOf, strncmp!BitsOf, N, strncmp!N
<1>15. \A a : (strncmp!Ldr(a))' = Ldr(a)
  BY <1>14 DEF Ldr, strncmp!Ldr, m, strncmp!m, big, strncmp!big
<1>. QED
  BY <1>1, <1>2, <1>3, <1>4, <1>6, <1>7, <1>9, <1>10, <1>11, <1>12, <1>13, <1>15

\* The registers of the next state.
LEMMA StrncmpRegisters ==
    ASSUME call' = call
    PROVE  /\ strncmp!RegistersInv'
                <=> data1' \subseteq XBits /\ data2' \subseteq XBits /\ syndrome' \subseteq XBits
           /\ \A f : (strncmp!FirstMark(f))' <=> FirstMarkOf(syndrome', data1', data2', f)
           /\ \A f : (strncmp!Octet(data1, f))' = Octet(data1', f) /\ (strncmp!Octet(data2, f))' = Octet(data2', f)
           /\ \A f : (strncmp!Bits(data1, f))' = Bits(data1', f) /\ (strncmp!Bits(data2, f))' = Bits(data2', f)
<1>1. strncmp!RegistersInv'
        <=> data1' \subseteq XBits /\ data2' \subseteq XBits /\ syndrome' \subseteq XBits
  BY StrncmpSimd DEF strncmp!RegistersInv, strncmp!XBits
<1>2. \A f : /\ (strncmp!Bits(data1, f))' = Bits(data1', f) /\ (strncmp!Bits(data2, f))' = Bits(data2', f)
             /\ (strncmp!Bits(syndrome, f))' = Bits(syndrome', f)
  BY DEF strncmp!Bits, Bits, strncmp!LowBits, LowBits, big, strncmp!big, N, strncmp!N
<1>3. \A f : (strncmp!FirstMark(f))' <=> FirstMarkOf(syndrome', data1', data2', f)
  BY <1>2 DEF strncmp!FirstMark, FirstMarkOf, strncmp!SymmetricDiff, SymmetricDiff
<1>4. \A f : (strncmp!Octet(data1, f))' = Octet(data1', f) /\ (strncmp!Octet(data2, f))' = Octet(data2', f)
  BY <1>2 DEF Octet, strncmp!Octet, Number, strncmp!Number
<1>. QED
  BY <1>1, <1>2, <1>3, <1>4

\* What the invariant says of the next state, when the call is the same.
LEMMA StrncmpKept ==
    ASSUME ValidStrings(call), strncmp!ValidLimit(call), call' = call, pc' \in strncmp!Labels,
           data1' \subseteq XBits, data2' \subseteq XBits, syndrome' \subseteq XBits,
           strncmp!PlaceInv', strncmp!LimitInv', strncmp!WordsInv',
           src1' \in Int,
           pc' \in {"loop_aligned", "byte_loop", "page_end_loop", "src1_aligned"}
             => Alike(src1' - call.s1),
           pc' \in {"loop_misaligned", "misaligned_mid_loop", "full_check"}
             => Alike((src1' - call.s1) - N),
           pc' = "step_C" => Alike(((src1' - call.s1) - N) + (N - strncmp!Into2)),
           IF call.n = 0 THEN rd1' = {} /\ rd2' = {}
           ELSE /\ rd1' \subseteq Granules(call.s1, strncmp!LastByte(call.s1))
                /\ rd2' \subseteq Granules(call.s2, strncmp!LastByte(call.s2)),
           pc' = "full_check" => FullOf(data1', data2', strncmp!Left', (src1' - call.s1) - N),
           pc' = "syndrome_check"
             => SyndromeIs(syndrome', data1', data2', limit', (src1' - call.s1) - N),
           pc' = "end" => \E f \in 0 .. (N - 1) :
                             /\ FirstMarkOf(syndrome', data1', data2', f)
                             /\ Sign(Octet(data1', f) - Octet(data2', f)) = strncmp!Answer,
           pc' = "ret" => Sign(result') = strncmp!Answer
    PROVE  strncmp!IInv'
<1> DEFINE k == src1' - call.s1
           base == k - N
<1>0. N \in Nat /\ call.s1 \in Nat /\ call.s2 \in Nat
  BY WordSize, MemoryIs
<1>1. /\ strncmp!m' = m /\ strncmp!N' = N /\ strncmp!Answer' = strncmp!Answer
      /\ strncmp!Into2' = strncmp!Into2
      /\ strncmp!Progress' = k /\ strncmp!Base' = base /\ strncmp!Place2' = call.s2 + base
  BY StrncmpSame DEF strncmp!Progress, strncmp!Base, strncmp!Place2
<1>2. (strncmp!ValidStrings(call) /\ strncmp!ValidLimit(call))'
  BY DEF ValidStrings, strncmp!ValidStrings, strncmp!ValidLimit
<1>3. strncmp!RegistersInv'
  BY StrncmpRegisters
<1>5. strncmp!Footprint'
  <2>1. /\ strncmp!LastByte(call.s1)' = strncmp!LastByte(call.s1)
        /\ strncmp!LastByte(call.s2)' = strncmp!LastByte(call.s2)
    BY StrncmpSame DEF strncmp!LastByte, strncmp!Min, strncmp!Nul, strncmp!m
  <2>. QED
    BY <2>1 DEF strncmp!Footprint, strncmp!Granules, Granules
<1>6. strncmp!PassedInv'
  <2>1. \A i : (strncmp!SameAt(i))' = SameAt(i) /\ (strncmp!EndsAt(i))' = EndsAt(i)
    BY DEF SameAt, strncmp!SameAt, EndsAt, strncmp!EndsAt, m, strncmp!m
  <2>2. /\ Alike(k) => (strncmp!Alike(strncmp!Progress))'
        /\ Alike(base) => (strncmp!Alike(strncmp!Base))'
        /\ Alike(base + (N - strncmp!Into2))
             => (strncmp!Alike(strncmp!Base + (strncmp!N - strncmp!Into2)))'
    BY <1>1, <2>1 DEF Alike, strncmp!Alike
  <2>. QED
    BY <2>2, StrncmpSimd DEF strncmp!PassedInv
<1>7. ASSUME pc' = "full_check"
      PROVE  strncmp!FullInv'
  <2> DEFINE l == strncmp!Left'
  <2>1. /\ \A i \in 0 .. (N - 1) : Holds(data1', data2', base, i)
        /\ l > N => \E i \in 0 .. (N - 1) : base + i >= 0 /\ Decides(base + i)
    BY <1>7 DEF FullOf
  <2>2. \A i : (strncmp!Bits(data1, i))' = Bits(data1', i) /\ (strncmp!Bits(data2, i))' = Bits(data2', i)
    BY StrncmpRegisters
  <2>3. \A x : (strncmp!BitsOf(x))' = BitsOf(x)
    BY StrncmpSame
  <2>4. strncmp!AllOnes' = AllOnes
    BY DEF strncmp!AllOnes, AllOnes
  <2>5. \A i \in 0 .. (N - 1) : /\ (call.s1 + base) + i = call.s1 + (base + i)
                                /\ (call.s2 + base) + i = call.s2 + (base + i)
    BY <1>0
  <2>6. \A i \in 0 .. (N - 1) : (strncmp!Decides(strncmp!Base + i))' = Decides(base + i)
    BY <1>1 DEF strncmp!Decides, Decides, SameAt, strncmp!SameAt, EndsAt, strncmp!EndsAt, m,
       strncmp!m
  <2> HIDE DEF base, l
  <2>7. \A i \in 0 .. (N - 1) :
           IF base + i < 0 THEN Bits(data1', i) = AllOnes /\ Bits(data2', i) = AllOnes
           ELSE /\ (call.s1 + base) + i \in DOMAIN m /\ (call.s2 + base) + i \in DOMAIN m
                /\ Bits(data1', i) = BitsOf(m[(call.s1 + base) + i])
                /\ Bits(data2', i) = BitsOf(m[(call.s2 + base) + i])
    BY <2>1, <2>5 DEF Holds
  <2>8. (\A i \in 0 .. (strncmp!N - 1) :
           IF strncmp!Base + i < 0
           THEN strncmp!Bits(data1, i) = strncmp!AllOnes /\ strncmp!Bits(data2, i) = strncmp!AllOnes
           ELSE /\ (call.s1 + strncmp!Base) + i \in DOMAIN strncmp!m /\ strncmp!Place2 + i \in DOMAIN strncmp!m
                /\ strncmp!Bits(data1, i) = strncmp!BitsOf(strncmp!m[(call.s1 + strncmp!Base) + i])
                /\ strncmp!Bits(data2, i) = strncmp!BitsOf(strncmp!m[strncmp!Place2 + i]))'
    BY <1>1, <2>2, <2>3, <2>4, <2>7
  <2>9. (strncmp!Left > strncmp!N
           => \E i \in 0 .. (strncmp!N - 1) :
             strncmp!Base + i >= 0 /\ strncmp!Decides(strncmp!Base + i))'
    BY <1>1, <2>1, <2>6 DEF l
  <2>. QED
    BY <2>8, <2>9 DEF strncmp!FullInv
<1>8. ASSUME pc' = "syndrome_check"
      PROVE  strncmp!SyndromeInv'
  <2>1. PICK f \in 0 .. N :
           /\ IF f < N THEN FirstMarkOf(syndrome', data1', data2', f) ELSE syndrome'
                = {} /\ limit' <= N
           /\ limit' <= f => Alike(base + limit')
           /\ f < limit' => /\ f < N /\ base + f >= 0 /\ Alike(base + f) /\ Decides(base + f)
                            /\ Sign(Octet(data1', f) - Octet(data2', f)) = Order(base + f)
    BY <1>8 DEF SyndromeIs
  <2>2. (strncmp!FirstMark(f))' <=> FirstMarkOf(syndrome', data1', data2', f)
    BY StrncmpRegisters
  <2>3. (strncmp!Octet(data1, f))' = Octet(data1', f)
        /\ (strncmp!Octet(data2, f))' = Octet(data2', f)
    BY StrncmpRegisters
  <2>4. \A i : (strncmp!SameAt(i))' = SameAt(i) /\ (strncmp!EndsAt(i))' = EndsAt(i)
    BY DEF SameAt, strncmp!SameAt, EndsAt, strncmp!EndsAt, m, strncmp!m
  <2>5. /\ Alike(base + limit') => (strncmp!Alike(strncmp!Base + limit))'
        /\ Alike(base + f) => (strncmp!Alike(strncmp!Base + f))'
    BY <1>1, <2>4 DEF Alike, strncmp!Alike
  <2>6. Decides(base + f) => (strncmp!Decides(strncmp!Base + f))'
    BY <1>1 DEF strncmp!Decides, Decides, SameAt, strncmp!SameAt, EndsAt, strncmp!EndsAt, m,
       strncmp!m
  <2>7. (strncmp!Order(strncmp!Base + f))' = Order(base + f)
    BY <1>1 DEF strncmp!Order, Order, Sign, strncmp!Sign, m, strncmp!m
  <2>8. (strncmp!Sign(strncmp!Octet(data1, f) - strncmp!Octet(data2, f)))'
           = Sign(Octet(data1', f) - Octet(data2', f))
    BY <2>3 DEF Sign, strncmp!Sign
  <2> HIDE DEF base
  <2>. QED
    BY <1>1, <2>1, <2>2, <2>5, <2>6, <2>7, <2>8 DEF strncmp!SyndromeInv
<1>9. ASSUME pc' = "end"
      PROVE  strncmp!MarksOrder(strncmp!Answer)'
  <2>1. PICK f \in 0 .. (N - 1) : /\ FirstMarkOf(syndrome', data1', data2', f)
                                  /\ Sign(Octet(data1', f) - Octet(data2', f)) = strncmp!Answer
    BY <1>9
  <2>2. strncmp!FirstMark(f)'
    BY <2>1, StrncmpRegisters
  <2>3. strncmp!Octet(data1, f)' = Octet(data1', f) /\ strncmp!Octet(data2, f)' = Octet(data2', f)
    BY StrncmpRegisters
  <2>4. strncmp!Sign(strncmp!Octet(data1, f) - strncmp!Octet(data2, f))' = strncmp!Answer'
    BY <1>1, <2>1, <2>3 DEF Sign, strncmp!Sign
  <2>. QED
    BY <2>2, <2>4 DEF strncmp!MarksOrder, N, strncmp!N
<1>10. ASSUME pc' = "ret"
       PROVE  strncmp!Sign(result)' = strncmp!Answer'
  BY <1>1, <1>10 DEF strncmp!Sign, Sign
<1>. QED
  BY <1>2, <1>3, <1>5, <1>6, <1>7, <1>8, <1>9, <1>10 DEF strncmp!IInv, strncmp!Labels

-----------------------------------------------------------------------------
\* A size_t holds more than the bytes of a granule.
LEMMA SizeIs ==
    ASSUME ValidStrings(call), strncmp!ValidLimit(call)
    PROVE  /\ Size \in Nat /\ Size > 2 * N /\ call.n < Size
           /\ \A a \in DOMAIN m : a + 1 < Size
           /\ big => 8 * call.n < Size
<1>1. PICK k \in Nat : DOMAIN m = 0 .. k /\ (k + 1) % W = 0
  BY MemoryIs
<1>2. \A a \in DOMAIN m : a + 1 < Size
  BY DEF strncmp!ValidLimit, m
<1>3. k + 1 < Size
  <2>1. k \in DOMAIN m
    BY <1>1
  <2>. QED
    BY <1>2, <2>1
<1>4. k + 1 >= W
  <2>1. ASSUME k + 1 < W PROVE FALSE
    <3>1. k + 1 \in 0 .. (W - 1) /\ W \in Nat
      BY <1>1, <2>1, WordSize
    <3>2. (k + 1) % W = k + 1
      BY <3>1, ModSmall
    <3>. QED
      BY <1>1, <3>2
  <2>. QED
    BY <2>1, <1>1, WordSize
<1>5. Size > 2 * N
  BY <1>1, <1>3, <1>4, WordSize, SizeAssumption
<1>. QED
  BY <1>2, <1>5, SizeAssumption DEF strncmp!ValidLimit, big

\* A limit wraps, and is rewound.
LEMMA LimitWraps ==
    ASSUME Size \in Nat, Size > 2 * N, NEW l \in 0 .. (Size - 1), NEW w, w = strncmp!Minus(l, N)
    PROVE  /\ w \in 0 .. (Size - 1)
           /\ w = IF l >= N THEN l - N ELSE (l - N) + Size
           /\ strncmp!Minus(w, -N) = l
<1>1. N \in Nat /\ w = (l - N) % Size /\ strncmp!Minus(w, -N) = (w - (-N)) % Size
  BY WordSize DEF strncmp!Minus
<1>2. CASE l >= N
  <2>1. l - N \in 0 .. (Size - 1)
    BY <1>1, <1>2
  <2>2. w = l - N
    BY <1>1, <2>1, ModSmall
  <2>3. w - (-N) = l
    BY <1>1, <2>2
  <2>4. l % Size = l
    BY ModSmall
  <2>. QED
    BY <1>1, <1>2, <2>1, <2>2, <2>3, <2>4
<1>3. CASE ~(l >= N)
  <2>1. (l - N) + Size \in 0 .. (Size - 1) /\ l - N \in Int /\ l \in Int
    BY <1>1, <1>3
  <2>2. ((l - N) + Size) % Size = (l - N) + Size
    BY <2>1, ModSmall
  <2>3. ((l - N) + Size) % Size = (l - N) % Size
    BY <2>1, ModPlus
  <2>4. w = (l - N) + Size
    BY <1>1, <2>2, <2>3
  <2>5. w - (-N) = l + Size
    BY <1>1, <2>1, <2>4
  <2>6. (l + Size) % Size = l % Size /\ l % Size = l
    BY <2>1, ModPlus, ModSmall
  <2>. QED
    BY <1>1, <1>3, <2>1, <2>4, <2>5, <2>6
<1>. QED
  BY <1>2, <1>3

\* The last byte that may be read, of a string of which k bytes are passed over.
LEMMA LastByteIs ==
    ASSUME ValidStrings(call), NEW s \in {call.s1, call.s2}, NEW k \in Nat, Alike(k), k < call.n
    PROVE  /\ strncmp!LastByte(s) \in Nat /\ s + k <= strncmp!LastByte(s)
<1>1. /\ Nul(s) \in Nat /\ s \in Nat /\ call.n \in Nat /\ s + k <= Nul(s)
  BY NulIs, MemoryIs, AlikeReaches
<1> DEFINE x == (s + call.n) - 1
<1>2. strncmp!LastByte(s) = Min({x, Nul(s)})
  BY <1>1, StrncmpSimd, StrncmpNames DEF strncmp!LastByte
<1>3. x \in Nat /\ s + k <= x
  BY <1>1
<1> HIDE DEF x
<1>4. \E y \in {x, Nul(s)} : \A z \in {x, Nul(s)} : y <= z
  BY <1>1, <1>3
<1>5. Min({x, Nul(s)}) \in {x, Nul(s)}
  BY <1>4 DEF Min
<1>. QED
  BY <1>1, <1>2, <1>3, <1>5

\* How the second string's words are shifted.
LEMMA IntoIs ==
    ASSUME call.s1 \in Nat, call.s2 \in Nat
    PROVE  /\ strncmp!Into2 = (call.s2 - call.s1) % N
           /\ strncmp!Into2 \in 0 .. (N - 1)
           /\ strncmp!offset = 8 * strncmp!Into2 /\ strncmp!offset \in Int
           /\ strncmp!offset % (8 * N) = 8 * strncmp!Into2
           /\ strncmp!neg_offset = 8 * (N - strncmp!Into2) /\ strncmp!neg_offset \in Int
           /\ strncmp!neg_offset \div 8 = N - strncmp!Into2
           /\ strncmp!Into2 # 0 => strncmp!neg_offset % (8 * N) = 8 * (N - strncmp!Into2)
<1> DEFINE x == (call.s2 - call.s1) % N
<1>1. strncmp!offset = 8 * x /\ x \in 0 .. (N - 1) /\ N \in Nat /\ N >= 2
  <2>1. call.s2 - call.s1 \in Int
    OBVIOUS
  <2>2. strncmp!offset = 8 * x
    BY StrncmpSimd DEF strncmp!offset
  <2>. QED
    BY <2>1, <2>2, WordSize, EightMod
<1>2. strncmp!neg_offset = 8 * N - strncmp!offset
  BY StrncmpSimd DEF strncmp!neg_offset
<1> HIDE DEF x
<1>3. strncmp!Into2 = x
  <2>1. (8 * x) \div 8 = x
    BY <1>1
  <2>. QED
    BY <1>1, <2>1 DEF strncmp!Into2
<1>4. strncmp!neg_offset = 8 * (N - x) /\ strncmp!neg_offset \in Int
  BY <1>1, <1>2
<1>5. (8 * (N - x)) \div 8 = N - x
  BY <1>1
<1>6. (8 * x) % (8 * N) = 8 * x
  <2>1. x % N = x /\ x \in Int
    BY <1>1, ModSmall
  <2>. QED
    BY <1>1, <2>1, EightMod
<1>7. ASSUME x # 0 PROVE (8 * (N - x)) % (8 * N) = 8 * (N - x)
  <2>1. N - x \in 0 .. (N - 1) /\ N - x \in Int
    BY <1>1, <1>7
  <2>2. (N - x) % N = N - x
    BY <1>1, <2>1, ModSmall
  <2>. QED
    BY <2>1, <2>2, EightMod
<1>8. x = (call.s2 - call.s1) % N
  BY DEF x
<1>9. strncmp!offset \in Int
  BY <1>1
<1>. QED
  BY <1>1, <1>3, <1>4, <1>5, <1>6, <1>7, <1>8, <1>9

\* What the invariant says.
LEMMA StrncmpIs ==
    ASSUME strncmp!IInv
    PROVE  /\ ValidStrings(call) /\ strncmp!ValidLimit(call) /\ RegistersInv
           /\ call.s1 \in Nat /\ call.s2 \in Nat /\ call.n \in Nat /\ N \in Nat /\ N >= 2
           /\ Size \in Nat /\ Size > 2 * N /\ call.n < Size
           /\ src1 \in Nat /\ src2 \in Nat /\ limit \in 0 .. (Size - 1) /\ count \in Nat
           /\ strncmp!Progress = src1 - call.s1 /\ strncmp!Base = (src1 - call.s1) - N
           /\ strncmp!Place2 = call.s2 + ((src1 - call.s1) - N)
           /\ strncmp!PlaceInv /\ strncmp!LimitInv
           /\ IF call.n = 0 THEN rd1 = {} /\ rd2 = {}
              ELSE /\ rd1 \subseteq Granules(call.s1, strncmp!LastByte(call.s1))
                   /\ rd2 \subseteq Granules(call.s2, strncmp!LastByte(call.s2))
<1>1. ValidStrings(call) /\ strncmp!ValidLimit(call) /\ RegistersInv
  BY StrncmpInvNames DEF strncmp!IInv
<1>2. call.s1 \in Nat /\ call.s2 \in Nat /\ call.n \in Nat /\ N \in Nat /\ N >= 2
  BY <1>1, MemoryIs, WordSize
<1>3. Size \in Nat /\ Size > 2 * N /\ call.n < Size
  BY <1>1, SizeIs
<1>4. /\ strncmp!Progress = src1 - call.s1 /\ strncmp!Base = (src1 - call.s1) - N
      /\ strncmp!Place2 = call.s2 + ((src1 - call.s1) - N)
  BY StrncmpSimd DEF strncmp!Progress, strncmp!Base, strncmp!Place2
<1>5. /\ strncmp!PlaceInv /\ strncmp!LimitInv
      /\ src1 \in Nat /\ src2 \in Nat /\ limit \in 0 .. (Size - 1) /\ count \in Nat
  BY DEF strncmp!IInv, strncmp!PlaceInv
<1>6. IF call.n = 0 THEN rd1 = {} /\ rd2 = {}
      ELSE /\ rd1 \subseteq Granules(call.s1, strncmp!LastByte(call.s1))
           /\ rd2 \subseteq Granules(call.s2, strncmp!LastByte(call.s2))
  BY StrncmpNames DEF strncmp!IInv, strncmp!Footprint
<1>. QED
  BY <1>1, <1>2, <1>3, <1>4, <1>5, <1>6

-----------------------------------------------------------------------------
\* Each step of strncmp keeps the invariant: with a limit of 0, and with another.
LEMMA StrncmpRet0 ==
    ASSUME strncmp!IInv, strncmp!Ret0
    PROVE  strncmp!IInv'
<1>1. /\ ValidStrings(call) /\ strncmp!ValidLimit(call) /\ RegistersInv
      /\ call.s1 \in Nat /\ call.s2 \in Nat /\ call.n \in Nat /\ N \in Nat
      /\ src1 \in Nat /\ src2 \in Nat /\ limit \in 0 .. (Size - 1) /\ count \in Nat
      /\ strncmp!PlaceInv
      /\ IF call.n = 0 THEN rd1 = {} /\ rd2 = {}
         ELSE /\ rd1 \subseteq Granules(call.s1, strncmp!LastByte(call.s1))
              /\ rd2 \subseteq Granules(call.s2, strncmp!LastByte(call.s2))
  BY StrncmpIs
<1>2. /\ pc = "entry" /\ limit = 0 /\ result' = 0 /\ pc' = "ret"
      /\ call' = call /\ src1' = src1 /\ src2' = src2 /\ rd1' = rd1 /\ rd2' = rd2
      /\ limit' = limit /\ count' = count
      /\ data1' = data1 /\ data2' = data2 /\ syndrome' = syndrome
  BY DEF strncmp!Ret0, strncmp!Return, strncmp!words
<1>3. call.n = 0
  BY <1>1, <1>2 DEF strncmp!PlaceInv
<1>4. strncmp!Answer = 2 /\ Sign(0) = 2
  <2>1. Alike(0)
    BY DEF Alike
  <2>. QED
    BY <1>1, <1>3, <2>1, StrncmpStopIs DEF Sign
<1>5. strncmp!PlaceInv'
  BY <1>1, <1>2 DEF strncmp!PlaceInv, strncmp!Words, strncmp!Checks
<1>6. strncmp!LimitInv' /\ strncmp!WordsInv'
  BY <1>2 DEF strncmp!LimitInv, strncmp!WordsInv, strncmp!Words
<1>7. pc' \in strncmp!Labels /\ src1' \in Int
  BY <1>1, <1>2 DEF strncmp!Labels
<1>. QED
  BY <1>1, <1>2, <1>3, <1>4, <1>5, <1>6, <1>7, StrncmpKept DEF RegistersInv

LEMMA StrncmpEntry ==
    ASSUME strncmp!IInv, strncmp!Entry
    PROVE  strncmp!IInv'
<1>1. /\ ValidStrings(call) /\ strncmp!ValidLimit(call) /\ RegistersInv
      /\ call.s1 \in Nat /\ call.s2 \in Nat /\ call.n \in Nat /\ N \in Nat /\ N >= 2
      /\ src1 \in Nat /\ src2 \in Nat /\ limit \in 0 .. (Size - 1) /\ count \in Nat
      /\ strncmp!PlaceInv
      /\ IF call.n = 0 THEN rd1 = {} /\ rd2 = {}
         ELSE /\ rd1 \subseteq Granules(call.s1, strncmp!LastByte(call.s1))
              /\ rd2 \subseteq Granules(call.s2, strncmp!LastByte(call.s2))
  BY StrncmpIs
<1>2. /\ pc = "entry" /\ limit # 0 /\ count' = src1 % N
      /\ call' = call /\ src1' = src1 /\ src2' = src2 /\ rd1' = rd1 /\ rd2' = rd2
      /\ limit' = limit
      /\ data1' = data1 /\ data2' = data2 /\ syndrome' = syndrome
  BY StrncmpSimd DEF strncmp!Entry, strncmp!words
<1>3. src1 = call.s1 /\ src2 = call.s2 /\ limit = call.n /\ limit > 0
  BY <1>1, <1>2 DEF strncmp!PlaceInv
<1>4. strncmp!Into2 = 0 <=> (src1 - src2) % N = 0
  <2>1. src1 - src2 \in Int /\ -(src1 - src2) = src2 - src1
    BY <1>1
  <2>2. (src2 - src1) % N = IF (src1 - src2) % N = 0 THEN 0 ELSE N - ((src1 - src2) % N)
    BY <2>1, NegMod
  <2>3. (src1 - src2) % N \in 0 .. (N - 1) /\ strncmp!Into2 = (src2 - src1) % N
    BY <1>1, <1>3, <2>1, EightMod, IntoIs
  <2>. QED
    BY <1>1, <2>2, <2>3
<1>5. /\ pc' \in {"misaligned8", "mutual_align", "loop_aligned"}
      /\ pc' \in {"mutual_align", "loop_aligned"} => strncmp!Into2 = 0
      /\ pc' = "misaligned8" => strncmp!Into2 # 0
      /\ pc' = "mutual_align" => count' # 0
      /\ pc' = "loop_aligned" => src1 % N = 0
  <2>1. pc' = CASE (src1 - src2) % N # 0 -> "misaligned8"
              [] (src1 - src2) % N = 0 /\ count' # 0 -> "mutual_align"
              [] (src1 - src2) % N = 0 /\ count' = 0 -> "loop_aligned"
    BY StrncmpSimd DEF strncmp!Entry
  <2>. QED
    BY <1>2, <1>4, <2>1
<1>6. strncmp!N' = N /\ strncmp!Into2' = strncmp!Into2 /\ strncmp!Progress' = 0
  <2>1. strncmp!Progress' = src1 - call.s1
    BY <1>2 DEF strncmp!Progress
  <2>. QED
    BY <1>1, <1>2, <1>3, <2>1, StrncmpSame, StrncmpSimd
<1>7. src1 % N \in Nat
  BY <1>1, EightMod
<1>8. strncmp!PlaceInv'
  <2>1. /\ (pc \in {"entry", "mutual_align", "misaligned8"} =>
              src1 = call.s1 /\ src2 = call.s2 /\ limit = call.n)'
        /\ (pc \in {"mutual_align", "misaligned8"} => count = src1 % strncmp!N /\ limit > 0)'
        /\ (pc = "mutual_align" => count # 0)'
    BY <1>2, <1>3, <1>5, <1>6
  <2>2. (pc \in {"loop_aligned", "byte_loop", "page_end_loop", "src1_aligned"} =>
          strncmp!Progress >= 0 /\ src2 - call.s2 = strncmp!Progress)'
    BY <1>1, <1>2, <1>3, <1>6
  <2>3. pc' \notin strncmp!Checks \cup strncmp!Words
    BY <1>5 DEF strncmp!Checks, strncmp!Words
  <2>. QED
    BY <1>1, <1>2, <1>5, <1>6, <1>7, <2>1, <2>2, <2>3 DEF strncmp!PlaceInv, strncmp!Checks
<1>9. strncmp!LimitInv' /\ strncmp!WordsInv'
  <2>1. pc' \notin strncmp!Words /\ pc' \notin {"full_check", "syndrome_check"}
    BY <1>5 DEF strncmp!Words
  <2>2. (strncmp!Leaves(strncmp!Progress, limit))'
    BY <1>1, <1>2, <1>3, <1>6 DEF strncmp!Leaves
  <2>. QED
    BY <1>5, <2>1, <2>2 DEF strncmp!LimitInv, strncmp!WordsInv, strncmp!Words
<1>10. Alike(src1' - call.s1)
  BY <1>1, <1>2, <1>3 DEF Alike
<1>11. pc' \in strncmp!Labels /\ src1' \in Int
  BY <1>1, <1>2, <1>5 DEF strncmp!Labels
<1>12. pc' \notin {"loop_misaligned", "misaligned_mid_loop", "full_check", "step_C", "syndrome_check", "end", "ret"}
  BY <1>5
<1>. QED
  BY <1>1, <1>2, <1>8, <1>9, <1>10, <1>11, <1>12, StrncmpKept DEF RegistersInv

-----------------------------------------------------------------------------
\* A whole word in which nothing decides, or something does.
LEMMA AlikeWord ==
    ASSUME NEW base \in Int, Alike(base),
           \A i \in 0 .. (N - 1) : base + i < 0 \/ ~Decides(base + i)
    PROVE  Alike(base + N)
<1>1. N \in Nat
  BY WordSize
<1>2. SUFFICES ASSUME NEW j \in 0 .. ((base + N) - 1)
               PROVE  SameAt(j) /\ ~EndsAt(j)
  BY DEF Alike
<1>3. CASE j < base
  <2>1. j \in 0 .. (base - 1)
    BY <1>1, <1>3
  <2>. QED
    BY <2>1 DEF Alike
<1>4. CASE ~(j < base)
  <2> DEFINE i == j - base
  <2>1. i \in 0 .. (N - 1) /\ base + i = j /\ ~(j < 0)
    BY <1>1, <1>4
  <2>. HIDE DEF i
  <2>2. ~Decides(j)
    BY <2>1
  <2>. QED
    BY <2>2 DEF Decides
<1>. QED
  BY <1>3, <1>4

\* Words are the same, with no NUL, just if none of their bytes decides.
LEMMA WordsClear ==
    ASSUME ValidStrings(call), NEW base \in Int, NEW d1 \in SUBSET XBits, NEW d2 \in SUBSET XBits,
           \A i \in 0 .. (N - 1) : Holds(d1, d2, base, i)
    PROVE  (d1 = d2 /\ HasZero(d1) = {})
             <=> \A i \in 0 .. (N - 1) : base + i < 0 \/ ~Decides(base + i)
<1>1. \A i \in 0 .. (N - 1) : Clear(d1, d2, i) <=> (base + i < 0 \/ ~Decides(base + i))
  BY ClearIs
<1>2. HasZero(d1) = {} <=> \A i \in 0 .. (N - 1) : Bits(d1, i) # {}
  BY NulsNone
<1>3. d1 = d2 <=> \A i \in 0 .. (N - 1) : Bits(d1, i) = Bits(d2, i)
  BY SameBits
<1>4. (d1 = d2 /\ HasZero(d1) = {}) <=> \A i \in 0 .. (N - 1) : Clear(d1, d2, i)
  BY <1>2, <1>3 DEF Clear
<1>. QED
  BY <1>1, <1>4

\* Words loaded and fully checked, with l bytes left.
WordsHeld(d1, d2, base) == /\ d1 \in SUBSET XBits /\ d2 \in SUBSET XBits
                           /\ \A i \in 0 .. (N - 1) : Holds(d1, d2, base, i)

\* Words compared with l bytes to the limit, which wraps when it is less than a word: they
\* are passed over, or it is for the full check to decide.
LEMMA FullCompared ==
    ASSUME ValidStrings(call), strncmp!ValidLimit(call), NEW base \in Int,
           NEW d1, NEW d2, WordsHeld(d1, d2, base), Alike(base),
           NEW l \in 1 .. (Size - 1), NEW w, w = strncmp!Minus(l, N)
    PROVE  /\ w \in 0 .. (Size - 1) /\ strncmp!Minus(w, -N) = l
           /\ l > N /\ d1 = d2 /\ HasZero(d1) = {} => Alike(base + N) /\ w = l - N /\ w > 0
           /\ ~(l > N /\ d1 = d2 /\ HasZero(d1) = {}) => FullOf(d1, d2, l, base)
<1>1. Size \in Nat /\ Size > 2 * N /\ N \in Nat
  BY SizeIs, WordSize
<1>2. l \in 0 .. (Size - 1)
  BY <1>1
<1>3. /\ w \in 0 .. (Size - 1) /\ strncmp!Minus(w, -N) = l
      /\ w = IF l >= N THEN l - N ELSE (l - N) + Size
  BY <1>1, <1>2, LimitWraps
<1>4. (d1 = d2 /\ HasZero(d1) = {}) <=> \A i \in 0 .. (N - 1) : base + i < 0 \/ ~Decides(base + i)
  BY WordsClear DEF WordsHeld
<1>5. ASSUME l > N, d1 = d2, HasZero(d1) = {}
      PROVE  Alike(base + N) /\ w = l - N /\ w > 0
  <2>1. Alike(base + N)
    BY <1>4, <1>5, AlikeWord
  <2>2. w = l - N /\ w > 0
    BY <1>1, <1>2, <1>3, <1>5
  <2>. QED
    BY <2>1, <2>2
<1>6. ASSUME ~(l > N /\ d1 = d2 /\ HasZero(d1) = {})
      PROVE  FullOf(d1, d2, l, base)
  <2>1. ASSUME l > N PROVE \E i \in 0 .. (N - 1) : base + i >= 0 /\ Decides(base + i)
    <3>1. PICK i \in 0 .. (N - 1) : ~(base + i < 0 \/ ~Decides(base + i))
      BY <1>4, <1>6, <2>1
    <3>2. base + i >= 0
      BY <3>1
    <3>. QED
      BY <3>1, <3>2
  <2>. QED
    BY <2>1 DEF FullOf, WordsHeld
<1>. QED
  BY <1>3, <1>5, <1>6

\* What is left after a word that is passed over.
LEMMA LeavesNext ==
    ASSUME ValidStrings(call), NEW base \in Int, NEW l \in Int, l > N, strncmp!Leaves(base, l)
    PROVE  strncmp!Leaves(base + N, l - N)
<1>1. (base + N) + (l - N) = base + l /\ l - N > 0
  BY WordSize
<1>. QED
  BY <1>1 DEF strncmp!Leaves

\* strncmp: words compared at L(start_realigned).
LEMMA StrncmpStart ==
    ASSUME ValidStrings(call), strncmp!ValidLimit(call), call' = call, NEW base \in Int,
           NEW d1, NEW d2, WordsHeld(d1, d2, base), Alike(base),
           NEW l \in 1 .. (Size - 1), strncmp!Leaves(base, l),
           strncmp!StartRealigned(d1, d2, l), src1' \in Nat, src1' = call.s1 + (base + N),
           src2' \in Nat, src2' = call.s2 + (base + N), base + N \in Nat,
           count' \in Nat, strncmp!Into2 = 0, src1' % N = 0
    PROVE  /\ data1' \subseteq XBits /\ data2' \subseteq XBits
           /\ pc' \in {"loop_aligned", "full_check"}
           /\ strncmp!PlaceInv' /\ strncmp!LimitInv' /\ strncmp!WordsInv'
           /\ pc' = "loop_aligned" => Alike(src1' - call.s1)
           /\ pc' = "full_check" => /\ Alike((src1' - call.s1) - N)
                                    /\ FullOf(data1', data2', strncmp!Left', (src1' - call.s1) - N)
<1>1. Size \in Nat /\ Size > 2 * N /\ N \in Nat /\ call.s1 \in Nat /\ call.s2 \in Nat
  BY SizeIs, WordSize, MemoryIs
<1>2. /\ data1' = d1 /\ data2' = d2 /\ limit' = strncmp!Minus(l, N)
      /\ pc' = IF l > N /\ d1 = d2 /\ HasZero(d1) = {} THEN "loop_aligned" ELSE "full_check"
  BY StrncmpSimd DEF strncmp!StartRealigned
<1>3. /\ limit' \in 0 .. (Size - 1) /\ strncmp!Minus(limit', -N) = l
      /\ l > N /\ d1 = d2 /\ HasZero(d1) = {} => Alike(base + N) /\ limit' = l - N /\ limit' > 0
      /\ ~(l > N /\ d1 = d2 /\ HasZero(d1) = {}) => FullOf(d1, d2, l, base)
  BY <1>2, FullCompared
<1>4. strncmp!Left' = l
  <2>1. strncmp!Left' = strncmp!Minus(limit', -N)
    BY DEF strncmp!Left, strncmp!Minus, strncmp!N, N
  <2>. QED
    BY <1>3, <2>1
<1>5. src1' - call.s1 = base + N /\ (src1' - call.s1) - N = base /\ src2' - call.s2 = base + N
  BY <1>1
<1>6. strncmp!Progress' = base + N /\ strncmp!Base' = base
  BY <1>5, StrncmpSimd DEF strncmp!Progress, strncmp!Base, strncmp!N, N
<1>7. pc' \in {"loop_aligned", "full_check"} /\ pc' \notin strncmp!Words
  BY <1>2 DEF strncmp!Words
<1>8. strncmp!PlaceInv'
  <2>1. strncmp!Into2' = strncmp!Into2 /\ strncmp!N' = N
    BY StrncmpSame
  <2>2. (pc \in {"loop_aligned", "byte_loop", "page_end_loop", "src1_aligned"} =>
          strncmp!Progress >= 0 /\ src2 - call.s2 = strncmp!Progress)'
    BY <1>5, <1>6
  <2>3. (pc \in strncmp!Checks => strncmp!Progress >= 0)'
    BY <1>6 DEF strncmp!Checks
  <2>. QED
    BY <1>3, <1>7, <2>1, <2>2, <2>3 DEF strncmp!PlaceInv, strncmp!Words
<1>9. strncmp!LimitInv' /\ strncmp!WordsInv'
  <2>1. ASSUME pc' = "loop_aligned" PROVE (strncmp!Leaves(strncmp!Progress, limit))'
    <3>1. l > N /\ limit' = l - N
      BY <1>2, <1>3, <2>1
    <3>2. strncmp!Leaves(base + N, limit')
      BY <3>1, LeavesNext
    <3>3. strncmp!Stop' = strncmp!Stop
      BY StrncmpSame
    <3>. QED
      BY <1>6, <3>2, <3>3 DEF strncmp!Leaves
  <2>2. (strncmp!Leaves(strncmp!Base, strncmp!Left))'
    <3>3. strncmp!Stop' = strncmp!Stop
      BY StrncmpSame
    <3>. QED
      BY <1>4, <1>6, <3>3 DEF strncmp!Leaves
  <2>3. (limit = strncmp!Minus(strncmp!Left, strncmp!N))'
    BY <1>2, <1>4 DEF strncmp!Minus, strncmp!N, N
  <2>. QED
    BY <1>7, <2>1, <2>2, <2>3 DEF strncmp!LimitInv, strncmp!WordsInv, strncmp!Words
<1>10. pc' = "loop_aligned" => Alike(base + N)
  BY <1>2, <1>3
<1>11. pc' = "full_check" => FullOf(d1, d2, l, base)
  BY <1>2, <1>3
<1>. QED
  BY <1>2, <1>4, <1>5, <1>7, <1>8, <1>9, <1>10, <1>11 DEF WordsHeld

-----------------------------------------------------------------------------
\* An aligned chunk that has the next byte to be compared.
LEMMA ChunkRead ==
    ASSUME ValidStrings(call), NEW s \in {call.s1, call.s2}, NEW k \in Nat, Alike(k), k < call.n,
           NEW n \in {N, W}, NEW a \in Int, a % n = 0, a <= s + k, s + k < a + n
    PROVE  /\ Chunk(a, n) \subseteq Granules(s, strncmp!LastByte(s))
           /\ \A i \in 0 .. (n - 1) : a + i \in DOMAIN m
<1>1. strncmp!LastByte(s) \in Nat /\ s + k <= strncmp!LastByte(s)
  BY LastByteIs
<1>. QED
  BY <1>1, ChunkOfString

\* strncmp: of strings that are aligned alike, and
LEMMA StrncmpLoopAligned ==
    ASSUME strncmp!IInv, strncmp!LoopAligned
    PROVE  strncmp!IInv'
<1>1. /\ ValidStrings(call) /\ strncmp!ValidLimit(call) /\ RegistersInv
      /\ call.s1 \in Nat /\ call.s2 \in Nat /\ call.n \in Nat /\ N \in Nat /\ N >= 2
      /\ Size \in Nat
      /\ src1 \in Nat /\ src2 \in Nat /\ limit \in 0 .. (Size - 1) /\ count \in Nat
      /\ strncmp!Progress = src1 - call.s1 /\ strncmp!PlaceInv /\ strncmp!LimitInv
  BY StrncmpIs
<1>2. /\ pc = "loop_aligned" /\ call' = call /\ count' = count /\ syndrome' = syndrome
      /\ src1' = src1 + N /\ src2' = src2 + N
      /\ rd1' = Chunk(src1, N) /\ rd2' = Chunk(src2, N)
      /\ strncmp!StartRealigned(Ldr(src1), Ldr(src2), limit)
  BY StrncmpSimd, StrncmpNames DEF strncmp!LoopAligned, strncmp!LoadWords
<1> DEFINE base == src1 - call.s1
<1>3. /\ base \in Nat /\ src2 - call.s2 = base /\ src1 % N = 0 /\ strncmp!Into2 = 0
  BY <1>1, <1>2, StrncmpSimd DEF strncmp!PlaceInv
<1>4. strncmp!Leaves(base, limit)
  BY <1>1, <1>2 DEF strncmp!LimitInv
<1>5. Alike(base)
  BY <1>1, <1>2, StrncmpInvNames DEF strncmp!IInv, strncmp!PassedInv
<1>6. src1 = call.s1 + base /\ src2 = call.s2 + base /\ base \in Int
  BY <1>1, <1>3
<1> HIDE DEF base
<1>7. limit > 0 /\ base + limit <= call.n
  BY <1>1, <1>3, <1>4 DEF strncmp!Leaves
<1>8. base < call.n /\ limit \in 1 .. (Size - 1)
  BY <1>1, <1>3, <1>7
<1>9. src2 % N = 0
  <2>1. src2 = src1 + (call.s2 - call.s1) /\ call.s2 - call.s1 \in Int /\ src1 \in Int
    BY <1>1, <1>6
  <2>2. (src1 + (call.s2 - call.s1)) % N = (call.s2 - call.s1) % N
    BY <1>3, <2>1, ModAdd
  <2>. QED
    BY <1>1, <1>3, <2>1, <2>2, IntoIs
<1>10. /\ rd1' \subseteq Granules(call.s1, strncmp!LastByte(call.s1))
       /\ \A i \in 0 .. (N - 1) : src1 + i \in DOMAIN m
  <2>1. src1 <= call.s1 + base /\ call.s1 + base < src1 + N /\ src1 \in Int
    BY <1>1, <1>3, <1>6
  <2>. QED
    BY <1>1, <1>2, <1>3, <1>5, <1>8, <2>1, ChunkRead
<1>11. /\ rd2' \subseteq Granules(call.s2, strncmp!LastByte(call.s2))
       /\ \A i \in 0 .. (N - 1) : src2 + i \in DOMAIN m
  <2>1. src2 <= call.s2 + base /\ call.s2 + base < src2 + N /\ src2 \in Int
    BY <1>1, <1>3, <1>6
  <2>. QED
    BY <1>1, <1>2, <1>3, <1>5, <1>8, <1>9, <2>1, ChunkRead
<1>12. \A i \in 0 .. (N - 1) : Holds(Ldr(src1), Ldr(src2), base, i)
  <2>1. \A i \in 0 .. (N - 1) : ~(base + i < 0)
    BY <1>1, <1>3
  <2>2. \A i \in 0 .. (N - 1) :
          Bits(Ldr(src1), i) = BitsOf(m[src1 + i]) /\ Bits(Ldr(src2), i) = BitsOf(m[src2 + i])
    BY BitsLdr
  <2>3. 0 \in Nat
    OBVIOUS
  <2>. QED
    BY <1>1, <1>6, <1>10, <1>11, <2>1, <2>2, <2>3, HoldsOf
<1>13. WordsHeld(Ldr(src1), Ldr(src2), base)
  BY <1>12, BitsLdr DEF WordsHeld
<1>14. /\ src1' \in Nat /\ src1' = call.s1 + (base + N) /\ src2' \in Nat
       /\ src2' = call.s2 + (base + N)
       /\ base + N \in Nat
  <2>1. src1' = src1 + N /\ src2' = src2 + N
    BY <1>2
  <2>. QED
    BY <1>1, <1>3, <1>6, <2>1
<1>15. src1' % N = 0
  <2>1. src1 \in Int /\ N > 0
    BY <1>1
  <2>. QED
    BY <1>1, <1>2, <1>3, <2>1, ModPlus
<1>16. count' \in Nat
  BY <1>1, <1>2
<1>17. /\ data1' \subseteq XBits /\ data2' \subseteq XBits
       /\ pc' \in {"loop_aligned", "full_check"}
       /\ strncmp!PlaceInv' /\ strncmp!LimitInv' /\ strncmp!WordsInv'
       /\ pc' = "loop_aligned" => Alike(src1' - call.s1)
       /\ pc' = "full_check" => /\ Alike((src1' - call.s1) - N)
                                /\ FullOf(data1', data2', strncmp!Left', (src1' - call.s1) - N)
  BY <1>1, <1>2, <1>3, <1>4, <1>5, <1>6, <1>8, <1>13, <1>14, <1>15, <1>16, StrncmpStart
<1>18. call.n # 0 /\ pc' \in strncmp!Labels /\ src1' \in Int /\ syndrome' \subseteq XBits
  BY <1>1, <1>2, <1>3, <1>8, <1>14, <1>17 DEF strncmp!Labels, RegistersInv
<1>. QED
  BY <1>1, <1>2, <1>10, <1>11, <1>17, <1>18, StrncmpKept

\* The limit may be increased by the bytes before the strings, and is still beyond what
\* decides if it would wrap.
LEMMA SaturatedIs ==
    ASSUME ValidStrings(call), strncmp!ValidLimit(call), limit = call.n, limit > 0,
           count \in 0 .. call.s1
    PROVE  /\ strncmp!Saturated(limit) \in 1 .. (Size - 1)
           /\ strncmp!Leaves(-count, strncmp!Saturated(limit))
<1>1. Size \in Nat /\ Size > 2 * N /\ call.n < Size /\ call.n \in Nat /\ call.s1 \in Nat
      /\ N \in Nat
  BY SizeIs, MemoryIs, WordSize
<1>2. PICK s \in Nat : strncmp!Stop = s /\ Alike(s)
  BY StrncmpStopExists
<1>3. call.s1 + s + 1 < Size
  <2>1. call.s1 + s \in DOMAIN m
    BY <1>2, AlikeReaches
  <2>. QED
    BY <2>1, SizeIs
<1> DEFINE l == strncmp!Saturated(limit)
<1>4. l = IF call.n + count >= Size THEN Size - 1 ELSE call.n + count
  BY DEF strncmp!Saturated
<1>5. l \in 1 .. (Size - 1) /\ (-count + l = call.n \/ (-count + l < call.n /\ s < -count + l))
  <2>1. CASE call.n + count >= Size
    <3>1. l = Size - 1
      BY <1>4, <2>1
    <3>2. -count + (Size - 1) < call.n /\ s < -count + (Size - 1)
      BY <1>1, <1>2, <1>3, <2>1
    <3>3. Size - 1 \in 1 .. (Size - 1)
      BY <1>1
    <3>. QED
      BY <3>1, <3>2, <3>3
  <2>2. CASE ~(call.n + count >= Size)
    <3>1. l = call.n + count
      BY <1>4, <2>2
    <3>. QED
      BY <1>1, <2>2, <3>1
  <2>. QED
    BY <2>1, <2>2
<1>. HIDE DEF l
<1>6. l > 0
  BY <1>1, <1>5
<1>7. strncmp!Leaves(-count, l)
  BY <1>2, <1>5, <1>6 DEF strncmp!Leaves
<1>. QED
  BY <1>5, <1>7 DEF l

\* their first words, with ones before the strings and a limit that saturates.
LEMMA StrncmpMutualAlign ==
    ASSUME strncmp!IInv, strncmp!MutualAlign
    PROVE  strncmp!IInv'
<1>1. /\ ValidStrings(call) /\ strncmp!ValidLimit(call) /\ RegistersInv
      /\ call.s1 \in Nat /\ call.s2 \in Nat /\ call.n \in Nat /\ N \in Nat /\ N >= 2
      /\ Size \in Nat
      /\ src1 \in Nat /\ src2 \in Nat /\ limit \in 0 .. (Size - 1) /\ count \in Nat
      /\ strncmp!PlaceInv
  BY StrncmpIs
<1> DEFINE r == call.s1 % N
           a == call.s1 - r
           b == call.s2 - r
           n == -(8 * r)
           before == LS_FW(XBits, n)
           l == strncmp!Saturated(limit)
<1>2. /\ pc = "mutual_align" /\ src1 = call.s1 /\ src2 = call.s2 /\ limit = call.n
      /\ count = r /\ r # 0 /\ limit > 0 /\ strncmp!Into2 = 0
      /\ call' = call /\ count' = count /\ syndrome' = syndrome
  <2>1. pc = "mutual_align" /\ call' = call /\ count' = count /\ syndrome' = syndrome
    BY DEF strncmp!MutualAlign
  <2>2. /\ src1 = call.s1 /\ src2 = call.s2 /\ limit = call.n
        /\ count = src1 % strncmp!N /\ count # 0 /\ limit > 0 /\ strncmp!Into2 = 0
    BY <1>1, <2>1 DEF strncmp!PlaceInv
  <2>. QED
    BY <2>1, <2>2, StrncmpSimd
<1>3. /\ r \in 1 .. (N - 1) /\ a \in Nat /\ a % N = 0 /\ a <= call.s1 /\ call.s1 < a + N
  <2>1. call.s1 \in Nat /\ N \in Nat /\ N > 0
    BY <1>1
  <2>2. /\ a \in Nat /\ a % N = 0 /\ r \in 0 .. (N - 1) /\ a <= call.s1 /\ call.s1 < a + N
    BY <2>1, StartIs
  <2>. QED
    BY <1>1, <1>2, <2>2
<1>4. call.s2 % N = r
  <2>1. call.s2 - call.s1 \in Int /\ (call.s2 - call.s1) + call.s1 = call.s2 /\ call.s1 \in Int
    BY <1>1
  <2>2. (call.s2 - call.s1) % N = 0
    BY <1>1, <1>2, IntoIs
  <2>3. ((call.s2 - call.s1) + call.s1) % N = call.s1 % N
    BY <2>1, <2>2, ModAdd
  <2>. QED
    BY <2>1, <2>3
<1>5. b \in Nat /\ b % N = 0 /\ b <= call.s2 /\ call.s2 < b + N
  <2>1. call.s2 \in Nat /\ N \in Nat /\ N > 0
    BY <1>1
  <2>2. /\ call.s2 - (call.s2 % N) \in Nat /\ (call.s2 - (call.s2 % N)) % N = 0
        /\ call.s2 - (call.s2 % N) <= call.s2 /\ call.s2 < (call.s2 - (call.s2 % N)) + N
    BY <2>1, StartIs
  <2>. QED
    BY <1>4, <2>2
<1>6. n \in Int /\ n % (8 * N) = 8 * (N - r)
  <2>1. -(8 * r) = 8 * (-r) /\ -r \in Int /\ r \in Int
    BY <1>1, <1>3
  <2>2. r % N = r
    BY <1>1, <1>3, ModSmall
  <2>3. (-r) % N = N - r
    BY <1>2, <2>1, <2>2, NegMod
  <2>4. (8 * (-r)) % (8 * N) = 8 * ((-r) % N)
    BY <2>1, EightMod
  <2>. QED
    BY <2>1, <2>3, <2>4
<1>7. /\ src1' = a + N /\ src2' = b + N /\ rd1' = Chunk(a, N) /\ rd2' = Chunk(b, N)
      /\ strncmp!StartRealigned(Ldr(a) \cup before, Ldr(b) \cup before, l)
  BY <1>2, <1>4, StrncmpSimd, StrncmpNames DEF strncmp!MutualAlign, strncmp!LoadWords
<1>8. l \in 1 .. (Size - 1) /\ strncmp!Leaves(-r, l)
  <2>1. count \in 0 .. call.s1
    BY <1>1, <1>2, <1>3
  <2>. QED
    BY <1>1, <1>2, <2>1, SaturatedIs
<1>9. a = call.s1 - r /\ b = call.s2 - r /\ a \in Int /\ b \in Int
  BY <1>1, <1>3, <1>5
<1> HIDE DEF r, n, l
<1>10. /\ Ldr(a) \cup before \in SUBSET XBits /\ Ldr(b) \cup before \in SUBSET XBits
       /\ \A i \in 0 .. (N - 1) : Holds(Ldr(a) \cup before, Ldr(b) \cup before, -r, i)
       /\ Alike(-r) /\ Alike(0)
  BY <1>1, <1>3, <1>5, <1>6, FirstWords
<1>11. WordsHeld(Ldr(a) \cup before, Ldr(b) \cup before, -r)
  BY <1>10 DEF WordsHeld
<1> HIDE DEF a, b, before
<1>12. /\ rd1' \subseteq Granules(call.s1, strncmp!LastByte(call.s1))
       /\ rd2' \subseteq Granules(call.s2, strncmp!LastByte(call.s2))
  <2>1. 0 \in Nat /\ 0 < call.n /\ a <= call.s1 + 0 /\ call.s1 + 0 < a + N /\ b <= call.s2 + 0
        /\ call.s2 + 0 < b + N
    BY <1>1, <1>2, <1>3, <1>5
  <2>2. Chunk(a, N) \subseteq Granules(call.s1, strncmp!LastByte(call.s1))
    BY <1>1, <1>3, <1>9, <1>10, <2>1, ChunkRead
  <2>3. Chunk(b, N) \subseteq Granules(call.s2, strncmp!LastByte(call.s2))
    BY <1>1, <1>5, <1>9, <1>10, <2>1, ChunkRead
  <2>. QED
    BY <1>7, <2>2, <2>3
<1>13. /\ src1' \in Nat /\ src1' = call.s1 + (-r + N) /\ src2' \in Nat /\ src2' = call.s2 + (-r + N)
       /\ -r + N \in Nat /\ -r \in Int
  BY <1>1, <1>3, <1>5, <1>7, <1>9
<1>14. src1' % N = 0
  <2>1. a \in Int /\ N > 0
    BY <1>1, <1>9
  <2>. QED
    BY <1>1, <1>3, <1>7, <2>1, ModPlus
<1>15. count' \in Nat
  BY <1>1, <1>2
<1>16. /\ data1' \subseteq XBits /\ data2' \subseteq XBits
       /\ pc' \in {"loop_aligned", "full_check"}
       /\ strncmp!PlaceInv' /\ strncmp!LimitInv' /\ strncmp!WordsInv'
       /\ pc' = "loop_aligned" => Alike(src1' - call.s1)
       /\ pc' = "full_check" => /\ Alike((src1' - call.s1) - N)
                                /\ FullOf(data1', data2', strncmp!Left', (src1' - call.s1) - N)
  BY <1>1, <1>2, <1>7, <1>8, <1>10, <1>11, <1>13, <1>14, <1>15, StrncmpStart
<1>17. call.n # 0 /\ pc' \in strncmp!Labels /\ src1' \in Int /\ syndrome' \subseteq XBits
  BY <1>1, <1>2, <1>13, <1>16 DEF strncmp!Labels, RegistersInv
<1>. QED
  BY <1>1, <1>2, <1>12, <1>16, <1>17, StrncmpKept

-----------------------------------------------------------------------------
\* strncmp: strings that are not are compared by bytes, to the end or until src1 is aligned.
LEMMA StrncmpMisaligned8 ==
    ASSUME strncmp!IInv, strncmp!Misaligned8
    PROVE  strncmp!IInv'
<1>1. /\ ValidStrings(call) /\ strncmp!ValidLimit(call) /\ RegistersInv
      /\ call.s1 \in Nat /\ call.s2 \in Nat /\ call.n \in Nat /\ N \in Nat /\ N >= 2
      /\ Size \in Nat
      /\ src1 \in Nat /\ src2 \in Nat /\ limit \in 0 .. (Size - 1) /\ count \in Nat
      /\ strncmp!PlaceInv
      /\ IF call.n = 0 THEN rd1 = {} /\ rd2 = {}
         ELSE /\ rd1 \subseteq Granules(call.s1, strncmp!LastByte(call.s1))
              /\ rd2 \subseteq Granules(call.s2, strncmp!LastByte(call.s2))
  BY StrncmpIs
<1>2. /\ pc = "misaligned8" /\ call' = call /\ src1' = src1 /\ src2' = src2 /\ rd1' = rd1
      /\ rd2' = rd2
      /\ data1' = data1 /\ data2' = data2 /\ syndrome' = syndrome
  BY DEF strncmp!Misaligned8, strncmp!words
<1>3. /\ src1 = call.s1 /\ src2 = call.s2 /\ limit = call.n /\ limit > 0
      /\ count = src1 % N /\ strncmp!Into2 # 0
  BY <1>1, <1>2, StrncmpSimd DEF strncmp!PlaceInv
<1>4. \/ pc' = "byte_loop" /\ count' = count /\ limit' = limit
      \/ pc' = "src1_aligned" /\ count = 0 /\ count' = count /\ limit' = limit /\ limit >= W
      \/ pc' = "page_end_loop" /\ count # 0 /\ count' = (-count) % N /\ limit' = limit - count'
         /\ limit >= W
  BY <1>1, WordSize, StrncmpSimd DEF strncmp!Misaligned8
<1>5. count \in 0 .. (N - 1) /\ W = 2 * N /\ (count # 0 => (-count) % N = N - count)
  <2>1. count \in 0 .. (N - 1) /\ W = 2 * N /\ count \in Int
    <3>1. src1 \in Int
      BY <1>1
    <3>2. src1 % N \in 0 .. (N - 1)
      BY <3>1, EightMod
    <3>. QED
      BY <1>1, <1>3, <3>2, WordSize
  <2>2. count % N = count
    BY <1>1, <2>1, ModSmall
  <2>. QED
    BY <2>1, <2>2, NegMod
<1>6. ASSUME count # 0 PROVE (src1 + (N - count)) % N = 0
  <2>1. src1 \in Nat /\ N \in Nat /\ N > 0
    BY <1>1
  <2>2. (src1 + N) - (src1 % N) = (src1 - (src1 % N)) + N /\ ((src1 - (src1 % N)) + N) % N = 0
    BY <2>1, StartIs
  <2>3. src1 + (N - count) = (src1 + N) - count
    BY <1>1
  <2>. QED
    BY <1>3, <2>2, <2>3
<1>7. /\ limit' \in 0 .. (Size - 1) /\ limit' > 0 /\ count' \in Nat
      /\ pc' \in {"page_end_loop", "src1_aligned"} => limit' > N
      /\ pc' \in {"byte_loop", "src1_aligned"} => limit' = call.n
      /\ pc' = "page_end_loop" => count' > 0 /\ count' + limit' = call.n /\ (src1 + count') % N = 0
      /\ pc' = "src1_aligned" => src1 % N = 0
  <2>1. CASE pc' = "byte_loop" /\ count' = count /\ limit' = limit
    BY <1>1, <1>3, <2>1
  <2>2. CASE pc' = "src1_aligned" /\ count = 0 /\ count' = count /\ limit' = limit /\ limit >= W
    <3>1. src1 % N = 0
      BY <1>3, <2>2
    <3>2. limit' > N /\ limit' = call.n /\ limit' \in 0 .. (Size - 1) /\ count' \in Nat
      BY <1>1, <1>3, <1>5, <2>2
    <3>. QED
      BY <1>3, <2>2, <3>1, <3>2
  <2>3. CASE pc' = "page_end_loop" /\ count # 0 /\ count' = (-count) % N /\ limit' = limit - count'
             /\ limit >= W
    <3>1. count' = N - count /\ limit' = limit - (N - count)
      BY <1>5, <2>3
    <3>2. (src1 + count') % N = 0
      BY <1>6, <2>3, <3>1
    <3>3. count' > 0 /\ count' \in Nat /\ count' + limit' = call.n /\ limit' > N
      BY <1>1, <1>3, <1>5, <2>3, <3>1
    <3>4. limit' \in 0 .. (Size - 1)
      BY <1>1, <1>5, <3>1, <3>3
    <3>. QED
      BY <1>1, <2>3, <3>2, <3>3, <3>4
  <2>. QED
    BY <1>4, <2>1, <2>2, <2>3
<1>8. pc' \in {"byte_loop", "src1_aligned", "page_end_loop"}
  BY <1>4
<1>9. strncmp!N' = N /\ strncmp!Into2' = strncmp!Into2 /\ strncmp!Progress' = 0
  <2>1. strncmp!Progress' = src1 - call.s1
    BY <1>2 DEF strncmp!Progress
  <2>. QED
    BY <1>1, <1>2, <1>3, <2>1, StrncmpSame
<1>10. strncmp!PlaceInv'
  <2>1. pc' \notin strncmp!Checks \cup strncmp!Words
    BY <1>8 DEF strncmp!Checks, strncmp!Words
  <2>2. (pc \in {"loop_aligned", "byte_loop", "page_end_loop", "src1_aligned"} =>
          strncmp!Progress >= 0 /\ src2 - call.s2 = strncmp!Progress)'
    BY <1>1, <1>2, <1>3, <1>9
  <2>. QED
    BY <1>1, <1>2, <1>3, <1>7, <1>8, <1>9, <2>1, <2>2 DEF strncmp!PlaceInv, strncmp!Checks
<1>11. strncmp!LimitInv' /\ strncmp!WordsInv'
  <2>1. pc' \notin strncmp!Words
        /\ pc' \notin {"full_check", "syndrome_check", "loop_aligned", "step_C"}
    BY <1>8 DEF strncmp!Words
  <2>2. (pc \in {"byte_loop", "src1_aligned"} => strncmp!Progress + limit = call.n /\ limit > 0)'
    BY <1>1, <1>2, <1>7, <1>9
  <2>3. (pc = "page_end_loop" => strncmp!Progress + count + limit = call.n)'
    BY <1>1, <1>2, <1>7, <1>9
  <2>4. (pc \in {"page_end_loop", "src1_aligned"} => limit > strncmp!N)'
    BY <1>7, <1>9
  <2>. QED
    BY <2>1, <2>2, <2>3, <2>4 DEF strncmp!LimitInv, strncmp!WordsInv, strncmp!Words
<1>12. Alike(src1' - call.s1)
  BY <1>1, <1>2, <1>3 DEF Alike
<1>13. pc' \in strncmp!Labels /\ src1' \in Int
  BY <1>1, <1>2, <1>8 DEF strncmp!Labels
<1>14. pc' \notin {"loop_misaligned", "misaligned_mid_loop", "full_check", "step_C", "syndrome_check", "end", "ret"}
  BY <1>8
<1>. QED
  BY <1>1, <1>2, <1>10, <1>11, <1>12, <1>13, <1>14, StrncmpKept DEF RegistersInv

-----------------------------------------------------------------------------
\* The next byte of both strings, compared as both loops of bytes do.
LEMMA NextBytes ==
    ASSUME ValidStrings(call), NEW k \in Nat, Alike(k), k < call.n,
           NEW a, a = call.s1 + k, NEW b, b = call.s2 + k
    PROVE  /\ {a} \subseteq Granules(call.s1, strncmp!LastByte(call.s1))
           /\ {b} \subseteq Granules(call.s2, strncmp!LastByte(call.s2))
           /\ m[a] # 0 /\ m[a] = m[b] => Alike(k + 1) /\ Sign(m[a] - m[b]) = 2
           /\ ~(m[a] # 0 /\ m[a] = m[b]) => Sign(m[a] - m[b]) = strncmp!Answer
<1>1. call.s1 \in Nat /\ call.s2 \in Nat /\ call.n \in Nat
  BY MemoryIs
<1>2. /\ strncmp!LastByte(call.s1) \in Nat /\ call.s1 + k <= strncmp!LastByte(call.s1)
      /\ strncmp!LastByte(call.s2) \in Nat /\ call.s2 + k <= strncmp!LastByte(call.s2)
  BY LastByteIs
<1>3. call.s1 + k \in Granules(call.s1, strncmp!LastByte(call.s1))
  <2>1. call.s1 + k \in Nat /\ call.s1 <= call.s1 + k
    BY <1>1
  <2>. QED
    BY <1>1, <1>2, <2>1, BytesIn
<1>4. call.s2 + k \in Granules(call.s2, strncmp!LastByte(call.s2))
  <2>1. call.s2 + k \in Nat /\ call.s2 <= call.s2 + k
    BY <1>1
  <2>. QED
    BY <1>1, <1>2, <2>1, BytesIn
<1>5. m[a] \in 0 .. 255 /\ m[b] \in 0 .. 255 /\ (Decides(k) <=> ~(m[a] # 0 /\ m[a] = m[b]))
  BY BytesOfStrings
<1>6. ASSUME m[a] # 0, m[a] = m[b]
      PROVE  Alike(k + 1) /\ Sign(m[a] - m[b]) = 2
  <2>1. Alike(k + 1)
    BY <1>5, <1>6, AlikeMore
  <2>2. Sign(m[a] - m[b]) = 2
    BY <1>5, <1>6 DEF Sign
  <2>. QED
    BY <2>1, <2>2
<1>7. ASSUME ~(m[a] # 0 /\ m[a] = m[b])
      PROVE  Sign(m[a] - m[b]) = strncmp!Answer
  <2>1. Decides(k) /\ k <= call.n /\ k # call.n
    BY <1>1, <1>5, <1>7
  <2>2. strncmp!Answer = Order(k)
    BY <2>1, StrncmpStopIs
  <2>. QED
    BY <2>2 DEF Order
<1>. QED
  BY <1>3, <1>4, <1>6, <1>7

\* strncmp: a byte at a time, while there is a limit.
LEMMA StrncmpByteLoop ==
    ASSUME strncmp!IInv, strncmp!ByteLoop
    PROVE  strncmp!IInv'
<1>1. /\ ValidStrings(call) /\ strncmp!ValidLimit(call) /\ RegistersInv
      /\ call.s1 \in Nat /\ call.s2 \in Nat /\ call.n \in Nat /\ N \in Nat /\ N >= 2
      /\ Size \in Nat
      /\ src1 \in Nat /\ src2 \in Nat /\ limit \in 0 .. (Size - 1) /\ count \in Nat
      /\ strncmp!Progress = src1 - call.s1 /\ strncmp!PlaceInv /\ strncmp!LimitInv
  BY StrncmpIs
<1>2. /\ pc = "byte_loop" /\ call' = call /\ count' = count
      /\ rd1' = {src1} /\ rd2' = {src2} /\ src1' = src1 + 1 /\ src2' = src2 + 1
      /\ limit' = limit - 1
      /\ IF limit' > 0 /\ m[src1] # 0 /\ m[src1] = m[src2]
         THEN pc' = pc /\ result' = result
         ELSE result' = m[src1] - m[src2] /\ pc' = "ret"
      /\ data1' = data1 /\ data2' = data2 /\ syndrome' = syndrome
  BY StrncmpNames DEF strncmp!ByteLoop, strncmp!LoadBytes, strncmp!Same, strncmp!Return,
     strncmp!words
<1> DEFINE k == src1 - call.s1
<1>3. k \in Nat /\ src2 - call.s2 = k /\ strncmp!Into2 # 0
  BY <1>1, <1>2 DEF strncmp!PlaceInv
<1>4. k + limit = call.n /\ limit > 0
  BY <1>1, <1>2 DEF strncmp!LimitInv
<1>5. Alike(k)
  BY <1>1, <1>2, StrncmpInvNames DEF strncmp!IInv, strncmp!PassedInv
<1>6. src1 = call.s1 + k /\ src2 = call.s2 + k /\ src1' - call.s1 = k + 1 /\ src2' - call.s2 = k + 1
  <2>1. src1' = src1 + 1 /\ src2' = src2 + 1
    BY <1>2
  <2>. QED
    BY <1>1, <1>3, <2>1
<1>7. k < call.n /\ limit' \in 0 .. (Size - 1) /\ (k + 1) + limit' = call.n /\ k + 1 \in Nat
  BY <1>1, <1>2, <1>3, <1>4
<1> HIDE DEF k
<1>8. /\ {src1} \subseteq Granules(call.s1, strncmp!LastByte(call.s1))
      /\ {src2} \subseteq Granules(call.s2, strncmp!LastByte(call.s2))
      /\ m[src1] # 0 /\ m[src1] = m[src2] => Alike(k + 1) /\ Sign(m[src1] - m[src2]) = 2
      /\ ~(m[src1] # 0 /\ m[src1] = m[src2]) => Sign(m[src1] - m[src2]) = strncmp!Answer
  BY <1>1, <1>3, <1>5, <1>6, <1>7, NextBytes
<1>9. pc' \in {"byte_loop", "ret"} /\ (pc' = "byte_loop" => Alike(k + 1) /\ limit' > 0)
  BY <1>2, <1>8
<1>10. ASSUME pc' = "ret" PROVE Sign(result') = strncmp!Answer
  <2>1. CASE ~(m[src1] # 0 /\ m[src1] = m[src2])
    BY <1>2, <1>8, <1>10, <2>1
  <2>2. CASE m[src1] # 0 /\ m[src1] = m[src2]
    <3>1. ~(limit' > 0)
      BY <1>2, <1>10, <2>2
    <3>2. k + 1 = call.n
      BY <1>7, <3>1
    <3>3. Alike(k + 1) /\ Sign(m[src1] - m[src2]) = 2
      BY <1>8, <2>2
    <3>4. k + 1 <= call.n
      BY <1>1, <3>2
    <3>5. strncmp!Answer = 2
      BY <1>1, <1>7, <3>2, <3>3, <3>4, StrncmpStopIs
    <3>. QED
      BY <1>2, <1>10, <3>1, <3>3, <3>5
  <2>. QED
    BY <2>1, <2>2
<1>11. strncmp!N' = N /\ strncmp!Into2' = strncmp!Into2 /\ strncmp!Progress' = k + 1
  <2>1. strncmp!Progress' = src1' - call.s1
    BY <1>2 DEF strncmp!Progress
  <2>. QED
    BY <1>2, <1>6, <2>1, StrncmpSame
<1>12. src1' \in Nat /\ src2' \in Nat
  BY <1>1, <1>2
<1>13. pc' \notin strncmp!Checks \cup strncmp!Words
  BY <1>9 DEF strncmp!Checks, strncmp!Words
<1>14. strncmp!PlaceInv'
  <2>1. (pc \in {"loop_aligned", "byte_loop", "page_end_loop", "src1_aligned"} =>
          strncmp!Progress >= 0 /\ src2 - call.s2 = strncmp!Progress)'
    BY <1>2, <1>6, <1>7, <1>11
  <2>. QED
    BY <1>1, <1>2, <1>3, <1>7, <1>9, <1>11, <1>12, <1>13, <2>1 DEF strncmp!PlaceInv, strncmp!Checks
<1>15. strncmp!LimitInv' /\ strncmp!WordsInv'
  BY <1>2, <1>7, <1>9, <1>11, <1>13 DEF strncmp!LimitInv, strncmp!WordsInv, strncmp!Words
<1>16. pc' \in strncmp!Labels /\ call.n # 0
  BY <1>1, <1>3, <1>7, <1>9 DEF strncmp!Labels
<1>17. src1' \in Int /\ (pc' = "byte_loop" => Alike(src1' - call.s1))
  BY <1>6, <1>9, <1>12
<1>. QED
  BY <1>1, <1>2, <1>8, <1>9, <1>10, <1>14, <1>15, <1>16, <1>17, StrncmpKept DEF RegistersInv

\* strncmp: a byte at a time until src1 is aligned, far from the limit.
LEMMA StrncmpPageEndLoop ==
    ASSUME strncmp!IInv, strncmp!PageEndLoop
    PROVE  strncmp!IInv'
<1>1. /\ ValidStrings(call) /\ strncmp!ValidLimit(call) /\ RegistersInv
      /\ call.s1 \in Nat /\ call.s2 \in Nat /\ call.n \in Nat /\ N \in Nat /\ N >= 2
      /\ Size \in Nat
      /\ src1 \in Nat /\ src2 \in Nat /\ limit \in 0 .. (Size - 1) /\ count \in Nat
      /\ strncmp!Progress = src1 - call.s1 /\ strncmp!PlaceInv /\ strncmp!LimitInv
  BY StrncmpIs
<1>2. /\ pc = "page_end_loop" /\ call' = call /\ limit' = limit
      /\ rd1' = {src1} /\ rd2' = {src2} /\ src1' = src1 + 1 /\ src2' = src2 + 1
      /\ IF m[src1] # 0 /\ m[src1] = m[src2]
         THEN /\ count' = count - 1
              /\ pc' = IF count' > 0 THEN "page_end_loop" ELSE "src1_aligned"
              /\ result' = result
         ELSE result' = m[src1] - m[src2] /\ pc' = "ret" /\ count' = count
      /\ data1' = data1 /\ data2' = data2 /\ syndrome' = syndrome
  BY StrncmpNames DEF strncmp!PageEndLoop, strncmp!LoadBytes, strncmp!Same, strncmp!Return,
     strncmp!words
<1> DEFINE k == src1 - call.s1
<1>3. k \in Nat /\ src2 - call.s2 = k /\ strncmp!Into2 # 0 /\ count > 0 /\ (src1 + count) % N = 0
  BY <1>1, <1>2, StrncmpSimd DEF strncmp!PlaceInv
<1>4. k + count + limit = call.n /\ limit > N
  BY <1>1, <1>2, StrncmpSimd DEF strncmp!LimitInv
<1>5. Alike(k)
  BY <1>1, <1>2, StrncmpInvNames DEF strncmp!IInv, strncmp!PassedInv
<1>6. src1 = call.s1 + k /\ src2 = call.s2 + k /\ src1' - call.s1 = k + 1 /\ src2' - call.s2 = k + 1
  <2>1. src1' = src1 + 1 /\ src2' = src2 + 1
    BY <1>2
  <2>. QED
    BY <1>1, <1>3, <2>1
<1>7. k < call.n /\ k + 1 \in Nat
  BY <1>1, <1>3, <1>4
<1>8. /\ {src1} \subseteq Granules(call.s1, strncmp!LastByte(call.s1))
      /\ {src2} \subseteq Granules(call.s2, strncmp!LastByte(call.s2))
      /\ m[src1] # 0 /\ m[src1] = m[src2] => Alike(k + 1) /\ Sign(m[src1] - m[src2]) = 2
      /\ ~(m[src1] # 0 /\ m[src1] = m[src2]) => Sign(m[src1] - m[src2]) = strncmp!Answer
  <2>. HIDE DEF k
  <2>. QED
    BY <1>1, <1>3, <1>5, <1>6, <1>7, NextBytes
<1>9. /\ pc' \in {"page_end_loop", "src1_aligned", "ret"} /\ count' \in Nat
      /\ pc' # "ret" => Alike(k + 1) /\ count' = count - 1
      /\ pc' = "page_end_loop" => count' > 0
      /\ pc' = "src1_aligned" => count' = 0
      /\ pc' = "ret" => Sign(result') = strncmp!Answer
  BY <1>1, <1>2, <1>3, <1>8
<1>10. pc' # "ret" => /\ (k + 1) + count' + limit' = call.n /\ src1' + count' = src1 + count
                      /\ (pc' = "src1_aligned" => src1' = src1 + count /\ (k + 1) + limit' = call.n)
  BY <1>1, <1>2, <1>3, <1>4, <1>9
<1> HIDE DEF k
<1>11. strncmp!N' = N /\ strncmp!Into2' = strncmp!Into2 /\ strncmp!Progress' = k + 1
  <2>1. strncmp!Progress' = src1' - call.s1
    BY <1>2 DEF strncmp!Progress
  <2>. QED
    BY <1>2, <1>6, <2>1, StrncmpSame
<1>12. src1' \in Nat /\ src2' \in Nat
  BY <1>1, <1>2
<1>13. pc' \notin strncmp!Checks \cup strncmp!Words
  BY <1>9 DEF strncmp!Checks, strncmp!Words
<1>14. strncmp!PlaceInv'
  <2>1. (pc \in {"loop_aligned", "byte_loop", "page_end_loop", "src1_aligned"} =>
          strncmp!Progress >= 0 /\ src2 - call.s2 = strncmp!Progress)'
    BY <1>2, <1>6, <1>7, <1>11
  <2>2. (pc \in {"loop_aligned", "src1_aligned"} \cup strncmp!Words => src1 % strncmp!N = 0)'
    BY <1>3, <1>9, <1>10, <1>11, <1>13
  <2>3. (pc = "page_end_loop" => count > 0 /\ (src1 + count) % strncmp!N = 0)'
    BY <1>3, <1>9, <1>10, <1>11
  <2>4. limit' \in 0 .. (Size - 1)
    BY <1>1, <1>2
  <2>. QED
    BY <1>3, <1>9, <1>11, <1>12, <1>13, <2>1, <2>2, <2>3, <2>4 DEF strncmp!PlaceInv, strncmp!Checks
<1>15. strncmp!LimitInv' /\ strncmp!WordsInv'
  <2>1. limit' > N /\ limit' > 0
    BY <1>1, <1>2, <1>4
  <2>. QED
    BY <1>2, <1>9, <1>10, <1>11, <1>13, <2>1 DEF strncmp!LimitInv, strncmp!WordsInv, strncmp!Words
<1>16. pc' \in strncmp!Labels /\ call.n # 0
  BY <1>1, <1>3, <1>7, <1>9 DEF strncmp!Labels
<1>17. src1' \in Int /\ (pc' # "ret" => Alike(src1' - call.s1))
  BY <1>6, <1>9, <1>12
<1>. QED
  BY <1>1, <1>2, <1>8, <1>9, <1>14, <1>15, <1>16, <1>17, StrncmpKept DEF RegistersInv

\* strncmp: L(end) returns the order of the bytes at the first mark.
LEMMA StrncmpEndStep ==
    ASSUME strncmp!IInv, strncmp!StrncmpEnd
    PROVE  strncmp!IInv'
<1>1. /\ ValidStrings(call) /\ strncmp!ValidLimit(call) /\ RegistersInv
      /\ src1 \in Nat /\ src2 \in Nat /\ limit \in 0 .. (Size - 1) /\ count \in Nat
      /\ IF call.n = 0 THEN rd1 = {} /\ rd2 = {}
         ELSE /\ rd1 \subseteq Granules(call.s1, strncmp!LastByte(call.s1))
              /\ rd2 \subseteq Granules(call.s2, strncmp!LastByte(call.s2))
  BY StrncmpIs
<1>2. /\ pc = "end" /\ pc' = "ret" /\ call' = call /\ src1' = src1 /\ src2' = src2
      /\ rd1' = rd1 /\ rd2' = rd2 /\ limit' = limit /\ count' = count
      /\ data1' = data1 /\ data2' = data2 /\ syndrome' = syndrome
      /\ result' = ByteAt(RevLE(data1), clz(RevLE(syndrome))) - ByteAt(RevLE(data2), clz(RevLE(syndrome)))
  BY StrncmpSimd, StrncmpNames DEF strncmp!StrncmpEnd, strncmp!EndQuick
<1>3. MarksOrder(strncmp!Answer)
  BY <1>2, StrncmpInvNames DEF strncmp!IInv
<1>4. PICK f \in 0 .. (N - 1) :
             FirstMark(f) /\ Sign(Octet(data1, f) - Octet(data2, f)) = strncmp!Answer
  BY <1>3 DEF MarksOrder
<1>5. Sign(result') = strncmp!Answer
  BY <1>1, <1>2, <1>4, EndOrder
<1>6. strncmp!PlaceInv'
  BY <1>1, <1>2 DEF strncmp!PlaceInv, strncmp!Words, strncmp!Checks
<1>7. strncmp!LimitInv' /\ strncmp!WordsInv'
  BY <1>2 DEF strncmp!LimitInv, strncmp!WordsInv, strncmp!Words
<1>8. pc' \in strncmp!Labels /\ src1' \in Int
  BY <1>1, <1>2 DEF strncmp!Labels
<1>. QED
  BY <1>1, <1>2, <1>5, <1>6, <1>7, <1>8, StrncmpKept DEF RegistersInv

-----------------------------------------------------------------------------
\* The half of a pair of words that an address is in.
LEMMA HalfOf ==
    ASSUME NEW x \in Nat
    PROVE  /\ x % W >= N => x % W = (x % N) + N
           /\ ~(x % W >= N) => x % W = x % N
<1> DEFINE q == x \div W
           r == x % W
<1>1. q \in Int /\ r \in 0 .. (W - 1) /\ x = W * q + r /\ W = 2 * N /\ N \in Nat /\ N >= 2
  <2>1. x \in Int /\ W \in Nat /\ W > 0
    BY WordSize
  <2>. QED
    BY <2>1, DivMod, WordSize
<1>. HIDE DEF q, r
<1>2. W * q = N * (2 * q) /\ N * (2 * q) + N = N * (2 * q + 1) /\ 2 * q \in Int /\ 2 * q + 1 \in Int
  BY <1>1
<1>3. CASE r >= N
  <2>1. x = N * (2 * q + 1) + (r - N) /\ r - N \in 0 .. (N - 1)
    BY <1>1, <1>2, <1>3
  <2>2. x % N = r - N
    BY <1>1, <1>2, <2>1, DivModIs
  <2>. QED
    BY <1>1, <1>3, <2>2 DEF r
<1>4. CASE ~(r >= N)
  <2>1. x = N * (2 * q) + r /\ r \in 0 .. (N - 1)
    BY <1>1, <1>2, <1>4
  <2>2. x % N = r
    BY <1>1, <1>2, <2>1, DivModIs
  <2>. QED
    BY <1>4, <2>2 DEF r
<1>. QED
  BY <1>3, <1>4

\* Halves of a granule.
LEMMA HalvesOf ==
    ASSUME NEW g \in Int
    PROVE  /\ g % W = 0 => (g + N) % W = N /\ g % N = 0
           /\ g % W = N => (g + N) % W = 0 /\ g % N = 0
<1> DEFINE q == g \div W
<1>1. q \in Int /\ g = W * q + (g % W) /\ W = 2 * N /\ N \in Nat /\ N >= 2 /\ W \in Nat /\ W > 0
  <2>1. W \in Nat /\ W > 0
    BY WordSize
  <2>. QED
    BY <2>1, DivMod, WordSize
<1>. HIDE DEF q
<1>2. ASSUME g % W = 0 PROVE (g + N) % W = N /\ g % N = 0
  <2>1. g + N = W * q + N /\ N \in 0 .. (W - 1) /\ g + N \in Int
    BY <1>1, <1>2
  <2>. QED
    BY <1>1, <1>2, <2>1, DivModIs, ModTwice
<1>3. ASSUME g % W = N PROVE (g + N) % W = 0 /\ g % N = 0
  <2>1. W * q + W = W * (q + 1) /\ q + 1 \in Int
    BY <1>1
  <2>2. g + N = W * (q + 1) + 0 /\ 0 \in 0 .. (W - 1) /\ g + N \in Int
    BY <1>1, <1>3, <2>1
  <2>3. (g + N) % W = 0
    BY <1>1, <2>1, <2>2, DivModIs
  <2>4. (g + N) % N = 0
    BY <2>2, <2>3, ModTwice
  <2>. QED
    BY <1>1, <2>3, <2>4, ModPlus
<1>. QED
  BY <1>2, <1>3

\* What belongs to data1 in the second string.
LEMMA SecondIs ==
    ASSUME call.s1 \in Nat, call.s2 \in Nat, NEW k \in Nat, (call.s1 + k) % N = 0,
           NEW p, p = call.s2 + k, NEW g, g = p - strncmp!Into2
    PROVE  /\ p \in Nat /\ p % N = strncmp!Into2 /\ g \in Nat /\ g % N = 0
           /\ g <= p /\ p < g + N /\ p = g + strncmp!Into2
<1>1. strncmp!Into2 = (call.s2 - call.s1) % N /\ strncmp!Into2 \in 0 .. (N - 1) /\ N \in Nat
      /\ N > 0
  BY IntoIs, WordSize
<1>2. p = (call.s1 + k) + (call.s2 - call.s1) /\ call.s1 + k \in Int /\ call.s2 - call.s1 \in Int
      /\ p \in Nat
  OBVIOUS
<1>3. ((call.s1 + k) + (call.s2 - call.s1)) % N = (call.s2 - call.s1) % N
  BY <1>2, ModAdd
<1>4. p % N = strncmp!Into2
  BY <1>1, <1>2, <1>3
<1>5. p - (p % N) \in Nat /\ (p - (p % N)) % N = 0 /\ p - (p % N) <= p /\ p < (p - (p % N)) + N
  BY <1>1, <1>2, StartIs
<1>6. p = g + strncmp!Into2
  BY <1>1, <1>2
<1>. QED
  BY <1>2, <1>4, <1>5, <1>6

\* How far the words of the steps are: base bytes into the strings, at p in the second
\* one, which is o bytes into the aligned word at g.
Between(base, p, o, g) == /\ base = (src1 - call.s1) - N /\ p = call.s2 + base
                          /\ o = strncmp!Into2 /\ g = p - o

\* What the invariant says between the words of the steps.
LEMMA StrncmpWordsIs ==
    ASSUME strncmp!IInv, pc \in strncmp!Words, NEW base, NEW p, NEW o, NEW g, Between(base, p, o, g)
    PROVE  /\ ValidStrings(call) /\ strncmp!ValidLimit(call)
           /\ call.s1 \in Nat /\ call.s2 \in Nat /\ call.n \in Nat
           /\ Size \in Nat /\ count \in Nat /\ src1 \in Nat /\ src2 \in Nat
           /\ N \in Nat /\ N >= 2 /\ base \in Nat /\ src1 = (call.s1 + base) + N /\ src1 % N = 0
           /\ (call.s1 + base) % N = 0
           /\ o \in 1 .. (N - 1) /\ p \in Nat /\ p = g + o /\ g \in Nat /\ g % N = 0
           /\ base + limit = call.n /\ limit \in 1 .. (Size - 1) /\ base < call.n
           /\ Alike(base)
           /\ pc = "step_C" => Alike(base + (N - o)) /\ limit > N - o
           /\ data1 = Ldr(call.s1 + base)
           /\ \A i \in 0 .. (N - 1) : call.s1 + (base + i) \in DOMAIN m
           /\ strncmp!Place2 = p
<1>0. base = (src1 - call.s1) - N /\ p = call.s2 + base /\ o = strncmp!Into2 /\ g = p - o
  BY DEF Between
<1>1. /\ ValidStrings(call) /\ strncmp!ValidLimit(call)
      /\ call.s1 \in Nat /\ call.s2 \in Nat /\ call.n \in Nat /\ N \in Nat /\ N >= 2
      /\ Size \in Nat
      /\ src1 \in Nat /\ src2 \in Nat /\ limit \in 0 .. (Size - 1) /\ count \in Nat
      /\ strncmp!Base = base /\ strncmp!Place2 = p /\ strncmp!PlaceInv /\ strncmp!LimitInv
  BY <1>0, StrncmpIs
<1>2. base >= 0 /\ o # 0 /\ src1 % N = 0
  BY <1>0, <1>1, StrncmpSimd DEF strncmp!PlaceInv
<1>3. base \in Nat /\ src1 = (call.s1 + base) + N /\ src1 - N = call.s1 + base /\ p \in Nat
  BY <1>0, <1>1, <1>2
<1>4. base + limit = call.n /\ limit > 0
  BY <1>1 DEF strncmp!LimitInv
<1>5. limit \in 1 .. (Size - 1) /\ base < call.n
  BY <1>1, <1>3, <1>4
<1>6. (call.s1 + base) % N = 0
  <2>1. src1 \in Int /\ N > 0
    BY <1>1
  <2>2. (src1 - N) % N = src1 % N
    BY <1>1, <2>1, ModPlus
  <2>. QED
    BY <1>2, <1>3, <2>2
<1>7. o \in 0 .. (N - 1) /\ p = g + o /\ g \in Nat /\ g % N = 0
  <2>1. o \in 0 .. (N - 1)
    BY <1>0, <1>1, IntoIs
  <2>2. p = g + strncmp!Into2 /\ g \in Nat /\ g % N = 0
    BY <1>0, <1>1, <1>3, <1>6, SecondIs
  <2>. QED
    BY <1>0, <2>1, <2>2
<1>8. o \in 1 .. (N - 1)
  BY <1>2, <1>7
<1>9. pc = "step_C" => Alike(base + (N - o)) /\ limit > N - o
  BY <1>0, <1>1, StrncmpSimd, StrncmpInvNames DEF strncmp!IInv, strncmp!PassedInv, strncmp!LimitInv
<1>10. Alike(base)
  <2>1. CASE pc = "step_C"
    <3>1. base \in Int /\ base + (N - o) \in Int /\ base <= base + (N - o)
      BY <1>1, <1>3, <1>8
    <3>. QED
      BY <1>9, <2>1, <3>1, AlikeLess
  <2>2. CASE pc \in {"loop_misaligned", "misaligned_mid_loop"}
    BY <1>1, <2>2, StrncmpInvNames DEF strncmp!IInv, strncmp!PassedInv
  <2>. QED
    BY <2>1, <2>2 DEF strncmp!Words
<1>11. data1 = Ldr(call.s1 + base)
  BY <1>3, StrncmpSimd, StrncmpNames DEF strncmp!IInv, strncmp!WordsInv
<1>12. \A i \in 0 .. (N - 1) : call.s1 + (base + i) \in DOMAIN m
  <2>1. call.s1 + base \in Int /\ call.s1 + base <= call.s1 + base
        /\ call.s1 + base < (call.s1 + base) + N
    BY <1>1, <1>3
  <2>2. \A i \in 0 .. (N - 1) : (call.s1 + base) + i \in DOMAIN m
    BY <1>1, <1>3, <1>5, <1>6, <1>10, <2>1, ChunkRead
  <2>3. \A i \in 0 .. (N - 1) : (call.s1 + base) + i = call.s1 + (base + i)
    BY <1>1, <1>3
  <2>. QED
    BY <2>2, <2>3
<1>. QED
  BY <1>1, <1>2, <1>3, <1>4, <1>5, <1>6, <1>7, <1>8, <1>9, <1>10, <1>11, <1>12

\* And where it leaves the next state's words or a check of them.
LEMMA WordsPlace ==
    ASSUME call' = call, pc' \in strncmp!Words \cup {"full_check", "syndrome_check"},
           src1' \in Nat, src2' \in Nat, limit' \in 0 .. (Size - 1), count' \in Nat,
           NEW base \in Nat, (src1' - call.s1) - N = base, src1' % N = 0, strncmp!Into2 # 0,
           call.s1 \in Nat
    PROVE  /\ strncmp!PlaceInv' /\ strncmp!Base' = base /\ strncmp!Place2' = call.s2 + base
           /\ strncmp!Into2' = strncmp!Into2 /\ strncmp!N' = N
<1>1. strncmp!N' = N /\ strncmp!Into2' = strncmp!Into2 /\ N \in Nat
  BY StrncmpSame, WordSize
<1>2. strncmp!Progress' = src1' - call.s1 /\ strncmp!Base' = base
      /\ strncmp!Place2' = call.s2 + base
  BY <1>1 DEF strncmp!Progress, strncmp!Base, strncmp!Place2
<1>3. src1' - call.s1 >= 0
  BY <1>1
<1>4. pc' \notin {"entry", "mutual_align", "misaligned8", "loop_aligned", "byte_loop", "page_end_loop",
                  "src1_aligned"}
  BY DEF strncmp!Words
<1>5. strncmp!PlaceInv'
  <2>1. (pc \in strncmp!Checks => strncmp!Progress >= 0)'
    BY <1>2, <1>3
  <2>2. (pc \in strncmp!Words \/ (pc = "syndrome_check" /\ strncmp!big) => strncmp!Base >= 0)'
    BY <1>2
  <2>3. (pc \in {"loop_aligned", "src1_aligned"} \cup strncmp!Words => src1 % strncmp!N = 0)'
    BY <1>1
  <2>4. (pc \in {"misaligned8", "byte_loop", "page_end_loop", "src1_aligned"} \cup strncmp!Words
            => strncmp!Into2 # 0)'
    BY <1>1
  <2>. QED
    BY <1>4, <2>1, <2>2, <2>3, <2>4 DEF strncmp!PlaceInv
<1>. QED
  BY <1>1, <1>2, <1>5

\* The words that are loaded then.
LEMMA NextWords ==
    ASSUME call' = call, strncmp!N' = N, NEW p, strncmp!Place2' = p, strncmp!Into2' = strncmp!Into2,
           NEW g, g = p - strncmp!Into2,
           pc' \in strncmp!Words => data1' = Ldr(src1' - N),
           pc' = "loop_misaligned"
             => g % W = 0 /\ tmp1' = Ldr(g) /\ tmp2' = Ldr(g + N) /\ src2' = g + W,
           pc' = "misaligned_mid_loop" => g % W = N /\ tmp2' = Ldr(g) /\ src2' = g + N,
           pc' = "step_C" => /\ g % W = N /\ tmp1' = Ldr(g + N) /\ tmp2' = Ldr(g + W)
                             /\ src2' = (g + N) + W
    PROVE  strncmp!WordsInv'
<1>1. \A x : (strncmp!Ldr(x))' = Ldr(x)
  BY StrncmpSame
<1>2. (pc \in strncmp!Words => data1 = strncmp!Ldr(src1 - strncmp!N))'
  BY <1>1 DEF strncmp!Words
<1>3. (pc = "loop_misaligned" =>
          /\ (strncmp!Place2 - strncmp!Into2) % W = 0
          /\ tmp1 = strncmp!Ldr(strncmp!Place2 - strncmp!Into2)
          /\ tmp2 = strncmp!Ldr((strncmp!Place2 - strncmp!Into2) + strncmp!N)
          /\ src2 = (strncmp!Place2 - strncmp!Into2) + W)'
  BY <1>1
<1>4. (pc = "misaligned_mid_loop" =>
          /\ (strncmp!Place2 - strncmp!Into2) % W = strncmp!N
          /\ tmp2 = strncmp!Ldr(strncmp!Place2 - strncmp!Into2)
          /\ src2 = (strncmp!Place2 - strncmp!Into2) + strncmp!N)'
  BY <1>1
<1>5. (pc = "step_C" =>
          /\ (strncmp!Place2 - strncmp!Into2) % W = strncmp!N
          /\ tmp1 = strncmp!Ldr((strncmp!Place2 - strncmp!Into2) + strncmp!N)
          /\ tmp2 = strncmp!Ldr((strncmp!Place2 - strncmp!Into2) + W)
          /\ src2 = ((strncmp!Place2 - strncmp!Into2) + strncmp!N) + W)'
  BY <1>1
<1>. QED
  BY <1>2, <1>3, <1>4, <1>5 DEF strncmp!WordsInv

\* strncmp: the pair of words of the second string, and the word of the first.
LEMMA StrncmpSrc1Aligned ==
    ASSUME strncmp!IInv, strncmp!Src1Aligned
    PROVE  strncmp!IInv'
<1>1. /\ ValidStrings(call) /\ strncmp!ValidLimit(call) /\ RegistersInv
      /\ call.s1 \in Nat /\ call.s2 \in Nat /\ call.n \in Nat /\ N \in Nat /\ N >= 2
      /\ Size \in Nat
      /\ src1 \in Nat /\ src2 \in Nat /\ limit \in 0 .. (Size - 1) /\ count \in Nat
      /\ strncmp!Progress = src1 - call.s1 /\ strncmp!PlaceInv /\ strncmp!LimitInv
  BY StrncmpIs
<1> DEFINE a == src2 - (src2 % W)
           k == src1 - call.s1
           o == strncmp!Into2
<1>2. /\ pc = "src1_aligned" /\ call' = call /\ limit' = limit /\ count' = count
      /\ tmp1' = Ldr(a) /\ tmp2' = Ldr(a + N) /\ rd2' = Chunk(a, W) /\ src2' = a + W
      /\ data1' = Ldr(src1) /\ rd1' = Chunk(src1, N) /\ src1' = src1 + N
      /\ pc' = IF src2 % W >= N THEN "misaligned_mid_loop" ELSE "loop_misaligned"
      /\ data2' = data2 /\ syndrome' = syndrome
  BY StrncmpSimd, StrncmpNames DEF strncmp!Src1Aligned, strncmp!LoadPair, strncmp!LoadData1
<1>3. k \in Nat /\ src2 - call.s2 = k /\ o # 0 /\ src1 % N = 0
  BY <1>1, <1>2, StrncmpSimd DEF strncmp!PlaceInv
<1>4. k + limit = call.n /\ limit > N
  BY <1>1, <1>2, StrncmpSimd DEF strncmp!LimitInv
<1>5. Alike(k)
  BY <1>1, <1>2, StrncmpInvNames DEF strncmp!IInv, strncmp!PassedInv
<1>6. src1 = call.s1 + k /\ src2 = call.s2 + k /\ k < call.n
  BY <1>1, <1>3, <1>4
<1>7. /\ a \in Nat /\ a % W = 0 /\ a <= src2 /\ src2 < a + W
  <2>1. W \in Nat /\ W > 0
    BY WordSize
  <2>. QED
    BY <1>1, <2>1, StartIs
<1>8. src2 % N = o
  <2>1. (call.s1 + k) % N = 0
    BY <1>3, <1>6
  <2>. QED
    BY <1>1, <1>3, <1>6, <2>1, SecondIs
<1>9. src2 - o = IF src2 % W >= N THEN a + N ELSE a
  <2>1. /\ src2 % W >= N => src2 % W = o + N
        /\ ~(src2 % W >= N) => src2 % W = o
    BY <1>1, <1>8, HalfOf
  <2>2. o \in Int
    BY <1>1, IntoIs
  <2>. QED
    BY <1>1, <2>1, <2>2
<1> HIDE DEF k, a, o
<1>10. rd1' \subseteq Granules(call.s1, strncmp!LastByte(call.s1))
  <2>1. src1 <= call.s1 + k /\ call.s1 + k < src1 + N /\ src1 \in Int
    BY <1>1, <1>3, <1>6
  <2>. QED
    BY <1>1, <1>2, <1>3, <1>5, <1>6, <2>1, ChunkRead
<1>11. rd2' \subseteq Granules(call.s2, strncmp!LastByte(call.s2))
  <2>1. a <= call.s2 + k /\ call.s2 + k < a + W /\ a \in Int
    BY <1>6, <1>7
  <2>. QED
    BY <1>1, <1>2, <1>3, <1>5, <1>6, <1>7, <2>1, ChunkRead
<1>12. pc' \in {"misaligned_mid_loop", "loop_misaligned"} /\ pc' \in strncmp!Words
  BY <1>2 DEF strncmp!Words
<1>13. /\ src1' \in Nat /\ (src1' - call.s1) - N = k /\ src1' % N = 0 /\ src2' \in Nat
       /\ src1' - N = src1
  <2>1. src1 \in Int /\ N > 0
    BY <1>1
  <2>2. src1' % N = 0
    BY <1>1, <1>2, <1>3, <2>1, ModPlus
  <2>3. src1' = src1 + N /\ src2' = a + W
    BY <1>2
  <2>. QED
    BY <1>1, <1>3, <1>6, <1>7, <2>2, <2>3, WordSize
<1>14. /\ strncmp!PlaceInv' /\ strncmp!Base' = k /\ strncmp!Place2' = src2
       /\ strncmp!Into2' = o /\ strncmp!N' = N
  <2>1. limit' \in 0 .. (Size - 1) /\ count' \in Nat /\ strncmp!Into2 # 0
    BY <1>1, <1>2, <1>3 DEF o
  <2>. QED
    BY <1>1, <1>2, <1>3, <1>6, <1>12, <1>13, <2>1, WordsPlace DEF o
<1>15. strncmp!LimitInv'
  <2>1. (pc \in strncmp!Words => strncmp!Base + limit = call.n /\ limit > 0)'
    BY <1>1, <1>2, <1>4, <1>14
  <2>. QED
    BY <1>12, <2>1 DEF strncmp!LimitInv
<1>16. strncmp!WordsInv'
  <2>1. data1' = Ldr(src1' - N)
    BY <1>2, <1>13
  <2>2. /\ pc' = "loop_misaligned" => src2 - o = a /\ (src2 - o) % W = 0
        /\ pc' = "misaligned_mid_loop" => src2 - o = a + N /\ (src2 - o) % W = N
    BY <1>2, <1>7, <1>9, HalvesOf
  <2>3. a + W = (a + N) + N
    BY <1>1, <1>7, WordSize
  <2>. QED
    BY <1>2, <1>12, <1>14, <2>1, <2>2, <2>3, NextWords DEF o
<1>17. call.n # 0 /\ pc' \in strncmp!Labels /\ src1' \in Int
  BY <1>3, <1>6, <1>12, <1>13 DEF strncmp!Labels
<1>. QED
  BY <1>1, <1>2, <1>5, <1>10, <1>11, <1>12, <1>13, <1>14, <1>15, <1>16, <1>17, StrncmpKept,
     BitsLdr DEF RegistersInv

-----------------------------------------------------------------------------
\* A syndrome in which nothing is marked, or a byte that decides.
LEMMA SyndromeChecked ==
    ASSUME ValidStrings(call), NEW base \in Int, NEW l \in Nat, NEW d1, NEW d2, NEW Y,
           NEW lo, NEW hi \in 0 .. N,
           \/ Y = {} /\ l <= hi /\ Alike(base + hi)
           \/ \E f \in 0 .. (N - 1) : OneDecides(d1, d2, Y, base, lo, f)
    PROVE  SyndromeIs(Y, d1, d2, l, base)
<1>1. N \in Nat /\ N >= 2
  BY WordSize
<1>2. CASE Y = {} /\ l <= hi /\ Alike(base + hi)
  <2>1. base + l <= base + hi /\ base + l \in Int /\ base + hi \in Int /\ l <= N /\ ~(N < l)
        /\ ~(N < N)
    BY <1>1, <1>2
  <2>2. Alike(base + l)
    BY <1>2, <2>1, AlikeLess
  <2>3. N \in 0 .. N
    BY <1>1
  <2>. QED
    BY <1>2, <2>1, <2>2, <2>3 DEF SyndromeIs
<1>3. CASE \E f \in 0 .. (N - 1) : OneDecides(d1, d2, Y, base, lo, f)
  <2>1. PICK f \in 0 .. (N - 1) : OneDecides(d1, d2, Y, base, lo, f)
    BY <1>3
  <2>2. f \in 0 .. N /\ f < N /\ base + f \in Int
    BY <1>1
  <2>3. /\ FirstMarkOf(Y, d1, d2, f) /\ base + f >= 0 /\ Alike(base + f) /\ Decides(base + f)
    BY <2>1 DEF OneDecides
  <2>4. Sign(Octet(d1, f) - Octet(d2, f)) = Order(base + f)
    BY <2>1 DEF OneDecides, Order
  <2>5. ASSUME l <= f PROVE Alike(base + l)
    <3>1. base + l <= base + f /\ base + l \in Int
      BY <2>5
    <3>. QED
      BY <2>2, <2>3, <3>1, AlikeLess
  <2>. QED
    BY <2>2, <2>3, <2>4, <2>5 DEF SyndromeIs
<1>. QED
  BY <1>2, <1>3

\* The next word of the first string is loaded.
LEMMA NextWord ==
    ASSUME ValidStrings(call), NEW base \in Nat, Alike(base + N), base + N < call.n,
           src1 = (call.s1 + base) + N, src1 % N = 0
    PROVE  /\ Chunk(src1, N) \subseteq Granules(call.s1, strncmp!LastByte(call.s1))
           /\ (src1 + N) % N = 0 /\ src1 + N \in Nat /\ ((src1 + N) - call.s1) - N = base + N
           /\ (src1 + N) - N = src1
<1>1. N \in Nat /\ N >= 2 /\ call.s1 \in Nat
  BY WordSize, MemoryIs
<1>2. /\ base + N \in Nat /\ src1 \in Int /\ src1 <= call.s1 + (base + N)
      /\ call.s1 + (base + N) < src1 + N /\ N > 0
  BY <1>1
<1>3. Chunk(src1, N) \subseteq Granules(call.s1, strncmp!LastByte(call.s1))
  BY <1>1, <1>2, ChunkRead
<1>4. (src1 + N) % N = 0
  BY <1>1, <1>2, ModPlus
<1>. QED
  BY <1>1, <1>3, <1>4

\* strncmp: a word put together of both words of the pair;
LEMMA StrncmpStepA ==
    ASSUME strncmp!IInv, strncmp!StepA
    PROVE  strncmp!IInv'
<1> DEFINE base == (src1 - call.s1) - N
           p == call.s2 + base
           o == strncmp!Into2
           g == p - o
<1>0. Between(base, p, o, g)
  BY DEF Between
<1> HIDE DEF base, p, o, g
<1>1. /\ pc = "loop_misaligned" /\ pc \in strncmp!Words
      /\ call' = call /\ src2' = src2 /\ count' = count /\ syndrome' = syndrome
      /\ tmp1' = tmp1 /\ tmp2' = tmp2 /\ rd2' = {}
      /\ data2' = LS_FW(tmp1, strncmp!offset) \cup LS_BK(tmp2, strncmp!neg_offset)
      /\ limit' = strncmp!Minus(limit, N)
      /\ IF limit > N /\ data1 = data2' /\ HasZero(data1) = {}
         THEN /\ data1' = Ldr(src1) /\ rd1' = Chunk(src1, N) /\ src1' = src1 + N
              /\ pc' = "misaligned_mid_loop"
         ELSE pc' = "full_check" /\ rd1' = {} /\ src1' = src1 /\ data1' = data1
  BY StrncmpSimd, StrncmpNames DEF strncmp!StepA, strncmp!LoadData1, strncmp!Words, strncmp!ofSrc2
<1>2. /\ ValidStrings(call) /\ strncmp!ValidLimit(call)
      /\ call.s1 \in Nat /\ call.s2 \in Nat /\ call.n \in Nat
      /\ Size \in Nat /\ count \in Nat /\ src1 \in Nat /\ src2 \in Nat
      /\ N \in Nat /\ N >= 2 /\ base \in Nat /\ src1 = (call.s1 + base) + N /\ src1 % N = 0
      /\ o \in 1 .. (N - 1) /\ p \in Nat /\ p = g + o /\ g \in Nat /\ g % N = 0
      /\ base + limit = call.n /\ limit \in 1 .. (Size - 1) /\ base < call.n
      /\ Alike(base)
      /\ data1 = Ldr(call.s1 + base)
      /\ \A i \in 0 .. (N - 1) : call.s1 + (base + i) \in DOMAIN m
      /\ strncmp!Place2 = p
  BY <1>0, <1>1, StrncmpWordsIs
<1>3. g % W = 0 /\ tmp1 = Ldr(g) /\ tmp2 = Ldr(g + N) /\ src2 = g + W
  BY <1>0, <1>1, <1>2, StrncmpSimd, StrncmpNames DEF strncmp!IInv, strncmp!WordsInv, Between
<1>4. syndrome \subseteq XBits
  BY StrncmpIs DEF RegistersInv
<1>5. p = call.s2 + base /\ base = (src1 - call.s1) - N /\ o = strncmp!Into2 /\ g = p - o
  BY <1>0 DEF Between
<1>13. /\ call.s1 \in Nat /\ call.s2 \in Nat /\ N \in Nat /\ N >= 2 /\ base \in Nat
       /\ o \in 1 .. (N - 1)
       /\ p \in Nat /\ g \in Nat /\ p = g + o /\ p = call.s2 + base /\ W = 2 * N /\ W \in Nat
  BY <1>2, <1>5, WordSize
<1>6. \A i \in 0 .. (N - 1) : call.s2 + (base + i) \in DOMAIN m
  <2>1. g <= call.s2 + base /\ call.s2 + base < g + W /\ g \in Int /\ W \in {N, W}
    BY <1>13
  <2>2. \A j \in 0 .. (W - 1) : g + j \in DOMAIN m
    BY <1>2, <1>3, <2>1, ChunkRead
  <2>3. \A i \in 0 .. (N - 1) : o + i \in 0 .. (W - 1) /\ g + (o + i) = call.s2 + (base + i)
    BY <1>13
  <2>. QED
    BY <2>2, <2>3
<1>7. data2' \in SUBSET XBits /\ \A i \in 0 .. (N - 1) : Bits(data2', i) = BitsOf(m[p + i])
  <2> DEFINE A == LS_FW(tmp1, strncmp!offset)
             B == LS_BK(tmp2, strncmp!neg_offset)
  <2>1. /\ strncmp!offset \in Int /\ strncmp!offset % (8 * N) = 8 * o
        /\ strncmp!neg_offset \in Int /\ strncmp!neg_offset % (8 * N) = 8 * (N - o)
        /\ o \in 0 .. (N - 1) /\ N - o \in 0 .. (N - 1)
    BY <1>2, <1>5, IntoIs
  <2>2. tmp1 \in SUBSET XBits /\ tmp2 \in SUBSET XBits
    BY <1>3, BitsLdr
  <2>3. A \in SUBSET XBits /\ \A i \in 0 .. (N - 1) :
          Bits(A, i) = IF i + o < N THEN Bits(tmp1, i + o) ELSE {}
    <3>1. 0 \in 0 .. (N - 1)
      BY <1>2
    <3>. QED
      BY <2>1, <2>2, <3>1, BitsFW
  <2>4. /\ B \in SUBSET XBits
        /\ \A i \in 0 .. (N - 1) : Bits(B, i) = IF i >= N - o THEN Bits(tmp2, i - (N - o)) ELSE {}
    <3>1. 0 \in 0 .. (N - 1)
      BY <1>2
    <3>. QED
      BY <2>1, <2>2, <3>1, BitsBK
  <2>5. data2' = A \cup B
    BY <1>1
  <2> HIDE DEF A, B
  <2>6. ASSUME NEW i \in 0 .. (N - 1) PROVE Bits(data2', i) = BitsOf(m[p + i])
    <3>1. Bits(data2', i) = Bits(A, i) \cup Bits(B, i)
      BY <2>5, BitsCup
    <3>2. CASE i + o < N
      <4>1. ~(i >= N - o) /\ i + o \in 0 .. (N - 1) /\ g + (i + o) = p + i
        BY <1>2, <3>2
      <4>2. Bits(tmp1, i + o) = BitsOf(m[g + (i + o)])
        BY <1>3, <4>1, BitsLdr
      <4>. QED
        BY <2>3, <2>4, <3>1, <3>2, <4>1, <4>2
    <3>3. CASE ~(i + o < N)
      <4>1. i >= N - o /\ i - (N - o) \in 0 .. (N - 1) /\ (g + N) + (i - (N - o)) = p + i
        BY <1>2, <3>3
      <4>2. Bits(tmp2, i - (N - o)) = BitsOf(m[(g + N) + (i - (N - o))])
        BY <1>3, <4>1, BitsLdr
      <4>. QED
        BY <2>3, <2>4, <3>1, <3>3, <4>1, <4>2
    <3>. QED
      BY <3>2, <3>3
  <2>7. A \cup B \in SUBSET XBits
    BY <2>3, <2>4
  <2>. QED
    BY <2>5, <2>6, <2>7
<1>8. WordsHeld(data1, data2', base)
  <2>1. \A i \in 0 .. (N - 1) : /\ ~(base + i < 0) /\ (call.s1 + base) + i = call.s1 + (base + i)
                                /\ p + i = call.s2 + (base + i)
    BY <1>13
  <2>2. data1 \in SUBSET XBits
        /\ \A i \in 0 .. (N - 1) : Bits(data1, i) = BitsOf(m[(call.s1 + base) + i])
    BY <1>2, BitsLdr
  <2>3. \A i \in 0 .. (N - 1) : Holds(data1, data2', base, i)
    BY <1>2, <1>6, <1>7, <2>1, <2>2 DEF Holds
  <2>. QED
    BY <1>7, <2>2, <2>3 DEF WordsHeld
<1>9. /\ limit' \in 0 .. (Size - 1) /\ strncmp!Minus(limit', -N) = limit
      /\ limit > N /\ data1 = data2' /\ HasZero(data1) = {}
           => Alike(base + N) /\ limit' = limit - N /\ limit' > 0
      /\ ~(limit > N /\ data1 = data2' /\ HasZero(data1) = {}) => FullOf(data1, data2', limit, base)
  <2>1. base \in Int /\ limit' = strncmp!Minus(limit, N)
    BY <1>1, <1>13
  <2>2. ValidStrings(call) /\ strncmp!ValidLimit(call) /\ Alike(base) /\ limit \in 1 .. (Size - 1)
    BY <1>2
  <2>. QED
    BY <1>8, <2>1, <2>2, FullCompared
<1>10. src2' \in Nat /\ count' \in Nat /\ strncmp!Into2 # 0 /\ call.n # 0
  BY <1>1, <1>2, <1>5
<1>11. CASE limit > N /\ data1 = data2' /\ HasZero(data1) = {}
  <2>1. /\ pc' = "misaligned_mid_loop" /\ data1' = Ldr(src1) /\ rd1' = Chunk(src1, N)
        /\ src1' = src1 + N
        /\ Alike(base + N) /\ limit' = limit - N /\ limit' > 0
    BY <1>1, <1>9, <1>11
  <2>2. base + N < call.n /\ (base + N) + limit' = call.n /\ base + N \in Nat
    BY <1>2, <1>11, <2>1
  <2>3. /\ rd1' \subseteq Granules(call.s1, strncmp!LastByte(call.s1))
        /\ src1' % N = 0 /\ src1' \in Nat /\ (src1' - call.s1) - N = base + N /\ src1' - N = src1
    BY <1>2, <2>1, <2>2, NextWord
  <2>4. pc' \in strncmp!Words
    BY <2>1 DEF strncmp!Words
  <2>5. /\ strncmp!PlaceInv' /\ strncmp!Base' = base + N /\ strncmp!Place2' = call.s2 + (base + N)
        /\ strncmp!Into2' = strncmp!Into2 /\ strncmp!N' = N
    BY <1>1, <1>2, <1>9, <1>10, <2>2, <2>3, <2>4, WordsPlace
  <2>6. strncmp!LimitInv'
    BY <1>1, <2>1, <2>2, <2>4, <2>5 DEF strncmp!LimitInv
  <2>7. strncmp!WordsInv'
    <3>1. /\ (call.s2 + (base + N)) - strncmp!Into2 = g + N /\ (g + N) % W = N
          /\ g + W = (g + N) + N
      <4>1. g \in Int /\ strncmp!Into2 = o /\ g + W = (g + N) + N
            /\ (call.s2 + (base + N)) - o = g + N
        BY <1>5, <1>13
      <4>2. (g + N) % W = N
        BY <1>3, <4>1, HalvesOf
      <4>. QED
        BY <4>1, <4>2
    <3>2. data1' = Ldr(src1' - N)
      BY <2>1, <2>3
    <3>3. tmp2' = Ldr(g + N) /\ src2' = (g + N) + N
      BY <1>1, <1>3, <3>1
    <3>. QED
      BY <1>1, <2>1, <2>5, <3>1, <3>2, <3>3, NextWords
  <2>8. data1' \subseteq XBits /\ data2' \subseteq XBits /\ syndrome' \subseteq XBits /\ rd2' = {}
    BY <1>1, <1>4, <1>7, <2>1, BitsLdr
  <2>9. pc' \in strncmp!Labels /\ src1' \in Int
    BY <2>1, <2>3 DEF strncmp!Labels
  <2>. QED
    BY <1>1, <1>2, <1>10, <2>1, <2>3, <2>5, <2>6, <2>7, <2>8, <2>9, StrncmpKept
<1>12. CASE ~(limit > N /\ data1 = data2' /\ HasZero(data1) = {})
  <2>1. pc' = "full_check" /\ rd1' = {} /\ src1' = src1 /\ data1' = data1
    BY <1>1, <1>12
  <2>2. FullOf(data1', data2', limit, base)
    BY <1>9, <1>12, <2>1
  <2>3. src1' % N = 0 /\ src1' \in Nat /\ (src1' - call.s1) - N = base
    BY <1>2, <1>5, <2>1
  <2>4. /\ strncmp!PlaceInv' /\ strncmp!Base' = base /\ strncmp!N' = N
    BY <1>1, <1>2, <1>9, <1>10, <2>1, <2>3, WordsPlace
  <2>5. strncmp!Left' = limit
    <3>1. strncmp!Left' = strncmp!Minus(limit', -N)
      BY DEF strncmp!Left, strncmp!Minus, strncmp!N, N
    <3>. QED
      BY <1>9, <3>1
  <2>6. pc' \notin strncmp!Words
    BY <2>1 DEF strncmp!Words
  <2>7. strncmp!LimitInv'
    <3>1. (strncmp!Leaves(strncmp!Base, strncmp!Left))'
      BY <1>1, <1>2, <2>4, <2>5 DEF strncmp!Leaves
    <3>2. (limit = strncmp!Minus(strncmp!Left, strncmp!N))'
      BY <1>1, <2>5 DEF strncmp!Minus, strncmp!N, N
    <3>. QED
      BY <2>1, <2>6, <3>1, <3>2 DEF strncmp!LimitInv
  <2>8. strncmp!WordsInv'
    BY <2>1, <2>6 DEF strncmp!WordsInv
  <2>9. data1' \subseteq XBits /\ data2' \subseteq XBits /\ syndrome' \subseteq XBits /\ rd2' = {}
    BY <1>1, <1>2, <1>4, <1>7, <2>1, BitsLdr
  <2>10. pc' \in strncmp!Labels /\ src1' \in Int
    BY <2>1, <2>3 DEF strncmp!Labels
  <2>. QED
    BY <1>1, <1>2, <1>10, <2>1, <2>2, <2>3, <2>4, <2>5, <2>7, <2>8, <2>9, <2>10, StrncmpKept
<1>. QED
  BY <1>11, <1>12

-----------------------------------------------------------------------------
\* The bytes that step B leaves to step C.
LEMMA MaskIs ==
    ASSUME call.s1 \in Nat, call.s2 \in Nat, NEW o \in 1 .. (N - 1), o = strncmp!Into2,
           NEW i \in 0 .. (N - 1)
    PROVE  Bits(strncmp!mask, i) = IF i < N - o THEN {} ELSE AllOnes
<1>1. /\ strncmp!neg_offset \in Int /\ strncmp!neg_offset % (8 * N) = 8 * (N - o)
      /\ N - o \in 0 .. (N - 1) /\ N \in Nat
  BY IntoIs, WordSize
<1>2. strncmp!mask = LS_BK(XBits, strncmp!neg_offset) /\ XBits \in SUBSET XBits
  BY StrncmpSimd, StrncmpNames DEF strncmp!mask
<1>3. Bits(LS_BK(XBits, strncmp!neg_offset), i)
        = IF i >= N - o THEN Bits(XBits, i - (N - o)) ELSE {}
  BY <1>1, <1>2, BitsBK
<1>4. CASE i < N - o
  <2>1. ~(i >= N - o)
    BY <1>1, <1>4
  <2>. QED
    BY <1>2, <1>3, <1>4, <2>1
<1>5. CASE ~(i < N - o)
  <2>1. i >= N - o /\ i - (N - o) \in 0 .. (N - 1)
    BY <1>1, <1>5
  <2>2. Bits(XBits, i - (N - o)) = AllOnes
    BY <2>1, BitsOps
  <2>. QED
    BY <1>2, <1>3, <1>5, <2>1, <2>2
<1>. QED
  BY <1>4, <1>5

\* A check of a part of the words leaves the next state.
LEMMA PartChecked ==
    ASSUME ValidStrings(call), strncmp!ValidLimit(call), call' = call, pc' = "syndrome_check",
           strncmp!Into2 # 0, NEW base \in Nat, Alike(base), base + limit = call.n,
           limit \in 1 .. (Size - 1),
           src1 = (call.s1 + base) + N, src1 % N = 0, src1' = src1, src2' = src2, src2 \in Nat,
           limit' = limit, count' = count, count \in Nat, rd1' = {}, rd2' = {},
           data1' \subseteq XBits, data2' \subseteq XBits, syndrome' \subseteq XBits,
           NEW lo, NEW hi \in 0 .. N,
           syndrome' = {} => limit <= hi /\ Alike(base + hi),
           syndrome' # {}
             => \E f \in 0 .. (N - 1) : OneDecides(data1', data2', syndrome', base, lo, f)
    PROVE  strncmp!IInv'
<1>1. /\ call.s1 \in Nat /\ call.s2 \in Nat /\ call.n \in Nat /\ N \in Nat /\ Size \in Nat
  BY MemoryIs, WordSize, SizeIs
<1>2. /\ src1' \in Nat /\ (src1' - call.s1) - N = base /\ src1' % N = 0 /\ src2' \in Nat
      /\ count' \in Nat
      /\ limit' \in 0 .. (Size - 1) /\ base \in Int /\ limit' \in Nat /\ call.n # 0
  BY <1>1
<1>3. /\ strncmp!PlaceInv' /\ strncmp!Base' = base /\ strncmp!N' = N
  BY <1>1, <1>2, WordsPlace
<1>4. pc' \notin strncmp!Words
  BY DEF strncmp!Words
<1>5. strncmp!LimitInv'
  <2>1. (strncmp!Leaves(strncmp!Base, limit))'
    BY <1>1, <1>3 DEF strncmp!Leaves
  <2>. QED
    BY <1>4, <2>1 DEF strncmp!LimitInv
<1>6. strncmp!WordsInv'
  BY <1>4 DEF strncmp!WordsInv
<1>7. SyndromeIs(syndrome', data1', data2', limit', base)
  <2>1. \/ syndrome' = {} /\ limit' <= hi /\ Alike(base + hi)
        \/ \E f \in 0 .. (N - 1) : OneDecides(data1', data2', syndrome', base, lo, f)
    OBVIOUS
  <2>. QED
    BY <1>2, <2>1, SyndromeChecked
<1>8. pc' \in strncmp!Labels /\ src1' \in Int
  BY <1>2 DEF strncmp!Labels
<1>. QED
  BY <1>2, <1>3, <1>5, <1>6, <1>7, <1>8, StrncmpKept

\* the first part of a word with what is left of the pair;
LEMMA StrncmpStepB ==
    ASSUME strncmp!IInv, strncmp!StepB
    PROVE  strncmp!IInv'
<1> DEFINE base == (src1 - call.s1) - N
           p == call.s2 + base
           o == strncmp!Into2
           g == p - o
<1>0. Between(base, p, o, g)
  BY DEF Between
<1> HIDE DEF base, p, o, g
<1>1. /\ pc = "misaligned_mid_loop" /\ pc \in strncmp!Words
      /\ call' = call /\ src1' = src1 /\ limit' = limit /\ count' = count /\ data1' = data1
      /\ rd1' = {}
      /\ data2' = LS_FW(tmp2, strncmp!offset)
      /\ syndrome' = (SymmetricDiff(data1, data2') \cup Nuls(data1)) \ strncmp!mask
      /\ IF limit > strncmp!neg_offset \div 8 /\ syndrome' = {}
         THEN /\ tmp1' = Ldr(src2) /\ tmp2' = Ldr(src2 + N) /\ rd2' = Chunk(src2, W) /\ src2' = src2 + W
              /\ pc' = "step_C"
         ELSE pc' = "syndrome_check" /\ rd2' = {} /\ src2' = src2
  BY StrncmpSimd, StrncmpNames DEF strncmp!StepB, strncmp!LoadPair, strncmp!Words,
     strncmp!ofSrc2, strncmp!More
<1>2. /\ ValidStrings(call) /\ strncmp!ValidLimit(call)
      /\ call.s1 \in Nat /\ call.s2 \in Nat /\ call.n \in Nat
      /\ Size \in Nat /\ count \in Nat /\ src1 \in Nat /\ src2 \in Nat
      /\ N \in Nat /\ N >= 2 /\ base \in Nat /\ src1 = (call.s1 + base) + N /\ src1 % N = 0
      /\ o \in 1 .. (N - 1) /\ p \in Nat /\ p = g + o /\ g \in Nat /\ g % N = 0
      /\ base + limit = call.n /\ limit \in 1 .. (Size - 1) /\ base < call.n
      /\ Alike(base)
      /\ data1 = Ldr(call.s1 + base)
      /\ \A i \in 0 .. (N - 1) : call.s1 + (base + i) \in DOMAIN m
      /\ strncmp!Place2 = p
  BY <1>0, <1>1, StrncmpWordsIs
<1>3. g % W = N /\ tmp2 = Ldr(g) /\ src2 = g + N
  BY <1>0, <1>1, <1>2, StrncmpSimd, StrncmpNames DEF strncmp!IInv, strncmp!WordsInv, Between
<1>5. p = call.s2 + base /\ base = (src1 - call.s1) - N /\ o = strncmp!Into2 /\ g = p - o
  BY <1>0 DEF Between
<1>4. /\ call.s1 \in Nat /\ call.s2 \in Nat /\ N \in Nat /\ N >= 2 /\ base \in Nat
      /\ o \in 1 .. (N - 1)
      /\ p \in Nat /\ g \in Nat /\ p = g + o /\ p = call.s2 + base /\ W = 2 * N /\ W \in Nat
      /\ base + limit = call.n /\ limit \in 1 .. (Size - 1) /\ call.n \in Nat /\ Size \in Nat
      /\ src1 = (call.s1 + base) + N
  BY <1>2, <1>5, WordSize
<1> DEFINE hi == N - o
<1>6. \A i \in 0 .. (hi - 1) : call.s2 + (base + i) \in DOMAIN m
  <2>1. g <= call.s2 + base /\ call.s2 + base < g + N /\ g \in Int /\ N \in {N, W}
    BY <1>4
  <2>2. \A j \in 0 .. (N - 1) : g + j \in DOMAIN m
    BY <1>2, <2>1, ChunkRead
  <2>3. \A i \in 0 .. (hi - 1) : o + i \in 0 .. (N - 1) /\ g + (o + i) = call.s2 + (base + i)
    BY <1>4
  <2>. QED
    BY <2>2, <2>3
<1>7. data2' \in SUBSET XBits /\ \A i \in 0 .. (hi - 1) : Bits(data2', i) = BitsOf(m[p + i])
  <2>1. /\ strncmp!offset \in Int /\ strncmp!offset % (8 * N) = 8 * o /\ o \in 0 .. (N - 1)
    BY <1>2, <1>5, IntoIs
  <2>2. tmp2 \in SUBSET XBits
    BY <1>3, BitsLdr
  <2>3. /\ data2' \in SUBSET XBits
        /\ \A i \in 0 .. (N - 1) : Bits(data2', i) = IF i + o < N THEN Bits(tmp2, i + o) ELSE {}
    <3>1. 0 \in 0 .. (N - 1)
      BY <1>4
    <3>. QED
      BY <1>1, <2>1, <2>2, <3>1, BitsFW
  <2>4. ASSUME NEW i \in 0 .. (hi - 1) PROVE Bits(data2', i) = BitsOf(m[p + i])
    <3>1. i \in 0 .. (N - 1) /\ i + o < N /\ i + o \in 0 .. (N - 1) /\ g + (i + o) = p + i
      BY <1>4
    <3>2. Bits(tmp2, i + o) = BitsOf(m[g + (i + o)])
      BY <1>3, <3>1, BitsLdr
    <3>. QED
      BY <2>3, <3>1, <3>2
  <2>. QED
    BY <2>3, <2>4
<1>8. hi \in 0 .. N /\ hi > 0 /\ base \in Int /\ hi < N
  BY <1>4
<1>9. data1 \in SUBSET XBits
      /\ \A i \in 0 .. (N - 1) : Bits(data1, i) = BitsOf(m[(call.s1 + base) + i])
  BY <1>2, BitsLdr
<1>10. \A i \in 0 .. (hi - 1) : Holds(data1, data2', base, i)
  <2>1. \A i \in 0 .. (hi - 1) : /\ ~(base + i < 0) /\ (call.s1 + base) + i = call.s1 + (base + i)
                                 /\ p + i = call.s2 + (base + i) /\ i \in 0 .. (N - 1)
    BY <1>4
  <2>. QED
    BY <1>2, <1>6, <1>7, <1>9, <2>1 DEF Holds
<1> HIDE DEF hi
<1>11. syndrome' \in SUBSET XBits
  <2>1. Nuls(data1) \in SUBSET XBits
    BY <1>9, NulsMark
  <2>. QED
    BY <1>1, <1>7, <1>9, <2>1 DEF SymmetricDiff
<1>12. \A i \in 0 .. (N - 1) : Bits(syndrome', i) = IF 0 <= i /\ i < hi
                                   THEN SymmetricDiff(Bits(data1, i), Bits(data2', i)) \cup Bits(Nuls(data1), i)
                                   ELSE {}
  <2> DEFINE E == SymmetricDiff(data1, data2')
             U == E \cup Nuls(data1)
  <2>1. syndrome' = U \ strncmp!mask
    BY <1>1
  <2>2. U = E \cup Nuls(data1)
    OBVIOUS
  <2>3. \A i \in 0 .. (N - 1) : Bits(E, i) = SymmetricDiff(Bits(data1, i), Bits(data2', i))
    BY BitsXor
  <2> HIDE DEF E, U
  <2>4. ASSUME NEW i \in 0 .. (N - 1)
        PROVE  Bits(syndrome', i) = IF 0 <= i /\ i < hi
                                   THEN SymmetricDiff(Bits(data1, i), Bits(data2', i)) \cup Bits(Nuls(data1), i)
                                   ELSE {}
    <3>1. Bits(U, i) = SymmetricDiff(Bits(data1, i), Bits(data2', i)) \cup Bits(Nuls(data1), i)
      BY <2>2, <2>3, BitsCup
    <3>2. Bits(syndrome', i) = Bits(U, i) \ Bits(strncmp!mask, i)
      BY <2>1, BitsLess
    <3>3. Bits(strncmp!mask, i) = IF i < hi THEN {} ELSE AllOnes
      BY <1>2, <1>5, MaskIs DEF hi
    <3>4. Bits(U, i) \subseteq AllOnes /\ 0 <= i
      BY BitsIn DEF AllOnes
    <3>5. CASE i < hi
      BY <3>1, <3>2, <3>3, <3>4, <3>5
    <3>6. CASE ~(i < hi)
      BY <3>2, <3>3, <3>4, <3>6
    <3>. QED
      BY <3>5, <3>6
  <2>. QED
    BY <2>4
<1>13. /\ syndrome' = {} => NoneDecides(data1, data2', syndrome', base, 0, hi)
       /\ syndrome' # {}
            => \E f \in 0 .. (hi - 1) : OneDecides(data1, data2', syndrome', base, 0, f)
  <2>1. 0 \in 0 .. N /\ hi \in 0 .. N /\ base + 0 = base
    BY <1>4, <1>8
  <2>2. MarksNuls(Nuls(data1), data1) /\ \A i \in 0 .. (0 - 1) : Bits(data1, i) # {}
    BY <1>9, NulsMark
  <2>3. Comparable(data1, data2', Nuls(data1), base, 0, hi)
    BY <1>2, <1>10, <2>1, <2>2, MarksDo
  <2>. QED
    BY <1>2, <1>8, <1>11, <1>12, <2>1, <2>3, Compared
<1>14. syndrome' = {} => Alike(base + hi)
  BY <1>13 DEF NoneDecides
<1>15. strncmp!neg_offset \div 8 = hi
  BY <1>2, <1>5, IntoIs DEF hi
<1>16. CASE limit > hi /\ syndrome' = {}
  <2>1. /\ pc' = "step_C" /\ tmp1' = Ldr(src2) /\ tmp2' = Ldr(src2 + N) /\ rd2' = Chunk(src2, W)
        /\ src2' = src2 + W
    BY <1>1, <1>15, <1>16
  <2>2. /\ base + hi < call.n /\ base + hi \in Nat /\ src2 = call.s2 + (base + hi)
        /\ src2 <= call.s2 + (base + hi) /\ call.s2 + (base + hi) < src2 + W
        /\ src2 \in Int /\ W \in {N, W} /\ src2 + N = g + W
    <3>1. src2 = g + N
      BY <1>3
    <3>2. base + hi < call.n
      BY <1>4, <1>8, <1>16
    <3>. QED
      BY <1>4, <3>1, <3>2 DEF hi
  <2>3. src2 % W = 0
    BY <1>3, <1>4, HalvesOf
  <2>4. rd2' \subseteq Granules(call.s2, strncmp!LastByte(call.s2))
    BY <1>2, <1>14, <1>16, <2>1, <2>2, <2>3, ChunkRead
  <2>5. /\ src1' \in Nat /\ (src1' - call.s1) - N = base /\ src1' % N = 0
        /\ limit' \in 0 .. (Size - 1) /\ count' \in Nat /\ strncmp!Into2 # 0 /\ call.n # 0
    <3>1. src1' = src1 /\ limit' = limit /\ count' = count /\ src1 % N = 0 /\ count \in Nat
          /\ o = strncmp!Into2
      BY <1>1, <1>2, <1>5
    <3>2. src1 \in Nat /\ (src1 - call.s1) - N = base /\ limit \in 0 .. (Size - 1) /\ o # 0
          /\ call.n # 0
      BY <1>4
    <3>. QED
      BY <3>1, <3>2
  <2>6. src2' \in Nat
    BY <1>2, <1>4, <2>1
  <2>7. pc' \in strncmp!Words /\ pc' \in strncmp!Labels
    BY <2>1 DEF strncmp!Words, strncmp!Labels
  <2>8. /\ strncmp!PlaceInv' /\ strncmp!Base' = base /\ strncmp!Place2' = call.s2 + base
        /\ strncmp!Into2' = strncmp!Into2 /\ strncmp!N' = N
    BY <1>1, <1>2, <2>5, <2>6, <2>7, WordsPlace
  <2>9. strncmp!LimitInv'
    <3>1. limit' > 0 /\ base + limit' = call.n /\ limit' > N - strncmp!Into2
      BY <1>1, <1>2, <1>5, <1>16 DEF hi
    <3>. QED
      BY <1>1, <2>1, <2>7, <2>8, <3>1 DEF strncmp!LimitInv
  <2>10. strncmp!WordsInv'
    <3>1. (call.s2 + base) - strncmp!Into2 = g /\ src2' = (g + N) + W
      BY <1>3, <1>5, <2>1
    <3>2. data1' = Ldr(src1' - N)
      <4>1. src1' - N = call.s1 + base
        BY <1>1, <1>2
      <4>. QED
        BY <1>1, <1>2, <4>1
    <3>3. tmp1' = Ldr(g + N) /\ tmp2' = Ldr(g + W)
      BY <1>3, <2>1, <2>2
    <3>. QED
      BY <1>1, <1>3, <2>1, <2>8, <3>1, <3>2, <3>3, NextWords
  <2>11. Alike(((src1' - call.s1) - N) + (N - strncmp!Into2))
    BY <1>5, <1>14, <1>16, <2>5 DEF hi
  <2>12. data1' \subseteq XBits /\ data2' \subseteq XBits /\ syndrome' \subseteq XBits
         /\ src1' \in Int
         /\ rd1' \subseteq Granules(call.s1, strncmp!LastByte(call.s1))
    BY <1>1, <1>7, <1>9, <1>11, <2>5
  <2>. QED
    BY <1>1, <1>2, <2>1, <2>4, <2>5, <2>7, <2>8, <2>9, <2>10, <2>11, <2>12, StrncmpKept
<1>17. CASE ~(limit > hi /\ syndrome' = {})
  <2>1. pc' = "syndrome_check" /\ rd2' = {} /\ src2' = src2
    BY <1>1, <1>15, <1>17
  <2>2. syndrome' = {} => limit <= hi /\ Alike(base + hi)
    BY <1>2, <1>4, <1>8, <1>14, <1>17
  <2>3. syndrome' # {} => \E f \in 0 .. (N - 1) : OneDecides(data1', data2', syndrome', base, 0, f)
    <3>1. \A f \in 0 .. (hi - 1) : f \in 0 .. (N - 1)
      BY <1>4, <1>8
    <3>. QED
      BY <1>1, <1>13, <3>1
  <2>4. strncmp!Into2 # 0 /\ hi \in 0 .. N
    BY <1>4, <1>5, <1>8
  <2>5. data1' \subseteq XBits /\ data2' \subseteq XBits /\ syndrome' \subseteq XBits
    BY <1>1, <1>7, <1>9, <1>11
  <2>. QED
    BY <1>1, <1>2, <2>1, <2>2, <2>3, <2>4, <2>5, PartChecked
<1>. QED
  BY <1>16, <1>17

-----------------------------------------------------------------------------
\* the rest of it with the start of the next pair.
LEMMA StrncmpStepC ==
    ASSUME strncmp!IInv, strncmp!StepC
    PROVE  strncmp!IInv'
<1> DEFINE base == (src1 - call.s1) - N
           p == call.s2 + base
           o == strncmp!Into2
           g == p - o
<1>0. Between(base, p, o, g)
  BY DEF Between
<1> HIDE DEF base, p, o, g
<1>1. /\ pc = "step_C" /\ pc \in strncmp!Words
      /\ call' = call /\ src2' = src2 /\ count' = count /\ tmp1' = tmp1 /\ tmp2' = tmp2
      /\ rd2' = {}
      /\ data2' = LS_BK(tmp1, strncmp!neg_offset)
      /\ syndrome' = (SymmetricDiff(data1, data2') \cup Nuls(data1)) \cap strncmp!mask
      /\ IF limit > N /\ syndrome' = {}
         THEN /\ data1' = Ldr(src1) /\ rd1' = Chunk(src1, N) /\ src1' = src1 + N
              /\ limit' = limit - N /\ pc' = "loop_misaligned"
         ELSE pc' = "syndrome_check" /\ rd1' = {} /\ src1' = src1 /\ data1' = data1 /\ limit' = limit
  BY StrncmpSimd, StrncmpNames DEF strncmp!StepC, strncmp!LoadData1, strncmp!Words,
     strncmp!ofSrc2, strncmp!LeftForC
<1>2. /\ ValidStrings(call) /\ strncmp!ValidLimit(call)
      /\ call.s1 \in Nat /\ call.s2 \in Nat /\ call.n \in Nat
      /\ Size \in Nat /\ count \in Nat /\ src1 \in Nat /\ src2 \in Nat
      /\ N \in Nat /\ N >= 2 /\ base \in Nat /\ src1 = (call.s1 + base) + N /\ src1 % N = 0
      /\ o \in 1 .. (N - 1) /\ p \in Nat /\ p = g + o /\ g \in Nat /\ g % N = 0
      /\ base + limit = call.n /\ limit \in 1 .. (Size - 1) /\ base < call.n
      /\ Alike(base) /\ Alike(base + (N - o)) /\ limit > N - o
      /\ data1 = Ldr(call.s1 + base)
      /\ \A i \in 0 .. (N - 1) : call.s1 + (base + i) \in DOMAIN m
      /\ strncmp!Place2 = p
  BY <1>0, <1>1, StrncmpWordsIs
<1>3. g % W = N /\ tmp1 = Ldr(g + N) /\ tmp2 = Ldr(g + W) /\ src2 = (g + N) + W
  BY <1>0, <1>1, <1>2, StrncmpSimd, StrncmpNames DEF strncmp!IInv, strncmp!WordsInv, Between
<1>5. p = call.s2 + base /\ base = (src1 - call.s1) - N /\ o = strncmp!Into2 /\ g = p - o
  BY <1>0 DEF Between
<1>4. /\ call.s1 \in Nat /\ call.s2 \in Nat /\ N \in Nat /\ N >= 2 /\ base \in Nat
      /\ o \in 1 .. (N - 1)
      /\ p \in Nat /\ g \in Nat /\ p = g + o /\ p = call.s2 + base /\ W = 2 * N /\ W \in Nat
      /\ base + limit = call.n /\ limit \in 1 .. (Size - 1) /\ call.n \in Nat /\ Size \in Nat
      /\ src1 = (call.s1 + base) + N /\ limit > N - o
  BY <1>2, <1>5, WordSize
<1> DEFINE lo == N - o
<1>8. lo \in 0 .. N /\ lo > 0 /\ base \in Int /\ lo < N /\ N \in lo .. N
  BY <1>4
<1>6. \A i \in lo .. (N - 1) : call.s2 + (base + i) \in DOMAIN m
  <2>1. /\ g + N <= call.s2 + (base + lo) /\ call.s2 + (base + lo) < (g + N) + N /\ g + N \in Int
        /\ N \in {N, W}
        /\ base + lo \in Nat /\ base + lo < call.n
    BY <1>4
  <2>2. (g + N) % N = 0
    <3>1. g \in Int /\ N > 0
      BY <1>4
    <3>. QED
      BY <1>2, <3>1, ModPlus
  <2>3. \A j \in 0 .. (N - 1) : (g + N) + j \in DOMAIN m
    BY <1>2, <2>1, <2>2, ChunkRead
  <2>4. \A i \in lo .. (N - 1) :
          i - lo \in 0 .. (N - 1) /\ (g + N) + (i - lo) = call.s2 + (base + i)
    BY <1>4
  <2>. QED
    BY <2>3, <2>4
<1>7. data2' \in SUBSET XBits /\ \A i \in lo .. (N - 1) : Bits(data2', i) = BitsOf(m[p + i])
  <2>1. /\ strncmp!neg_offset \in Int /\ strncmp!neg_offset % (8 * N) = 8 * lo
        /\ lo \in 0 .. (N - 1)
    BY <1>2, <1>5, IntoIs
  <2>2. tmp1 \in SUBSET XBits
    BY <1>3, BitsLdr
  <2>3. /\ data2' \in SUBSET XBits
        /\ \A i \in 0 .. (N - 1) : Bits(data2', i) = IF i >= lo THEN Bits(tmp1, i - lo) ELSE {}
    <3>1. 0 \in 0 .. (N - 1)
      BY <1>4
    <3>. HIDE DEF lo
    <3>. QED
      BY <1>1, <2>1, <2>2, <3>1, BitsBK
  <2>4. ASSUME NEW i \in lo .. (N - 1) PROVE Bits(data2', i) = BitsOf(m[p + i])
    <3>1. i \in 0 .. (N - 1) /\ i >= lo /\ i - lo \in 0 .. (N - 1) /\ (g + N) + (i - lo) = p + i
      BY <1>4
    <3>2. Bits(tmp1, i - lo) = BitsOf(m[(g + N) + (i - lo)])
      BY <1>3, <3>1, BitsLdr
    <3>. QED
      BY <2>3, <3>1, <3>2
  <2>. QED
    BY <2>3, <2>4
<1>9. data1 \in SUBSET XBits
      /\ \A i \in 0 .. (N - 1) : Bits(data1, i) = BitsOf(m[(call.s1 + base) + i])
  BY <1>2, BitsLdr
<1>10. \A i \in lo .. (N - 1) : Holds(data1, data2', base, i)
  <2>1. \A i \in lo .. (N - 1) : /\ ~(base + i < 0) /\ (call.s1 + base) + i = call.s1 + (base + i)
                                 /\ p + i = call.s2 + (base + i) /\ i \in 0 .. (N - 1)
    BY <1>4
  <2>. QED
    BY <1>2, <1>6, <1>7, <1>9, <2>1 DEF Holds
<1>18. \A i \in 0 .. (lo - 1) : Bits(data1, i) # {}
  <2>1. ASSUME NEW i \in 0 .. (lo - 1) PROVE Bits(data1, i) # {}
    <3>1. /\ base + i \in 0 .. ((base + lo) - 1) /\ i \in 0 .. (N - 1)
          /\ (call.s1 + base) + i = call.s1 + (base + i)
      BY <1>4
    <3>2. m[call.s1 + (base + i)] # 0
      BY <1>2, <3>1 DEF Alike, EndsAt
    <3>3. m[call.s1 + (base + i)] \in 0 .. 255
      BY <1>2, <3>1, MemoryIs
    <3>4. BitsOf(m[call.s1 + (base + i)]) # {}
      BY <3>2, <3>3, ByteBits
    <3>. QED
      BY <1>9, <3>1, <3>4
  <2>. QED
    BY <2>1
<1>19. Alike(base + lo)
  BY <1>2
<1>20. lo = N - strncmp!Into2
  BY <1>5
<1> HIDE DEF lo
<1>11. syndrome' \in SUBSET XBits
  <2>1. Nuls(data1) \in SUBSET XBits
    BY <1>9, NulsMark
  <2>. QED
    BY <1>1, <1>7, <1>9, <2>1 DEF SymmetricDiff
<1>12. \A i \in 0 .. (N - 1) : Bits(syndrome', i) = IF lo <= i /\ i < N
                                   THEN SymmetricDiff(Bits(data1, i), Bits(data2', i)) \cup Bits(Nuls(data1), i)
                                   ELSE {}
  <2> DEFINE E == SymmetricDiff(data1, data2')
             U == E \cup Nuls(data1)
  <2>1. syndrome' = U \cap strncmp!mask
    BY <1>1
  <2>2. U = E \cup Nuls(data1)
    OBVIOUS
  <2>3. \A i \in 0 .. (N - 1) : Bits(E, i) = SymmetricDiff(Bits(data1, i), Bits(data2', i))
    BY BitsXor
  <2> HIDE DEF E, U
  <2>4. ASSUME NEW i \in 0 .. (N - 1)
        PROVE  Bits(syndrome', i) = IF lo <= i /\ i < N
                                   THEN SymmetricDiff(Bits(data1, i), Bits(data2', i)) \cup Bits(Nuls(data1), i)
                                   ELSE {}
    <3>1. Bits(U, i) = SymmetricDiff(Bits(data1, i), Bits(data2', i)) \cup Bits(Nuls(data1), i)
      BY <2>2, <2>3, BitsCup
    <3>2. Bits(syndrome', i) = Bits(U, i) \cap Bits(strncmp!mask, i)
      BY <2>1, BitsCap
    <3>3. Bits(strncmp!mask, i) = IF i < lo THEN {} ELSE AllOnes
      BY <1>2, <1>5, MaskIs DEF lo
    <3>4. Bits(U, i) \subseteq AllOnes
      BY BitsIn DEF AllOnes
    <3>5. CASE i < lo
      <4>1. ~(lo <= i)
        BY <1>4, <1>8, <3>5
      <4>. QED
        BY <3>2, <3>3, <3>5, <4>1
    <3>6. CASE ~(i < lo)
      <4>1. lo <= i /\ i < N
        BY <1>4, <1>8, <3>6
      <4>. QED
        BY <3>1, <3>2, <3>3, <3>4, <3>6, <4>1
    <3>. QED
      BY <3>5, <3>6
  <2>. QED
    BY <2>4
<1>13. /\ syndrome' = {} => NoneDecides(data1, data2', syndrome', base, lo, N)
       /\ syndrome' # {}
            => \E f \in lo .. (N - 1) : OneDecides(data1, data2', syndrome', base, lo, f)
  <2>1. MarksNuls(Nuls(data1), data1)
    BY <1>9, NulsMark
  <2>2. Comparable(data1, data2', Nuls(data1), base, lo, N)
    BY <1>8, <1>10, <1>18, <1>19, <2>1, MarksDo
  <2>. QED
    BY <1>2, <1>8, <1>11, <1>12, <2>2, Compared
<1>14. syndrome' = {} => Alike(base + N)
  BY <1>13 DEF NoneDecides
<1>16. CASE limit > N /\ syndrome' = {}
  <2>1. /\ pc' = "loop_misaligned" /\ data1' = Ldr(src1) /\ rd1' = Chunk(src1, N)
        /\ src1' = src1 + N
        /\ limit' = limit - N
    BY <1>1, <1>16
  <2>2. /\ base + N < call.n /\ (base + N) + limit' = call.n /\ base + N \in Nat
        /\ limit' > 0 /\ limit' \in 0 .. (Size - 1) /\ call.n # 0 /\ g + W = (g + N) + N
    BY <1>4, <1>16, <2>1
  <2>3. /\ rd1' \subseteq Granules(call.s1, strncmp!LastByte(call.s1))
        /\ src1' % N = 0 /\ src1' \in Nat /\ (src1' - call.s1) - N = base + N /\ src1' - N = src1
    BY <1>2, <1>14, <1>16, <2>1, <2>2, NextWord
  <2>4. pc' \in strncmp!Words /\ pc' \in strncmp!Labels
    BY <2>1 DEF strncmp!Words, strncmp!Labels
  <2>5. src2' \in Nat /\ count' \in Nat /\ strncmp!Into2 # 0
    BY <1>1, <1>2, <1>5
  <2>6. /\ strncmp!PlaceInv' /\ strncmp!Base' = base + N /\ strncmp!Place2' = call.s2 + (base + N)
        /\ strncmp!Into2' = strncmp!Into2 /\ strncmp!N' = N
    BY <1>1, <1>2, <2>2, <2>3, <2>4, <2>5, WordsPlace
  <2>7. strncmp!LimitInv'
    BY <1>1, <2>1, <2>2, <2>4, <2>6 DEF strncmp!LimitInv
  <2>8. strncmp!WordsInv'
    <3>1. (call.s2 + (base + N)) - strncmp!Into2 = g + N /\ g \in Int
      BY <1>4, <1>5
    <3>2. (g + N) % W = 0
      BY <1>3, <3>1, HalvesOf
    <3>3. data1' = Ldr(src1' - N)
      BY <2>1, <2>3
    <3>4. tmp1' = Ldr(g + N) /\ tmp2' = Ldr((g + N) + N) /\ src2' = (g + N) + W
      BY <1>1, <1>3, <2>2
    <3>. QED
      BY <1>1, <2>1, <2>6, <3>1, <3>2, <3>3, <3>4, NextWords
  <2>9. data1' \subseteq XBits /\ data2' \subseteq XBits /\ syndrome' \subseteq XBits
        /\ src1' \in Int
    BY <1>1, <1>7, <1>11, <2>1, <2>3, BitsLdr
  <2>10. Alike((src1' - call.s1) - N)
    BY <1>14, <1>16, <2>3
  <2>11. rd2' \subseteq Granules(call.s2, strncmp!LastByte(call.s2))
    BY <1>1
  <2>. QED
    BY <1>1, <1>2, <2>1, <2>2, <2>3, <2>4, <2>6, <2>7, <2>8, <2>9, <2>10, <2>11, StrncmpKept
<1>17. CASE ~(limit > N /\ syndrome' = {})
  <2>1. pc' = "syndrome_check" /\ rd1' = {} /\ src1' = src1 /\ data1' = data1 /\ limit' = limit
    BY <1>1, <1>17
  <2>2. syndrome' = {} => limit <= N /\ Alike(base + N)
    BY <1>4, <1>14, <1>17
  <2>3. syndrome' # {} => \E f \in 0 .. (N - 1) : OneDecides(data1', data2', syndrome', base, lo, f)
    <3>1. \A f \in lo .. (N - 1) : f \in 0 .. (N - 1)
      BY <1>8
    <3>. QED
      BY <1>13, <2>1, <3>1
  <2>4. strncmp!Into2 # 0 /\ N \in 0 .. N
    BY <1>4, <1>5
  <2>5. data1' \subseteq XBits /\ data2' \subseteq XBits /\ syndrome' \subseteq XBits
    BY <1>7, <1>9, <1>11, <2>1
  <2>. QED
    BY <1>1, <1>2, <2>1, <2>2, <2>3, <2>4, <2>5, PartChecked
<1>. QED
  BY <1>16, <1>17

-----------------------------------------------------------------------------
\* Words of a big-endian build compared as numbers: the first bytes that differ decide.
LEMMA BelowAt ==
    ASSUME big, NEW X \in SUBSET XBits, NEW Y \in SUBSET XBits, NEW f \in 0 .. (N - 1),
           \A i \in 0 .. (f - 1) : Bits(X, i) = Bits(Y, i),
           NEW t \in 0 .. 7, t \in Bits(Y, f), ~(t \in Bits(X, f)),
           \A b \in (t + 1) .. 7 : b \in Bits(X, f) <=> b \in Bits(Y, f)
    PROVE  Below(X, Y) /\ Octet(X, f) < Octet(Y, f)
<1>1. N \in Nat /\ N >= 2
  BY WordSize
<1>2. Octet(X, f) < Octet(Y, f)
  <2>1. 0 + t \in Bits(Y, f) /\ ~(0 + t \in Bits(X, f))
    OBVIOUS
  <2>2. \A b \in (t + 1) .. 7 : 0 + b \in Bits(X, f) <=> 0 + b \in Bits(Y, f)
    OBVIOUS
  <2>. QED
    BY <2>1, <2>2, NumberOrder DEF Octet
<1> DEFINE k == 8 * ((N - 1) - f) + t
<1>3. \A i \in 0 .. (N - 1), b \in 0 .. 7 :
         /\ b \in Bits(X, i) <=> 8 * ((N - 1) - i) + b \in X
         /\ b \in Bits(Y, i) <=> 8 * ((N - 1) - i) + b \in Y
  BY <1>1 DEF Bits, LowBits
<1>4. k \in Y /\ ~(k \in X)
  BY <1>3
<1>5. ASSUME NEW j \in X \ Y PROVE j < k
  <2>1. PICK q \in 0 .. (N - 1), b \in 0 .. 7 : j = 8 * q + b
    BY <1>5, BitOfWord
  <2> DEFINE i == (N - 1) - q
  <2>2. i \in 0 .. (N - 1) /\ q = (N - 1) - i
    BY <1>1
  <2>3. b \in Bits(X, i) /\ ~(b \in Bits(Y, i))
    BY <1>3, <1>5, <2>1, <2>2
  <2>. HIDE DEF i
  <2>4. ~(i \in 0 .. (f - 1))
    BY <2>3
  <2>5. CASE i = f
    <3>1. ~(b \in (t + 1) .. 7)
      BY <2>3, <2>5
    <3>2. b # t
      BY <2>3, <2>5
    <3>. QED
      BY <1>1, <2>1, <2>2, <2>5, <3>1, <3>2
  <2>6. CASE i # f
    <3>1. i > f
      BY <2>2, <2>4, <2>6
    <3>. QED
      BY <1>1, <2>1, <2>2, <3>1
  <2>. QED
    BY <2>5, <2>6
<1>6. Below(X, Y)
  BY <1>4, <1>5 DEF Below
<1>. QED
  BY <1>2, <1>6

\* The number that is less is that of the string that precedes.
LEMMA BelowIs ==
    ASSUME big, NEW X \in SUBSET XBits, NEW Y \in SUBSET XBits, NEW f \in 0 .. (N - 1),
           \A i \in 0 .. (f - 1) : Bits(X, i) = Bits(Y, i), Bits(X, f) # Bits(Y, f)
    PROVE  /\ Below(X, Y) => Octet(X, f) < Octet(Y, f)
           /\ ~Below(X, Y) => Octet(Y, f) < Octet(X, f)
<1> DEFINE T == SymmetricDiff(Bits(X, f), Bits(Y, f))
<1>1. Bits(X, f) \in SUBSET (0 .. 7) /\ Bits(Y, f) \in SUBSET (0 .. 7)
  BY BitsIn
<1>2. PICK t \in T : \A b \in T : b <= t
  <2>1. T \in SUBSET (0 .. 7) /\ T # {}
    BY <1>1 DEF SymmetricDiff
  <2>2. PICK t \in 0 .. 7 : t \in T /\ \A b \in 0 .. 7 : b \in T => b <= t
    BY <2>1
  <2>. QED
    BY <2>1, <2>2
<1>3. t \in 0 .. 7 /\ \A b \in (t + 1) .. 7 : b \in Bits(X, f) <=> b \in Bits(Y, f)
  <2>1. t \in 0 .. 7
    BY <1>1, <1>2 DEF SymmetricDiff
  <2>2. ASSUME NEW b \in (t + 1) .. 7 PROVE b \in Bits(X, f) <=> b \in Bits(Y, f)
    <3>1. ~(b \in T)
      BY <1>2, <2>1
    <3>. QED
      BY <3>1 DEF SymmetricDiff
  <2>. QED
    BY <2>1, <2>2
<1>4. CASE t \in Bits(Y, f)
  <2>1. ~(t \in Bits(X, f))
    BY <1>2, <1>4 DEF SymmetricDiff
  <2>. QED
    BY <1>3, <1>4, <2>1, BelowAt
<1>5. CASE ~(t \in Bits(Y, f))
  <2>1. t \in Bits(X, f)
    BY <1>2, <1>5 DEF SymmetricDiff
  <2>2. Below(Y, X) /\ Octet(Y, f) < Octet(X, f)
    BY <1>3, <1>5, <2>1, BelowAt
  <2>3. ~Below(X, Y)
    <3>1. ASSUME NEW k \in Y \ X, \A j \in X \ Y : j < k, NEW h \in X \ Y, \A j \in Y \ X : j < h
          PROVE  FALSE
      <4>1. h < k /\ k < h /\ h \in Int /\ k \in Int
        BY <3>1 DEF XBits
      <4>. QED
        BY <4>1
    <3>. QED
      BY <2>2, <3>1 DEF Below
  <2>. QED
    BY <2>2, <2>3
<1>. QED
  BY <1>4, <1>5

-----------------------------------------------------------------------------
\* What the invariant says where words are fully checked, l bytes before the limit.
LEMMA FullIs ==
    ASSUME strncmp!IInv, pc = "full_check", NEW base, base = (src1 - call.s1) - N,
           NEW l, l = strncmp!Minus(limit, -N)
    PROVE  /\ ValidStrings(call) /\ strncmp!ValidLimit(call)
           /\ call.s1 \in Nat /\ call.s2 \in Nat /\ call.n \in Nat /\ N \in Nat /\ N >= 2
           /\ Size \in Nat /\ Size > 2 * N /\ (big => 8 * call.n < Size)
           /\ src1 \in Nat /\ src2 \in Nat /\ limit \in 0 .. (Size - 1) /\ count \in Nat
           /\ base \in Int /\ base >= -N /\ src1 = call.s1 + (base + N)
           /\ l \in 1 .. (Size - 1) /\ limit = strncmp!Minus(l, N) /\ strncmp!Leaves(base, l)
           /\ WordsHeld(data1, data2, base) /\ Alike(base)
           /\ l > N => \E i \in 0 .. (N - 1) : base + i >= 0 /\ Decides(base + i)
           /\ IF call.n = 0 THEN rd1 = {} /\ rd2 = {}
              ELSE /\ rd1 \subseteq Granules(call.s1, strncmp!LastByte(call.s1))
                   /\ rd2 \subseteq Granules(call.s2, strncmp!LastByte(call.s2))
<1>1. /\ ValidStrings(call) /\ strncmp!ValidLimit(call) /\ RegistersInv
      /\ call.s1 \in Nat /\ call.s2 \in Nat /\ call.n \in Nat /\ N \in Nat /\ N >= 2
      /\ Size \in Nat /\ Size > 2 * N
      /\ src1 \in Nat /\ src2 \in Nat /\ limit \in 0 .. (Size - 1) /\ count \in Nat
      /\ strncmp!Progress = src1 - call.s1 /\ strncmp!Base = base /\ strncmp!Place2 = call.s2 + base
      /\ strncmp!PlaceInv /\ strncmp!LimitInv
  BY StrncmpIs
<1>2. IF call.n = 0 THEN rd1 = {} /\ rd2 = {}
      ELSE /\ rd1 \subseteq Granules(call.s1, strncmp!LastByte(call.s1))
           /\ rd2 \subseteq Granules(call.s2, strncmp!LastByte(call.s2))
  BY StrncmpIs
<1>3. src1 - call.s1 >= 0
  BY <1>1 DEF strncmp!PlaceInv, strncmp!Checks
<1>4. base \in Int /\ base >= -N /\ src1 = call.s1 + (base + N)
  BY <1>1, <1>3
<1>5. strncmp!Left = l
  BY StrncmpSimd DEF strncmp!Left
<1>6. strncmp!Leaves(base, l) /\ limit = strncmp!Minus(l, N)
  BY <1>1, <1>5, StrncmpSimd DEF strncmp!LimitInv
<1>7. l \in 1 .. (Size - 1)
  <2>1. l > 0
    BY <1>6 DEF strncmp!Leaves
  <2>2. limit - (-N) \in Int /\ Size > 0
    BY <1>1
  <2>3. l \in 0 .. (Size - 1)
    BY <1>1, <2>2, DivMod DEF strncmp!Minus
  <2>. QED
    BY <1>1, <2>1, <2>3
<1>8. Alike(base)
  BY <1>1, StrncmpInvNames DEF strncmp!IInv, strncmp!PassedInv
<1>9. strncmp!FullInv
  BY DEF strncmp!IInv
<1>10. \A i \in 0 .. (N - 1) : Holds(data1, data2, base, i)
  <2>1. \A i \in 0 .. (N - 1) : /\ (call.s1 + base) + i = call.s1 + (base + i)
                                /\ (call.s2 + base) + i = call.s2 + (base + i)
    BY <1>1, <1>4
  <2>2. \A i \in 0 .. (N - 1) :
           IF base + i < 0 THEN Bits(data1, i) = AllOnes /\ Bits(data2, i) = AllOnes
           ELSE /\ (call.s1 + base) + i \in DOMAIN m /\ (call.s2 + base) + i \in DOMAIN m
                /\ Bits(data1, i) = BitsOf(m[(call.s1 + base) + i])
                /\ Bits(data2, i) = BitsOf(m[(call.s2 + base) + i])
    BY <1>1, <1>9, StrncmpSimd, StrncmpNames, StrncmpInvNames DEF strncmp!FullInv
  <2>. QED
    BY <2>1, <2>2 DEF Holds
<1>11. l > N => \E i \in 0 .. (N - 1) : base + i >= 0 /\ Decides(base + i)
  BY <1>1, <1>5, <1>9, StrncmpSimd, StrncmpInvNames DEF strncmp!FullInv
<1>12. data1 \in SUBSET XBits /\ data2 \in SUBSET XBits
  BY <1>1 DEF RegistersInv
<1>13. big => 8 * call.n < Size
  BY <1>1, SizeIs
<1>. QED
  BY <1>1, <1>2, <1>4, <1>6, <1>7, <1>8, <1>10, <1>11, <1>12, <1>13 DEF WordsHeld

\* If nothing decides in words that are fully checked, that is because of the limit.
LEMMA LimitInWords ==
    ASSUME NEW base \in Int, Alike(base + N), NEW l \in Int,
           l > N => \E i \in 0 .. (N - 1) : base + i >= 0 /\ Decides(base + i)
    PROVE  l <= N
<1>1. SUFFICES ASSUME l > N PROVE FALSE
  BY WordSize
<1>2. PICK i \in 0 .. (N - 1) : base + i >= 0 /\ Decides(base + i)
  BY <1>1
<1>3. base + i \in Nat /\ base + N \in Int /\ ~(base + N <= base + i)
  BY <1>2, WordSize
<1>. QED
  BY <1>2, <1>3, AlikeBefore

\* strncmp: the full check of a little-endian build.
LEMMA StrncmpFullCheckLE ==
    ASSUME strncmp!IInv, strncmp!FullCheck, ~big
    PROVE  strncmp!IInv'
<1> DEFINE base == (src1 - call.s1) - N
           l == strncmp!Minus(limit, -N)
<1>1. /\ pc = "full_check" /\ call' = call /\ src1' = src1 /\ src2' = src2
      /\ rd1' = rd1 /\ rd2' = rd2 /\ count' = count
      /\ syndrome' = SymmetricDiff(data1, data2) \cup HasZero(data1)
      /\ limit' = l /\ pc' = "syndrome_check" /\ data1' = data1 /\ data2' = data2
  BY StrncmpSimd, StrncmpNames DEF strncmp!FullCheck, strncmp!FullCheckLE
<1>2. base = (src1 - call.s1) - N /\ l = strncmp!Minus(limit, -N)
  OBVIOUS
<1> HIDE DEF base, l
<1>3. /\ ValidStrings(call) /\ strncmp!ValidLimit(call)
      /\ call.s1 \in Nat /\ call.s2 \in Nat /\ call.n \in Nat /\ N \in Nat /\ N >= 2 /\ Size \in Nat
      /\ src1 \in Nat /\ src2 \in Nat /\ count \in Nat
      /\ base \in Int /\ base >= -N /\ src1 = call.s1 + (base + N)
      /\ l \in 1 .. (Size - 1) /\ strncmp!Leaves(base, l)
      /\ WordsHeld(data1, data2, base) /\ Alike(base)
      /\ l > N => \E i \in 0 .. (N - 1) : base + i >= 0 /\ Decides(base + i)
      /\ IF call.n = 0 THEN rd1 = {} /\ rd2 = {}
         ELSE /\ rd1 \subseteq Granules(call.s1, strncmp!LastByte(call.s1))
              /\ rd2 \subseteq Granules(call.s2, strncmp!LastByte(call.s2))
  BY <1>1, <1>2, FullIs
<1>4. HasZero(data1) = Nuls(data1)
  BY DEF Nuls, RevBE
<1>5. /\ syndrome' \in SUBSET XBits
      /\ syndrome' = {} => NoneDecides(data1, data2, syndrome', base, 0, N)
      /\ syndrome' # {} => \E f \in 0 .. (N - 1) : OneDecides(data1, data2, syndrome', base, 0, f)
  <2>1. /\ data1 \in SUBSET XBits /\ data2 \in SUBSET XBits
        /\ \A i \in 0 .. (N - 1) : Holds(data1, data2, base, i)
    BY <1>3 DEF WordsHeld
  <2>2. syndrome' = SymmetricDiff(data1, data2) \cup Nuls(data1)
    BY <1>1, <1>4
  <2>3. ValidStrings(call) /\ base \in Int /\ Alike(base)
    BY <1>3
  <2>. QED
    BY <2>1, <2>2, <2>3, AllCompared
<1>6. syndrome' = {} => l <= N /\ Alike(base + N)
  <2>1. syndrome' = {} => Alike(base + N)
    BY <1>5 DEF NoneDecides
  <2>2. l \in Int
    BY <1>3
  <2>. QED
    BY <1>3, <2>1, <2>2, LimitInWords
<1>7. SyndromeIs(syndrome', data1', data2', limit', base)
  <2>1. l \in Nat /\ N \in 0 .. N
    BY <1>3
  <2>2. \/ syndrome' = {} /\ l <= N /\ Alike(base + N)
        \/ \E f \in 0 .. (N - 1) : OneDecides(data1, data2, syndrome', base, 0, f)
    BY <1>5, <1>6
  <2>. QED
    BY <1>1, <1>3, <2>1, <2>2, SyndromeChecked
<1>8. strncmp!Progress' = base + N /\ strncmp!Base' = base /\ (src1' - call.s1) - N = base
  <2>1. src1' - call.s1 = base + N /\ (src1' - call.s1) - N = base
    BY <1>1, <1>3
  <2>. QED
    BY <1>1, <2>1, StrncmpSimd DEF strncmp!Progress, strncmp!Base, strncmp!N, N
<1>9. strncmp!PlaceInv'
  <2>1. strncmp!Progress' >= 0 /\ limit' \in 0 .. (Size - 1) /\ src1' \in Nat /\ src2' \in Nat
        /\ count' \in Nat
    BY <1>1, <1>3, <1>8
  <2>2. ~strncmp!big'
    BY <1>1 DEF big, strncmp!big
  <2>3. pc' \notin strncmp!Words
    BY <1>1 DEF strncmp!Words
  <2>. QED
    BY <1>1, <2>1, <2>2, <2>3 DEF strncmp!PlaceInv
<1>10. strncmp!LimitInv' /\ strncmp!WordsInv'
  <2>1. (strncmp!Leaves(strncmp!Base, limit))'
    BY <1>1, <1>3, <1>8, StrncmpSame DEF strncmp!Leaves
  <2>2. pc' \notin strncmp!Words
    BY <1>1 DEF strncmp!Words
  <2>. QED
    BY <1>1, <2>1, <2>2 DEF strncmp!LimitInv, strncmp!WordsInv
<1>11. /\ pc' \in strncmp!Labels /\ src1' \in Int
       /\ data1' \subseteq XBits /\ data2' \subseteq XBits /\ syndrome' \subseteq XBits
  BY <1>1, <1>3, <1>5 DEF strncmp!Labels, WordsHeld
<1>. QED
  BY <1>1, <1>3, <1>7, <1>8, <1>9, <1>10, <1>11, StrncmpKept

-----------------------------------------------------------------------------
\* K is the mask of a full check with l bytes to the limit, in a big-endian build.
CutBy(K, l) == K = IF strncmp!Negative(limit) THEN lsr(XBits, 8 * l) ELSE {}

\* The mask K of the bytes after the limit, which is l bytes from the start of the words.
LEMMA CutIs ==
    ASSUME big, Size \in Nat, Size > 2 * N, call.n \in Nat, 8 * call.n < Size,
           NEW base \in Int, base >= -N,
           NEW l \in 1 .. (Size - 1), strncmp!Leaves(base, l), limit = strncmp!Minus(l, N),
           NEW K, CutBy(K, l)
    PROVE  /\ K \in SUBSET XBits
           /\ K = {} => l >= N
           /\ l >= N => K = {}
           /\ \A i \in 0 .. (N - 1) : Bits(K, i) = IF l < N /\ i >= l THEN AllOnes ELSE {}
<1>1. N \in Nat /\ N >= 2 /\ N > 0 /\ 8 * N \in Nat
  BY WordSize
<1>2. limit = IF l >= N THEN l - N ELSE (l - N) + Size
  <2>1. l \in 0 .. (Size - 1)
    BY <1>1
  <2>. QED
    BY <2>1, LimitWraps
<1> DEFINE h == Size \div 2
<1>3. h \in Int /\ 2 * h <= Size /\ Size <= 2 * h + 1
  BY DivMod
<1>4. strncmp!Negative(limit) <=> limit >= h
  BY DEF strncmp!Negative
<1>. HIDE DEF h
<1>5. base + l <= call.n
  BY DEF strncmp!Leaves
<1>6. CASE l < N
  <2>1. limit >= h
    BY <1>1, <1>2, <1>3, <1>6
  <2>2. K = LS_BK(XBits, 8 * l)
    BY <1>4, <2>1 DEF LS_BK, CutBy
  <2>3. l \in 0 .. (N - 1) /\ 8 * l \in Int /\ 8 * l \in 0 .. (8 * N - 1)
    BY <1>1, <1>6
  <2>4. (8 * l) % (8 * N) = 8 * l
    BY <1>1, <2>3, ModSmall
  <2>5. XBits \in SUBSET XBits
    OBVIOUS
  <2>6. ASSUME NEW i \in 0 .. (N - 1)
        PROVE  K \in SUBSET XBits /\ Bits(K, i) = IF i >= l THEN Bits(XBits, i - l) ELSE {}
    <3>1. PICK n \in Int : n = 8 * l
      BY <2>3
    <3>2. n % (8 * N) = 8 * l /\ l \in 0 .. (N - 1) /\ K = LS_BK(XBits, n)
      BY <2>2, <2>3, <2>4, <3>1
    <3>3. /\ LS_BK(XBits, n) \in SUBSET XBits
          /\ Bits(LS_BK(XBits, n), i) = IF i >= l THEN Bits(XBits, i - l) ELSE {}
      BY <2>5, <3>2, BitsBK
    <3>. QED
      BY <3>2, <3>3
  <2>7. 0 \in 0 .. (N - 1)
    BY <1>1
  <2>8. K \in SUBSET XBits
    BY <2>6, <2>7
  <2>9. ASSUME NEW i \in 0 .. (N - 1)
        PROVE  Bits(K, i) = IF l < N /\ i >= l THEN AllOnes ELSE {}
    <3>1. i >= l => i - l \in 0 .. (N - 1)
      BY <1>1, <2>3
    <3>2. i >= l => Bits(XBits, i - l) = AllOnes
      BY <3>1, BitsOps
    <3>. QED
      BY <1>6, <2>6, <3>2
  <2>10. K # {}
    <3>1. l >= l
      BY <2>3
    <3>2. Bits(K, l) = AllOnes /\ 0 \in AllOnes
      BY <1>6, <2>3, <2>9, <3>1 DEF AllOnes
    <3>3. Bits({}, l) = {}
      BY <2>3, BitsOps
    <3>. QED
      BY <3>2, <3>3
  <2>11. ~(l >= N)
    BY <1>1, <1>6
  <2>. QED
    BY <2>8, <2>9, <2>10, <2>11
<1>7. CASE ~(l < N)
  <2>1. ~(limit >= h)
    BY <1>1, <1>2, <1>3, <1>5, <1>7
  <2>2. K = {}
    BY <1>4, <2>1 DEF CutBy
  <2>3. l >= N
    BY <1>1, <1>7
  <2>4. \A i \in 0 .. (N - 1) : Bits(K, i) = {}
    BY <2>2, BitsOps
  <2>. QED
    BY <1>7, <2>2, <2>3, <2>4
<1>. QED
  BY <1>6, <1>7

\* The full check of a big-endian build ends the comparison, of the words that are left.
LEMMA FullEnds ==
    ASSUME strncmp!IInv, strncmp!FullCheck, big,
           pc' \in {"end", "ret"}, data1' \in SUBSET XBits, data2' \in SUBSET XBits,
           syndrome' \in SUBSET XBits,
           pc' = "end" => \E f \in 0 .. (N - 1) :
                             /\ FirstMarkOf(syndrome', data1', data2', f)
                             /\ Sign(Octet(data1', f) - Octet(data2', f)) = strncmp!Answer,
           pc' = "ret" => Sign(result') = strncmp!Answer
    PROVE  strncmp!IInv'
<1>1. /\ ValidStrings(call) /\ strncmp!ValidLimit(call)
      /\ src1 \in Nat /\ src2 \in Nat /\ limit \in 0 .. (Size - 1) /\ count \in Nat
      /\ IF call.n = 0 THEN rd1 = {} /\ rd2 = {}
         ELSE /\ rd1 \subseteq Granules(call.s1, strncmp!LastByte(call.s1))
              /\ rd2 \subseteq Granules(call.s2, strncmp!LastByte(call.s2))
  BY StrncmpIs
<1>2. /\ call' = call /\ src1' = src1 /\ src2' = src2
      /\ rd1' = rd1 /\ rd2' = rd2 /\ limit' = limit /\ count' = count
  BY StrncmpNames DEF strncmp!FullCheck, strncmp!FullCheckBE
<1>3. strncmp!PlaceInv'
  BY <1>1, <1>2 DEF strncmp!PlaceInv, strncmp!Words, strncmp!Checks
<1>4. strncmp!LimitInv' /\ strncmp!WordsInv'
  BY <1>2 DEF strncmp!LimitInv, strncmp!WordsInv, strncmp!Words
<1>5. pc' \in strncmp!Labels /\ src1' \in Int
  BY <1>1, <1>2 DEF strncmp!Labels
<1>6. pc' \notin {"loop_aligned", "byte_loop", "page_end_loop", "src1_aligned", "loop_misaligned",
                  "misaligned_mid_loop", "full_check", "step_C", "syndrome_check"}
  OBVIOUS
<1>. QED
  BY <1>1, <1>2, <1>3, <1>4, <1>5, <1>6, StrncmpKept

-----------------------------------------------------------------------------
\* Nothing before the limit is an end, or a difference, in words that are the same.
LEMMA SameWords ==
    ASSUME ValidStrings(call), NEW base \in Int, WordsHeld(data1, data2, base), Alike(base),
           NEW l \in 1 .. (Size - 1), strncmp!Leaves(base, l),
           l > N => \E i \in 0 .. (N - 1) : base + i >= 0 /\ Decides(base + i),
           l >= N, HasZero(data1) = {}, data1 = data2
    PROVE  strncmp!Answer = 2
<1>1. N \in Nat /\ N >= 2 /\ l \in Int /\ l \in Nat
  BY WordSize
<1>2. \A i \in 0 .. (N - 1) : base + i < 0 \/ ~Decides(base + i)
  BY WordsClear DEF WordsHeld
<1>3. Alike(base + N)
  BY <1>2, AlikeWord
<1>4. l <= N
  BY <1>1, <1>3, LimitInWords
<1>5. l = N
  BY <1>1, <1>4
<1>6. Alike(base + l)
  BY <1>3, <1>5
<1>. QED
  BY <1>1, <1>6, LimitReached

\* Words that differ before the limit, where they have no NUL, compare as the strings do.
LEMMA OtherWords ==
    ASSUME big, ValidStrings(call), NEW base \in Int, WordsHeld(data1, data2, base), Alike(base),
           NEW l \in 1 .. (Size - 1), strncmp!Leaves(base, l),
           l >= N, HasZero(data1) = {}, data1 # data2
    PROVE  strncmp!Answer = IF Below(data1, data2) THEN 1 ELSE 3
<1>1. N \in Nat /\ N >= 2 /\ l \in Int /\ l \in Nat
  BY WordSize
<1> DEFINE Y == SymmetricDiff(data1, data2) \cup Nuls(data1)
<1>2. data1 \in SUBSET XBits /\ data2 \in SUBSET XBits
      /\ \A i \in 0 .. (N - 1) : Holds(data1, data2, base, i)
  BY DEF WordsHeld
<1>3. Y # {}
  BY DEF SymmetricDiff
<1>4. PICK f \in 0 .. (N - 1) : OneDecides(data1, data2, Y, base, 0, f)
  BY <1>2, <1>3, AllCompared
<1>. HIDE DEF Y
<1>5. Bits(data1, f) # Bits(data2, f)
  <2>1. Bits(data1, f) # {}
    BY <1>2, NulsNone
  <2>. QED
    BY <1>4, <2>1 DEF OneDecides, Clear
<1>6. \A i \in 0 .. (f - 1) : Bits(data1, i) = Bits(data2, i)
  BY <1>4 DEF OneDecides, Clear
<1>7. /\ Below(data1, data2) => Octet(data1, f) < Octet(data2, f)
      /\ ~Below(data1, data2) => Octet(data2, f) < Octet(data1, f)
  BY <1>2, <1>5, <1>6, BelowIs
<1>8. Octet(data1, f) \in Int /\ Octet(data2, f) \in Int
  <2>1. Octet(data1, f) \in 0 .. 255 /\ Octet(data2, f) \in 0 .. 255
    BY NumberIn DEF Octet
  <2>. QED
    BY <2>1
<1>9. Sign(Octet(data1, f) - Octet(data2, f)) = IF Below(data1, data2) THEN 1 ELSE 3
  BY <1>7, <1>8 DEF Sign
<1>10. strncmp!Answer = Order(base + f)
  <2>1. f \in Nat /\ f < l
    BY <1>1
  <2>2. base + f \in Nat /\ Alike(base + f) /\ Decides(base + f)
    BY <1>4 DEF OneDecides
  <2>. QED
    BY <1>1, <2>1, <2>2, DecidedBefore
<1>11. Sign(Octet(data1, f) - Octet(data2, f)) = Order(base + f)
  BY <1>4 DEF OneDecides, Order
<1>. QED
  BY <1>9, <1>10, <1>11

\* The bits of a syndrome, and of words some bytes of which are masked off.
LEMMA SyndromeBits ==
    ASSUME NEW d1, NEW d2, NEW Z, NEW Y, SyndromeOf(Y, d1, d2, Z), NEW i \in 0 .. (N - 1)
    PROVE  Bits(Y, i) = SymmetricDiff(Bits(d1, i), Bits(d2, i)) \cup Bits(Z, i)
<1> DEFINE E == SymmetricDiff(d1, d2)
<1>1. Bits(E, i) = SymmetricDiff(Bits(d1, i), Bits(d2, i))
  BY BitsXor
<1>2. Y = E \cup Z
  BY DEF SyndromeOf
<1>. HIDE DEF E
<1>3. Bits(Y, i) = Bits(E, i) \cup Bits(Z, i)
  BY <1>2, BitsCup
<1>. QED
  BY <1>1, <1>3

Cut(d, D, K) == d = D \ K

LEMMA CutBits ==
    ASSUME NEW D, NEW K, NEW d, Cut(d, D, K), NEW i \in 0 .. (N - 1)
    PROVE  Bits(d, i) = Bits(D, i) \ Bits(K, i)
  BY BitsLess DEF Cut

\* The words with the bytes after the limit masked off, and what their syndrome marks.
LEMMA CutWords ==
    ASSUME ValidStrings(call), NEW base \in Int, WordsHeld(data1, data2, base), Alike(base),
           NEW l \in 1 .. (Size - 1), strncmp!Leaves(base, l),
           NEW K \in SUBSET XBits, l >= N => K = {}, HasZero(data1) \cup K # {},
           \A i \in 0 .. (N - 1) : Bits(K, i) = IF l < N /\ i >= l THEN AllOnes ELSE {},
           NEW d1 \in SUBSET XBits, NEW d2 \in SUBSET XBits, Cut(d1, data1, K), Cut(d2, data2, K),
           NEW Y, SyndromeOf(Y, data1, data2, Nuls(d1))
    PROVE  /\ Y \in SUBSET XBits
           /\ \E f \in 0 .. (N - 1) : /\ FirstMarkOf(Y, d1, d2, f)
                                      /\ Sign(Octet(d1, f) - Octet(d2, f)) = strncmp!Answer
<1>1. N \in Nat /\ N >= 2 /\ l \in Int /\ l \in Nat /\ l > 0
  BY WordSize
<1>2. MarksNuls(Nuls(d1), d1) /\ Nuls(d1) \in SUBSET XBits
  BY NulsMark
<1>3. Y \in SUBSET XBits
  <2>1. data1 \in SUBSET XBits /\ data2 \in SUBSET XBits
    BY DEF WordsHeld
  <2>. QED
    BY <1>2, <2>1 DEF SyndromeOf, SymmetricDiff
<1> DEFINE c == IF l < N THEN l ELSE N
<1>4. c \in 0 .. N /\ c <= l /\ c \in Int /\ 0 \in 0 .. N
  BY <1>1
<1>5. \A i \in 0 .. (N - 1) :
         Bits(Y, i) = SymmetricDiff(Bits(data1, i), Bits(data2, i)) \cup Bits(Nuls(d1), i)
  BY SyndromeBits
<1>6. \A i \in 0 .. (N - 1) :
        Bits(d1, i) = Bits(data1, i) \ Bits(K, i) /\ Bits(d2, i) = Bits(data2, i) \ Bits(K, i)
  BY CutBits
<1>7. \A i \in 0 .. (N - 1) : i < c => Bits(d1, i) = Bits(data1, i) /\ Bits(d2, i) = Bits(data2, i)
  <2>1. \A i \in 0 .. (N - 1) : i < c => ~(l < N /\ i >= l)
    BY <1>1
  <2>2. \A i \in 0 .. (N - 1) : i < c => Bits(K, i) = {}
    BY <2>1
  <2>. QED
    BY <1>6, <2>2
<1>. HIDE DEF c
<1>8. \A i \in 0 .. (c - 1) : i \in 0 .. (N - 1) /\ i < c
  BY <1>1, <1>4
<1>9. Comparable(d1, d2, Nuls(d1), base, 0, c)
  <2>1. \A i \in 0 .. (c - 1) : Holds(d1, d2, base, i)
    <3>1. ASSUME NEW i \in 0 .. (c - 1)
          PROVE  Holds(d1, d2, base, i)
      <4>1. Holds(data1, data2, base, i)
        BY <1>8 DEF WordsHeld
      <4>2. Bits(d1, i) = Bits(data1, i) /\ Bits(d2, i) = Bits(data2, i)
        BY <1>7, <1>8
      <4>. QED
        BY <4>1, <4>2 DEF Holds
    <3>. QED
      BY <3>1
  <2>2. Alike(base + 0) /\ c \in 0 .. N /\ 0 \in 0 .. N /\ c \in 0 .. N
    <3>1. base + 0 = base
      OBVIOUS
    <3>. QED
      BY <1>4, <3>1
  <2>3. \A i \in 0 .. (0 - 1) : Bits(d1, i) # {}
    OBVIOUS
  <2>. QED
    BY <1>2, <2>1, <2>2, <2>3, MarksDo
<1>10. \/ NoneDecides(d1, d2, Y, base, 0, c)
       \/ \E f \in 0 .. (c - 1) : OneDecides(d1, d2, Y, base, 0, f)
  <2>1. \A i \in 0 .. (c - 1) : Bits(Y, i) = IF 0 <= i
                                             THEN SymmetricDiff(Bits(d1, i), Bits(d2, i)) \cup Bits(Nuls(d1), i)
                                             ELSE {}
    <3>1. ASSUME NEW i \in 0 .. (c - 1)
          PROVE  Bits(Y, i) = SymmetricDiff(Bits(d1, i), Bits(d2, i)) \cup Bits(Nuls(d1), i)
      <4>1. i \in 0 .. (N - 1) /\ i < c
        BY <1>8
      <4>2. Bits(Y, i) = SymmetricDiff(Bits(data1, i), Bits(data2, i)) \cup Bits(Nuls(d1), i)
        BY <1>5, <4>1
      <4>3. Bits(d1, i) = Bits(data1, i) /\ Bits(d2, i) = Bits(data2, i)
        BY <1>7, <4>1
      <4>. QED
        BY <4>2, <4>3
    <3>2. \A i \in 0 .. (c - 1) : 0 <= i
      OBVIOUS
    <3>. QED
      BY <3>1, <3>2
  <2>2. 0 \in 0 .. N /\ c \in 0 .. N
    BY <1>4
  <2>. QED
    BY <1>9, <2>1, <2>2, ComparedUpTo
<1>11. CASE \E f \in 0 .. (c - 1) : OneDecides(d1, d2, Y, base, 0, f)
  <2>1. PICK f \in 0 .. (c - 1) : OneDecides(d1, d2, Y, base, 0, f)
    BY <1>11
  <2>2. f \in 0 .. (N - 1) /\ f \in Nat /\ f < l
    BY <1>1, <1>4, <1>8
  <2>3. base + f \in Nat /\ Alike(base + f) /\ Decides(base + f)
    BY <2>1 DEF OneDecides
  <2>4. strncmp!Answer = Order(base + f)
    BY <1>1, <2>2, <2>3, DecidedBefore
  <2>5. Sign(Octet(d1, f) - Octet(d2, f)) = Order(base + f) /\ FirstMarkOf(Y, d1, d2, f)
    BY <2>1 DEF OneDecides, Order
  <2>. QED
    BY <1>3, <2>2, <2>4, <2>5
<1>12. CASE NoneDecides(d1, d2, Y, base, 0, c)
  <2>1. /\ \A i \in 0 .. (c - 1) : Bits(d1, i) # {}
        /\ \A i \in 0 .. (c - 1) : Bits(Y, i) = {}
        /\ Alike(base + c)
    BY <1>12 DEF NoneDecides, Clear
  <2>2. CASE l < N
    <3>1. c = l /\ l \in 0 .. (N - 1) /\ l >= l
      BY <1>1, <2>2 DEF c
    <3>2. Bits(d1, l) = {} /\ Bits(d2, l) = {}
      <4>1. Bits(K, l) = AllOnes
        BY <2>2, <3>1
      <4>2. Bits(data1, l) \in SUBSET AllOnes /\ Bits(data2, l) \in SUBSET AllOnes
        BY <3>1, BitsIn DEF AllOnes
      <4>. QED
        BY <1>6, <3>1, <4>1, <4>2
    <3>3. \A i \in 0 .. (l - 1) : Bits(d1, i) # {}
      BY <2>1, <3>1
    <3>4. Bits(Nuls(d1), l) = {7}
      BY <3>1, <3>2, <3>3, NulsFirst
    <3>5. Bits(Y, l) # {} /\ 7 \in Bits(Y, l)
      BY <1>5, <3>1, <3>4
    <3>6. FirstMarkOf(Y, d1, d2, l)
      BY <2>1, <3>1, <3>5 DEF FirstMarkOf
    <3>7. Octet(d1, l) = Octet(d2, l) /\ Octet(d1, l) \in Int
      <4>1. Octet(d1, l) = Octet(d2, l)
        BY <3>2 DEF Octet
      <4>2. Octet(d1, l) \in 0 .. 255
        BY NumberIn DEF Octet
      <4>. QED
        BY <4>1, <4>2
    <3>8. Sign(Octet(d1, l) - Octet(d2, l)) = 2
      BY <3>7 DEF Sign
    <3>9. strncmp!Answer = 2
      BY <1>1, <2>1, <3>1, LimitReached
    <3>. QED
      BY <1>3, <3>1, <3>6, <3>8, <3>9
  <2>3. CASE ~(l < N)
    <3>1. c = N /\ l >= N
      BY <1>1, <2>3 DEF c
    <3>2. K = {} /\ d1 = data1
      BY <3>1 DEF Cut
    <3>3. HasZero(d1) = {}
      BY <2>1, <3>1, NulsNone
    <3>. QED
      BY <3>2, <3>3
  <2>. QED
    BY <2>2, <2>3
<1>. QED
  BY <1>10, <1>11, <1>12

\* strncmp: the full check of a big-endian build.
LEMMA StrncmpFullCheckBE ==
    ASSUME strncmp!IInv, strncmp!FullCheck, big
    PROVE  strncmp!IInv'
<1> DEFINE base == (src1 - call.s1) - N
           l == strncmp!Minus(limit, -N)
           K == IF strncmp!Negative(limit) THEN lsr(XBits, 8 * l) ELSE {}
<1>1. /\ pc = "full_check"
      /\ data1' = data1 \ K /\ data2' = data2 \ K
      /\ IF HasZero(data1) \cup K = {}
         THEN /\ pc' = "ret" /\ syndrome' = syndrome
              /\ result' = IF data1 = data2 THEN 0 ELSE IF Below(data1, data2) THEN -1 ELSE 1
         ELSE /\ pc' = "end"
              /\ syndrome' = SymmetricDiff(data1, data2) \cup Nuls(data1')
  BY StrncmpSimd, StrncmpNames DEF strncmp!FullCheck, strncmp!FullCheckBE, strncmp!Return
<1>2. base = (src1 - call.s1) - N /\ l = strncmp!Minus(limit, -N)
      /\ CutBy(K, l)
  BY DEF CutBy
<1> HIDE DEF base, l, K
<1>3. /\ ValidStrings(call) /\ call.n \in Nat /\ Size \in Nat /\ Size > 2 * N /\ 8 * call.n < Size
      /\ base \in Int /\ base >= -N
      /\ l \in 1 .. (Size - 1) /\ limit = strncmp!Minus(l, N) /\ strncmp!Leaves(base, l)
      /\ WordsHeld(data1, data2, base) /\ Alike(base)
      /\ l > N => \E i \in 0 .. (N - 1) : base + i >= 0 /\ Decides(base + i)
  BY <1>1, <1>2, FullIs
<1>4. /\ K \in SUBSET XBits
      /\ K = {} => l >= N
      /\ l >= N => K = {}
      /\ \A i \in 0 .. (N - 1) : Bits(K, i) = IF l < N /\ i >= l THEN AllOnes ELSE {}
  BY <1>2, <1>3, CutIs
<1>5. RegistersInv /\ syndrome \in SUBSET XBits /\ data1 \in SUBSET XBits /\ data2 \in SUBSET XBits
  BY StrncmpIs DEF RegistersInv
<1>6. data1' \in SUBSET XBits /\ data2' \in SUBSET XBits
  BY <1>1, <1>5
<1>7. CASE HasZero(data1) \cup K = {}
  <2>1. HasZero(data1) = {} /\ l >= N
    BY <1>4, <1>7
  <2>2. Sign(result') = strncmp!Answer
    <3>1. CASE data1 = data2
      <4>1. result' = 0
        BY <1>1, <1>7, <3>1
      <4>2. strncmp!Answer = 2
        BY <1>3, <2>1, <3>1, SameWords
      <4>. QED
        BY <4>1, <4>2 DEF Sign
    <3>2. CASE data1 # data2
      <4>1. result' = IF Below(data1, data2) THEN -1 ELSE 1
        BY <1>1, <1>7, <3>2
      <4>2. strncmp!Answer = IF Below(data1, data2) THEN 1 ELSE 3
        BY <1>3, <2>1, <3>2, OtherWords
      <4>. QED
        BY <4>1, <4>2 DEF Sign
    <3>. QED
      BY <3>1, <3>2
  <2>3. pc' \in {"end", "ret"} /\ pc' # "end" /\ syndrome' \in SUBSET XBits
    BY <1>1, <1>5, <1>7
  <2>. QED
    BY <1>6, <2>2, <2>3, FullEnds
<1>8. CASE HasZero(data1) \cup K # {}
  <2>1. pc' \in {"end", "ret"} /\ pc' # "ret"
        /\ syndrome' = SymmetricDiff(data1, data2) \cup Nuls(data1')
    BY <1>1, <1>8
  <2>2. PICK d1, d2, Y : d1 = data1' /\ d2 = data2' /\ Y = syndrome'
    OBVIOUS
  <2>3. /\ d1 \in SUBSET XBits /\ d2 \in SUBSET XBits /\ Cut(d1, data1, K) /\ Cut(d2, data2, K)
        /\ SyndromeOf(Y, data1, data2, Nuls(d1))
    BY <1>1, <1>6, <2>1, <2>2 DEF Cut, SyndromeOf
  <2>4. /\ Y \in SUBSET XBits
        /\ \E f \in 0 .. (N - 1) : /\ FirstMarkOf(Y, d1, d2, f)
                                   /\ Sign(Octet(d1, f) - Octet(d2, f)) = strncmp!Answer
    BY <1>3, <1>4, <1>8, <2>3, CutWords
  <2>. QED
    BY <1>6, <2>1, <2>2, <2>4, FullEnds
<1>. QED
  BY <1>7, <1>8

-----------------------------------------------------------------------------
\* Is the first mark, in byte f, of a syndrome before the limit?
LEMMA BeforeIs ==
    ASSUME Size \in Nat, Size > 2 * N, call.n \in Nat, big => 8 * call.n < Size,
           NEW base \in Int, big => base >= 0,
           limit \in 1 .. (Size - 1), strncmp!Leaves(base, limit),
           NEW f \in 0 .. N, NEW pos \in Int, pos \div 8 = f, big \in BOOLEAN,
           8 * f <= pos, pos <= 8 * f + 7
    PROVE  strncmp!Before(pos) <=> f < limit
<1>1. base + limit <= call.n
  BY DEF strncmp!Leaves
<1>2. N \in Nat /\ f \in Int /\ limit \in Int
  BY WordSize
<1>3. CASE big
  <2>1. limit <= call.n /\ 8 * limit \in 0 .. (Size - 1)
    BY <1>1, <1>2, <1>3
  <2> DEFINE x == 8 * limit
  <2>2. x \in 0 .. (Size - 1)
    BY <2>1
  <2>. HIDE DEF x
  <2>3. x % Size = x
    BY <2>2, ModSmall
  <2>4. strncmp!Before(pos) <=> pos < x
    BY <1>3, <2>3, StrncmpNames DEF strncmp!Before, x
  <2>5. pos < 8 * limit <=> f < limit
    BY <1>2
  <2>. QED
    BY <2>4, <2>5 DEF x
<1>4. CASE ~big
  <2>1. strncmp!Before(pos) <=> limit > f
    BY <1>4, StrncmpNames DEF strncmp!Before
  <2>. QED
    BY <1>2, <2>1
<1>. QED
  BY <1>3, <1>4

\* strncmp: the syndrome is checked against the limit.
LEMMA StrncmpSyndromeCheck ==
    ASSUME strncmp!IInv, strncmp!SyndromeCheck
    PROVE  strncmp!IInv'
<1> DEFINE base == (src1 - call.s1) - N
<1>1. /\ ValidStrings(call) /\ strncmp!ValidLimit(call) /\ RegistersInv
      /\ call.s1 \in Nat /\ call.n \in Nat /\ N \in Nat /\ N >= 2 /\ Size \in Nat /\ Size > 2 * N
      /\ src1 \in Nat /\ src2 \in Nat /\ limit \in 0 .. (Size - 1) /\ count \in Nat
      /\ strncmp!Progress = src1 - call.s1 /\ strncmp!Base = base
      /\ strncmp!PlaceInv /\ strncmp!LimitInv
  BY StrncmpIs
<1>2. IF call.n = 0 THEN rd1 = {} /\ rd2 = {}
      ELSE /\ rd1 \subseteq Granules(call.s1, strncmp!LastByte(call.s1))
           /\ rd2 \subseteq Granules(call.s2, strncmp!LastByte(call.s2))
  BY StrncmpIs
<1>3. /\ pc = "syndrome_check" /\ call' = call /\ src1' = src1 /\ src2' = src2
      /\ rd1' = rd1 /\ rd2' = rd2 /\ limit' = limit /\ count' = count
      /\ data1' = data1 /\ data2' = data2 /\ syndrome' = syndrome
      /\ IF strncmp!Before(clz(RevLE(syndrome))) THEN pc' = "end"
         ELSE pc' = "ret" /\ result' = 0
  BY StrncmpSimd, StrncmpNames DEF strncmp!SyndromeCheck, strncmp!Return, strncmp!words
<1>4. base \in Int
  BY <1>1
<1>5. /\ strncmp!Leaves(base, limit) /\ limit > 0
      /\ big => base >= 0 
  <2>1. strncmp!Leaves(base, limit)
    BY <1>1, <1>3 DEF strncmp!LimitInv
  <2>2. big => base >= 0
    BY <1>1, <1>3, StrncmpNames DEF strncmp!PlaceInv
  <2>. QED
    BY <2>1, <2>2 DEF strncmp!Leaves
<1>6. limit \in 1 .. (Size - 1) /\ limit \in Nat
  BY <1>1, <1>5
<1>7. strncmp!SyndromeInv
  BY <1>3 DEF strncmp!IInv
<1>8. PICK f \in 0 .. N :
        /\ IF f < N THEN FirstMark(f) ELSE syndrome = {} /\ limit <= N
        /\ limit <= f => Alike(base + limit)
        /\ f < limit => /\ f < N /\ base + f >= 0 /\ Alike(base + f) /\ Decides(base + f)
                        /\ Sign(Octet(data1, f) - Octet(data2, f)) = Order(base + f)
  BY <1>1, <1>7, StrncmpSimd, StrncmpNames, StrncmpInvNames DEF strncmp!SyndromeInv
<1>. HIDE DEF base
<1>9. PICK pos : pos = clz(RevLE(syndrome))
  OBVIOUS
<1>10. pos \in Int /\ pos \div 8 = f /\ 8 * f <= pos /\ pos <= 8 * f + 7
  <2>1. CASE f < N
    <3>1. f \in 0 .. (N - 1) /\ FirstMark(f)
      BY <1>1, <1>8, <2>1
    <3>2. pos \in (8 * f) .. (8 * f + 7) /\ pos \div 8 = f
      BY <1>1, <1>9, <3>1, MarkedByte
    <3>. QED
      BY <3>2
  <2>2. CASE ~(f < N)
    <3>1. f = N /\ syndrome = {}
      BY <1>1, <1>8, <2>2
    <3>2. pos = 8 * N
      BY <1>9, <3>1, NoMark
    <3>3. (8 * N) \div 8 = N
      BY <1>1
    <3>. QED
      BY <1>1, <3>1, <3>2, <3>3
  <2>. QED
    BY <2>1, <2>2
<1>11. strncmp!Before(pos) <=> f < limit
  <2>1. big => 8 * call.n < Size
    BY <1>1, SizeIs
  <2>2. big \in BOOLEAN
    BY <1>1, MemoryIs
  <2>. QED
    BY <1>1, <1>4, <1>5, <1>6, <1>10, <2>1, <2>2, BeforeIs
<1>12. pc' \in {"end", "ret"} /\ (pc' = "end" <=> f < limit) /\ (pc' = "ret" => result' = 0)
  BY <1>3, <1>9, <1>11
<1>13. f \in Int /\ f \in Nat /\ limit \in Int
  BY <1>1, <1>6
<1>14. pc' = "end" => \E g \in 0 .. (N - 1) :
                         /\ FirstMarkOf(syndrome', data1', data2', g)
                         /\ Sign(Octet(data1', g) - Octet(data2', g)) = strncmp!Answer
  <2>1. SUFFICES ASSUME f < limit
                 PROVE  \E g \in 0 .. (N - 1) :
                            /\ FirstMarkOf(syndrome, data1, data2, g)
                            /\ Sign(Octet(data1, g) - Octet(data2, g)) = strncmp!Answer
    BY <1>3, <1>12
  <2>2. f < N /\ base + f >= 0 /\ Alike(base + f) /\ Decides(base + f)
        /\ Sign(Octet(data1, f) - Octet(data2, f)) = Order(base + f)
    BY <1>8, <2>1
  <2>3. base + f \in Nat /\ f \in 0 .. (N - 1)
    BY <1>1, <1>4, <1>13, <2>2
  <2>4. strncmp!Answer = Order(base + f)
    BY <1>1, <1>4, <1>5, <1>6, <1>13, <2>1, <2>2, <2>3, DecidedBefore
  <2>5. FirstMarkOf(syndrome, data1, data2, f)
    BY <1>8, <2>2 DEF FirstMark, FirstMarkOf
  <2>. QED
    BY <2>2, <2>3, <2>4, <2>5
<1>15. pc' = "ret" => Sign(result') = strncmp!Answer
  <2>1. SUFFICES ASSUME ~(f < limit), result' = 0
                 PROVE  Sign(result') = strncmp!Answer
    BY <1>12
  <2>2. Alike(base + limit)
    BY <1>8, <1>13, <2>1
  <2>3. strncmp!Answer = 2
    BY <1>1, <1>4, <1>5, <1>6, <2>2, LimitReached
  <2>. QED
    BY <2>1, <2>3 DEF Sign
<1>16. strncmp!PlaceInv'
  BY <1>1, <1>3, <1>12 DEF strncmp!PlaceInv, strncmp!Words, strncmp!Checks
<1>17. strncmp!LimitInv' /\ strncmp!WordsInv'
  BY <1>12 DEF strncmp!LimitInv, strncmp!WordsInv, strncmp!Words
<1>18. pc' \in strncmp!Labels /\ src1' \in Int
  BY <1>1, <1>3, <1>12 DEF strncmp!Labels
<1>19. data1' \subseteq XBits /\ data2' \subseteq XBits /\ syndrome' \subseteq XBits
  BY <1>1, <1>3 DEF RegistersInv
<1>20. pc' \notin {"loop_aligned", "byte_loop", "page_end_loop", "src1_aligned", "loop_misaligned",
                   "misaligned_mid_loop", "full_check", "step_C", "syndrome_check"}
  BY <1>12
<1>. QED
  BY <1>1, <1>2, <1>3, <1>14, <1>15, <1>16, <1>17, <1>18, <1>19, <1>20, StrncmpKept

-----------------------------------------------------------------------------
\* Every step of strncmp keeps its invariant.
LEMMA StrncmpInv ==
    ASSUME strncmp!IInv, strncmp!Next
    PROVE  strncmp!IInv'
<1>1. CASE strncmp!Ret0
  BY <1>1, StrncmpRet0
<1>2. CASE strncmp!Entry
  BY <1>2, StrncmpEntry
<1>3. CASE strncmp!LoopAligned
  BY <1>3, StrncmpLoopAligned
<1>4. CASE strncmp!MutualAlign
  BY <1>4, StrncmpMutualAlign
<1>5. CASE strncmp!Misaligned8
  BY <1>5, StrncmpMisaligned8
<1>6. CASE strncmp!ByteLoop
  BY <1>6, StrncmpByteLoop
<1>7. CASE strncmp!PageEndLoop
  BY <1>7, StrncmpPageEndLoop
<1>8. CASE strncmp!Src1Aligned
  BY <1>8, StrncmpSrc1Aligned
<1>9. CASE strncmp!StepA
  BY <1>9, StrncmpStepA
<1>10. CASE strncmp!StepB
  BY <1>10, StrncmpStepB
<1>11. CASE strncmp!StepC
  BY <1>11, StrncmpStepC
<1>12. CASE strncmp!FullCheck
  <2>1. CASE big
    BY <1>12, <2>1, StrncmpFullCheckBE
  <2>2. CASE ~big
    BY <1>12, <2>2, StrncmpFullCheckLE
  <2>. QED
    BY <2>1, <2>2
<1>13. CASE strncmp!SyndromeCheck
  BY <1>13, StrncmpSyndromeCheck
<1>14. CASE strncmp!StrncmpEnd
  BY <1>14, StrncmpEndStep
<1>. QED
  BY <1>1, <1>2, <1>3, <1>4, <1>5, <1>6, <1>7, <1>8, <1>9, <1>10, <1>11, <1>12, <1>13, <1>14
  DEF strncmp!Next

\* A step that changes nothing of strncmp keeps its invariant, which holds at the call.
LEMMA StrncmpStutter ==
    ASSUME strncmp!IInv, UNCHANGED strncmp!vars
    PROVE  strncmp!IInv'
<1>1. /\ call' = call /\ pc' = pc /\ src1' = src1 /\ src2' = src2 /\ rd1' = rd1 /\ rd2' = rd2
      /\ result' = result /\ data1' = data1 /\ data2' = data2 /\ syndrome' = syndrome
      /\ limit' = limit /\ count' = count /\ tmp1' = tmp1 /\ tmp2' = tmp2
  BY DEF strncmp!vars, strncmp!words, strncmp!ofSrc2
<1>2. /\ ValidStrings(call) /\ strncmp!ValidLimit(call) /\ RegistersInv
      /\ call.s1 \in Nat /\ src1 \in Nat /\ N \in Nat
      /\ strncmp!Progress = src1 - call.s1 /\ strncmp!Base = (src1 - call.s1) - N
      /\ strncmp!PlaceInv /\ strncmp!LimitInv
      /\ IF call.n = 0 THEN rd1 = {} /\ rd2 = {}
         ELSE /\ rd1 \subseteq Granules(call.s1, strncmp!LastByte(call.s1))
              /\ rd2 \subseteq Granules(call.s2, strncmp!LastByte(call.s2))
  BY StrncmpIs
<1>3. /\ strncmp!WordsInv /\ strncmp!PassedInv /\ pc \in strncmp!Labels
      /\ pc = "syndrome_check" => strncmp!SyndromeInv
      /\ pc = "end" => strncmp!MarksOrder(strncmp!Answer)
      /\ pc = "ret" => strncmp!Sign(result) = strncmp!Answer
  BY DEF strncmp!IInv
<1>4. /\ strncmp!Progress' = strncmp!Progress /\ strncmp!Base' = strncmp!Base
      /\ strncmp!Place2' = strncmp!Place2 /\ strncmp!Left' = strncmp!Left
      /\ strncmp!Into2' = strncmp!Into2 /\ strncmp!big' = strncmp!big /\ strncmp!N' = strncmp!N
  BY <1>1, StrncmpSame DEF strncmp!Progress, strncmp!Base, strncmp!Place2, strncmp!Left,
     strncmp!Minus,
     strncmp!big, strncmp!N
<1>5. strncmp!PlaceInv'
  BY <1>1, <1>2, <1>4 DEF strncmp!PlaceInv
<1>6. strncmp!LimitInv'
  <2>1. \A k, l : (strncmp!Leaves(k, l))' <=> strncmp!Leaves(k, l)
    BY <1>1, StrncmpSame DEF strncmp!Leaves
  <2>2. \A x, y : (strncmp!Minus(x, y))' = strncmp!Minus(x, y)
    BY DEF strncmp!Minus
  <2>. QED
    BY <1>1, <1>2, <1>4, <2>1, <2>2 DEF strncmp!LimitInv
<1>7. strncmp!WordsInv'
  <2>1. \A a : (strncmp!Ldr(a))' = strncmp!Ldr(a)
    BY <1>1, StrncmpSame, StrncmpNames
  <2>. QED
    BY <1>1, <1>3, <1>4, <2>1 DEF strncmp!WordsInv
<1>8. /\ pc \in {"loop_aligned", "byte_loop", "page_end_loop", "src1_aligned"}
           => Alike(src1 - call.s1)
      /\ pc \in {"loop_misaligned", "misaligned_mid_loop", "full_check"}
           => Alike((src1 - call.s1) - N)
      /\ pc = "step_C" => Alike(((src1 - call.s1) - N) + (N - strncmp!Into2))
  BY <1>2, <1>3, StrncmpSimd, StrncmpInvNames DEF strncmp!PassedInv
<1>9. ASSUME pc = "full_check"
      PROVE  FullOf(data1, data2, strncmp!Left, (src1 - call.s1) - N)
  <2>1. PICK base, l : base = (src1 - call.s1) - N /\ l = strncmp!Minus(limit, -N)
    OBVIOUS
  <2>2. /\ WordsHeld(data1, data2, base)
        /\ l > N => \E i \in 0 .. (N - 1) : base + i >= 0 /\ Decides(base + i)
    BY <1>9, <2>1, FullIs
  <2>3. l = strncmp!Left
    BY <2>1, StrncmpSimd DEF strncmp!Left
  <2>4. FullOf(data1, data2, l, base)
    BY <2>2 DEF FullOf, WordsHeld
  <2>. QED
    BY <2>1, <2>3, <2>4
<1>10. ASSUME pc = "syndrome_check"
       PROVE  SyndromeIs(syndrome, data1, data2, limit, (src1 - call.s1) - N)
  BY <1>2, <1>3, <1>10, StrncmpSimd, StrncmpNames, StrncmpInvNames
  DEF strncmp!SyndromeInv, SyndromeIs, FirstMark, FirstMarkOf
<1>11. ASSUME pc = "end"
       PROVE  \E f \in 0 .. (N - 1) : /\ FirstMarkOf(syndrome, data1, data2, f)
                                      /\ Sign(Octet(data1, f) - Octet(data2, f)) = strncmp!Answer
  <2>1. MarksOrder(strncmp!Answer)
    BY <1>3, <1>11, StrncmpInvNames
  <2>. QED
    BY <2>1 DEF MarksOrder, FirstMark, FirstMarkOf
<1>12. pc = "ret" => Sign(result) = strncmp!Answer
  BY <1>3, StrncmpNames
<1>13. src1' \in Int /\ data1' \subseteq XBits /\ data2' \subseteq XBits
       /\ syndrome' \subseteq XBits
  BY <1>1, <1>2 DEF RegistersInv
<1>. QED
  BY <1>1, <1>2, <1>3, <1>4, <1>5, <1>6, <1>7, <1>8, <1>9, <1>10, <1>11, <1>12, <1>13, StrncmpKept

LEMMA StrncmpInit ==
    ASSUME strncmp!Init, ValidStrings(call), strncmp!ValidLimit(call)
    PROVE  strncmp!IInv
<1>1. /\ pc = "entry" /\ src1 = call.s1 /\ src2 = call.s2 /\ rd1 = {} /\ rd2 = {}
      /\ data1 = {} /\ data2 = {} /\ syndrome = {} /\ limit = call.n /\ count = 0
  BY DEF strncmp!Init, strncmp!Called, strncmp!Cleared
<1>2. call.s1 \in Nat /\ call.s2 \in Nat /\ call.n \in Nat /\ call.n < Size /\ Size \in Nat
  BY MemoryIs, SizeIs
<1>3. strncmp!ValidStrings(call) /\ strncmp!RegistersInv
  BY <1>1, StrncmpInvNames DEF RegistersInv
<1>4. strncmp!PlaceInv
  BY <1>1, <1>2 DEF strncmp!PlaceInv, strncmp!Words, strncmp!Checks
<1>5. strncmp!LimitInv /\ strncmp!PassedInv /\ strncmp!WordsInv
  BY <1>1 DEF strncmp!LimitInv, strncmp!PassedInv, strncmp!WordsInv, strncmp!Words
<1>6. strncmp!Footprint
  BY <1>1 DEF strncmp!Footprint
<1>. QED
  BY <1>1, <1>3, <1>4, <1>5, <1>6 DEF strncmp!IInv, strncmp!Labels

-----------------------------------------------------------------------------
\* The first difference, or the end.

\* A byte that differs, or the end, decides if what precedes is the same.
LEMMA MemcmpStopIs ==
    ASSUME memcmp!ValidCall(call),
           NEW i \in 0 .. call.n, memcmp!Same(i), i = call.n \/ ~memcmp!SameAt(i)
    PROVE  memcmp!Stop = i
<1> DEFINE P(k) == k = call.n \/ ~memcmp!SameAt(k)
<1>1. call.n \in Nat /\ DOMAIN memcmp!m \subseteq Nat /\ i \in DOMAIN memcmp!m /\ i \in Nat
  BY DEF memcmp!ValidCall, memcmp!m
<1>2. P(i) /\ \A j \in 0 .. (i - 1) : ~P(j)
  BY <1>1 DEF memcmp!Same, memcmp!SameBytes, memcmp!SameAt, memcmp!m
<1>3. memcmp!Stop = CHOOSE k \in DOMAIN memcmp!m : P(k) /\ \A j \in 0 .. (k - 1) : ~P(j)
  BY DEF memcmp!Stop, memcmp!FirstOf
<1>. HIDE DEF P
<1>4. ASSUME NEW k \in DOMAIN memcmp!m, P(k), \A j \in 0 .. (k - 1) : ~P(j)
      PROVE  k = i
  <2>1. ~(k < i) /\ ~(i < k)
    BY <1>1, <1>2, <1>4
  <2>. QED
    BY <2>1, <1>1
<1>. QED
  BY <1>1, <1>2, <1>3, <1>4

\* It exists, and what is known to be the same precedes it.
LEMMA MemcmpStopExists ==
    ASSUME memcmp!ValidCall(call)
    PROVE  /\ memcmp!Stop \in 0 .. call.n
           /\ \A k \in 0 .. call.n : memcmp!Same(k) => k <= memcmp!Stop
<1> DEFINE T == {i \in 0 .. call.n : i = call.n \/ ~memcmp!SameAt(i)}
<1>1. call.n \in Nat
  BY DEF memcmp!ValidCall
<1>2. T \subseteq Nat /\ call.n \in T
  BY <1>1
<1>3. PICK i \in T : \A j \in T : i <= j
  BY <1>2, LeastOf
<1>4. i \in 0 .. call.n /\ (i = call.n \/ ~memcmp!SameAt(i))
  OBVIOUS
<1>5. ASSUME NEW j \in 0 .. (i - 1) PROVE memcmp!SameAt(j)
  <2>1. j \in 0 .. call.n /\ ~(i <= j)
    BY <1>1, <1>4
  <2>. QED
    BY <1>3, <2>1
<1>6. memcmp!Stop = i
  BY <1>4, <1>5, MemcmpStopIs DEF memcmp!Same, memcmp!SameBytes, memcmp!SameAt, memcmp!m
<1>7. ASSUME NEW k \in 0 .. call.n, memcmp!Same(k) PROVE k <= i
  BY <1>1, <1>4, <1>7 DEF memcmp!Same, memcmp!SameBytes, memcmp!SameAt, memcmp!m
<1>. QED
  BY <1>4, <1>6, <1>7

\* What memcmp shall return.
LEMMA MemcmpAnswerAtEnd ==
    ASSUME memcmp!ValidCall(call), memcmp!Same(call.n)
    PROVE  memcmp!Answer = memcmp!Sign(0)
<1>1. call.n \in 0 .. call.n
  BY DEF memcmp!ValidCall
<1>2. memcmp!Stop = call.n
  BY <1>1, MemcmpStopIs
<1>. QED
  BY <1>2 DEF memcmp!Answer

LEMMA MemcmpAnswerAtDifference ==
    ASSUME memcmp!ValidCall(call), NEW i \in 0 .. (call.n - 1), memcmp!Same(i), ~memcmp!SameAt(i)
    PROVE  /\ memcmp!Answer
                = IF memcmp!m[call.s1 + i] < memcmp!m[call.s2 + i]
                  THEN memcmp!Sign(-1)
                  ELSE memcmp!Sign(1)
           /\ memcmp!Stop = i
<1>1. call.n \in Nat
  BY DEF memcmp!ValidCall
<1>2. i \in 0 .. call.n /\ i # call.n
  BY <1>1
<1>3. memcmp!Stop = i
  BY <1>2, MemcmpStopIs
<1>4. memcmp!Answer = memcmp!Sign(memcmp!m[call.s1 + i] - memcmp!m[call.s2 + i])
  BY <1>2, <1>3 DEF memcmp!Answer, memcmp!Order
<1>5. memcmp!m[call.s1 + i] \in Int /\ memcmp!m[call.s2 + i] \in Int
  BY DEF memcmp!ValidCall, memcmp!m
<1>6. memcmp!m[call.s1 + i] # memcmp!m[call.s2 + i]
  BY DEF memcmp!SameAt
<1>. QED
  BY <1>3, <1>4, <1>5, <1>6 DEF memcmp!Sign

\* A call's arguments do not change.
LEMMA MemcmpSameCall ==
    ASSUME call' = call
    PROVE  memcmp!Answer' = memcmp!Answer /\ memcmp!Stop' = memcmp!Stop
           /\ memcmp!src1end' = memcmp!src1end /\ memcmp!src2end' = memcmp!src2end
BY DEF memcmp!Answer, memcmp!Stop, memcmp!FirstOf, memcmp!Order, memcmp!SameAt, memcmp!m,
   memcmp!src1end, memcmp!src2end

-----------------------------------------------------------------------------
\* Words.

\* The bytes of words that are the same, and of others.
LEMMA MemcmpSameWords ==
    ASSUME NEW a1 \in Int, NEW a2 \in Int,
           NEW w \in {2, 4, 8}, memcmp!Load(a1, w) = memcmp!Load(a2, w)
    PROVE  \A i \in 0 .. (w - 1) : memcmp!m[a1 + i] = memcmp!m[a2 + i]
<1> SUFFICES ASSUME NEW i \in 0 .. (w - 1) PROVE memcmp!m[a1 + i] = memcmp!m[a2 + i]
  OBVIOUS
<1>1. CASE memcmp!big
  <2>1. (w - 1) - i \in 0 .. 7 /\ ~((w - 1) - i >= w) /\ (w - 1) - ((w - 1) - i) = i
    OBVIOUS
  <2>2. \A j \in 0 .. 7 : ~(j >= w) => memcmp!m[a1 + ((w - 1) - j)] = memcmp!m[a2 + ((w - 1) - j)]
    BY <1>1 DEF memcmp!Load
  <2>. QED
    BY <2>1, <2>2
<1>2. CASE ~memcmp!big
  <2>1. i \in 0 .. 7 /\ ~(i >= w)
    OBVIOUS
  <2>2. \A j \in 0 .. 7 : ~(j >= w) => memcmp!m[a1 + j] = memcmp!m[a2 + j]
    BY <1>2 DEF memcmp!Load
  <2>. QED
    BY <2>1, <2>2
<1>. QED
  BY <1>1, <1>2

\* Byte i is the first difference of what is at a1 and a2.
MemcmpDifferFirst(a1, a2, i) == /\ memcmp!m[a1 + i] # memcmp!m[a2 + i]
                          /\ \A j \in 0 .. (i - 1) : memcmp!m[a1 + j] = memcmp!m[a2 + j]

\* Words that are not the same have a first difference.
LEMMA MemcmpDifferentWords ==
    ASSUME NEW a1 \in Int, NEW a2 \in Int,
           NEW w \in {2, 4, 8}, memcmp!Load(a1, w) # memcmp!Load(a2, w)
    PROVE  \E i \in 0 .. (w - 1) : MemcmpDifferFirst(a1, a2, i)
<1> DEFINE D == {i \in 0 .. (w - 1) : memcmp!m[a1 + i] # memcmp!m[a2 + i]}
<1>0. D \subseteq Nat
  OBVIOUS
<1>1. D # {}
  <2>1. SUFFICES ASSUME \A i \in 0 .. (w - 1) : memcmp!m[a1 + i] = memcmp!m[a2 + i] PROVE FALSE
    OBVIOUS
  <2>2. \A k \in 0 .. 7 : ~(k >= w) => (w - 1) - k \in 0 .. (w - 1) /\ k \in 0 .. (w - 1)
    OBVIOUS
  <2>3. memcmp!Load(a1, w) = memcmp!Load(a2, w)
    BY <2>1, <2>2 DEF memcmp!Load
  <2>. QED
    BY <2>3
<1>2. PICK i \in D : \A j \in D : i <= j
  BY <1>1, <1>0, LeastOf
<1>3. ASSUME NEW j \in 0 .. (i - 1) PROVE memcmp!m[a1 + j] = memcmp!m[a2 + j]
  <2>1. j \in 0 .. (w - 1) /\ ~(i <= j)
    OBVIOUS
  <2>. QED
    BY <2>1, <1>2
<1>. QED
  BY <1>3 DEF MemcmpDifferFirst

\* As numbers they are ordered as the first bytes that differ.
LEMMA MemcmpWordOrder ==
    ASSUME NEW a1 \in Int, NEW a2 \in Int, NEW w \in {2, 4, 8}, NEW i \in 0 .. (w - 1),
           MemcmpDifferFirst(a1, a2, i),
           \A j \in 0 .. (w - 1) : memcmp!m[a1 + j] \in Int /\ memcmp!m[a2 + j] \in Int
    PROVE  memcmp!Less(memcmp!AsNumber(memcmp!Load(a1, w)), memcmp!AsNumber(memcmp!Load(a2, w)))
             <=> memcmp!m[a1 + i] < memcmp!m[a2 + i]
<1> DEFINE t == IF memcmp!big THEN w - 1 ELSE 7
           x == memcmp!AsNumber(memcmp!Load(a1, w))
           y == memcmp!AsNumber(memcmp!Load(a2, w))
           In(k) == t - w < k /\ k <= t
<1>1. t \in 0 .. 7 /\ w \in Int /\ t - i \in 0 .. 7 /\ In(t - i) /\ t - (t - i) = i
  OBVIOUS
<1>2. \A k \in 0 .. 7 : /\ x[k] = IF In(k) THEN memcmp!m[a1 + (t - k)] ELSE 0
                        /\ y[k] = IF In(k) THEN memcmp!m[a2 + (t - k)] ELSE 0
  <2>1. CASE memcmp!big
    BY <2>1 DEF memcmp!AsNumber, memcmp!Load
  <2>2. CASE ~memcmp!big
    <3>1. \A k \in 0 .. 7 : 7 - k \in 0 .. 7 /\ (7 - k >= w <=> ~In(k))
      BY <2>2
    <3>2. \A k \in 0 .. 7 : x[k] = memcmp!Load(a1, w)[7 - k] /\ y[k] = memcmp!Load(a2, w)[7 - k]
      BY <2>2 DEF memcmp!AsNumber
    <3>3. \A k \in 0 .. 7 : /\ memcmp!Load(a1, w)[k] = IF k >= w THEN 0 ELSE memcmp!m[a1 + k]
                            /\ memcmp!Load(a2, w)[k] = IF k >= w THEN 0 ELSE memcmp!m[a2 + k]
      BY <2>2 DEF memcmp!Load
    <3>. QED
      BY <2>2, <3>1, <3>2, <3>3
  <2>. QED
    BY <2>1, <2>2
<1>. HIDE DEF x, y
<1>3. \A k \in 0 .. 7 : In(k) => t - k \in 0 .. (w - 1)
  BY <1>1
<1>4. x[t - i] = memcmp!m[a1 + i] /\ y[t - i] = memcmp!m[a2 + i]
  BY <1>1, <1>2
<1>5. \A k \in 0 .. 7 : k > t - i => x[k] = y[k]
  <2> SUFFICES ASSUME NEW k \in 0 .. 7, k > t - i PROVE x[k] = y[k]
    OBVIOUS
  <2>1. CASE In(k)
    <3>1. t - k \in 0 .. (i - 1)
      BY <1>1, <2>1
    <3>. QED
      BY <1>2, <2>1, <3>1 DEF MemcmpDifferFirst
  <2>2. CASE ~In(k)
    BY <1>2, <2>2
  <2>. QED
    BY <2>1, <2>2
<1>6. \A k \in 0 .. 7 : x[k] \in Int /\ y[k] \in Int
  BY <1>2, <1>3
<1>. HIDE DEF t, In
<1>7. memcmp!Less(x, y) => x[t - i] < y[t - i]
  <2> SUFFICES ASSUME NEW k \in 0 .. 7, x[k] < y[k], \A j \in (k + 1) .. 7 : x[j] = y[j]
               PROVE  x[t - i] < y[t - i]
    BY DEF memcmp!Less
  <2>1. ~(k > t - i)
    BY <1>5, <1>6
  <2>2. ~(k < t - i)
    <3>1. k < t - i => t - i \in (k + 1) .. 7
      BY <1>1
    <3>. QED
      BY <3>1, <1>4 DEF MemcmpDifferFirst
  <2>. QED
    BY <2>1, <2>2, <1>1
<1>8. x[t - i] < y[t - i] => memcmp!Less(x, y)
  BY <1>1, <1>5 DEF memcmp!Less
<1>. QED
  BY <1>4, <1>7, <1>8 DEF x, y
-----------------------------------------------------------------------------
\* What a step loads and returns.  Words are at a1 and a2, as far from the starts
\* of the buffers.

\* Bytes loaded within the buffers.
LEMMA MemcmpLoadedWithin ==
    ASSUME memcmp!ValidCall(call), call' = call, NEW a1 \in Int, NEW a2 \in Int, NEW w \in Int,
           a1 - call.s1 = a2 - call.s2, a1 >= call.s1, (a1 - call.s1) + w <= call.n,
           memcmp!Loaded(a1, a2, w)
    PROVE  memcmp!Footprint'
<1>1. call.s1 \in Int /\ call.s2 \in Int /\ call.n \in Int
  BY DEF memcmp!ValidCall
<1>2. rd1' = memcmp!Chunk(a1, w) /\ rd2' = memcmp!Chunk(a2, w)
  BY DEF memcmp!Loaded
<1>3. memcmp!Chunk(a1, w) \subseteq memcmp!Chunk(call.s1, call.n)
      /\ memcmp!Chunk(a2, w) \subseteq memcmp!Chunk(call.s2, call.n)
  BY <1>1 DEF memcmp!Chunk
<1>. QED
  BY <1>2, <1>3 DEF memcmp!Footprint, memcmp!Chunk

\* Words that are the same extend the bytes that are.
LEMMA MemcmpSameMore ==
    ASSUME memcmp!ValidCall(call), NEW a1 \in Int, NEW a2 \in Int, NEW w \in {2, 4, 8},
           NEW k \in Int,
           a1 - call.s1 = a2 - call.s2, a1 - call.s1 <= k,
           memcmp!Same(k), memcmp!Load(a1, w) = memcmp!Load(a2, w)
    PROVE  memcmp!Same((a1 - call.s1) + w)
<1>1. call.s1 \in Int /\ call.s2 \in Int
  BY DEF memcmp!ValidCall
<1>2. \A i \in 0 .. (w - 1) : memcmp!m[a1 + i] = memcmp!m[a2 + i]
  BY MemcmpSameWords
<1>3. ASSUME NEW j \in 0 .. (((a1 - call.s1) + w) - 1), ~(j < k) PROVE memcmp!SameAt(j)
  <2> DEFINE i == j - (a1 - call.s1)
  <2>1. i \in 0 .. (w - 1) /\ a1 + i = call.s1 + j /\ a2 + i = call.s2 + j
    BY <1>1, <1>3
  <2>. QED
    BY <1>2, <2>1 DEF memcmp!SameAt
<1>. QED
  BY <1>1, <1>3 DEF memcmp!Same, memcmp!SameBytes, memcmp!SameAt, memcmp!m

\* A pair of words that are the same is passed over.
LEMMA MemcmpSamePairMore ==
    ASSUME memcmp!ValidCall(call), NEW a1 \in Int, NEW a2 \in Int,
           a1 - call.s1 = a2 - call.s2, memcmp!Same(a1 - call.s1), memcmp!SamePair(a1, a2)
    PROVE  memcmp!Same((a1 - call.s1) + 16)
<1>1. call.s1 \in Int /\ call.s2 \in Int
  BY DEF memcmp!ValidCall
<1>2. memcmp!Load(a1, 8) = memcmp!Load(a2, 8) /\ memcmp!Load(a1 + 8, 8) = memcmp!Load(a2 + 8, 8)
  BY DEF memcmp!SamePair, memcmp!Word
<1> DEFINE k == (a1 - call.s1) + 8
<1>3. memcmp!Same(k)
  BY <1>1, <1>2, MemcmpSameMore
<1>4. /\ a1 + 8 \in Int /\ a2 + 8 \in Int /\ (a1 + 8) - call.s1 = (a2 + 8) - call.s2
      /\ (a1 + 8) - call.s1 = k /\ k \in Int /\ k <= k /\ 8 \in {2, 4, 8}
  BY <1>1
<1>. HIDE DEF k
<1>5. memcmp!Same(((a1 + 8) - call.s1) + 8)
  BY <1>2, <1>3, <1>4, MemcmpSameMore
<1>6. ((a1 + 8) - call.s1) + 8 = (a1 - call.s1) + 16
  BY <1>1
<1>. QED
  BY <1>5, <1>6

\* Words that differ, after bytes that are the same, decide the call.
LEMMA MemcmpDifferenceDecides ==
    ASSUME memcmp!ValidCall(call), NEW a1 \in Int, NEW a2 \in Int, NEW w \in {2, 4, 8},
           NEW k \in Int,
           a1 - call.s1 = a2 - call.s2, a1 >= call.s1, a1 - call.s1 <= k,
           (a1 - call.s1) + w <= call.n, memcmp!Same(k), memcmp!Load(a1, w) # memcmp!Load(a2, w)
    PROVE  memcmp!Answer
             = IF memcmp!Less(memcmp!AsNumber(memcmp!Load(a1, w)), memcmp!AsNumber(memcmp!Load(a2, w)))
               THEN memcmp!Sign(-1)
               ELSE memcmp!Sign(1)
<1>1. call.s1 \in Int /\ call.s2 \in Int /\ call.n \in Int
  BY DEF memcmp!ValidCall
<1>2. PICK i \in 0 .. (w - 1) : MemcmpDifferFirst(a1, a2, i)
  BY MemcmpDifferentWords
<1> DEFINE d == (a1 - call.s1) + i
<1>3. a1 + i = call.s1 + d /\ a2 + i = call.s2 + d /\ d \in 0 .. (call.n - 1)
  BY <1>1
<1>4. ~memcmp!SameAt(d)
  BY <1>2, <1>3 DEF memcmp!SameAt, MemcmpDifferFirst
<1>5. memcmp!Same(d)
  <2> SUFFICES ASSUME NEW j \in 0 .. (d - 1) PROVE memcmp!SameAt(j)
    BY DEF memcmp!Same, memcmp!SameBytes, memcmp!SameAt, memcmp!m
  <2>1. CASE j < k
    BY <2>1, <1>1 DEF memcmp!Same, memcmp!SameBytes, memcmp!SameAt, memcmp!m
  <2>2. CASE ~(j < k)
    <3> DEFINE e == j - (a1 - call.s1)
    <3>1. e \in 0 .. (i - 1) /\ a1 + e = call.s1 + j /\ a2 + e = call.s2 + j
      BY <1>1, <2>2
    <3>. QED
      BY <1>2, <3>1 DEF memcmp!SameAt, MemcmpDifferFirst
  <2>. QED
    BY <2>1, <2>2
<1>6. \A j \in 0 .. (w - 1) : memcmp!m[a1 + j] \in Int /\ memcmp!m[a2 + j] \in Int
  <2> SUFFICES ASSUME NEW j \in 0 .. (w - 1)
               PROVE  memcmp!m[a1 + j] \in Int /\ memcmp!m[a2 + j] \in Int
    OBVIOUS
  <2> DEFINE e == (a1 - call.s1) + j
  <2>1. e \in 0 .. (call.n - 1) /\ a1 + j = call.s1 + e /\ a2 + j = call.s2 + e
    BY <1>1
  <2>. QED
    BY <2>1 DEF memcmp!ValidCall, memcmp!m
<1>. HIDE DEF d
<1>7. memcmp!Answer
        = IF memcmp!m[a1 + i] < memcmp!m[a2 + i] THEN memcmp!Sign(-1) ELSE memcmp!Sign(1)
  BY <1>3, <1>4, <1>5, MemcmpAnswerAtDifference
<1>8. memcmp!Less(memcmp!AsNumber(memcmp!Load(a1, w)), memcmp!AsNumber(memcmp!Load(a2, w)))
        <=> memcmp!m[a1 + i] < memcmp!m[a2 + i]
  BY <1>2, <1>6, MemcmpWordOrder
<1>. QED
  BY <1>7, <1>8

\* Two words, the second of which, at b1 and b2, follows the first or overlaps it.
LEMMA MemcmpWordsDecide ==
    ASSUME memcmp!ValidCall(call), NEW a1 \in Int, NEW a2 \in Int, NEW b1 \in Int, NEW b2 \in Int,
           NEW w \in {2, 4, 8}, NEW k \in Int,
           a1 - call.s1 = a2 - call.s2, b1 - call.s1 = b2 - call.s2,
           a1 >= call.s1, a1 - call.s1 = k, memcmp!Same(k),
           a1 <= b1, b1 <= a1 + w, (b1 - call.s1) + w <= call.n,
           memcmp!Return2(memcmp!Load(a1, w), memcmp!Load(b1, w), memcmp!Load(a2, w), memcmp!Load(b2, w)),
           \/ (b1 - call.s1) + w = call.n
           \/ memcmp!Load(a1, w) # memcmp!Load(a2, w) \/ memcmp!Load(b1, w) # memcmp!Load(b2, w)
    PROVE  pc' = "ret" /\ memcmp!Sign(result') = memcmp!Answer
<1>1. call.s1 \in Int /\ call.s2 \in Int /\ call.n \in Int
  BY DEF memcmp!ValidCall
<1>2. CASE memcmp!Load(a1, w) # memcmp!Load(a2, w)
  <2>1. (a1 - call.s1) + w <= call.n /\ a1 - call.s1 <= k
    BY <1>1
  <2>2. memcmp!Answer
          = IF memcmp!Less(memcmp!AsNumber(memcmp!Load(a1, w)), memcmp!AsNumber(memcmp!Load(a2, w)))
            THEN memcmp!Sign(-1)
            ELSE memcmp!Sign(1)
    BY <1>1, <1>2, <2>1, MemcmpDifferenceDecides
  <2>. QED
    BY <1>2, <2>2 DEF memcmp!Return2, memcmp!Return
<1>3. CASE memcmp!Load(a1, w) = memcmp!Load(a2, w)
  <2> DEFINE l == (a1 - call.s1) + w
  <2>1. a1 - call.s1 <= k /\ l \in Int /\ b1 - call.s1 <= l /\ b1 >= call.s1
    BY <1>1
  <2>5. memcmp!Same(l)
    BY <1>3, <2>1, MemcmpSameMore
  <2>. HIDE DEF l
  <2>2. memcmp!Return(memcmp!Load(b1, w), memcmp!Load(b2, w))
    BY <1>3 DEF memcmp!Return2
  <2>3. CASE memcmp!Load(b1, w) # memcmp!Load(b2, w)
    <3>1. memcmp!Answer
            = IF memcmp!Less(memcmp!AsNumber(memcmp!Load(b1, w)), memcmp!AsNumber(memcmp!Load(b2, w)))
              THEN memcmp!Sign(-1)
              ELSE memcmp!Sign(1)
      BY <2>1, <2>3, <2>5, MemcmpDifferenceDecides
    <3>. QED
      BY <2>2, <2>3, <3>1 DEF memcmp!Return
  <2>4. CASE memcmp!Load(b1, w) = memcmp!Load(b2, w)
    <3>1. memcmp!Same((b1 - call.s1) + w)
      BY <2>1, <2>4, <2>5, MemcmpSameMore
    <3>2. memcmp!Answer = memcmp!Sign(0)
      BY <1>3, <2>4, <3>1, MemcmpAnswerAtEnd
    <3>. QED
      BY <2>2, <2>4, <3>2 DEF memcmp!Return
  <2>. QED
    BY <2>3, <2>4
<1>. QED
  BY <1>2, <1>3

\* A pair of words that differ, or that end the buffers.
LEMMA MemcmpPairDecides ==
    ASSUME memcmp!ValidCall(call), call' = call, NEW a1 \in Int, NEW a2 \in Int,
           a1 - call.s1 = a2 - call.s2, a1 >= call.s1, (a1 - call.s1) + 16 <= call.n,
           memcmp!Same(a1 - call.s1), memcmp!ReturnPair(a1, a2),
           (a1 - call.s1) + 16 = call.n \/ ~memcmp!SamePair(a1, a2)
    PROVE  pc' = "ret" /\ memcmp!Sign(result') = memcmp!Answer'
<1>1. call.s1 \in Int /\ call.s2 \in Int /\ call.n \in Int
  BY DEF memcmp!ValidCall
<1> DEFINE b1 == a1 + 8
           b2 == a2 + 8
           k == a1 - call.s1
<1>2. /\ b1 \in Int /\ b2 \in Int /\ b1 - call.s1 = b2 - call.s2 /\ a1 <= b1 /\ b1 <= a1 + 8
      /\ (b1 - call.s1) + 8 <= call.n /\ 8 \in {2, 4, 8} /\ k \in Int /\ a1 - call.s1 = k
      /\ ((b1 - call.s1) + 8 = call.n <=> (a1 - call.s1) + 16 = call.n)
  BY <1>1
<1>3. /\ memcmp!Return2(memcmp!Load(a1, 8), memcmp!Load(b1, 8), memcmp!Load(a2, 8), memcmp!Load(b2, 8))
      /\ memcmp!SamePair(a1, a2)
           <=> memcmp!Load(a1, 8) = memcmp!Load(a2, 8) /\ memcmp!Load(b1, 8) = memcmp!Load(b2, 8)
  BY DEF memcmp!ReturnPair, memcmp!SamePair, memcmp!Word
<1>4. memcmp!Same(k)
  OBVIOUS
<1>. HIDE DEF b1, b2, k
<1>5. pc' = "ret" /\ memcmp!Sign(result') = memcmp!Answer
  BY <1>2, <1>3, <1>4, MemcmpWordsDecide
<1>. QED
  BY <1>5, MemcmpSameCall

-----------------------------------------------------------------------------
(* The invariant is inductive.                                             *)

\* The call is valid at all times.
LEMMA MemcmpCallFacts ==
    ASSUME memcmp!IInv
    PROVE  memcmp!ValidCall(call) /\ call.s1 \in Nat /\ call.s2 \in Nat /\ call.n \in Nat
BY DEF memcmp!ValidCall, memcmp!IInv

\* A call starts at entry.
LEMMA MemcmpInitIInv ==
    ASSUME memcmp!Init, memcmp!ValidCall(call)
    PROVE  memcmp!IInv
<1>2. memcmp!PlaceInv /\ memcmp!Footprint
  BY DEF memcmp!ValidCall, memcmp!Init, memcmp!Called, memcmp!PlaceInv, memcmp!Progress,
     memcmp!Footprint
<1>. QED
  BY <1>2 DEF memcmp!IInv, memcmp!SameInv, memcmp!ResultRight, memcmp!Labels, memcmp!Init,
     memcmp!Called

\* A step that returns.
LEMMA MemcmpReturned ==
    ASSUME memcmp!IInv, UNCHANGED <<call, src1, src2, limit>>, pc' = "ret",
           memcmp!Sign(result') = memcmp!Answer', memcmp!Footprint'
    PROVE  memcmp!IInv'
<1>1. memcmp!PlaceInv' /\ memcmp!SameInv' /\ memcmp!ResultRight'
  BY DEF memcmp!IInv, memcmp!PlaceInv, memcmp!Progress, memcmp!SameInv, memcmp!ResultRight
<1>. QED
  BY <1>1 DEF memcmp!IInv, memcmp!Labels

-----------------------------------------------------------------------------
\* The size's bits.
LEMMA MemcmpBits ==
    ASSUME NEW l \in 0 .. 15, limit = l
    PROVE  /\ memcmp!Bit(8) <=> l >= 8
           /\ l < 8 => (memcmp!Bit(4) <=> l >= 4)
           /\ l < 4 => (memcmp!Bit(2) <=> l >= 2)
           /\ l < 4 => (memcmp!Bit(1) <=> l = 1 \/ l = 3)
BY DEF memcmp!Bit

\* Two words of less than 16 bytes, the first and the last.
LEMMA MemcmpBothEndsStep ==
    ASSUME memcmp!IInv, pc = "entry", NEW w \in {4, 8}, w <= limit, limit < 2 * w,
           memcmp!FromBothEnds(w)
    PROVE  memcmp!IInv'
<1>1. /\ memcmp!ValidCall(call) /\ call.s1 \in Int /\ call.s2 \in Int /\ call.n \in Int
      /\ src1 = call.s1 /\ src2 = call.s2 /\ limit = call.n /\ src1 \in Int /\ src2 \in Int
  BY MemcmpCallFacts DEF memcmp!IInv, memcmp!PlaceInv, memcmp!Progress
<1> DEFINE b1 == memcmp!src1end - w
           b2 == memcmp!src2end - w
<1>2. /\ b1 \in Int /\ b2 \in Int /\ b1 - call.s1 = call.n - w /\ b2 - call.s2 = call.n - w
      /\ src1 <= b1 /\ b1 <= src1 + w /\ (b1 - call.s1) + w = call.n
      /\ (b1 - call.s1) + w <= call.n /\ b1 - call.s1 = b2 - call.s2
      /\ src1 - call.s1 = src2 - call.s2 /\ src1 >= call.s1 /\ src1 - call.s1 = 0
  BY <1>1 DEF memcmp!src1end, memcmp!src2end
<1>3. /\ memcmp!Return2(memcmp!Load(src1, w), memcmp!Load(b1, w), memcmp!Load(src2, w), memcmp!Load(b2, w))
      /\ rd1' = memcmp!Chunk(src1, w) \cup memcmp!Chunk(b1, w)
      /\ rd2' = memcmp!Chunk(src2, w) \cup memcmp!Chunk(b2, w)
      /\ UNCHANGED <<call, src1, src2, limit>>
  BY DEF memcmp!FromBothEnds
<1>4. memcmp!Same(0) /\ w \in {2, 4, 8} /\ 0 \in Int
  BY DEF memcmp!Same, memcmp!SameBytes
<1>. HIDE DEF b1, b2
<1>5. pc' = "ret" /\ memcmp!Sign(result') = memcmp!Answer
  BY <1>1, <1>2, <1>3, <1>4, MemcmpWordsDecide
<1>6. memcmp!Footprint'
  <2>1. /\ memcmp!Chunk(src1, w) \cup memcmp!Chunk(b1, w) \subseteq memcmp!Chunk(call.s1, call.n)
        /\ memcmp!Chunk(src2, w) \cup memcmp!Chunk(b2, w) \subseteq memcmp!Chunk(call.s2, call.n)
    BY <1>1, <1>2 DEF memcmp!Chunk
  <2>. QED
    BY <1>3, <2>1 DEF memcmp!Footprint, memcmp!Chunk
<1>. QED
  BY <1>3, <1>5, <1>6, MemcmpSameCall, MemcmpReturned

\* Each step of memcmp keeps the invariant: less than 16 bytes,
LEMMA MemcmpLess16Step ==
    ASSUME memcmp!IInv, memcmp!Less16
    PROVE  memcmp!IInv'
<1>1. pc = "entry" /\ limit < 16 /\ memcmp!Bit(8) /\ memcmp!FromBothEnds(8) /\ limit \in 0 .. 15
  BY MemcmpCallFacts DEF memcmp!Less16, memcmp!IInv, memcmp!PlaceInv
<1>2. 8 <= limit
  BY <1>1, MemcmpBits
<1>. QED
  BY <1>1, <1>2, MemcmpBothEndsStep

\* less than 8,
LEMMA MemcmpLess8Step ==
    ASSUME memcmp!IInv, memcmp!Less8
    PROVE  memcmp!IInv'
<1>1. pc = "entry" /\ limit < 16 /\ ~memcmp!Bit(8) /\ memcmp!Bit(4) /\ memcmp!FromBothEnds(4)
      /\ limit \in 0 .. 15
  BY MemcmpCallFacts DEF memcmp!Less8, memcmp!IInv, memcmp!PlaceInv
<1>2. 4 <= limit /\ limit < 8
  BY <1>1, MemcmpBits
<1>. QED
  BY <1>1, <1>2, MemcmpBothEndsStep

\* less than 4, of which there may be none;
LEMMA MemcmpLess4Step ==
    ASSUME memcmp!IInv, memcmp!Less4
    PROVE  memcmp!IInv'
<1> DEFINE x == memcmp!Load(src1, 2)
           y == memcmp!Load(src2, 2)
           two == IF memcmp!Bit(2) THEN 2 ELSE 0
           one == IF memcmp!Bit(1) THEN 1 ELSE 0
<1>1. /\ memcmp!ValidCall(call) /\ call.s1 \in Int /\ call.s2 \in Int /\ call.n \in Int
      /\ src1 = call.s1 /\ src2 = call.s2 /\ limit = call.n /\ src1 \in Int /\ src2 \in Int
  BY MemcmpCallFacts DEF memcmp!IInv, memcmp!PlaceInv, memcmp!Progress, memcmp!Less4
<1>2. /\ IF memcmp!Bit(2) /\ x # y
         THEN memcmp!Loaded(src1, src2, 2) /\ memcmp!Return(x, y)
         ELSE /\ memcmp!Loaded(src1, src2, two + one)
              /\ result' = IF memcmp!Bit(1) THEN memcmp!m[memcmp!src1end - 1] - memcmp!m[memcmp!src2end - 1] ELSE 0
              /\ pc' = "ret"
      /\ UNCHANGED <<call, src1, src2, limit>>
  BY DEF memcmp!Less4
<1>3. limit \in 0 .. 15
  BY MemcmpCallFacts DEF memcmp!Less4, memcmp!IInv, memcmp!PlaceInv
<1>4. limit \in 0 .. 3 /\ (memcmp!Bit(2) <=> limit >= 2)
      /\ (memcmp!Bit(1) <=> limit = 1 \/ limit = 3)
  BY <1>3, MemcmpBits DEF memcmp!Less4
<1>. HIDE DEF x, y
<1>5. memcmp!Same(0)
  BY DEF memcmp!Same, memcmp!SameBytes
<1>6. CASE memcmp!Bit(2) /\ x # y
  <2>1. memcmp!Loaded(src1, src2, 2) /\ memcmp!Return(x, y)
    BY <1>2, <1>6
  <2>2. src1 - call.s1 = src2 - call.s2 /\ src1 >= call.s1 /\ (src1 - call.s1) + 2 <= call.n
        /\ src1 - call.s1 <= 0 /\ 2 \in {2, 4, 8} /\ 0 \in Int /\ 2 \in Int
    BY <1>1, <1>4, <1>6
  <2>3. memcmp!Footprint'
    BY <1>1, <1>2, <2>1, <2>2, MemcmpLoadedWithin
  <2>4. memcmp!Load(src1, 2) # memcmp!Load(src2, 2)
    BY <1>6 DEF x, y
  <2>5. memcmp!Answer
          = IF memcmp!Less(memcmp!AsNumber(x), memcmp!AsNumber(y))
            THEN memcmp!Sign(-1)
            ELSE memcmp!Sign(1)
    BY <1>1, <1>5, <2>2, <2>4, MemcmpDifferenceDecides DEF x, y
  <2>6. pc' = "ret" /\ memcmp!Sign(result') = memcmp!Answer
    BY <1>6, <2>1, <2>5 DEF memcmp!Return
  <2>. QED
    BY <1>2, <2>3, <2>6, MemcmpSameCall, MemcmpReturned
<1>7. CASE ~(memcmp!Bit(2) /\ x # y)
  <2>1. /\ memcmp!Loaded(src1, src2, two + one) /\ pc' = "ret"
        /\ result' = IF memcmp!Bit(1) THEN memcmp!m[memcmp!src1end - 1] - memcmp!m[memcmp!src2end - 1] ELSE 0
    BY <1>2, <1>7
  <2>7. two \in {0, 2} /\ one \in {0, 1} /\ (two = 2 <=> limit >= 2)
        /\ (one = 1 <=> limit = 1 \/ limit = 3)
    BY <1>4
  <2>8. two + one = limit
    BY <1>4, <2>7
  <2>2. /\ two + one = limit /\ two + one \in Int /\ two \in Int /\ one \in Int
        /\ src1 - call.s1 = src2 - call.s2 /\ src1 >= call.s1
        /\ (src1 - call.s1) + (two + one) <= call.n
    BY <1>1, <2>7, <2>8
  <2>3. memcmp!Footprint'
    BY <1>1, <1>2, <2>1, <2>2, MemcmpLoadedWithin
  <2>4. memcmp!Same(two)
    <3>1. CASE memcmp!Bit(2)
      <4>1. memcmp!Load(src1, 2) = memcmp!Load(src2, 2)
        BY <1>7, <3>1 DEF x, y
      <4>2. src1 - call.s1 = src2 - call.s2 /\ src1 - call.s1 <= 0 /\ 2 \in {2, 4, 8} /\ 0 \in Int
            /\ (src1 - call.s1) + 2 = two
        BY <1>1, <3>1
      <4>3. memcmp!Same((src1 - call.s1) + 2)
        BY <1>1, <1>5, <4>1, <4>2, MemcmpSameMore
      <4>. QED
        BY <4>2, <4>3
    <3>2. CASE ~memcmp!Bit(2)
      BY <1>5, <3>2
    <3>. QED
      BY <3>1, <3>2
  <2>5. CASE memcmp!Bit(1)
    <3>1. call.n = two + 1 /\ two \in 0 .. (call.n - 1)
      BY <1>1, <1>4, <2>5
    <3>2. memcmp!src1end - 1 = call.s1 + two /\ memcmp!src2end - 1 = call.s2 + two
      BY <1>1, <3>1 DEF memcmp!src1end, memcmp!src2end
    <3>. HIDE DEF two
    <3>3. result' = memcmp!m[call.s1 + two] - memcmp!m[call.s2 + two]
      BY <2>1, <2>5, <3>2
    <3>4. memcmp!m[call.s1 + two] \in Int /\ memcmp!m[call.s2 + two] \in Int
      BY <1>1, <3>1 DEF memcmp!ValidCall, memcmp!m
    <3>5. CASE memcmp!SameAt(two)
      <4>1. memcmp!Same(call.n)
        <5>1. \A i \in 0 .. (call.n - 1) : i \in 0 .. (two - 1) \/ i = two
          BY <1>1, <3>1
        <5>. QED
          BY <2>4, <3>5, <5>1 DEF memcmp!Same, memcmp!SameBytes, memcmp!SameAt, memcmp!m
      <4>2. memcmp!Answer = memcmp!Sign(0)
        BY <1>1, <4>1, MemcmpAnswerAtEnd
      <4>3. result' = 0
        BY <3>3, <3>4, <3>5 DEF memcmp!SameAt
      <4>. QED
        BY <1>2, <2>1, <2>3, <4>2, <4>3, MemcmpSameCall, MemcmpReturned
    <3>6. CASE ~memcmp!SameAt(two)
      <4>1. memcmp!Answer
              = IF memcmp!m[call.s1 + two] < memcmp!m[call.s2 + two]
                THEN memcmp!Sign(-1)
                ELSE memcmp!Sign(1)
        BY <1>1, <2>4, <3>1, <3>6, MemcmpAnswerAtDifference
      <4>2. memcmp!Sign(result') = memcmp!Answer
        BY <3>3, <3>4, <3>6, <4>1 DEF memcmp!Sign, memcmp!SameAt
      <4>. QED
        BY <1>2, <2>1, <2>3, <4>2, MemcmpSameCall, MemcmpReturned
    <3>. QED
      BY <3>5, <3>6
  <2>6. CASE ~memcmp!Bit(1)
    <3>1. two = call.n
      BY <1>1, <2>2, <2>6
    <3>2. memcmp!Answer = memcmp!Sign(0)
      BY <1>1, <2>4, <3>1, MemcmpAnswerAtEnd
    <3>. QED
      BY <1>2, <2>1, <2>3, <2>6, <3>2, MemcmpSameCall, MemcmpReturned
  <2>. QED
    BY <2>5, <2>6
<1>. QED
  BY <1>6, <1>7

-----------------------------------------------------------------------------
\* Pairs of words.

\* the first 16 of more,
LEMMA MemcmpEntry16Step ==
    ASSUME memcmp!IInv, memcmp!Entry16
    PROVE  memcmp!IInv'
<1>1. /\ memcmp!ValidCall(call) /\ call.s1 \in Int /\ call.s2 \in Int /\ call.n \in Int
      /\ src1 = call.s1 /\ src2 = call.s2 /\ limit = call.n /\ src1 \in Int /\ src2 \in Int
      /\ limit >= 16
  BY MemcmpCallFacts DEF memcmp!IInv, memcmp!PlaceInv, memcmp!Progress, memcmp!Entry16
<1>2. memcmp!Loaded(src1, src2, 16) /\ UNCHANGED <<call, src1, src2, tmp>>
  BY DEF memcmp!Entry16
<1>3. /\ src1 - call.s1 = 0 /\ src2 - call.s2 = 0 /\ src1 - call.s1 = src2 - call.s2
      /\ src1 >= call.s1 /\ (src1 - call.s1) + 16 <= call.n /\ 16 \in Int
  BY <1>1
<1>4. memcmp!Same(src1 - call.s1)
  BY <1>3 DEF memcmp!Same, memcmp!SameBytes
<1>5. memcmp!Footprint'
  BY <1>1, <1>2, <1>3, MemcmpLoadedWithin
<1>6. CASE limit = 16 \/ ~memcmp!SamePair(src1, src2)
  <2>1. memcmp!ReturnPair(src1, src2) /\ UNCHANGED limit
    BY <1>6 DEF memcmp!Entry16
  <2>2. (src1 - call.s1) + 16 = call.n \/ ~memcmp!SamePair(src1, src2)
    BY <1>1, <1>3, <1>6
  <2>3. pc' = "ret" /\ memcmp!Sign(result') = memcmp!Answer'
    BY <1>1, <1>2, <1>3, <1>4, <2>1, <2>2, MemcmpPairDecides
  <2>. QED
    BY <1>2, <1>5, <2>1, <2>3, MemcmpReturned
<1>7. CASE ~(limit = 16 \/ ~memcmp!SamePair(src1, src2))
  <2>1. /\ pc' = CASE limit <= 32 -> "last_bytes"
                   [] limit >= 160 -> "loop_align"
                   [] limit > 32 /\ limit < 160 -> "loop32"
        /\ limit' = IF limit > 32 /\ limit < 160 THEN limit - 32 ELSE limit
    BY <1>7 DEF memcmp!Entry16
  <2>2. memcmp!Same((src1 - call.s1) + 16)
    BY <1>1, <1>3, <1>4, <1>7, MemcmpSamePairMore
  <2>3. memcmp!Same(16)
    BY <1>3, <2>2
  <2>4. memcmp!PlaceInv' /\ pc' \in {"last_bytes", "loop_align", "loop32"}
    BY <1>1, <1>2, <1>7, <2>1 DEF memcmp!PlaceInv, memcmp!Progress
  <2>5. memcmp!SameInv'
    <3>1. memcmp!Progress' + 16 = 16 /\ call' = call
      BY <1>1, <1>2 DEF memcmp!Progress
    <3>2. pc' = "last_bytes" => call.n - 16 <= 16
      BY <1>1, <2>1
    <3>3. pc' = "last_bytes" => memcmp!Same(call.n - 16)
      BY <1>1, <2>3, <3>2 DEF memcmp!Same, memcmp!SameBytes
    <3>. QED
      BY <2>3, <2>4, <3>1, <3>3 DEF memcmp!SameInv, memcmp!Same
  <2>. QED
    BY <1>2, <1>5, <2>4, <2>5 DEF memcmp!IInv, memcmp!ResultRight, memcmp!Labels
<1>. QED
  BY <1>6, <1>7

\* The pair p bytes from the pointers: it is in the buffers, and either is the same
\* or decides the call.
LEMMA MemcmpPairAhead ==
    ASSUME memcmp!IInv, call' = call, NEW p \in Nat, NEW a1, NEW a2,
           a1 = src1 + p, a2 = src2 + p, (memcmp!Progress + p) + 16 <= call.n, memcmp!Same(memcmp!Progress + p),
           memcmp!Loaded(a1, a2, 16)
    PROVE  /\ memcmp!Footprint'
           /\ memcmp!SamePair(a1, a2) => memcmp!Same(memcmp!Progress + (p + 16))
           /\ /\ memcmp!ReturnPair(a1, a2)
              /\ (memcmp!Progress + p) + 16 = call.n \/ ~memcmp!SamePair(a1, a2)
              => pc' = "ret" /\ memcmp!Sign(result') = memcmp!Answer'
<1>1. /\ memcmp!ValidCall(call) /\ call.s1 \in Int /\ call.s2 \in Int /\ call.n \in Int
      /\ src1 \in Int /\ src2 \in Int /\ src2 - call.s2 = memcmp!Progress /\ memcmp!Progress >= 0
  BY MemcmpCallFacts DEF memcmp!IInv, memcmp!PlaceInv
<1>2. /\ a1 \in Int /\ a2 \in Int /\ a1 - call.s1 = a2 - call.s2 /\ a1 >= call.s1
      /\ (a1 - call.s1) + 16 <= call.n /\ 16 \in Int
      /\ a1 - call.s1 = memcmp!Progress + p
      /\ (a1 - call.s1) + 16 = memcmp!Progress + (p + 16)
      /\ (a1 - call.s1) + 16 = (memcmp!Progress + p) + 16
  BY <1>1 DEF memcmp!Progress
<1>3. memcmp!Same(a1 - call.s1)
  BY <1>2
<1>4. memcmp!Footprint'
  BY <1>1, <1>2, MemcmpLoadedWithin
<1>5. memcmp!SamePair(a1, a2) => memcmp!Same((a1 - call.s1) + 16)
  BY <1>1, <1>2, <1>3, MemcmpSamePairMore
<1>6. ASSUME memcmp!ReturnPair(a1, a2), (memcmp!Progress + p) + 16 = call.n \/ ~memcmp!SamePair(a1, a2)
      PROVE  pc' = "ret" /\ memcmp!Sign(result') = memcmp!Answer'
  <2>1. (a1 - call.s1) + 16 = call.n \/ ~memcmp!SamePair(a1, a2)
    BY <1>2, <1>6
  <2>. QED
    BY <1>1, <1>2, <1>3, <1>6, <2>1, MemcmpPairDecides
<1>. QED
  BY <1>2, <1>4, <1>5, <1>6

\* 16 bytes of the loop of 32
LEMMA MemcmpLoop32Step ==
    ASSUME memcmp!IInv, memcmp!Loop32
    PROVE  memcmp!IInv'
<1> DEFINE a1 == src1 + 16
           a2 == src2 + 16
<1>1. /\ memcmp!ValidCall(call) /\ call.s1 \in Int /\ call.s2 \in Int /\ call.n \in Int
      /\ src1 \in Int /\ src2 \in Int /\ limit \in Int /\ src2 - call.s2 = memcmp!Progress
      /\ memcmp!Progress >= 0
      /\ (memcmp!Progress + 32) + limit = call.n /\ limit > 0 /\ memcmp!Same(memcmp!Progress + 16)
  BY MemcmpCallFacts DEF memcmp!IInv, memcmp!PlaceInv, memcmp!SameInv, memcmp!Loop32
<1>2. /\ memcmp!Loaded(a1, a2, 16) /\ UNCHANGED <<call, src1, src2, limit>>
      /\ IF memcmp!SamePair(a1, a2)
         THEN pc' = (IF limit <= 16 THEN "last_bytes" ELSE "loop32_second")
         ELSE memcmp!ReturnPair(a1, a2)
  BY DEF memcmp!Loop32
<1>3. 16 \in Nat /\ (memcmp!Progress + 16) + 16 <= call.n /\ memcmp!Progress \in Int
      /\ memcmp!Progress + (16 + 16) = memcmp!Progress + 32
  BY <1>1 DEF memcmp!Progress
<1>. HIDE DEF a1, a2
<1>4. /\ memcmp!Footprint' /\ (memcmp!SamePair(a1, a2) => memcmp!Same(memcmp!Progress + (16 + 16)))
      /\ memcmp!ReturnPair(a1, a2) /\ ~memcmp!SamePair(a1, a2)
           => pc' = "ret" /\ memcmp!Sign(result') = memcmp!Answer'
  BY <1>1, <1>2, <1>3, MemcmpPairAhead DEF a1, a2
<1>5. CASE memcmp!SamePair(a1, a2)
  <2>1. pc' = (IF limit <= 16 THEN "last_bytes" ELSE "loop32_second")
    BY <1>2, <1>5
  <2>2. memcmp!PlaceInv'
    BY <1>1, <1>2, <2>1 DEF memcmp!PlaceInv, memcmp!Progress
  <2>3. memcmp!Same(memcmp!Progress + 32)
    BY <1>3, <1>4, <1>5
  <2>4. limit <= 16 => memcmp!Same(call.n - 16)
    BY <1>1, <1>3, <2>3 DEF memcmp!Same, memcmp!SameBytes
  <2>5. call' = call /\ memcmp!Progress' = memcmp!Progress
    BY <1>2 DEF memcmp!Progress
  <2>6. memcmp!SameInv'
    BY <1>1, <2>1, <2>3, <2>4, <2>5 DEF memcmp!SameInv, memcmp!Same
  <2>. QED
    BY <1>2, <1>4, <2>1, <2>2, <2>6 DEF memcmp!IInv, memcmp!ResultRight, memcmp!Labels
<1>6. CASE ~memcmp!SamePair(a1, a2)
  BY <1>2, <1>4, <1>6, MemcmpReturned
<1>. QED
  BY <1>5, <1>6

\* and 16 more,
LEMMA MemcmpLoop32SecondStep ==
    ASSUME memcmp!IInv, memcmp!Loop32Second
    PROVE  memcmp!IInv'
<1> DEFINE a1 == src1 + 32
           a2 == src2 + 32
<1>1. /\ memcmp!ValidCall(call) /\ call.s1 \in Int /\ call.s2 \in Int /\ call.n \in Int
      /\ src1 \in Int /\ src2 \in Int /\ limit \in Int /\ src2 - call.s2 = memcmp!Progress
      /\ memcmp!Progress >= 0
      /\ (memcmp!Progress + 32) + limit = call.n /\ limit > 16 /\ memcmp!Same(memcmp!Progress + 32)
  BY MemcmpCallFacts DEF memcmp!IInv, memcmp!PlaceInv, memcmp!SameInv, memcmp!Loop32Second
<1>2. /\ memcmp!Loaded(a1, a2, 16) /\ call' = call
      /\ IF memcmp!SamePair(a1, a2)
         THEN src1' = src1 + 32 /\ src2' = src2 + 32 /\ memcmp!Last64(limit)
         ELSE memcmp!ReturnPair(a1, a2) /\ UNCHANGED <<src1, src2, limit>>
  BY DEF memcmp!Loop32Second
<1>3. 32 \in Nat /\ (memcmp!Progress + 32) + 16 <= call.n /\ memcmp!Progress \in Int
      /\ memcmp!Progress + (32 + 16) = memcmp!Progress + 48
  BY <1>1 DEF memcmp!Progress
<1>. HIDE DEF a1, a2
<1>4. /\ memcmp!Footprint' /\ (memcmp!SamePair(a1, a2) => memcmp!Same(memcmp!Progress + (32 + 16)))
      /\ memcmp!ReturnPair(a1, a2) /\ ~memcmp!SamePair(a1, a2)
           => pc' = "ret" /\ memcmp!Sign(result') = memcmp!Answer'
  BY <1>1, <1>2, <1>3, MemcmpPairAhead DEF a1, a2
<1>5. CASE memcmp!SamePair(a1, a2)
  <2>1. /\ src1' = src1 + 32 /\ src2' = src2 + 32 /\ limit' = limit - 32
        /\ pc' = IF limit > 32 THEN "loop32" ELSE "last_bytes"
    BY <1>2, <1>5 DEF memcmp!Last64
  <2>2. memcmp!PlaceInv'
    BY <1>1, <1>2, <2>1 DEF memcmp!PlaceInv, memcmp!Progress
  <2>3. memcmp!Same(memcmp!Progress + 48)
    BY <1>3, <1>4, <1>5
  <2>4. ~(limit > 32) => memcmp!Same(call.n - 16)
    BY <1>1, <1>3, <2>3 DEF memcmp!Same, memcmp!SameBytes
  <2>5. call' = call /\ memcmp!Progress' + 16 = memcmp!Progress + 48
    BY <1>1, <1>2, <2>1 DEF memcmp!Progress
  <2>6. memcmp!SameInv'
    BY <1>1, <2>1, <2>3, <2>4, <2>5 DEF memcmp!SameInv, memcmp!Same
  <2>. QED
    BY <1>2, <1>4, <2>1, <2>2, <2>6 DEF memcmp!IInv, memcmp!ResultRight, memcmp!Labels
<1>6. CASE ~memcmp!SamePair(a1, a2)
  BY <1>2, <1>4, <1>6, MemcmpReturned
<1>. QED
  BY <1>5, <1>6

\* The last 16 bytes decide.
LEMMA MemcmpLastBytesStep ==
    ASSUME memcmp!IInv, memcmp!LastBytes
    PROVE  memcmp!IInv'
<1> DEFINE a1 == memcmp!src1end - 16
           a2 == memcmp!src2end - 16
<1>1. /\ memcmp!ValidCall(call) /\ call.s1 \in Int /\ call.s2 \in Int /\ call.n \in Int
      /\ src1 \in Int /\ memcmp!Progress >= 0 /\ call.n >= memcmp!Progress + 16
      /\ memcmp!Same(call.n - 16)
  BY MemcmpCallFacts DEF memcmp!IInv, memcmp!PlaceInv, memcmp!SameInv, memcmp!LastBytes
<1>2. memcmp!Loaded(a1, a2, 16) /\ memcmp!ReturnPair(a1, a2)
      /\ UNCHANGED <<call, src1, src2, limit>>
  BY DEF memcmp!LastBytes
<1>3. /\ a1 \in Int /\ a2 \in Int /\ a1 - call.s1 = a2 - call.s2 /\ a1 >= call.s1
      /\ (a1 - call.s1) + 16 = call.n /\ (a1 - call.s1) + 16 <= call.n
      /\ a1 - call.s1 = call.n - 16 /\ 16 \in Int
  BY <1>1 DEF memcmp!Progress, memcmp!src1end, memcmp!src2end
<1>. HIDE DEF a1, a2
<1>4. memcmp!Same(a1 - call.s1)
  BY <1>1, <1>3
<1>5. memcmp!Footprint'
  BY <1>1, <1>2, <1>3, MemcmpLoadedWithin
<1>6. pc' = "ret" /\ memcmp!Sign(result') = memcmp!Answer'
  BY <1>1, <1>2, <1>3, <1>4, MemcmpPairDecides
<1>. QED
  BY <1>2, <1>5, <1>6, MemcmpReturned

\* the second 16 of many, and src2 aligned,
LEMMA MemcmpLoopAlignStep ==
    ASSUME memcmp!IInv, memcmp!LoopAlign
    PROVE  memcmp!IInv'
<1> DEFINE a1 == src1 + 16
           a2 == src2 + 16
           off == (src2 % 16) - 16
<1>1. /\ memcmp!ValidCall(call) /\ call.s1 \in Int /\ call.s2 \in Int /\ call.n \in Int
      /\ src1 \in Int /\ src2 \in Int /\ limit \in Int /\ src2 - call.s2 = memcmp!Progress
      /\ memcmp!Progress = 0
      /\ limit = call.n /\ limit >= 160 /\ memcmp!Same(memcmp!Progress + 16)
  BY MemcmpCallFacts DEF memcmp!IInv, memcmp!PlaceInv, memcmp!SameInv, memcmp!LoopAlign
<1>2. /\ memcmp!Loaded(a1, a2, 16) /\ call' = call
      /\ IF memcmp!SamePair(a1, a2)
         THEN /\ src1' = src1 - off /\ src2' = src2 - off /\ limit' = memcmp!Biased(limit + off)
              /\ pc' = "loop64"
         ELSE memcmp!ReturnPair(a1, a2) /\ UNCHANGED <<src1, src2, limit>>
  BY DEF memcmp!LoopAlign
<1>3. 16 \in Nat /\ (memcmp!Progress + 16) + 16 <= call.n /\ memcmp!Progress \in Int
      /\ memcmp!Progress + (16 + 16) = 32 /\ off \in Int /\ -16 <= off /\ off < 0
  BY <1>1
<1>. HIDE DEF a1, a2, off
<1>4. /\ memcmp!Footprint' /\ (memcmp!SamePair(a1, a2) => memcmp!Same(memcmp!Progress + (16 + 16)))
      /\ memcmp!ReturnPair(a1, a2) /\ ~memcmp!SamePair(a1, a2)
           => pc' = "ret" /\ memcmp!Sign(result') = memcmp!Answer'
  BY <1>1, <1>2, <1>3, MemcmpPairAhead DEF a1, a2
<1>5. CASE memcmp!SamePair(a1, a2)
  <2>1. /\ src1' = src1 - off /\ src2' = src2 - off /\ limit' = (limit + off) - 80
        /\ pc' = "loop64"
    BY <1>1, <1>2, <1>3, <1>5 DEF memcmp!Biased
  <2>4. /\ call' = call /\ memcmp!Progress' = 0 - off /\ src1' \in Int /\ src2' \in Int
        /\ limit' \in Int
        /\ src2' - call.s2 = 0 - off
    <3>1. call' = call
      BY <1>2
    <3>2. src1' = src1 - off /\ src2' = src2 - off /\ src1 - call.s1 = 0 /\ src2 - call.s2 = 0
      BY <1>1, <2>1 DEF memcmp!Progress
    <3>3. src1' \in Int /\ src2' \in Int /\ limit' \in Int
      BY <1>1, <1>3, <2>1
    <3>4. src1' - call.s1 = 0 - off /\ src2' - call.s2 = 0 - off
      BY <1>1, <1>3, <3>2
    <3>. QED
      BY <3>1, <3>3, <3>4 DEF memcmp!Progress
  <2>2. memcmp!PlaceInv'
    <3>1. (memcmp!Progress' + 80) + limit' = call.n /\ limit' > 0 /\ memcmp!Progress' >= 0
      BY <1>1, <1>3, <2>1, <2>4
    <3>. QED
      BY <2>1, <2>4, <3>1 DEF memcmp!PlaceInv, memcmp!Progress
  <2>3. memcmp!Same(32)
    BY <1>3, <1>4, <1>5
  <2>5. memcmp!SameBytes(call, memcmp!Progress' + 16)
    <3>1. \A j \in 0 .. ((memcmp!Progress' + 16) - 1) : j \in 0 .. 31
      BY <1>3, <2>4
    <3>. QED
      BY <2>3, <3>1 DEF memcmp!Same, memcmp!SameBytes
  <2>6. memcmp!SameInv'
    BY <2>1, <2>4, <2>5 DEF memcmp!SameInv, memcmp!Same
  <2>. QED
    BY <1>2, <1>4, <2>1, <2>2, <2>6 DEF memcmp!IInv, memcmp!ResultRight, memcmp!Labels
<1>6. CASE ~memcmp!SamePair(a1, a2)
  BY <1>2, <1>4, <1>6, MemcmpReturned
<1>. QED
  BY <1>5, <1>6

-----------------------------------------------------------------------------
\* The loop of 64 bytes.

\* The words that umaxp and, in a big-endian build, rev16 leave are those in which
\* there is a difference.
LEMMA MemcmpDifferencesAre ==
    ASSUME NEW k \in Int, NEW a1, NEW a2, a1 = call.s1 + k, a2 = call.s2 + k, memcmp!big \in BOOLEAN
    PROVE  /\ memcmp!Differences(a1, a2) \subseteq 0 .. 7
           /\ (IF memcmp!big THEN memcmp!rev16(memcmp!Differences(a1, a2)) ELSE memcmp!Differences(a1, a2))
                 = memcmp!WordsDiffer(call, k)
<1> DEFINE from(w) == 16 * (w \div 2) + (IF memcmp!big THEN 8 * (1 - (w % 2)) ELSE 8 * (w % 2))
           D == memcmp!Differences(a1, a2)
           Bad(w) == \E i \in (8 * w) .. (8 * w + 7) : call.mem[a1 + i] # call.mem[a2 + i]
           X(w) == IF w % 2 = 0 THEN w + 1 ELSE w - 1
<1>1. D = {w \in 0 .. 7 : \E i \in from(w) .. (from(w) + 7) : memcmp!m[a1 + i] # memcmp!m[a2 + i]}
  BY DEF memcmp!Differences
<1>2. memcmp!WordsDiffer(call, k) = {w \in 0 .. 7 : Bad(w)}
  BY DEF memcmp!WordsDiffer
<1>3. \A w \in 0 .. 7 :
         w \in D <=> \E i \in from(w) .. (from(w) + 7) : call.mem[a1 + i] # call.mem[a2 + i]
  BY <1>1 DEF memcmp!m
<1>4. D \subseteq 0 .. 7
  BY <1>1
<1>5. \A w \in 0 .. 7 : X(w) \in 0 .. 7 /\ X(X(w)) = w
  OBVIOUS
<1>6. CASE ~memcmp!big
  <2>1. \A w \in 0 .. 7 : from(w) = 8 * w
    BY <1>6
  <2>. HIDE DEF from, D
  <2>2. \A w \in 0 .. 7 : w \in D <=> Bad(w)
    BY <1>3, <2>1
  <2>. HIDE DEF Bad
  <2>3. D = memcmp!WordsDiffer(call, k)
    BY <1>2, <1>4, <2>2
  <2>. QED
    BY <1>4, <1>6, <2>3 DEF D
<1>7. CASE memcmp!big
  <2>1. \A w \in 0 .. 7 : from(w) = 8 * X(w)
    BY <1>7
  <2>. HIDE DEF from, D
  <2>2. \A w \in 0 .. 7 : w \in D <=> Bad(X(w))
    BY <1>3, <2>1
  <2>3. memcmp!rev16(D) = {X(w) : w \in D}
    BY DEF memcmp!rev16
  <2>. HIDE DEF Bad, X
  <2>4. ASSUME NEW w PROVE w \in memcmp!rev16(D) <=> w \in memcmp!WordsDiffer(call, k)
    <3>1. ASSUME w \in memcmp!rev16(D) PROVE w \in memcmp!WordsDiffer(call, k)
      <4>1. PICK v \in D : w = X(v)
        BY <2>3, <3>1
      <4>. QED
        BY <1>2, <1>4, <1>5, <2>2, <4>1
    <3>2. ASSUME w \in memcmp!WordsDiffer(call, k) PROVE w \in memcmp!rev16(D)
      <4>1. w \in 0 .. 7 /\ Bad(w)
        BY <1>2, <3>2
      <4>2. X(w) \in D /\ X(X(w)) = w
        BY <1>5, <2>2, <4>1
      <4>. QED
        BY <2>3, <4>2
    <3>. QED
      BY <3>1, <3>2
  <2>5. memcmp!rev16(D) = memcmp!WordsDiffer(call, k)
    BY <2>4
  <2>. QED
    BY <1>4, <1>7, <2>5 DEF D
<1>. QED
  BY <1>6, <1>7

\* If there is none in the words below w, the bytes before word w are the same.
LEMMA MemcmpSameToWord ==
    ASSUME NEW k \in Int, memcmp!Same(k), NEW w \in 0 .. 8, call.s1 \in Int, call.s2 \in Int,
           \A v \in 0 .. (w - 1) : v \notin memcmp!WordsDiffer(call, k)
    PROVE  memcmp!Same(k + 8 * w)
<1> SUFFICES ASSUME NEW j \in 0 .. ((k + 8 * w) - 1)
             PROVE  call.mem[call.s1 + j] = call.mem[call.s2 + j]
  BY DEF memcmp!Same, memcmp!SameBytes
<1>1. CASE j < k
  BY <1>1 DEF memcmp!Same, memcmp!SameBytes
<1>2. CASE ~(j < k)
  <2> DEFINE i == j - k
             v == i \div 8
  <2>1. i \in Int /\ 0 <= i /\ i < 8 * w
    BY <1>2
  <2>2. v \in Int /\ 8 * v <= i /\ i <= 8 * v + 7
    BY <2>1
  <2>3. v \in 0 .. (w - 1) /\ v \in 0 .. 7 /\ i \in (8 * v) .. (8 * v + 7)
    BY <2>1, <2>2
  <2>4. (call.s1 + k) + i = call.s1 + j /\ (call.s2 + k) + i = call.s2 + j
    BY <2>1
  <2>. HIDE DEF i, v
  <2>. QED
    BY <2>3, <2>4 DEF memcmp!WordsDiffer
<1>. QED
  BY <1>1, <1>2

\* The 64 bytes from k on are the same if no word is marked.
LEMMA MemcmpSame64Bytes ==
    ASSUME NEW k \in Int, memcmp!Same(k), call.s1 \in Int, call.s2 \in Int, memcmp!WordsDiffer(call, k) = {}
    PROVE  memcmp!Same(k + 64)
<1>1. 8 \in 0 .. 8 /\ \A v \in 0 .. (8 - 1) : v \notin memcmp!WordsDiffer(call, k)
  OBVIOUS
<1>2. memcmp!Same(k + 8 * 8)
  BY <1>1, MemcmpSameToWord
<1>3. k + 8 * 8 = k + 64
  OBVIOUS
<1>. QED
  BY <1>2, <1>3

\* 64 bytes at a time, with a biased limit,
LEMMA MemcmpLoop64Step ==
    ASSUME memcmp!IInv, memcmp!Loop64
    PROVE  memcmp!IInv'
<1> DEFINE a1 == src1 + 16
           a2 == src2 + 16
           k == memcmp!Progress + 16
<1>1. /\ memcmp!ValidCall(call) /\ call.s1 \in Int /\ call.s2 \in Int /\ call.n \in Int
      /\ src1 \in Int /\ src2 \in Int /\ limit \in Int /\ src2 - call.s2 = memcmp!Progress
      /\ memcmp!Progress >= 0
      /\ (memcmp!Progress + 80) + limit = call.n /\ limit > 0 /\ memcmp!Same(memcmp!Progress + 16)
  BY MemcmpCallFacts DEF memcmp!IInv, memcmp!PlaceInv, memcmp!SameInv, memcmp!Loop64
<1>2. /\ memcmp!Loaded(a1, a2, 64) /\ call' = call /\ src1' = src1 + 64 /\ src2' = src2 + 64
      /\ tmp' = memcmp!Differences(a1, a2)
      /\ IF limit > 64 /\ tmp' = {}
         THEN limit' = limit - 64 /\ pc' = "loop64"
         ELSE limit' = (limit - 64) + (64 + 16) /\ pc' = "after_loop64"
  BY DEF memcmp!Loop64
<1>3. /\ a1 \in Int /\ a2 \in Int /\ a1 - call.s1 = a2 - call.s2 /\ a1 >= call.s1 /\ 64 \in Int
      /\ (a1 - call.s1) + 64 <= call.n /\ k \in Int /\ a1 = call.s1 + k /\ a2 = call.s2 + k
      /\ memcmp!big \in BOOLEAN
  BY <1>1 DEF memcmp!Progress, memcmp!ValidCall, memcmp!big
<1>4. memcmp!Same(k)
  BY <1>1
<1>. HIDE DEF a1, a2, k
<1>5. memcmp!Footprint'
  BY <1>1, <1>2, <1>3, MemcmpLoadedWithin
<1>6. /\ tmp' \subseteq 0 .. 7
      /\ (IF memcmp!big THEN memcmp!rev16(tmp') ELSE tmp') = memcmp!WordsDiffer(call, k)
  BY <1>2, <1>3, MemcmpDifferencesAre
<1>7. /\ memcmp!Progress' = memcmp!Progress + 64 /\ memcmp!Progress' - 48 = k
      /\ memcmp!Progress' + 16 = k + 64
      /\ memcmp!Progress \in Int
  BY <1>1, <1>2 DEF memcmp!Progress, k
<1>8. memcmp!PlaceInv'
  BY <1>1, <1>2, <1>7 DEF memcmp!PlaceInv, memcmp!Progress
<1>9. memcmp!SameInv'
  <2>1. CASE limit > 64 /\ tmp' = {}
    <3>1. memcmp!WordsDiffer(call, k) = {}
      BY <1>6, <2>1 DEF memcmp!rev16
    <3>2. memcmp!Same(k + 64)
      BY <1>1, <1>3, <1>4, <3>1, MemcmpSame64Bytes
    <3>. QED
      BY <1>2, <1>7, <2>1, <3>2 DEF memcmp!SameInv, memcmp!Same
  <2>2. CASE ~(limit > 64 /\ tmp' = {})
    <3>1. pc' = "after_loop64"
      BY <1>2, <2>2
    <3>2. memcmp!big' = memcmp!big
      BY <1>2 DEF memcmp!big
    <3>3. /\ memcmp!SameBytes(call', memcmp!Progress' - 48)
          /\ memcmp!WordsDiffer(call', memcmp!Progress' - 48) = memcmp!WordsDiffer(call, k)
      BY <1>2, <1>4, <1>7 DEF memcmp!Same
    <3>. QED
      BY <1>6, <3>1, <3>2, <3>3 DEF memcmp!SameInv, memcmp!Same, memcmp!rev16
  <2>. QED
    BY <2>1, <2>2
<1>10. pc' \in {"loop64", "after_loop64"}
  BY <1>2
<1>. QED
  BY <1>2, <1>5, <1>8, <1>9, <1>10 DEF memcmp!IInv, memcmp!ResultRight, memcmp!Labels

\* what is left for the other loop, or
LEMMA MemcmpSame64Step ==
    ASSUME memcmp!IInv, memcmp!Same64
    PROVE  memcmp!IInv'
<1> DEFINE k == memcmp!Progress - 48
<1>1. /\ call.s1 \in Int /\ call.s2 \in Int /\ call.n \in Int
      /\ src1 \in Int /\ src2 \in Int /\ limit \in Int /\ src2 - call.s2 = memcmp!Progress
      /\ memcmp!Progress + limit = call.n /\ limit >= 17 /\ memcmp!Progress >= 64
      /\ memcmp!Same(memcmp!Progress - 48)
      /\ (IF memcmp!big THEN memcmp!rev16(tmp) ELSE tmp)
           = memcmp!WordsDiffer(call, memcmp!Progress - 48) /\ tmp = {}
  BY MemcmpCallFacts DEF memcmp!IInv, memcmp!PlaceInv, memcmp!SameInv, memcmp!Same64
<1>2. /\ limit' = limit - 32 /\ pc' = (IF limit > 32 THEN "loop32" ELSE "last_bytes")
      /\ UNCHANGED <<call, src1, src2, rd1, rd2, tmp>>
  BY DEF memcmp!Same64, memcmp!Last64
<1>3. k \in Int /\ k + 64 = memcmp!Progress + 16
  BY <1>1 DEF memcmp!Progress
<1>4. memcmp!Same(k) /\ memcmp!WordsDiffer(call, k) = {}
  BY <1>1 DEF memcmp!rev16
<1>. HIDE DEF k
<1>5. memcmp!Same(k + 64)
  BY <1>1, <1>3, <1>4, MemcmpSame64Bytes
<1>6. memcmp!Same(memcmp!Progress + 16)
  BY <1>3, <1>5
<1>7. ~(limit > 32) => memcmp!Same(call.n - 16)
  BY <1>1, <1>6 DEF memcmp!Same, memcmp!SameBytes
<1>8. memcmp!PlaceInv'
  BY <1>1, <1>2 DEF memcmp!PlaceInv, memcmp!Progress
<1>9. memcmp!SameInv'
  BY <1>2, <1>6, <1>7 DEF memcmp!SameInv, memcmp!Same, memcmp!Progress
<1>10. memcmp!Footprint'
  BY <1>2 DEF memcmp!IInv, memcmp!Footprint, memcmp!Chunk
<1>. QED
  BY <1>2, <1>8, <1>9, <1>10 DEF memcmp!IInv, memcmp!ResultRight, memcmp!Labels

\* the word of the first difference.
LEMMA MemcmpDifferentStep ==
    ASSUME memcmp!IInv, memcmp!Different
    PROVE  memcmp!IInv'
<1> DEFINE k == memcmp!Progress - 48
           D == IF memcmp!big THEN memcmp!rev16(tmp) ELSE tmp
           off == 8 * memcmp!Min(D) - 48
           a1 == src1 + off
           a2 == src2 + off
<1>1. /\ memcmp!ValidCall(call) /\ call.s1 \in Int /\ call.s2 \in Int /\ call.n \in Int
      /\ src1 \in Int /\ src2 \in Int /\ limit \in Int /\ src2 - call.s2 = memcmp!Progress
      /\ memcmp!Progress + limit = call.n /\ limit >= 17 /\ memcmp!Progress >= 64 /\ memcmp!Same(k)
      /\ D = memcmp!WordsDiffer(call, k) /\ tmp # {}
  BY MemcmpCallFacts DEF memcmp!IInv, memcmp!PlaceInv, memcmp!SameInv, memcmp!Different
<1>2. /\ memcmp!Loaded(a1, a2, 8) /\ UNCHANGED <<call, src1, src2, limit>> /\ pc' = "ret"
      /\ result' = IF memcmp!Less(memcmp!AsNumber(memcmp!Word(a1)), memcmp!AsNumber(memcmp!Word(a2))) THEN -1 ELSE 1
  BY DEF memcmp!Different
<1>3. D # {}
  BY <1>1 DEF memcmp!rev16
<1>4. D \subseteq 0 .. 7
  BY <1>1 DEF memcmp!WordsDiffer
<1>. HIDE DEF D
<1>5. memcmp!Min(D) \in D /\ \A v \in D : memcmp!Min(D) <= v
  <2>1. D \subseteq Nat
    BY <1>4
  <2>2. \E v \in D : \A u \in D : v <= u
    BY <1>3, <2>1, LeastOf
  <2>. QED
    BY <2>2 DEF memcmp!Min
<1> DEFINE w == memcmp!Min(D)
<1>6. w \in 0 .. 7 /\ w \in 0 .. 8 /\ w \in memcmp!WordsDiffer(call, k)
      /\ \A v \in 0 .. (w - 1) : v \notin memcmp!WordsDiffer(call, k)
  BY <1>1, <1>4, <1>5
<1>7. /\ a1 \in Int /\ a2 \in Int /\ a1 - call.s1 = a2 - call.s2 /\ a1 >= call.s1
      /\ (a1 - call.s1) + 8 <= call.n /\ k \in Int /\ a1 = (call.s1 + k) + 8 * w
      /\ a2 = (call.s2 + k) + 8 * w /\ a1 - call.s1 <= k + 8 * w /\ k + 8 * w \in Int
      /\ 8 \in Int /\ 8 \in {2, 4, 8}
  BY <1>1, <1>6 DEF memcmp!Progress
<1>. HIDE DEF a1, a2, k, w
<1>8. memcmp!Footprint'
  BY <1>1, <1>2, <1>7, MemcmpLoadedWithin
<1>9. memcmp!Same(k + 8 * w)
  BY <1>1, <1>6, <1>7, MemcmpSameToWord
<1>10. memcmp!Load(a1, 8) # memcmp!Load(a2, 8)
  <2>1. PICK i \in (8 * w) .. (8 * w + 7) :
           call.mem[(call.s1 + k) + i] # call.mem[(call.s2 + k) + i]
    BY <1>6 DEF memcmp!WordsDiffer
  <2> DEFINE j == i - 8 * w
  <2>2. j \in 0 .. (8 - 1) /\ a1 + j = (call.s1 + k) + i /\ a2 + j = (call.s2 + k) + i
    BY <1>1, <1>6, <1>7
  <2>. HIDE DEF j
  <2>3. memcmp!m[a1 + j] # memcmp!m[a2 + j]
    BY <2>1, <2>2 DEF memcmp!m
  <2>. QED
    BY <1>7, <2>2, <2>3, MemcmpSameWords
<1> DEFINE q == k + 8 * w
<1>11. memcmp!Same(q) /\ q \in Int /\ a1 - call.s1 <= q
  BY <1>7, <1>9
<1>. HIDE DEF q
<1>12. memcmp!Answer
         = IF memcmp!Less(memcmp!AsNumber(memcmp!Load(a1, 8)), memcmp!AsNumber(memcmp!Load(a2, 8)))
           THEN memcmp!Sign(-1)
           ELSE memcmp!Sign(1)
  BY <1>1, <1>7, <1>10, <1>11, MemcmpDifferenceDecides
<1>13. memcmp!Sign(result') = memcmp!Answer
  BY <1>2, <1>12 DEF memcmp!Word
<1>. QED
  BY <1>2, <1>8, <1>13, MemcmpSameCall, MemcmpReturned

-----------------------------------------------------------------------------
\* Every step of memcmp keeps its invariant.
LEMMA MemcmpNextIInv ==
    ASSUME memcmp!IInv, [memcmp!Next]_(memcmp!vars)
    PROVE  memcmp!IInv'
<1>1. CASE memcmp!Next
  BY <1>1, MemcmpLess16Step, MemcmpLess8Step, MemcmpLess4Step, MemcmpEntry16Step,
     MemcmpLoop32Step, MemcmpLoop32SecondStep,
     MemcmpLastBytesStep, MemcmpLoopAlignStep, MemcmpLoop64Step, MemcmpSame64Step, MemcmpDifferentStep DEF memcmp!Next
<1>2. CASE UNCHANGED memcmp!vars
  BY <1>2, MemcmpSameCall DEF memcmp!vars, memcmp!IInv, memcmp!PlaceInv, memcmp!Progress,
     memcmp!SameInv, memcmp!Same, memcmp!big, memcmp!rev16, memcmp!ResultRight,
     memcmp!Footprint, memcmp!Chunk
<1>. QED
  BY <1>1, <1>2

\* The larger of two numbers.
LEMMA MemcmpLargerOfTwo ==
    ASSUME NEW a \in Int, NEW b \in Int
    PROVE  memcmp!Max({a, b}) = IF a >= b THEN a ELSE b
<1> DEFINE c == IF a >= b THEN a ELSE b
<1>1. c \in {a, b} /\ (\A y \in {a, b} : c >= y)
  OBVIOUS
<1>2. ASSUME NEW x \in {a, b}, \A y \in {a, b} : x >= y PROVE x = c
  BY <1>2
<1>. HIDE DEF c
<1>3. memcmp!Max({a, b}) = c
  BY <1>1, <1>2 DEF memcmp!Max
<1>. QED
  BY <1>3 DEF c

\* What has been passed at each label, at most the first difference.
MemcmpPassedInv ==
    /\ pc = "entry" => memcmp!Passed = 0
    /\ pc \in {"loop_align", "loop32", "loop64"} => memcmp!Passed = memcmp!Progress + 16
    /\ pc = "loop32_second" => memcmp!Passed = memcmp!Progress + 32
    /\ pc = "last_bytes" => memcmp!Passed >= call.n - 16 /\ memcmp!Passed >= memcmp!Progress + 16
    /\ pc = "after_loop64" => memcmp!Passed = IF tmp = {} THEN memcmp!Progress + 16 ELSE memcmp!Stop
    /\ pc = "ret" => memcmp!Passed = memcmp!Stop
    /\ memcmp!Stop \in Nat /\ memcmp!Passed \in Int /\ memcmp!Passed <= memcmp!Stop

\* What memcmp has passed over is at most what it is to,
LEMMA MemcmpPassedIs ==
    ASSUME memcmp!IInv
    PROVE  MemcmpPassedInv
<1>1. /\ memcmp!ValidCall(call) /\ call.s1 \in Int /\ call.s2 \in Int /\ call.n \in Nat
      /\ src1 \in Int /\ limit \in Int /\ memcmp!Progress \in Int
  BY MemcmpCallFacts DEF memcmp!IInv, memcmp!PlaceInv, memcmp!Progress
<1>2. memcmp!Progress + 16 = (src1 + 16) - call.s1 /\ memcmp!Progress + 32 = (src1 + 32) - call.s1
  BY <1>1 DEF memcmp!Progress
<1>3. memcmp!Stop \in 0 .. call.n /\ \A k \in 0 .. call.n : memcmp!Same(k) => k <= memcmp!Stop
  BY <1>1, MemcmpStopExists
<1>4. memcmp!PlaceInv /\ memcmp!SameInv
  BY DEF memcmp!IInv
<1>5. CASE pc = "entry"
  BY <1>1, <1>3, <1>5 DEF memcmp!Passed, MemcmpPassedInv
<1>6. CASE pc \in {"loop_align", "loop32", "loop64"}
  <2>1. memcmp!Passed = memcmp!Progress + 16
    BY <1>2, <1>6 DEF memcmp!Passed
  <2>2. memcmp!Same(memcmp!Progress + 16) /\ memcmp!Progress + 16 \in 0 .. call.n
    BY <1>1, <1>4, <1>6 DEF memcmp!PlaceInv, memcmp!SameInv
  <2>. QED
    BY <1>1, <1>3, <1>6, <2>1, <2>2 DEF MemcmpPassedInv
<1>7. CASE pc = "loop32_second"
  <2>1. memcmp!Passed = memcmp!Progress + 32
    BY <1>2, <1>7 DEF memcmp!Passed
  <2>2. memcmp!Same(memcmp!Progress + 32) /\ memcmp!Progress + 32 \in 0 .. call.n
    BY <1>1, <1>4, <1>7 DEF memcmp!PlaceInv, memcmp!SameInv
  <2>. QED
    BY <1>1, <1>3, <1>7, <2>1, <2>2 DEF MemcmpPassedInv
<1>8. CASE pc = "last_bytes"
  <2>1. memcmp!Passed = memcmp!Max({call.n - 16, memcmp!Progress + 16})
    BY <1>2, <1>8 DEF memcmp!Passed
  <2> DEFINE a == call.n - 16
             b == memcmp!Progress + 16
  <2>2. memcmp!Same(a) /\ memcmp!Same(b) /\ a \in 0 .. call.n /\ b \in 0 .. call.n /\ a \in Int
        /\ b \in Int
    BY <1>1, <1>4, <1>8 DEF memcmp!PlaceInv, memcmp!SameInv
  <2>3. memcmp!Passed = memcmp!Max({a, b})
    BY <2>1
  <2>. HIDE DEF a, b
  <2>4. memcmp!Passed = IF a >= b THEN a ELSE b
    BY <2>2, <2>3, MemcmpLargerOfTwo
  <2>5. /\ memcmp!Passed \in {a, b} /\ memcmp!Passed >= a /\ memcmp!Passed >= b
        /\ memcmp!Passed <= memcmp!Stop /\ memcmp!Passed \in Int
    BY <1>1, <1>3, <2>2, <2>4
  <2>. QED
    BY <1>1, <1>3, <1>8, <2>5 DEF a, b, MemcmpPassedInv
<1>9. CASE pc = "after_loop64"
  <2>1. memcmp!Passed = IF tmp = {} THEN memcmp!Progress + 16 ELSE memcmp!Stop
    BY <1>2, <1>9 DEF memcmp!Passed
  <2>2. CASE tmp = {}
    <3> DEFINE k == memcmp!Progress - 48
    <3>1. /\ memcmp!Progress + limit = call.n /\ limit >= 17 /\ memcmp!Progress >= 64
          /\ memcmp!Same(k)
          /\ (IF memcmp!big THEN memcmp!rev16(tmp) ELSE tmp) = memcmp!WordsDiffer(call, k)
      BY <1>4, <1>9 DEF memcmp!PlaceInv, memcmp!SameInv
    <3>2. k \in Int /\ k + 64 = memcmp!Progress + 16 /\ memcmp!WordsDiffer(call, k) = {}
      BY <1>1, <2>2, <3>1 DEF memcmp!rev16
    <3>. HIDE DEF k
    <3>3. memcmp!Same(k + 64)
      BY <1>1, <3>1, <3>2, MemcmpSame64Bytes
    <3>4. memcmp!Same(memcmp!Progress + 16) /\ memcmp!Progress + 16 \in 0 .. call.n
      BY <1>1, <3>1, <3>2, <3>3
    <3>. QED
      BY <1>1, <1>3, <1>9, <2>1, <2>2, <3>4 DEF MemcmpPassedInv
  <2>. QED
    BY <1>1, <1>3, <1>9, <2>1, <2>2 DEF MemcmpPassedInv
<1>10. CASE pc = "ret"
  BY <1>1, <1>3, <1>10 DEF memcmp!Passed, MemcmpPassedInv
<1>. QED
  BY <1>5, <1>6, <1>7, <1>8, <1>9, <1>10 DEF memcmp!IInv, memcmp!Labels, MemcmpPassedInv

\* and grows.
LEMMA MemcmpPassedGrows ==
    ASSUME memcmp!IInv, MemcmpPassedInv, memcmp!IInv', MemcmpPassedInv', memcmp!Next
    PROVE  memcmp!Passed' >= memcmp!Passed /\ memcmp!Stop' = memcmp!Stop
           /\ memcmp!Answer' = memcmp!Answer /\ pc # "ret"
<1>1. call' = call /\ pc # "ret"
  BY DEF memcmp!Next, memcmp!Less16, memcmp!Less8, memcmp!Less4, memcmp!Entry16, memcmp!Loop32,
     memcmp!Loop32Second, memcmp!LastBytes, memcmp!LoopAlign,
         memcmp!Loop64, memcmp!Same64, memcmp!Different, memcmp!FromBothEnds
<1>2. memcmp!Stop' = memcmp!Stop /\ memcmp!Answer' = memcmp!Answer
  BY <1>1, MemcmpSameCall
<1>3. /\ pc = "entry" => memcmp!Passed = 0
      /\ pc \in {"loop_align", "loop32", "loop64"} => memcmp!Passed = memcmp!Progress + 16
      /\ pc = "loop32_second" => memcmp!Passed = memcmp!Progress + 32
      /\ pc = "after_loop64" /\ tmp = {} => memcmp!Passed = memcmp!Progress + 16
      /\ memcmp!Stop \in Nat /\ memcmp!Passed \in Int /\ memcmp!Passed <= memcmp!Stop
  BY DEF MemcmpPassedInv
<1>4. /\ pc' \in {"loop_align", "loop32", "loop64"} => memcmp!Passed' = memcmp!Progress' + 16
      /\ pc' = "loop32_second" => memcmp!Passed' = memcmp!Progress' + 32
      /\ pc' = "last_bytes"
           => memcmp!Passed' >= call'.n - 16 /\ memcmp!Passed' >= memcmp!Progress' + 16
      /\ pc' = "after_loop64"
           => memcmp!Passed' = IF tmp' = {} THEN memcmp!Progress' + 16 ELSE memcmp!Stop'
      /\ pc' = "ret" => memcmp!Passed' = memcmp!Stop'
      /\ memcmp!Passed' \in Int
  BY DEF MemcmpPassedInv
<1>5. CASE pc' = "ret"
  BY <1>1, <1>2, <1>3, <1>4, <1>5
<1>6. CASE pc' # "ret"
  <2>1. memcmp!PlaceInv /\ memcmp!PlaceInv' /\ call.n \in Nat /\ call.s1 \in Nat
    BY MemcmpCallFacts DEF memcmp!IInv
  <2>2. ~memcmp!Less16 /\ ~memcmp!Less8 /\ ~memcmp!Less4 /\ ~memcmp!LastBytes /\ ~memcmp!Different
    BY <1>6 DEF memcmp!Less16, memcmp!Less8, memcmp!Less4, memcmp!LastBytes, memcmp!Different,
       memcmp!FromBothEnds, memcmp!Return2, memcmp!Return,
                memcmp!ReturnPair
  <2>3. CASE memcmp!Entry16
    <3>1. pc = "entry" /\ pc' \in {"last_bytes", "loop_align", "loop32"} /\ src1' = src1
      BY <1>6, <2>1, <2>3 DEF memcmp!Entry16, memcmp!ReturnPair, memcmp!Return2, memcmp!Return,
         memcmp!PlaceInv
    <3>2. memcmp!Progress' \in Int /\ memcmp!Progress' >= 0
      BY <1>1, <2>1, <3>1 DEF memcmp!PlaceInv, memcmp!Progress
    <3>. QED
      BY <1>1, <1>2, <1>3, <1>4, <3>1, <3>2 DEF memcmp!Progress
  <2>4. CASE memcmp!Loop32
    <3>1. /\ pc = "loop32" /\ pc' \in {"last_bytes", "loop32_second"}
          /\ src1' = src1
      BY <1>6, <2>4 DEF memcmp!Loop32, memcmp!ReturnPair, memcmp!Return2, memcmp!Return
    <3>2. memcmp!Progress' = memcmp!Progress /\ memcmp!Progress \in Int
      BY <1>1, <2>1, <3>1 DEF memcmp!PlaceInv, memcmp!Progress
    <3>. QED
      BY <1>1, <1>2, <1>3, <1>4, <3>1, <3>2
  <2>5. CASE memcmp!Loop32Second
    <3>1. /\ pc = "loop32_second" /\ pc' \in {"last_bytes", "loop32"}
          /\ src1' = src1 + 32
      BY <1>6, <2>5 DEF memcmp!Loop32Second, memcmp!Last64, memcmp!ReturnPair, memcmp!Return2,
         memcmp!Return
    <3>2. memcmp!Progress' = memcmp!Progress + 32 /\ memcmp!Progress \in Int
      BY <1>1, <2>1, <3>1 DEF memcmp!PlaceInv, memcmp!Progress
    <3>. QED
      BY <1>1, <1>2, <1>3, <1>4, <3>1, <3>2
  <2>6. CASE memcmp!LoopAlign
    <3>1. /\ pc = "loop_align" /\ pc' = "loop64"
      BY <1>6, <2>6 DEF memcmp!LoopAlign, memcmp!ReturnPair, memcmp!Return2, memcmp!Return
    <3>2. memcmp!Progress' \in Int /\ memcmp!Progress' >= 0 /\ memcmp!Progress = 0
      BY <1>1, <2>1, <3>1 DEF memcmp!PlaceInv, memcmp!Progress
    <3>. QED
      BY <1>1, <1>2, <1>3, <1>4, <3>1, <3>2 DEF memcmp!Progress
  <2>7. CASE memcmp!Loop64
    <3>1. /\ pc = "loop64" /\ pc' \in {"loop64", "after_loop64"} /\ src1' = src1 + 64
      BY <2>7 DEF memcmp!Loop64
    <3>2. memcmp!Progress' = memcmp!Progress + 64 /\ memcmp!Progress \in Int
      BY <1>1, <2>1, <3>1 DEF memcmp!PlaceInv, memcmp!Progress
    <3>. QED
      BY <1>1, <1>2, <1>3, <1>4, <3>1, <3>2
  <2>8. CASE memcmp!Same64
    <3>1. /\ pc = "after_loop64" /\ pc' \in {"loop32", "last_bytes"} /\ src1' = src1 /\ tmp = {}
      BY <2>8 DEF memcmp!Same64, memcmp!Last64
    <3>2. memcmp!Progress' = memcmp!Progress /\ memcmp!Progress \in Int
      BY <1>1, <2>1, <3>1 DEF memcmp!PlaceInv, memcmp!Progress
    <3>. QED
      BY <1>1, <1>2, <1>3, <1>4, <3>1, <3>2
  <2>. QED
    BY <2>2, <2>3, <2>4, <2>5, <2>6, <2>7, <2>8 DEF memcmp!Next
<1>. QED
  BY <1>1, <1>2, <1>5, <1>6

-----------------------------------------------------------------------------
(* How far strcmp and strncmp have got.                                    *)

\* A search that gets no further than where it is to stop.
Within(stop, answer, seen) == stop \in Nat /\ answer \in Nat /\ seen \in Int /\ seen <= stop

\* A result is a number.
LEMMA SignIs ==
    ASSUME NEW x
    PROVE  Sign(x) \in Nat
BY DEF Sign

\* strcmp gets no further than what decides, and does not go back.
LEMMA StrcmpWithin ==
    ASSUME strcmp!IInv
    PROVE  /\ Within(strcmp!Stop, strcmp!Answer, strcmp!Passed)
           /\ pc = "entry" => strcmp!Passed = 0
           /\ pc \notin {"end", "ret"} => strcmp!Passed = src1 - call.s1
           /\ pc \in {"end", "ret"} => strcmp!Passed = strcmp!Stop
<1>1. /\ ValidStrings(call) /\ call.s1 \in Nat /\ src1 \in Nat /\ strcmp!PlaceInv
      /\ pc \notin {"end", "ret"} => Alike(src1 - call.s1)
  BY StrcmpIs
<1>2. PICK k \in Nat : Alike(k) /\ Decides(k)
  BY <1>1, DecisionExists
<1>3. strcmp!Stop = k /\ strcmp!Answer = Order(k)
  BY <1>1, <1>2, StrcmpStopIs
<1>4. strcmp!Answer \in Nat
  BY <1>3, SignIs DEF Order
<1>5. strcmp!Passed = IF pc \in {"end", "ret"} THEN k ELSE src1 - call.s1
  BY <1>3 DEF strcmp!Passed
<1>6. pc \notin {"end", "ret"} => src1 - call.s1 <= k
  <2>1. src1 - call.s1 \in Int
    BY <1>1
  <2>. QED
    BY <1>1, <1>2, <2>1, AlikeBefore
<1>7. pc = "entry" => src1 - call.s1 = 0
  BY <1>1 DEF strcmp!PlaceInv
<1>. QED
  BY <1>1, <1>3, <1>4, <1>5, <1>6, <1>7 DEF Within

\* What is to be found is that of the call.
LEMMA StrcmpSame ==
    ASSUME call' = call
    PROVE  strcmp!Stop' = strcmp!Stop /\ strcmp!Answer' = strcmp!Answer
BY DEF strcmp!Stop, strcmp!Answer, strcmp!FirstOf, strcmp!Order, strcmp!Sign, strcmp!SameAt,
   strcmp!EndsAt, strcmp!m

LEMMA StrcmpGrows ==
    ASSUME strcmp!IInv, strcmp!IInv', strcmp!Next
    PROVE  /\ pc # "ret" /\ call' = call
           /\ strcmp!Stop' = strcmp!Stop /\ strcmp!Answer' = strcmp!Answer
           /\ strcmp!Passed' >= strcmp!Passed
<1>1. pc # "ret" /\ call' = call
  BY DEF strcmp!Next, strcmp!Entry, strcmp!LoopAligned, strcmp!MutualAlign, strcmp!DoMisaligned,
     strcmp!Src1Aligned, strcmp!LoopUnaligned, strcmp!Tail, strcmp!StrcmpEnd, strcmp!EndQuick
<1>2. strcmp!Stop' = strcmp!Stop /\ strcmp!Answer' = strcmp!Answer
  BY <1>1, StrcmpSame
<1>3. /\ Within(strcmp!Stop, strcmp!Answer, strcmp!Passed)
      /\ pc \notin {"end", "ret"} => strcmp!Passed = src1 - call.s1
      /\ pc \in {"end", "ret"} => strcmp!Passed = strcmp!Stop
  BY StrcmpWithin
<1>4. strcmp!Passed' = IF pc' \in {"end", "ret"} THEN strcmp!Stop ELSE src1' - call.s1
  BY <1>1, <1>2 DEF strcmp!Passed
<1>5. CASE pc' \in {"end", "ret"}
  BY <1>1, <1>2, <1>3, <1>4, <1>5 DEF Within
<1>6. CASE pc' \notin {"end", "ret"}
  <2>1. /\ call.s1 \in Nat /\ N \in Nat /\ N >= 2 /\ src1 \in Nat /\ N > 0 /\ src1 \in Int
    BY StrcmpIs
  <2>2. src1 % N \in 0 .. (N - 1)
    BY <2>1, DivMod
  <2> DEFINE r == src1 % N
  <2>3. src1' \in {src1, src1 + 1, src1 + N, (src1 - r) + N} /\ pc \notin {"end", "ret"}
    <3>1. strcmp!N = N
      BY StrcmpSimd
    <3>. QED
      BY <1>6, <3>1 DEF strcmp!Next, strcmp!Entry, strcmp!LoopAligned, strcmp!MutualAlign,
         strcmp!LoadWords, strcmp!DoMisaligned, strcmp!Src1Aligned, strcmp!LoopUnaligned, strcmp!Tail,
         strcmp!StrcmpEnd, strcmp!EndQuick
  <2>4. r \in 0 .. (N - 1)
    BY <2>2
  <2>. HIDE DEF r
  <2>5. src1' >= src1 /\ src1' \in Int
    BY <2>1, <2>3, <2>4
  <2>. QED
    BY <1>1, <1>2, <1>3, <1>4, <1>6, <2>1, <2>3, <2>5
<1>. QED
  BY <1>1, <1>2, <1>5, <1>6

\* strncmp gets no further than what decides or the limit, and does not go back.
LEMMA StrncmpWithin ==
    ASSUME strncmp!IInv
    PROVE  /\ Within(strncmp!Stop, strncmp!Answer, strncmp!Passed)
           /\ pc = "entry" => strncmp!Passed = 0
<1>1. /\ ValidStrings(call) /\ call.s1 \in Nat /\ call.s2 \in Nat /\ call.n \in Nat /\ src1 \in Nat
      /\ N \in Nat /\ limit \in Nat
      /\ strncmp!Progress = src1 - call.s1 /\ strncmp!Base = (src1 - call.s1) - N
      /\ strncmp!PlaceInv /\ strncmp!LimitInv
  BY StrncmpIs
<1>2. PICK s \in Nat : /\ strncmp!Stop = s /\ Alike(s) /\ s <= call.n
                       /\ s = call.n \/ Decides(s)
  BY <1>1, StrncmpStopExists
<1>3. strncmp!Answer \in Nat
  <2>1. strncmp!Answer = IF s = call.n THEN 2 ELSE Order(s)
    BY <1>1, <1>2, StrncmpStopIs
  <2>. QED
    BY <2>1, SignIs DEF Order
<1>4. ASSUME NEW x \in Int, Alike(x), x <= call.n PROVE x <= s
  BY <1>2, <1>4, AlikeBefore
<1>5. strncmp!Passed =
        CASE pc \in {"full_check", "syndrome_check", "end", "ret"} -> s
          [] pc \in {"loop_misaligned", "misaligned_mid_loop"} -> (src1 - N) - call.s1
          [] pc = "step_C" -> ((src1 - N) - call.s1) + (N - strncmp!Into2)
          [] OTHER -> src1 - call.s1
  BY <1>1, <1>2, IntoIs, StrncmpSimd DEF strncmp!Passed
<1>6. PICK o \in Int : o = strncmp!Into2
  BY <1>1, IntoIs
<1>7. strncmp!PassedInv /\ pc \in strncmp!Labels
  BY DEF strncmp!IInv
<1>8. CASE pc \in {"full_check", "syndrome_check", "end", "ret"}
  BY <1>2, <1>3, <1>5, <1>8 DEF Within
<1>9. CASE pc \in {"loop_misaligned", "misaligned_mid_loop"}
  <2>1. Alike((src1 - call.s1) - N) /\ ((src1 - call.s1) - N) + limit = call.n
    BY <1>1, <1>7, <1>9, StrncmpInvNames DEF strncmp!PassedInv, strncmp!LimitInv, strncmp!Words
  <2>2. (src1 - call.s1) - N \in Int /\ (src1 - call.s1) - N <= call.n
    BY <1>1, <2>1
  <2>3. (src1 - call.s1) - N <= s
    BY <1>4, <2>1, <2>2
  <2>4. strncmp!Passed = (src1 - N) - call.s1
    BY <1>5, <1>9
  <2>. QED
    BY <1>1, <1>2, <1>3, <1>9, <2>3, <2>4 DEF Within
<1>10. CASE pc = "step_C"
  <2>1. /\ Alike(((src1 - call.s1) - N) + (N - o)) /\ ((src1 - call.s1) - N) + limit = call.n
        /\ limit > N - o
    BY <1>1, <1>6, <1>7, <1>10, StrncmpInvNames, StrncmpSimd
    DEF strncmp!PassedInv, strncmp!LimitInv, strncmp!Words
  <2>2. ((src1 - call.s1) - N) + (N - o) \in Int /\ ((src1 - call.s1) - N) + (N - o) <= call.n
    BY <1>1, <2>1
  <2>3. ((src1 - call.s1) - N) + (N - o) <= s
    BY <1>4, <2>1, <2>2
  <2>4. strncmp!Passed = ((src1 - N) - call.s1) + (N - o)
    BY <1>5, <1>6, <1>10
  <2>. QED
    BY <1>1, <1>2, <1>3, <1>10, <2>3, <2>4 DEF Within
<1>11. CASE pc \in {"entry", "mutual_align", "misaligned8"}
  <2>1. strncmp!Passed = src1 - call.s1 /\ src1 = call.s1
    BY <1>1, <1>5, <1>11 DEF strncmp!PlaceInv
  <2>. QED
    BY <1>1, <1>2, <1>3, <2>1 DEF Within
<1>12. CASE pc \in {"loop_aligned", "byte_loop", "page_end_loop", "src1_aligned"}
  <2>1. Alike(src1 - call.s1)
    BY <1>1, <1>7, <1>12, StrncmpInvNames DEF strncmp!PassedInv
  <2>2. src1 - call.s1 <= call.n
    <3>1. \/ strncmp!Leaves(src1 - call.s1, limit)
          \/ (src1 - call.s1) + limit = call.n
          \/ (src1 - call.s1) + count + limit = call.n /\ count \in Nat
      BY <1>1, <1>12 DEF strncmp!LimitInv, strncmp!PlaceInv
    <3>. QED
      BY <1>1, <3>1 DEF strncmp!Leaves
  <2>3. src1 - call.s1 <= s
    BY <1>1, <1>4, <2>1, <2>2
  <2>4. strncmp!Passed = src1 - call.s1
    BY <1>5, <1>12
  <2>. QED
    BY <1>1, <1>2, <1>3, <1>12, <2>3, <2>4 DEF Within
<1>. QED
  BY <1>7, <1>8, <1>9, <1>10, <1>11, <1>12 DEF strncmp!Labels

LEMMA StrncmpGrows ==
    ASSUME strncmp!IInv, strncmp!IInv', strncmp!Next
    PROVE  /\ pc # "ret" /\ call' = call
           /\ strncmp!Stop' = strncmp!Stop /\ strncmp!Answer' = strncmp!Answer
           /\ strncmp!Passed' >= strncmp!Passed
<1>1. pc # "ret" /\ call' = call
  BY DEF strncmp!Next, strncmp!Ret0, strncmp!Entry, strncmp!LoopAligned, strncmp!MutualAlign,
     strncmp!Misaligned8, strncmp!ByteLoop, strncmp!PageEndLoop, strncmp!Src1Aligned, strncmp!StepA,
     strncmp!StepB, strncmp!StepC, strncmp!FullCheck, strncmp!SyndromeCheck, strncmp!StrncmpEnd,
     strncmp!EndQuick
<1>2. strncmp!Stop' = strncmp!Stop /\ strncmp!Answer' = strncmp!Answer
      /\ strncmp!Into2' = strncmp!Into2
  BY <1>1, StrncmpSame
<1> DEFINE Ends == {"full_check", "syndrome_check", "end", "ret"}
<1>3. Within(strncmp!Stop, strncmp!Answer, strncmp!Passed)
  BY StrncmpWithin
<1>4. /\ call.s1 \in Nat /\ call.s2 \in Nat /\ src1 \in Nat /\ src1 \in Int /\ N \in Nat /\ N >= 2
      /\ N > 0
      /\ strncmp!PlaceInv
  BY StrncmpIs
<1>5. strncmp!Into2 \in 0 .. (N - 1) /\ strncmp!neg_offset \div 8 = N - strncmp!Into2
  BY <1>4, IntoIs
<1>6. PICK o \in 0 .. (N - 1) : o = strncmp!Into2
  BY <1>5
<1>7. /\ strncmp!N = N /\ strncmp!N' = N
      /\ strncmp!neg_offset' = strncmp!neg_offset
  BY <1>1, StrncmpSimd, StrncmpSame DEF strncmp!neg_offset, strncmp!offset
<1>8. strncmp!Passed =
        CASE pc \in Ends -> strncmp!Stop
          [] pc \in {"loop_misaligned", "misaligned_mid_loop"} -> (src1 - N) - call.s1
          [] pc = "step_C" -> ((src1 - N) - call.s1) + (N - o)
          [] OTHER -> src1 - call.s1
  BY <1>5, <1>6, <1>7 DEF strncmp!Passed
<1>9. strncmp!Passed' =
        CASE pc' \in Ends -> strncmp!Stop
          [] pc' \in {"loop_misaligned", "misaligned_mid_loop"} -> (src1' - N) - call.s1
          [] pc' = "step_C" -> ((src1' - N) - call.s1) + (N - o)
          [] OTHER -> src1' - call.s1
  BY <1>1, <1>2, <1>5, <1>6, <1>7 DEF strncmp!Passed
<1>10. CASE pc' \in Ends
  <2>1. strncmp!Passed' = strncmp!Stop
    BY <1>9, <1>10
  <2>. QED
    BY <1>1, <1>2, <1>3, <2>1 DEF Within
<1>11. CASE pc' \notin Ends
  <2>1. \/ /\ pc \in {"entry", "misaligned8", "byte_loop", "page_end_loop", "loop_aligned"}
           /\ pc' \in {"misaligned8", "mutual_align", "loop_aligned", "byte_loop", "page_end_loop",
                       "src1_aligned"}
           /\ src1' \in {src1, src1 + 1, src1 + N}
        \/ pc = "mutual_align" /\ pc' = "loop_aligned" /\ src1' = (src1 - count) + N
        \/ pc = "src1_aligned" /\ pc' \in {"loop_misaligned", "misaligned_mid_loop"}
           /\ src1' = src1 + N
        \/ pc = "loop_misaligned" /\ pc' = "misaligned_mid_loop" /\ src1' = src1 + N
        \/ pc = "misaligned_mid_loop" /\ pc' = "step_C" /\ src1' = src1
        \/ pc = "step_C" /\ pc' = "loop_misaligned" /\ src1' = src1 + N
    <3>1. ~strncmp!Ret0 /\ ~strncmp!FullCheck /\ ~strncmp!SyndromeCheck /\ ~strncmp!StrncmpEnd
      BY <1>11 DEF strncmp!Ret0, strncmp!Return, strncmp!FullCheck, strncmp!FullCheckLE,
         strncmp!FullCheckBE, strncmp!SyndromeCheck, strncmp!StrncmpEnd, strncmp!EndQuick
    <3>2. CASE strncmp!Entry
      BY <1>11, <3>2 DEF strncmp!Entry
    <3>3. CASE strncmp!LoopAligned
      BY <1>7, <1>11, <3>3 DEF strncmp!LoopAligned, strncmp!LoadWords, strncmp!StartRealigned
    <3>4. CASE strncmp!MutualAlign
      BY <1>7, <1>11, <3>4 DEF strncmp!MutualAlign, strncmp!LoadWords, strncmp!StartRealigned
    <3>5. CASE strncmp!Misaligned8
      BY <1>11, <3>5 DEF strncmp!Misaligned8
    <3>6. CASE strncmp!ByteLoop
      BY <1>11, <3>6 DEF strncmp!ByteLoop, strncmp!LoadBytes, strncmp!Return
    <3>7. CASE strncmp!PageEndLoop
      BY <1>11, <3>7 DEF strncmp!PageEndLoop, strncmp!LoadBytes, strncmp!Return
    <3>8. CASE strncmp!Src1Aligned
      BY <1>7, <1>11, <3>8 DEF strncmp!Src1Aligned, strncmp!LoadData1
    <3>9. CASE strncmp!StepA
      BY <1>7, <1>11, <3>9 DEF strncmp!StepA, strncmp!LoadData1
    <3>10. CASE strncmp!StepB
      BY <1>11, <3>10 DEF strncmp!StepB
    <3>11. CASE strncmp!StepC
      BY <1>7, <1>11, <3>11 DEF strncmp!StepC, strncmp!LoadData1
    <3>. QED
      BY <3>1, <3>2, <3>3, <3>4, <3>5, <3>6, <3>7, <3>8, <3>9, <3>10, <3>11 DEF strncmp!Next
  <2>2. pc = "mutual_align" => count \in 0 .. (N - 1)
    <3>1. src1 % N \in 0 .. (N - 1)
      BY <1>4, DivMod
    <3>. QED
      BY <1>4, <1>7, <3>1 DEF strncmp!PlaceInv
  <2>. QED
    BY <1>1, <1>2, <1>4, <1>6, <1>8, <1>9, <2>1, <2>2
<1>. QED
  BY <1>10, <1>11

-----------------------------------------------------------------------------
(* Every call of the three routines.                                       *)

\* Buffers of numbers, of any size and at any place; strings of any length, anywhere in a
\* memory of whole granules; for strncmp, any limit that is a size_t, of which in the
\* big-endian build 8 times is one too.
Valid(c) == /\ c.routine = "memcmp" => memcmp!ValidCall(c)
            /\ c.routine = "strcmp" => ValidStrings(c)
            /\ c.routine = "strncmp" => ValidStrings(c) /\ strncmp!ValidLimit(c)
ValidCalls == \A c \in Calls : Valid(c)

\* The invariant holds at a call.
LEMMA InitIInv ==
    ASSUME ValidCalls, Init
    PROVE  IInv
<1>1. CASE memcmp!Init /\ routine = "memcmp"
  <2>1. memcmp!ValidCall(call)
    BY <1>1 DEF ValidCalls, Valid, memcmp!Init, memcmp!Called, routine
  <2>. QED
    BY <1>1, <2>1, MemcmpInitIInv DEF IInv
<1>2. CASE strcmp!Init /\ routine = "strcmp"
  <2>1. ValidStrings(call)
    BY <1>2 DEF ValidCalls, Valid, strcmp!Init, strcmp!Called, routine
  <2>. QED
    BY <1>2, <2>1, StrcmpInit DEF IInv
<1>3. CASE strncmp!Init /\ routine = "strncmp"
  <2>1. ValidStrings(call) /\ strncmp!ValidLimit(call)
    BY <1>3 DEF ValidCalls, Valid, strncmp!Init, strncmp!Called, routine
  <2>. QED
    BY <1>3, <2>1, StrncmpInit DEF IInv
<1>. QED
  BY <1>1, <1>2, <1>3 DEF Init

\* What each step is of, and that it leaves the call alone.
LEMMA StepOf ==
    ASSUME IInv, Next
    PROVE  \/ routine = "memcmp" /\ routine' = "memcmp" /\ memcmp!IInv /\ memcmp!Next
              /\ memcmp!IInv'
           \/ routine = "strcmp" /\ routine' = "strcmp" /\ strcmp!IInv /\ strcmp!Next
              /\ strcmp!IInv'
           \/ routine = "strncmp" /\ routine' = "strncmp" /\ strncmp!IInv /\ strncmp!Next
              /\ strncmp!IInv'
<1>1. CASE MemcmpStep
  <2>1. routine = "memcmp" /\ memcmp!Next
    BY <1>1 DEF MemcmpStep
  <2>2. memcmp!IInv
    BY <2>1 DEF IInv
  <2>3. call' = call
    BY <2>1 DEF memcmp!Next, memcmp!Less16, memcmp!Less8, memcmp!Less4, memcmp!Entry16,
       memcmp!Loop32,
       memcmp!Loop32Second, memcmp!LastBytes, memcmp!LoopAlign, memcmp!Loop64, memcmp!Same64,
       memcmp!Different, memcmp!FromBothEnds
  <2>4. memcmp!IInv'
    BY <2>1, <2>2, MemcmpNextIInv
  <2>. QED
    BY <2>1, <2>2, <2>3, <2>4 DEF routine
<1>2. CASE Strcmp
  <2>1. routine = "strcmp" /\ strcmp!Next
    BY <1>2 DEF Strcmp
  <2>2. strcmp!IInv
    BY <2>1 DEF IInv
  <2>3. strcmp!IInv' /\ call' = call
    BY <2>1, <2>2, StrcmpInv, StrcmpGrows
  <2>. QED
    BY <2>1, <2>2, <2>3 DEF routine
<1>3. CASE Strncmp
  <2>1. routine = "strncmp" /\ strncmp!Next
    BY <1>3 DEF Strncmp
  <2>2. strncmp!IInv
    BY <2>1 DEF IInv
  <2>3. strncmp!IInv' /\ call' = call
    BY <2>1, <2>2, StrncmpInv, StrncmpGrows
  <2>. QED
    BY <2>1, <2>2, <2>3 DEF routine
<1>. QED
  BY <1>1, <1>2, <1>3 DEF Next

\* It is inductive.
LEMMA NextIInv ==
    ASSUME IInv, Next
    PROVE  IInv'
BY StepOf DEF IInv

LEMMA StutterIInv ==
    ASSUME IInv, UNCHANGED vars
    PROVE  IInv'
<1>1. routine' = routine
  BY DEF vars, routine
<1>2. ASSUME routine = "memcmp" PROVE memcmp!IInv'
  <2>1. UNCHANGED memcmp!vars
    BY DEF vars, memcmp!vars
  <2>. QED
    BY <1>2, <2>1, MemcmpNextIInv DEF IInv
<1>3. ASSUME routine = "strcmp" PROVE strcmp!IInv'
  <2>1. UNCHANGED strcmp!vars
    BY DEF vars, strcmp!vars
  <2>. QED
    BY <1>3, <2>1, StrcmpStutter DEF IInv
<1>4. ASSUME routine = "strncmp" PROVE strncmp!IInv'
  <2>1. UNCHANGED strncmp!vars
    BY DEF vars, strncmp!vars, strncmp!words, strncmp!ofSrc2
  <2>. QED
    BY <1>4, <2>1, StrncmpStutter DEF IInv
<1>. QED
  BY <1>1, <1>2, <1>3, <1>4 DEF IInv

\* At every label of memcmp, strcmp and strncmp the pointers and the limit, which is biased,
\* rewound or wrapped, are where they should be, what has been passed over is the same, the
\* words in the registers are those of the strings there, and the result has the sign of the
\* first difference: for every length, alignment, content, limit and in both byte orders.
THEOREM Invariance ==
    ASSUME ValidCalls
    PROVE  Spec => []IInv
<1>1. Init => IInv
  BY InitIInv
<1>2. IInv /\ [Next]_vars => IInv'
  BY NextIInv, StutterIInv
<1>. QED
  BY <1>1, <1>2, PTL DEF Spec

\* memcmp reads nothing outside its buffers, and strcmp and strncmp nothing outside the
\* tag granules of the bytes that they may read, though they load words that begin before
\* the strings and end after them, and the second string ahead of the first.
THEOREM ReadsOnlyArguments ==
    ASSUME ValidCalls
    PROVE  Spec => []Footprint
<1>1. IInv => Footprint
  BY DEF IInv, Footprint, memcmp!IInv, strcmp!IInv, strncmp!IInv
<1>. QED
  BY <1>1, Invariance, PTL

-----------------------------------------------------------------------------
(* The refinement of Search, but for its termination.                      *)

\* What has been passed over is at most what is to be, and the result is right.
PassedInv == /\ Within(Stop, Answer, Passed)
             /\ pc = "entry" => Passed = 0
             /\ pc = "ret" => Sign(result) = Answer
             /\ routine = "memcmp" => MemcmpPassedInv

Routines == {"memcmp", "strcmp", "strncmp"}

\* The three get no further than what decides,
LEMMA PassedIs ==
    ASSUME IInv, routine \in Routines
    PROVE  PassedInv
<1>1. CASE routine = "memcmp"
  <2>1. memcmp!IInv
    BY <1>1 DEF IInv
  <2>2. MemcmpPassedInv /\ memcmp!ResultRight
    BY <2>1, MemcmpPassedIs DEF memcmp!IInv
  <2>3. Stop = memcmp!Stop /\ Answer = memcmp!Answer /\ Passed = memcmp!Passed
    BY <1>1 DEF Stop, Answer, Passed
  <2>4. memcmp!Answer \in Nat
    BY DEF memcmp!Answer, memcmp!Order, memcmp!Sign
  <2>5. pc = "ret" => Sign(result) = memcmp!Answer
    BY <2>2 DEF memcmp!ResultRight, memcmp!Sign, Sign
  <2>. QED
    BY <1>1, <2>2, <2>3, <2>4, <2>5 DEF MemcmpPassedInv, PassedInv, Within
<1>2. CASE routine = "strcmp"
  <2>1. strcmp!IInv
    BY <1>2 DEF IInv
  <2>2. Stop = strcmp!Stop /\ Answer = strcmp!Answer /\ Passed = strcmp!Passed
    BY <1>2 DEF Stop, Answer, Passed
  <2>3. pc = "ret" => Sign(result) = strcmp!Answer
    BY <2>1, StrcmpNames DEF strcmp!IInv
  <2>. QED
    BY <1>2, <2>1, <2>2, <2>3, StrcmpWithin DEF PassedInv
<1>3. CASE routine = "strncmp"
  <2>1. strncmp!IInv
    BY <1>3 DEF IInv
  <2>2. Stop = strncmp!Stop /\ Answer = strncmp!Answer /\ Passed = strncmp!Passed
    BY <1>3 DEF Stop, Answer, Passed
  <2>3. pc = "ret" => Sign(result) = strncmp!Answer
    BY <2>1, StrncmpNames DEF strncmp!IInv
  <2>. QED
    BY <1>3, <2>1, <2>2, <2>3, StrncmpWithin DEF PassedInv
<1>. QED
  BY <1>1, <1>2, <1>3 DEF Routines

\* do not go back, and return once.
LEMMA PassedGrows ==
    ASSUME IInv, PassedInv, Next, PassedInv'
    PROVE  pc # "ret" /\ Stop' = Stop /\ Answer' = Answer /\ Passed' >= Passed
<1>1. CASE /\ routine = "memcmp" /\ routine' = "memcmp"
           /\ memcmp!IInv /\ memcmp!Next /\ memcmp!IInv'
  <2>1. /\ Stop = memcmp!Stop /\ Answer = memcmp!Answer /\ Passed = memcmp!Passed
        /\ Stop' = memcmp!Stop' /\ Answer' = memcmp!Answer' /\ Passed' = memcmp!Passed'
    BY <1>1 DEF Stop, Answer, Passed
  <2>2. MemcmpPassedInv /\ MemcmpPassedInv'
    BY <1>1 DEF PassedInv
  <2>. QED
    BY <1>1, <2>1, <2>2, MemcmpPassedGrows
<1>2. CASE /\ routine = "strcmp" /\ routine' = "strcmp"
           /\ strcmp!IInv /\ strcmp!Next /\ strcmp!IInv'
  <2>1. /\ Stop = strcmp!Stop /\ Answer = strcmp!Answer /\ Passed = strcmp!Passed
        /\ Stop' = strcmp!Stop' /\ Answer' = strcmp!Answer' /\ Passed' = strcmp!Passed'
    BY <1>2 DEF Stop, Answer, Passed
  <2>. QED
    BY <1>2, <2>1, StrcmpGrows
<1>3. CASE /\ routine = "strncmp" /\ routine' = "strncmp"
           /\ strncmp!IInv /\ strncmp!Next /\ strncmp!IInv'
  <2>1. /\ Stop = strncmp!Stop /\ Answer = strncmp!Answer /\ Passed = strncmp!Passed
        /\ Stop' = strncmp!Stop' /\ Answer' = strncmp!Answer' /\ Passed' = strncmp!Passed'
    BY <1>3 DEF Stop, Answer, Passed
  <2>. QED
    BY <1>3, <2>1, StrncmpGrows
<1>. QED
  BY <1>1, <1>2, <1>3, StepOf

\* A step is one of Search, or one that it does not see.
LEMMA NextSearches ==
    ASSUME IInv, PassedInv, Next, PassedInv'
    PROVE  [S!Next]_(S!vars)
<1>1. pc # "ret" /\ Stop' = Stop /\ Answer' = Answer /\ Passed' >= Passed
  BY PassedGrows
<1>2. /\ Passed \in Int /\ Passed' \in Int /\ Passed' <= Stop
      /\ pc' = "ret" => Sign(result') = Answer
  <2>1. pc' = "ret" => Sign(result)' = Answer'
    BY DEF PassedInv
  <2>. QED
    BY <1>1, <2>1 DEF PassedInv, Within, Sign
<1>3. CASE pc' = "ret"
  <2>1. S!Reply
    BY <1>1, <1>2, <1>3 DEF S!Reply, Sign
  <2>. QED
    BY <2>1 DEF S!Next
<1>4. CASE pc' # "ret" /\ Passed' > Passed
  <2>1. S!Look
    BY <1>1, <1>2, <1>4 DEF S!Look
  <2>. QED
    BY <2>1 DEF S!Next
<1>5. CASE pc' # "ret" /\ ~(Passed' > Passed)
  <2>1. Passed' = Passed
    BY <1>1, <1>2, <1>5
  <2>2. UNCHANGED S!vars
    BY <1>1, <1>5, <2>1 DEF S!vars
  <2>. QED
    BY <2>2
<1>. QED
  BY <1>3, <1>4, <1>5

LEMMA StutterSearches ==
    ASSUME UNCHANGED vars
    PROVE  UNCHANGED S!vars
<1>1. /\ call' = call /\ pc' = pc /\ src1' = src1 /\ src2' = src2 /\ result' = result
      /\ limit' = limit /\ tmp' = tmp /\ routine' = routine
  BY DEF vars, routine
<1>2. memcmp!Stop' = memcmp!Stop /\ memcmp!Answer' = memcmp!Answer /\ memcmp!Passed' = memcmp!Passed
  <2>1. memcmp!Stop' = memcmp!Stop /\ memcmp!Answer' = memcmp!Answer
    BY <1>1, MemcmpSameCall
  <2>. QED
    BY <1>1, <2>1 DEF memcmp!Passed, memcmp!Max
<1>3. strcmp!Stop' = strcmp!Stop /\ strcmp!Answer' = strcmp!Answer /\ strcmp!Passed' = strcmp!Passed
  <2>1. strcmp!Stop' = strcmp!Stop /\ strcmp!Answer' = strcmp!Answer
    BY <1>1, StrcmpSame
  <2>. QED
    BY <1>1, <2>1 DEF strcmp!Passed
<1>4. strncmp!Stop' = strncmp!Stop /\ strncmp!Answer' = strncmp!Answer
      /\ strncmp!Passed' = strncmp!Passed
  <2>1. strncmp!Stop' = strncmp!Stop /\ strncmp!Answer' = strncmp!Answer
        /\ strncmp!offset' = strncmp!offset /\ strncmp!N' = strncmp!N
    BY <1>1, StrncmpSame DEF strncmp!N
  <2>2. strncmp!neg_offset' = strncmp!neg_offset
    BY <2>1 DEF strncmp!neg_offset
  <2>. QED
    BY <1>1, <2>1, <2>2 DEF strncmp!Passed
<1>5. Stop' = Stop /\ Answer' = Answer /\ Passed' = Passed
  BY <1>1, <1>2, <1>3, <1>4 DEF Stop, Answer, Passed
<1>. QED
  BY <1>1, <1>5 DEF S!vars, Sign

\* Each of the three passes over no difference and no end, gets no further than the first
\* and returns once, with a result of its sign: every step looks at more bytes, replies, or
\* is one that Search does not see.  That it does return is left to the model checker.
THEOREM StepsSearch ==
    ASSUME ValidCalls
    PROVE  Spec => S!Init /\ [][S!Next]_(S!vars)
<1> DEFINE Inv == IInv /\ routine \in Routines
<1>1. Init => Inv
  BY InitIInv DEF Init, Routines
<1>2. Inv /\ [Next]_vars => Inv'
  <2>1. ASSUME Inv, Next PROVE Inv'
    BY <2>1, NextIInv, StepOf DEF Routines
  <2>2. ASSUME Inv, UNCHANGED vars PROVE Inv'
    <3>1. routine' = routine
      BY <2>2 DEF vars, routine
    <3>. QED
      BY <2>2, <3>1, StutterIInv
  <2>. QED
    BY <2>1, <2>2
<1>3. Inv => PassedInv
  BY PassedIs
<1>4. Init => S!Init
  <2>1. SUFFICES ASSUME Init PROVE S!Init
    OBVIOUS
  <2>2. pc = "entry"
    BY <2>1 DEF Init, memcmp!Init, memcmp!Called, strcmp!Init, strcmp!Called, strncmp!Init,
       strncmp!Called
  <2>3. PassedInv
    BY <2>1, <1>1, <1>3
  <2>. QED
    BY <2>2, <2>3 DEF S!Init, PassedInv, Within
<1>5. Inv /\ PassedInv /\ Inv' /\ PassedInv' /\ [Next]_vars => [S!Next]_(S!vars)
  <2>1. CASE Next
    BY <2>1, NextSearches
  <2>2. CASE UNCHANGED vars
    BY <2>2, StutterSearches
  <2>. QED
    BY <2>1, <2>2
<1> HIDE DEF Inv
<1>. QED
  BY <1>1, <1>2, <1>3, <1>4, <1>5, PTL DEF Spec

=============================================================================
