------------------------------ MODULE SimdProofs ------------------------------
(***************************************************************************)
(* What the instructions of Simd do with comparison results, for every     *)
(* size of the registers: the syndrome of a vector of data names the lanes *)
(* that match, and counting its zeros finds the first or the last.         *)
(***************************************************************************)
EXTENDS Simd, WellFoundedInduction, TLAPS

\* A set of natural numbers has a least one.
LEMMA LeastOf ==
    ASSUME NEW T, T \subseteq Nat, T # {}
    PROVE  \E i \in T : \A j \in T : i <= j
<1>1. PICK i \in T : \A j \in T : ~(<<j, i>> \in OpToRel(<, Nat))
  BY NatLessThanWellFounded, WFMin
<1>2. ASSUME NEW j \in T PROVE i <= j
  <2>1. i \in Nat /\ j \in Nat
    OBVIOUS
  <2>2. j < i => <<j, i>> \in OpToRel(<, Nat)
    BY <2>1 DEF OpToRel
  <2>3. ~(j < i)
    BY <1>1, <2>2
  <2>. QED
    BY <2>1, <2>3
<1>. QED
  BY <1>2

\* The least and the greatest element of a set of numbers are the only ones.
LEMMA MinIs ==
    ASSUME NEW T, T \subseteq Int, NEW x \in T, \A y \in T : x <= y
    PROVE  Min(T) = x
<1>1. \A z \in T : (\A y \in T : z <= y) => z = x
  <2>1. SUFFICES ASSUME NEW z \in T, \A y \in T : z <= y PROVE z = x
    OBVIOUS
  <2>2. z <= x /\ x <= z /\ z \in Int /\ x \in Int
    BY <2>1
  <2>. QED
    BY <2>2
<1>. QED
  BY <1>1 DEF Min

LEMMA MaxIs ==
    ASSUME NEW T, T \subseteq Int, NEW x \in T, \A y \in T : y <= x
    PROVE  Max(T) = x
<1>1. \A z \in T : (\A y \in T : z >= y) => z = x
  <2>1. SUFFICES ASSUME NEW z \in T, \A y \in T : z >= y PROVE z = x
    OBVIOUS
  <2>2. z >= x /\ x >= z /\ z \in Int /\ x \in Int
    BY <2>1
  <2>. QED
    BY <2>2
<1>2. \A y \in T : x >= y
  OBVIOUS
<1>. QED
  BY <1>1, <1>2 DEF Max

LEMMA MinExists ==
    ASSUME NEW T, T \subseteq Nat, T # {}
    PROVE  Min(T) \in T /\ \A y \in T : Min(T) <= y
<1>1. PICK x \in T : \A y \in T : x <= y
  BY LeastOf
<1>2. T \subseteq Int
  OBVIOUS
<1>3. Min(T) = x
  BY <1>1, <1>2, MinIs
<1>. QED
  BY <1>1, <1>3

LEMMA MaxExists ==
    ASSUME NEW n \in Int, NEW T, T \subseteq 0 .. n, T # {}
    PROVE  Max(T) \in T /\ \A y \in T : y <= Max(T)
<1> DEFINE R == {n - t : t \in T}
<1>1. R \subseteq Nat /\ R # {}
  <2>1. \A t \in T : n - t \in Nat
    OBVIOUS
  <2>. QED
    BY <2>1
<1>2. PICK r \in R : \A y \in R : r <= y
  BY <1>1, LeastOf
<1>3. PICK x \in T : r = n - x
  OBVIOUS
<1>4. ASSUME NEW y \in T PROVE y <= x
  <2>1. n - y \in R
    OBVIOUS
  <2>2. r <= n - y /\ x \in 0 .. n /\ y \in 0 .. n
    BY <1>2, <2>1
  <2>. QED
    BY <1>3, <2>2
<1>5. T \subseteq Int
  OBVIOUS
<1>6. Max(T) = x
  BY <1>4, <1>5, MaxIs
<1>. QED
  BY <1>4, <1>6

-----------------------------------------------------------------------------
\* Division with remainder, by a size that is not known.

LEMMA DivMod ==
    ASSUME NEW a \in Int, NEW n \in Nat, n > 0
    PROVE  a \div n \in Int /\ a % n \in 0 .. (n - 1) /\ a = n * (a \div n) + (a % n)
  BY SMT

LEMMA DivModIs ==
    ASSUME NEW n \in Nat, NEW a \in Int, NEW q \in Int, NEW r \in 0 .. (n - 1), a = n * q + r
    PROVE  a % n = r /\ a \div n = q
  BY SMT

LEMMA ModPlus ==
    ASSUME NEW a \in Int, NEW n \in Nat, n > 0
    PROVE  (a + n) % n = a % n /\ (a - n) % n = a % n
<1> DEFINE q == a \div n
           r == a % n
<1>1. q \in Int /\ r \in 0 .. (n - 1) /\ a = n * q + r
  BY DivMod
<1> HIDE DEF q, r
<1>2. a + n = n * (q + 1) + r /\ a - n = n * (q - 1) + r
  BY <1>1
<1>3. (a + n) % n = r /\ (a - n) % n = r
  <2>1. q + 1 \in Int /\ q - 1 \in Int /\ a + n \in Int /\ a - n \in Int
    BY <1>1
  <2>. QED
    BY <1>1, <1>2, <2>1, DivModIs
<1>. QED
  BY <1>3 DEF r

\* An even number of chunks follows the one that a byte at rem is in.
LEMMA EvenChunks ==
    ASSUME NEW n \in Nat, n > 0, NEW rem \in Nat, (rem \div n) % 2 = 0, rem >= n
    PROVE  rem - 2 * n >= 0 /\ ((rem - 2 * n) \div n) % 2 = 0
<1> DEFINE q == rem \div n
           r == rem % n
<1>1. q \in Int /\ r \in 0 .. (n - 1) /\ rem = n * q + r /\ q % 2 = 0
  BY DivMod
<1> HIDE DEF q, r
<1>2. q >= 2
  <2>1. CASE q <= 0
    <3>1. n * q <= 0
      BY <1>1, <2>1
    <3>. QED
      BY <1>1, <3>1
  <2>2. CASE q > 0
    BY <1>1, <2>2
  <2>. QED
    BY <1>1, <2>1, <2>2
<1>3. n * q = n * (q - 2) + 2 * n /\ n * (q - 2) >= 0
  BY <1>1, <1>2
<1>4. rem - 2 * n = n * (q - 2) + r /\ rem - 2 * n \in Int /\ q - 2 \in Int
  BY <1>1, <1>3
<1>5. (rem - 2 * n) \div n = q - 2
  BY <1>1, <1>4, DivModIs
<1>. QED
  BY <1>1, <1>3, <1>4, <1>5

LEMMA OddChunks ==
    ASSUME NEW n \in Nat, n > 0, NEW rem \in Nat, (rem \div n) % 2 # 0
    PROVE  rem - n >= 0 /\ ((rem - n) \div n) % 2 = 0
<1> DEFINE q == rem \div n
           r == rem % n
<1>1. q \in Int /\ r \in 0 .. (n - 1) /\ rem = n * q + r /\ q % 2 # 0
  BY DivMod
<1> HIDE DEF q, r
<1>2. q >= 1
  <2>1. CASE q < 0
    <3>1. n * q <= 0 - n
      BY <1>1, <2>1
    <3>. QED
      BY <1>1, <3>1
  <2>. QED
    BY <1>1, <2>1
<1>3. n * q = n * (q - 1) + n /\ n * (q - 1) >= 0
  BY <1>1, <1>2
<1>4. rem - n = n * (q - 1) + r /\ rem - n \in Int /\ q - 1 \in Int
  BY <1>1, <1>3
<1>5. (rem - n) \div n = q - 1
  BY <1>1, <1>4, DivModIs
<1>. QED
  BY <1>1, <1>3, <1>4, <1>5

LEMMA ModSmall ==
    ASSUME NEW n \in Nat, NEW a \in 0 .. (n - 1)
    PROVE  a % n = a
<1>1. a = n * 0 + a
  OBVIOUS
<1>. QED
  BY <1>1, DivModIs

\* A multiple is at the start of its chunk, and chunks do not overlap.
LEMMA Chunks ==
    ASSUME NEW n \in Nat, n > 0, NEW a \in Int, a % n = 0, NEW x \in Int, a <= x
    PROVE  a <= x - (x % n)
<1> DEFINE p == a \div n
           q == x \div n
           r == x % n
<1>1. p \in Int /\ a = n * p + 0
  BY DivMod
<1>2. q \in Int /\ r \in 0 .. (n - 1) /\ x = n * q + r
  BY DivMod
<1> HIDE DEF p, q, r
<1>3. p <= q
  <2>1. SUFFICES ASSUME p >= q + 1 PROVE FALSE
    BY <1>1, <1>2
  <2>2. n * p >= n * (q + 1)
    BY <1>1, <1>2, <2>1
  <2>3. n * (q + 1) = n * q + n
    BY <1>2
  <2>. QED
    BY <1>1, <1>2, <2>2, <2>3
<1>4. n * p <= n * q
  BY <1>1, <1>2, <1>3
<1>. QED
  BY <1>1, <1>2, <1>4 DEF r

LEMMA ModOfAligned ==
    ASSUME NEW n \in Nat, n > 0, NEW x \in Int
    PROVE  (x - (x % n)) % n = 0
<1>1. x - (x % n) = n * (x \div n) + 0 /\ x \div n \in Int /\ x - (x % n) \in Int
  BY DivMod
<1>. QED
  BY <1>1, DivModIs

\* A register's size in bits divides four times what the vector's size does.
LEMMA ModOfQuadruple ==
    ASSUME NEW a \in Int
    PROVE  (4 * a) % (4 * W) = 4 * (a % W)
<1> DEFINE q == a \div W
           r == a % W
<1>1. q \in Int /\ r \in 0 .. (W - 1) /\ a = W * q + r
  BY WAssumption, DivMod
<1> HIDE DEF q, r
<1>2. 4 * a = (4 * W) * q + 4 * r /\ 4 * r \in 0 .. (4 * W - 1) /\ 4 * a \in Int /\ 4 * W \in Nat
  BY <1>1, WAssumption
<1>3. (4 * a) % (4 * W) = 4 * r
  BY <1>1, <1>2, DivModIs
<1>. QED
  BY <1>3 DEF r

-----------------------------------------------------------------------------
\* The result of comparing the lanes of a vector, those of M being equal.
MaskOf(M) == [i \in Lanes |-> IF i \in M THEN AllOnes ELSE {}]

\* A syndrome: the lower two bits of the lanes of M, the upper two of those of P.
Pairs(M, P) == {k \in XBits : k \div 4 \in (IF k % 4 < 2 THEN M ELSE P)}

\* All four bits of the lanes of M.
Quads(M) == Pairs(M, M)

\* The lanes of v that have a byte of C.
Having(v, C) == {i \in Lanes : v[i] \in C}

LEMMA cmeqIs ==
    ASSUME NEW v, NEW c
    PROVE  cmeq(v, c) = MaskOf(Having(v, {c}))
  BY DEF cmeq, MaskOf, Having

LEMMA cmhsIs ==
    ASSUME NEW v, NEW c
    PROVE  cmhs(cmeq(v, c), v) = MaskOf(Having(v, {c, 0}))
<1>1. {} # AllOnes
  BY 0 \in 0 .. 7 DEF AllOnes
<1>2. \A i \in Lanes : cmhs(cmeq(v, c), v)[i] = MaskOf(Having(v, {c, 0}))[i]
  BY <1>1 DEF cmhs, cmeq, MaskOf, Having
<1>. QED
  BY <1>2 DEF cmhs, MaskOf

\* shrn: bit k of the syndrome, as a bit of lane k \div 4.
Bit(k) == (k % 4) + (IF (k \div 4) % 2 = 0 THEN 4 ELSE 0)
LEMMA shrnBit ==
    ASSUME NEW V, NEW k
    PROVE  k \in shrn(V) <=> k \in XBits /\ Bit(k) \in V[k \div 4]
<1> DEFINE low(i) == IF i % 2 = 0 THEN 4 ELSE 0
           bits(i) == V[i] \cap (IF i % 2 = 0 THEN 4 .. 7 ELSE 0 .. 3)
<1>1. ASSUME NEW i \in Lanes, NEW b \in bits(i), k = 4 * i + b - low(i)
      PROVE  k \in XBits /\ Bit(k) \in V[k \div 4]
  <2>1. i \in 0 .. (W - 1) /\ b \in low(i) .. (low(i) + 3)
    BY DEF Lanes
  <2>2. k \in XBits /\ k \div 4 = i /\ k % 4 = b - low(i)
    BY <1>1, <2>1, WAssumption DEF XBits
  <2>. QED
    BY <2>1, <2>2 DEF Bit
<1>2. ASSUME k \in XBits, Bit(k) \in V[k \div 4]
      PROVE  \E i \in Lanes : \E b \in bits(i) : k = 4 * i + b - low(i)
  <2> DEFINE i == k \div 4
  <2>1. k \in 0 .. (4 * W - 1)
    BY <1>2 DEF XBits
  <2>2. i \in Lanes /\ k % 4 \in 0 .. 3 /\ k = 4 * i + (k % 4)
    BY <2>1, WAssumption DEF Lanes
  <2>3. Bit(k) \in bits(i) /\ k = 4 * i + Bit(k) - low(i)
    BY <1>2, <2>2 DEF Bit
  <2>. QED
    BY <2>2, <2>3
<1>3. k \in shrn(V) <=> \E i \in Lanes : \E b \in bits(i) : k = 4 * i + b - low(i)
  BY DEF shrn
<1>. QED
  BY <1>1, <1>2, <1>3

LEMMA BitRange ==
    ASSUME NEW k \in XBits
    PROVE  Bit(k) \in AllOnes /\ k \div 4 \in Lanes /\ k % 4 \in 0 .. 3 /\ k = 4 * (k \div 4) + (k % 4)
<1>1. k \in 0 .. (4 * W - 1)
  BY DEF XBits
<1>. QED
  BY <1>1, WAssumption DEF Bit, AllOnes, Lanes

LEMMA shrnMask ==
    ASSUME NEW M
    PROVE  shrn(MaskOf(M)) = Quads(M)
<1>1. ASSUME NEW k \in XBits
      PROVE  Bit(k) \in MaskOf(M)[k \div 4] <=> k \div 4 \in M
  BY BitRange DEF MaskOf
<1>2. \A k : k \in shrn(MaskOf(M)) <=> k \in Quads(M)
  BY <1>1, shrnBit DEF Quads, Pairs
<1>. QED
  BY <1>2

LEMMA PairsEmpty ==
    ASSUME NEW M \in SUBSET Lanes, NEW P \in SUBSET Lanes
    PROVE  /\ Pairs(M, P) \in SUBSET XBits
           /\ Pairs(M, P) = {} <=> M \cup P = {}
<1>1. ASSUME NEW i \in M PROVE 4 * i + 0 \in Pairs(M, P)
  <2>1. i \in 0 .. (W - 1)
    BY DEF Lanes
  <2>2. 4 * i + 0 \in XBits /\ (4 * i + 0) \div 4 = i /\ (4 * i + 0) % 4 < 2
    BY <2>1, WAssumption DEF XBits
  <2>. QED
    BY <2>2 DEF Pairs
<1>2. ASSUME NEW i \in P PROVE 4 * i + 2 \in Pairs(M, P)
  <2>1. i \in 0 .. (W - 1)
    BY DEF Lanes
  <2>2. 4 * i + 2 \in XBits /\ (4 * i + 2) \div 4 = i /\ ~((4 * i + 2) % 4 < 2)
    BY <2>1, WAssumption DEF XBits
  <2>. QED
    BY <2>2 DEF Pairs
<1>. QED
  BY <1>1, <1>2 DEF Pairs

-----------------------------------------------------------------------------
\* General registers.

LEMMA lsrBit ==
    ASSUME NEW X \in SUBSET XBits, NEW a \in Int, NEW k \in Nat
    PROVE  k \in lsr(X, 4 * a) <=> k + 4 * (a % W) \in X
<1> DEFINE s == 4 * (a % W)
<1>1. (4 * a) % (4 * W) = s /\ s \in Nat
  BY ModOfQuadruple, DivMod, WAssumption
<1>2. X \subseteq Int
  BY DEF XBits
<1> HIDE DEF s
<1>3. lsr(X, 4 * a) = {j - s : j \in {l \in X : l >= s}}
  BY <1>1 DEF lsr
<1>4. k \in {j - s : j \in {l \in X : l >= s}} <=> k + s \in X
  <2>1. ASSUME NEW j \in X, j >= s, k = j - s PROVE k + s = j
    BY <1>1, <1>2, <2>1
  <2>2. (k + s) - s = k /\ k + s >= s
    BY <1>1
  <2>. QED
    BY <2>1, <2>2
<1>. QED
  BY <1>3, <1>4 DEF s

LEMMA lsrRange ==
    ASSUME NEW X \in SUBSET XBits, NEW a \in Int
    PROVE  lsr(X, 4 * a) \in SUBSET XBits
<1> DEFINE s == 4 * (a % W)
<1>1. (4 * a) % (4 * W) = s /\ s \in Nat
  BY ModOfQuadruple, DivMod, WAssumption
<1> HIDE DEF s
<1>2. ASSUME NEW j \in X, j >= s PROVE j - s \in XBits
  <2>1. j \in 0 .. (4 * W - 1)
    BY DEF XBits
  <2>. QED
    BY <1>1, <1>2, <2>1, WAssumption DEF XBits
<1>3. lsr(X, 4 * a) = {j - s : j \in {l \in X : l >= s}}
  BY <1>1 DEF lsr
<1>. QED
  BY <1>2, <1>3

\* Counting the zeros at the top finds the highest bit, and at the top of the
\* reverse the lowest.
LEMMA clzIs ==
    ASSUME NEW X \in SUBSET XBits, X # {}
    PROVE  /\ clz(X) \in XBits /\ (4 * W - 1) - clz(X) \in X
           /\ \A k \in X : k <= (4 * W - 1) - clz(X)
<1>1. X \subseteq 0 .. (4 * W - 1) /\ 4 * W - 1 \in Int
  BY WAssumption DEF XBits
<1>2. Max(X) \in X /\ \A k \in X : k <= Max(X)
  BY <1>1, MaxExists
<1>3. clz(X) = (4 * W - 1) - Max(X) /\ Max(X) \in 0 .. (4 * W - 1)
  BY <1>1, <1>2 DEF clz
<1>4. (4 * W - 1) - clz(X) = Max(X) /\ clz(X) \in XBits
  BY <1>3, WAssumption DEF XBits
<1>. QED
  BY <1>2, <1>4

LEMMA clzRbitIs ==
    ASSUME NEW X \in SUBSET XBits, X # {}
    PROVE  clz(rbit(X)) \in X /\ \A k \in X : clz(rbit(X)) <= k
<1> DEFINE R == rbit(X)
           c == clz(R)
<1>1. R \in SUBSET XBits
  <2>1. ASSUME NEW k \in X PROVE (4 * W - 1) - k \in XBits
    BY WAssumption DEF XBits
  <2>. QED
    BY <2>1 DEF rbit
<1>2. R # {}
  BY DEF rbit
<1> HIDE DEF R
<1>3. /\ c \in XBits /\ (4 * W - 1) - c \in R
      /\ \A k \in R : k <= (4 * W - 1) - c
  BY <1>1, <1>2, clzIs
<1> HIDE DEF c
<1>4. PICK x \in X : (4 * W - 1) - c = (4 * W - 1) - x
  BY <1>3 DEF R, rbit
<1>5. c = x
  BY <1>3, <1>4, WAssumption DEF XBits
<1>6. ASSUME NEW k \in X PROVE c <= k
  <2>1. (4 * W - 1) - k \in R
    BY DEF R, rbit
  <2>2. (4 * W - 1) - k <= (4 * W - 1) - c
    BY <1>3, <2>1
  <2>3. k \in 0 .. (4 * W - 1) /\ c \in 0 .. (4 * W - 1)
    BY <1>3 DEF XBits
  <2>. QED
    BY <2>2, <2>3, WAssumption
<1>. QED
  BY <1>5, <1>6 DEF c, R

-----------------------------------------------------------------------------
\* The first and the last lane of a syndrome, and which of its bits come first.

LEMMA PairsFirst ==
    ASSUME NEW M \in SUBSET Lanes, NEW P \in SUBSET Lanes, M \cup P # {},
           NEW f, f = clz(rbit(Pairs(M, P)))
    PROVE  /\ f \in XBits
           /\ f \div 4 \in M \cup P /\ \A i \in M \cup P : f \div 4 <= i
           /\ (f \div 2) % 2 = 0 <=> f \div 4 \in M
<1>1. f \in Pairs(M, P) /\ \A k \in Pairs(M, P) : f <= k
  BY PairsEmpty, clzRbitIs
<1>2. f \in 0 .. (4 * W - 1) /\ f \div 4 \in (IF f % 4 < 2 THEN M ELSE P)
  BY <1>1 DEF Pairs, XBits
<1>3. ASSUME NEW i \in M PROVE 4 * i + 0 \in Pairs(M, P) /\ i \in 0 .. (W - 1)
  <2>1. i \in 0 .. (W - 1)
    BY DEF Lanes
  <2>2. 4 * i + 0 \in XBits /\ (4 * i + 0) \div 4 = i /\ (4 * i + 0) % 4 < 2
    BY <2>1, WAssumption DEF XBits
  <2>. QED
    BY <2>1, <2>2 DEF Pairs
<1>4. ASSUME NEW i \in P PROVE 4 * i + 2 \in Pairs(M, P) /\ i \in 0 .. (W - 1)
  <2>1. i \in 0 .. (W - 1)
    BY DEF Lanes
  <2>2. 4 * i + 2 \in XBits /\ (4 * i + 2) \div 4 = i /\ ~((4 * i + 2) % 4 < 2)
    BY <2>1, WAssumption DEF XBits
  <2>. QED
    BY <2>1, <2>2 DEF Pairs
<1>5. ASSUME NEW i \in M \cup P PROVE f \div 4 <= i
  <2>1. i \in 0 .. (W - 1) /\ (f <= 4 * i + 0 \/ f <= 4 * i + 2)
    BY <1>1, <1>3, <1>4
  <2>. QED
    BY <1>2, <2>1
<1>6. f \div 4 \in M => (f \div 2) % 2 = 0
  <2>1. SUFFICES ASSUME f \div 4 \in M PROVE (f \div 2) % 2 = 0
    OBVIOUS
  <2>2. f <= 4 * (f \div 4) + 0
    BY <1>1, <1>3, <2>1
  <2>. QED
    BY <1>2, <2>2
<1>7. f \div 4 \notin M => ~((f \div 2) % 2 = 0)
  <2>1. SUFFICES ASSUME f \div 4 \notin M PROVE ~((f \div 2) % 2 = 0)
    OBVIOUS
  <2>2. ~(f % 4 < 2)
    BY <1>2, <2>1
  <2>. QED
    BY <1>2, <2>2
<1>. QED
  BY <1>2, <1>5, <1>6, <1>7 DEF XBits

LEMMA PairsLast ==
    ASSUME NEW M \in SUBSET Lanes, NEW P \in SUBSET Lanes, M \cup P # {},
           NEW f, f = clz(Pairs(M, P))
    PROVE  /\ f \in XBits
           /\ (W - 1) - (f \div 4) \in M \cup P /\ \A i \in M \cup P : f \div 4 <= (W - 1) - i
           /\ (f \div 2) % 2 = 0 <=> (W - 1) - (f \div 4) \in P
<1> DEFINE h == (4 * W - 1) - f
<1>1. f \in XBits /\ h \in Pairs(M, P) /\ \A k \in Pairs(M, P) : k <= h
  BY PairsEmpty, clzIs
<1>2. f \in 0 .. (4 * W - 1) /\ f = (4 * W - 1) - h
  BY <1>1, WAssumption DEF XBits
<1> HIDE DEF h
<1>3. h \in 0 .. (4 * W - 1) /\ h \div 4 \in (IF h % 4 < 2 THEN M ELSE P)
  BY <1>1 DEF Pairs, XBits
<1>4. (W - 1) - (f \div 4) = h \div 4
  BY <1>2, <1>3, WAssumption
<1>5. ASSUME NEW i \in M PROVE 4 * i + 1 \in Pairs(M, P) /\ i \in 0 .. (W - 1)
  <2>1. i \in 0 .. (W - 1)
    BY DEF Lanes
  <2>2. 4 * i + 1 \in XBits /\ (4 * i + 1) \div 4 = i /\ (4 * i + 1) % 4 < 2
    BY <2>1, WAssumption DEF XBits
  <2>. QED
    BY <2>1, <2>2 DEF Pairs
<1>6. ASSUME NEW i \in P PROVE 4 * i + 3 \in Pairs(M, P) /\ i \in 0 .. (W - 1)
  <2>1. i \in 0 .. (W - 1)
    BY DEF Lanes
  <2>2. 4 * i + 3 \in XBits /\ (4 * i + 3) \div 4 = i /\ ~((4 * i + 3) % 4 < 2)
    BY <2>1, WAssumption DEF XBits
  <2>. QED
    BY <2>1, <2>2 DEF Pairs
<1>7. ASSUME NEW i \in M \cup P PROVE f \div 4 <= (W - 1) - i
  <2>1. i \in 0 .. (W - 1) /\ (4 * i + 1 <= h \/ 4 * i + 3 <= h)
    BY <1>1, <1>5, <1>6
  <2>. QED
    BY <1>2, <1>3, <2>1, WAssumption
<1>8. h \div 4 \in P => (f \div 2) % 2 = 0
  <2>1. SUFFICES ASSUME h \div 4 \in P PROVE (f \div 2) % 2 = 0
    OBVIOUS
  <2>2. 4 * (h \div 4) + 3 <= h
    BY <1>1, <1>6, <2>1
  <2>. QED
    BY <1>2, <1>3, <2>2, WAssumption
<1>9. h \div 4 \notin P => ~((f \div 2) % 2 = 0)
  <2>1. SUFFICES ASSUME h \div 4 \notin P PROVE ~((f \div 2) % 2 = 0)
    OBVIOUS
  <2>2. h % 4 < 2
    BY <1>3, <2>1
  <2>. QED
    BY <1>2, <1>3, <2>2, WAssumption
<1>. QED
  BY <1>1, <1>3, <1>4, <1>7, <1>8, <1>9

\* A chunk loaded in ldr's order, its lanes and its bytes.
LaneOf(g, big) == IF big THEN (W - 1) - g ELSE g

LEMMA LaneOfIs ==
    ASSUME NEW big \in BOOLEAN, NEW g \in Lanes
    PROVE  LaneOf(g, big) \in Lanes /\ LaneOf(LaneOf(g, big), big) = g
  BY WAssumption DEF LaneOf, Lanes

LEMMA ldrqAt ==
    ASSUME NEW m, NEW a \in Int, NEW big \in BOOLEAN, NEW g \in Lanes
    PROVE  ldrq(m, a, big)[LaneOf(g, big)] = m[a + g]
<1>1. g \in 0 .. (W - 1) /\ LaneOf(g, big) \in Lanes
  BY LaneOfIs DEF Lanes
<1>2. CASE big
  <2>1. a + (W - 1) - LaneOf(g, big) = a + g
    BY <1>1, <1>2, WAssumption DEF LaneOf
  <2>. QED
    BY <1>1, <1>2, <2>1 DEF ldrq
<1>3. CASE ~big
  BY <1>1, <1>3 DEF ldrq, LaneOf
<1>. QED
  BY <1>2, <1>3

\* The chunk of memory m at a has no byte of C.
ChunkClean(m, a, C) == \A g \in Lanes : m[a + g] \notin C

LEMMA ldrqClean ==
    ASSUME NEW m, NEW a \in Int, NEW big \in BOOLEAN, NEW C
    PROVE  Having(ldrq(m, a, big), C) = {} <=> ChunkClean(m, a, C)
<1>1. ASSUME NEW i \in Lanes, ldrq(m, a, big)[i] \in C PROVE ~ChunkClean(m, a, C)
  <2>1. LaneOf(i, big) \in Lanes /\ LaneOf(LaneOf(i, big), big) = i
    BY LaneOfIs
  <2>2. ldrq(m, a, big)[i] = m[a + LaneOf(i, big)]
    BY <2>1, ldrqAt
  <2>. QED
    BY <1>1, <2>1, <2>2 DEF ChunkClean
<1>2. ASSUME NEW g \in Lanes, m[a + g] \in C PROVE Having(ldrq(m, a, big), C) # {}
  <2>1. LaneOf(g, big) \in Lanes
    BY LaneOfIs
  <2>2. ldrq(m, a, big)[LaneOf(g, big)] \in C
    BY <1>2, ldrqAt
  <2>. QED
    BY <2>1, <2>2 DEF Having
<1>. QED
  BY <1>1, <1>2 DEF Having, ChunkClean

\* The first byte of C of memory m from address a on is f bytes further.
Leads(m, a, f, C) == m[a + f] \in C /\ \A g \in 0 .. (f - 1) : m[a + g] \notin C

\* A syndrome's first bit, at f, is one of the first two of its byte's four just
\* if that is a byte of C.
IsOneOf(m, a, f, C) == (f \div 2) % 2 = 0 <=> m[a + (f \div 4)] \in C

\* The syndrome X, in either order, that has two bits of the bytes of C of the
\* chunk before two bits of the bytes of D, and the position of its first bit.
Ordered(v, C, D, big) == IF big THEN Pairs(Having(v, D), Having(v, C))
                         ELSE Pairs(Having(v, C), Having(v, D))

LEMMA ldrqFirst ==
    ASSUME NEW m, NEW a \in Int, NEW big \in BOOLEAN, NEW C, NEW D,
           ~ChunkClean(m, a, C \cup D),
           NEW X, X = Ordered(ldrq(m, a, big), C, D, big),
           NEW f, f = clz(IF big THEN X ELSE rbit(X))
    PROVE  /\ f \in XBits /\ f \div 4 \in Lanes
           /\ Leads(m, a, f \div 4, C \cup D)
           /\ IsOneOf(m, a, f, C)
<1> DEFINE v == ldrq(m, a, big)
           HC == Having(v, C)
           HD == Having(v, D)
           q == f \div 4
           l == LaneOf(q, big)
<1>1. HC \in SUBSET Lanes /\ HD \in SUBSET Lanes /\ HC \cup HD = Having(v, C \cup D)
  BY DEF Having
<1>2. HC \cup HD # {}
  BY <1>1, ldrqClean
<1> HIDE DEF v, HC, HD
<1>3. /\ f \in XBits
      /\ l \in HC \cup HD
      /\ \A i \in HC \cup HD : q <= LaneOf(i, big)
      /\ (f \div 2) % 2 = 0 <=> l \in HC
  <2>1. CASE big
    <3>1. X = Pairs(HD, HC) /\ f = clz(X) /\ HD \cup HC # {}
      BY <1>2, <2>1 DEF Ordered, HC, HD, v
    <3>. QED
      BY <1>1, <2>1, <3>1, PairsLast DEF LaneOf
  <2>2. CASE ~big
    <3>1. X = Pairs(HC, HD) /\ f = clz(rbit(X))
      BY <2>2 DEF Ordered, HC, HD, v
    <3>. QED
      BY <1>1, <1>2, <2>2, <3>1, PairsFirst DEF LaneOf
  <2>. QED
    BY <2>1, <2>2
<1>4. q \in Lanes
  BY <1>3, WAssumption DEF XBits, Lanes
<1>5. v[l] = m[a + q]
  BY <1>4, ldrqAt DEF v
<1> HIDE DEF l, q
<1>6. m[a + q] \in C \cup D /\ (l \in HC <=> m[a + q] \in C)
  <2>1. l \in Lanes
    BY <1>4, LaneOfIs DEF l
  <2>. QED
    BY <1>3, <1>5, <2>1 DEF HC, HD, Having
<1>7. ASSUME NEW g \in 0 .. (q - 1), m[a + g] \in C \cup D PROVE FALSE
  <2>1. g \in Lanes /\ g < q /\ q \in Int
    BY <1>4, WAssumption DEF Lanes
  <2>2. LaneOf(g, big) \in Lanes /\ LaneOf(LaneOf(g, big), big) = g
    BY <2>1, LaneOfIs
  <2>3. LaneOf(g, big) \in Having(v, C \cup D)
    BY <1>7, <2>1, <2>2, ldrqAt DEF Having, v
  <2>4. q <= g
    BY <1>1, <1>3, <2>2, <2>3 DEF HC, HD
  <2>. QED
    BY <2>1, <2>4
<1>. QED
  BY <1>3, <1>4, <1>6, <1>7 DEF q, Leads, IsOneOf

\* With all four bits of a byte alike.
LEMMA QuadsEmpty ==
    ASSUME NEW v, NEW C
    PROVE  Quads(Having(v, C)) = {} <=> Having(v, C) = {}
<1>1. Having(v, C) \in SUBSET Lanes
  BY DEF Having
<1>2. Having(v, C) \cup Having(v, C) = Having(v, C)
  OBVIOUS
<1>. QED
  BY <1>1, <1>2, PairsEmpty DEF Quads

LEMMA QuadsFirst ==
    ASSUME NEW m, NEW a \in Int, NEW big \in BOOLEAN, NEW C,
           ~ChunkClean(m, a, C),
           NEW X, X = Quads(Having(ldrq(m, a, big), C)),
           NEW f, f = clz(IF big THEN X ELSE rbit(X)) \div 4
    PROVE  f \in Lanes /\ Leads(m, a, f, C)
<1>1. X = Ordered(ldrq(m, a, big), C, C, big) /\ ~ChunkClean(m, a, C \cup C)
  BY DEF Ordered, Quads, ChunkClean
<1>. QED
  BY <1>1, ldrqFirst

-----------------------------------------------------------------------------
\* The first chunk: the lanes from r on, and then a shift right that drops the
\* bits of the bytes before the pointer.
Shifted(M, r) == {i \in Lanes : i + r \in M}

LEMMA lsrPairs ==
    ASSUME NEW M \in SUBSET Lanes, NEW P \in SUBSET Lanes, NEW p \in Int
    PROVE  lsr(Pairs(M, P), 4 * p) = Pairs(Shifted(M, p % W), Shifted(P, p % W))
<1> DEFINE r == p % W
           X == Pairs(M, P)
<1>1. r \in 0 .. (W - 1)
  BY WAssumption, DivMod
<1> HIDE DEF r
<1>2. X \in SUBSET XBits /\ lsr(X, 4 * p) \in SUBSET XBits
  BY PairsEmpty, lsrRange
<1>3. ASSUME NEW k \in XBits
      PROVE  k + 4 * r \in X <=> k \in Pairs(Shifted(M, r), Shifted(P, r))
  <2>1. k \in 0 .. (4 * W - 1)
    BY DEF XBits
  <2>2. (k + 4 * r) \div 4 = (k \div 4) + r /\ (k + 4 * r) % 4 = k % 4 /\ k \div 4 \in Lanes
    BY <1>1, <2>1, WAssumption DEF Lanes
  <2>3. (k \div 4) + r \in Lanes => k + 4 * r \in XBits
    BY <1>1, <2>1, WAssumption DEF Lanes, XBits
  <2>. QED
    BY <2>2, <2>3 DEF Pairs, Shifted
<1>4. ASSUME NEW k \in XBits
      PROVE  k \in lsr(X, 4 * p) <=> k + 4 * r \in X
  <2>1. k \in Nat
    BY DEF XBits
  <2>. QED
    BY <1>2, <2>1, lsrBit DEF r
<1> HIDE DEF X
<1>5. \A k \in XBits : k \in lsr(X, 4 * p) <=> k \in Pairs(Shifted(M, r), Shifted(P, r))
  BY <1>3, <1>4
<1>6. Pairs(Shifted(M, r), Shifted(P, r)) \subseteq XBits
  BY DEF Pairs
<1>7. lsr(X, 4 * p) = Pairs(Shifted(M, r), Shifted(P, r))
  BY <1>2, <1>5, <1>6
<1>. QED
  BY <1>7 DEF X, r

\* The bytes of memory m that the first chunk has from address p on.
HeadClean(m, p, C) == \A g \in 0 .. ((W - 1) - (p % W)) : m[p + g] \notin C

LEMMA ShiftedHaving ==
    ASSUME NEW m, NEW p \in Int, NEW C, NEW i
    PROVE  i \in Shifted(Having(ld1(m, p - (p % W)), C), p % W)
             <=> i \in 0 .. ((W - 1) - (p % W)) /\ m[p + i] \in C
<1> DEFINE r == p % W
           v == ld1(m, p - r)
<1>1. r \in 0 .. (W - 1)
  BY WAssumption, DivMod
<1> HIDE DEF r
<1>2. CASE i \in 0 .. ((W - 1) - r)
  <2>1. i \in Lanes /\ i + r \in Lanes /\ (p - r) + (i + r) = p + i
    BY <1>1, <1>2, WAssumption DEF Lanes
  <2>2. v[i + r] = m[p + i]
    BY <2>1 DEF ld1
  <2>. QED
    BY <1>2, <2>1, <2>2 DEF Shifted, Having, r
<1>3. CASE i \notin 0 .. ((W - 1) - r)
  <2>1. i \in Lanes => i + r \notin Lanes
    BY <1>1, <1>3, WAssumption DEF Lanes
  <2>. QED
    BY <1>3, <2>1 DEF Shifted, Having, r
<1>. QED
  BY <1>2, <1>3

LEMMA ld1Empty ==
    ASSUME NEW m, NEW p \in Int, NEW C, NEW D,
           NEW v, v = ld1(m, p - (p % W))
    PROVE  lsr(Pairs(Having(v, C), Having(v, D)), 4 * p) = {} <=> HeadClean(m, p, C \cup D)
<1> DEFINE r == p % W
           HC == Shifted(Having(v, C), r)
           HD == Shifted(Having(v, D), r)
<1>1. lsr(Pairs(Having(v, C), Having(v, D)), 4 * p) = Pairs(HC, HD)
  BY lsrPairs DEF Having
<1>2. HC \in SUBSET Lanes /\ HD \in SUBSET Lanes
  BY DEF Shifted
<1>3. \A i : /\ i \in HC <=> i \in 0 .. ((W - 1) - r) /\ m[p + i] \in C
             /\ i \in HD <=> i \in 0 .. ((W - 1) - r) /\ m[p + i] \in D
  BY ShiftedHaving
<1> HIDE DEF HC, HD, r
<1>4. Pairs(HC, HD) = {} <=> HC \cup HD = {}
  BY <1>2, PairsEmpty
<1>5. HC \cup HD = {} <=> \A g \in 0 .. ((W - 1) - r) : m[p + g] \notin C \cup D
  BY <1>3
<1>. QED
  BY <1>1, <1>4, <1>5 DEF HeadClean, r

LEMMA ld1First ==
    ASSUME NEW m, NEW p \in Int, NEW C, NEW D,
           NEW v, v = ld1(m, p - (p % W)),
           NEW X, X = lsr(Pairs(Having(v, C), Having(v, D)), 4 * p), X # {},
           NEW f, f = clz(rbit(X))
    PROVE  /\ f \in XBits /\ f \div 4 \in 0 .. ((W - 1) - (p % W))
           /\ Leads(m, p, f \div 4, C \cup D)
           /\ IsOneOf(m, p, f, C)
<1> DEFINE r == p % W
           HC == Shifted(Having(v, C), r)
           HD == Shifted(Having(v, D), r)
<1>1. X = Pairs(HC, HD)
  BY lsrPairs DEF Having
<1>2. HC \in SUBSET Lanes /\ HD \in SUBSET Lanes
  BY DEF Shifted
<1>3. \A i : /\ i \in HC <=> i \in 0 .. ((W - 1) - r) /\ m[p + i] \in C
             /\ i \in HD <=> i \in 0 .. ((W - 1) - r) /\ m[p + i] \in D
  BY ShiftedHaving
<1>4. r \in 0 .. (W - 1)
  BY WAssumption, DivMod
<1> HIDE DEF HC, HD, r
<1>5. HC \cup HD # {}
  BY <1>1, <1>2, PairsEmpty
<1>6. /\ f \in XBits /\ f \div 4 \in HC \cup HD /\ \A i \in HC \cup HD : f \div 4 <= i
      /\ (f \div 2) % 2 = 0 <=> f \div 4 \in HC
  BY <1>1, <1>2, <1>5, PairsFirst
<1>7. f \div 4 \in 0 .. ((W - 1) - r)
  BY <1>3, <1>6
<1>8. ASSUME NEW g \in 0 .. ((f \div 4) - 1), m[p + g] \in C \cup D PROVE FALSE
  <2>1. g \in 0 .. ((W - 1) - r) /\ g < f \div 4
    BY <1>4, <1>7, WAssumption
  <2>3. g \in HC \cup HD
    BY <1>3, <1>8, <2>1
  <2>2. f \div 4 <= g
    BY <1>6, <2>3
  <2>. QED
    BY <1>7, <2>1, <2>2
<1>. QED
  BY <1>3, <1>6, <1>7, <1>8 DEF r, Leads, IsOneOf

-----------------------------------------------------------------------------
\* The last chunk: a shift left that drops the bits of the bytes after the last.
Raised(M, r) == {i \in Lanes : i - r \in M}

LEMMA lslPairs ==
    ASSUME NEW M \in SUBSET Lanes, NEW P \in SUBSET Lanes, NEW p \in Int
    PROVE  lsl(Pairs(M, P), 4 * p) = Pairs(Raised(M, p % W), Raised(P, p % W))
<1> DEFINE r == p % W
           X == Pairs(M, P)
<1>1. r \in 0 .. (W - 1)
  BY WAssumption, DivMod
<1>2. (4 * p) % (4 * W) = 4 * r
  BY ModOfQuadruple
<1> HIDE DEF r
<1>3. lsl(X, 4 * p) = {j + 4 * r : j \in {l \in X : l + 4 * r \in XBits}}
  BY <1>2 DEF lsl
<1>4. ASSUME NEW j \in X, j + 4 * r \in XBits
      PROVE  j + 4 * r \in Pairs(Raised(M, r), Raised(P, r))
  <2>1. j \in 0 .. (4 * W - 1) /\ j + 4 * r \in 0 .. (4 * W - 1)
    BY <1>4 DEF XBits, Pairs
  <2>2. /\ (j + 4 * r) \div 4 = (j \div 4) + r /\ (j + 4 * r) % 4 = j % 4
        /\ (j \div 4) + r \in Lanes /\ ((j \div 4) + r) - r = j \div 4
    BY <1>1, <2>1, WAssumption DEF Lanes
  <2>. QED
    BY <1>4, <2>2 DEF Pairs, Raised
<1>5. ASSUME NEW k \in Pairs(Raised(M, r), Raised(P, r))
      PROVE  k - 4 * r \in X /\ (k - 4 * r) + 4 * r \in XBits /\ k = (k - 4 * r) + 4 * r
  <2>1. k \in 0 .. (4 * W - 1) /\ k \in XBits
    BY <1>5 DEF XBits, Pairs
  <2>2. (k \div 4) - r \in (IF k % 4 < 2 THEN M ELSE P)
    BY <1>5 DEF Pairs, Raised
  <2>3. (k \div 4) - r \in 0 .. (W - 1)
    BY <2>2 DEF Lanes
  <2>4. /\ (k - 4 * r) \div 4 = (k \div 4) - r /\ (k - 4 * r) % 4 = k % 4
        /\ k - 4 * r \in XBits /\ k = (k - 4 * r) + 4 * r
    BY <1>1, <2>1, <2>3, WAssumption DEF XBits
  <2>. QED
    BY <2>1, <2>2, <2>4 DEF Pairs
<1> HIDE DEF X
<1>6. lsl(X, 4 * p) = Pairs(Raised(M, r), Raised(P, r))
  BY <1>3, <1>4, <1>5
<1>. QED
  BY <1>6 DEF X, r

\* The bytes of memory m that the last chunk has up to address e.
TailClean(m, e, C) == \A g \in 0 .. (e % W) : m[e - g] \notin C

\* The k-th byte down from address a is the first, from there down, of C.
Trails(m, a, k, C) == m[a - k] \in C /\ \A g \in 0 .. (k - 1) : m[a - g] \notin C

LEMMA ld1Last ==
    ASSUME NEW m, NEW e \in Int, NEW C,
           NEW X, X = lsl(Quads(Having(ld1(m, e - (e % W)), C)), -(4 * (e + 1))),
           NEW k, k = clz(X) \div 4
    PROVE  /\ X = {} <=> TailClean(m, e, C)
           /\ X # {} => k \in 0 .. (e % W) /\ Trails(m, e, k, C)
<1> DEFINE t == e % W
           n == -(e + 1)
           r == n % W
           v == ld1(m, e - t)
           H == Raised(Having(v, C), r)
<1>1. t \in 0 .. (W - 1) /\ e = W * (e \div W) + t /\ e \div W \in Int
  BY WAssumption, DivMod
<1>2. r = (W - 1) - t
  <2>1. n = W * ((-(e \div W)) - 1) + ((W - 1) - t)
    BY <1>1, WAssumption
  <2>2. (W - 1) - t \in 0 .. (W - 1) /\ (-(e \div W)) - 1 \in Int /\ n \in Int
    BY <1>1, WAssumption
  <2> HIDE DEF n, t
  <2>. QED
    BY <2>1, <2>2, WAssumption, DivModIs
<1>3. X = Pairs(H, H)
  <2>1. -(4 * (e + 1)) = 4 * n /\ n \in Int
    OBVIOUS
  <2> HIDE DEF n
  <2>. QED
    BY <2>1, lslPairs DEF Having, Quads
<1>4. H \in SUBSET Lanes
  BY DEF Raised
<1> HIDE DEF r, t, n
<1>5. ASSUME NEW i \in Lanes
      PROVE  i \in H <=> (W - 1) - i \in 0 .. t /\ m[e - ((W - 1) - i)] \in C
  <2>1. i \in 0 .. (W - 1)
    BY DEF Lanes
  <2>2. CASE (W - 1) - i \in 0 .. t
    <3>1. i - r \in Lanes /\ (e - t) + (i - r) = e - ((W - 1) - i)
      BY <1>1, <1>2, <2>1, <2>2, WAssumption DEF Lanes
    <3>2. v[i - r] = m[e - ((W - 1) - i)]
      BY <3>1 DEF ld1
    <3>. QED
      BY <2>2, <3>1, <3>2 DEF Raised, Having
  <2>3. CASE (W - 1) - i \notin 0 .. t
    <3>1. i - r \notin Lanes
      BY <1>1, <1>2, <2>1, <2>3, WAssumption DEF Lanes
    <3>. QED
      BY <2>3, <3>1 DEF Raised, Having
  <2>. QED
    BY <2>2, <2>3
<1> HIDE DEF H
<1>6. X = {} <=> H = {}
  BY <1>3, <1>4, PairsEmpty
<1>7. ASSUME NEW g \in 0 .. t
      PROVE  (W - 1) - g \in H <=> m[e - g] \in C
  <2>1. (W - 1) - g \in Lanes /\ (W - 1) - ((W - 1) - g) = g
    BY <1>1, WAssumption DEF Lanes
  <2>. QED
    BY <1>5, <2>1
<1>8. H = {} <=> \A g \in 0 .. t : m[e - g] \notin C
  <2>1. ASSUME NEW i \in H PROVE \E g \in 0 .. t : m[e - g] \in C
    BY <1>4, <1>5
  <2>. QED
    BY <1>7, <2>1
<1>9. ASSUME X # {} PROVE k \in 0 .. t /\ Trails(m, e, k, C)
  <2>1. H \cup H # {} /\ H \cup H = H
    BY <1>6, <1>9
  <2>2. /\ clz(X) \in XBits /\ (W - 1) - (clz(X) \div 4) \in H \cup H
        /\ \A i \in H \cup H : clz(X) \div 4 <= (W - 1) - i
    BY <1>3, <1>4, <2>1, PairsLast
  <2>3. k \in Int
    BY <2>2 DEF XBits
  <2>4. (W - 1) - k \in H /\ \A i \in H : k <= (W - 1) - i
    BY <2>1, <2>2
  <2>5. (W - 1) - k \in Lanes /\ (W - 1) - ((W - 1) - k) = k
    BY <1>4, <2>3, <2>4, WAssumption
  <2>6. k \in 0 .. t /\ m[e - k] \in C
    BY <1>5, <2>4, <2>5
  <2>7. ASSUME NEW g \in 0 .. (k - 1), m[e - g] \in C PROVE FALSE
    <3>1. g \in 0 .. t /\ g < k /\ (W - 1) - ((W - 1) - g) = g
      BY <1>1, <2>6, WAssumption
    <3>2. (W - 1) - g \in H
      BY <1>7, <2>7, <3>1
    <3>. QED
      BY <2>4, <3>1, <3>2
  <2>. QED
    BY <2>6, <2>7 DEF Trails
<1>. QED
  BY <1>6, <1>8, <1>9 DEF TailClean, t

\* The last byte of C in a whole chunk.
LEMMA ldrqLast ==
    ASSUME NEW m, NEW a \in Int, NEW big \in BOOLEAN, NEW C,
           ~ChunkClean(m, a, C),
           NEW X, X = Quads(Having(ldrq(m, a, big), C)),
           NEW k, k = clz(IF big THEN rbit(X) ELSE X) \div 4
    PROVE  k \in Lanes /\ Trails(m, a + (W - 1), k, C)
<1> DEFINE H == Having(ldrq(m, a, big), C)
           g0 == (W - 1) - k
           l == LaneOf(g0, big)
<1>1. H \in SUBSET Lanes /\ H # {} /\ H \cup H = H
  BY ldrqClean DEF Having
<1>2. ASSUME NEW g \in Lanes PROVE LaneOf(g, big) \in H <=> m[a + g] \in C
  <2>1. LaneOf(g, big) \in Lanes
    BY LaneOfIs
  <2>. QED
    BY <2>1, ldrqAt DEF Having
<1>3. X = Pairs(H, H)
  BY DEF Quads
<1> HIDE DEF H
<1>4. /\ k \in Lanes /\ l \in H
      /\ \A i \in H : (W - 1) - LaneOf(i, big) >= k
  <2>1. CASE big
    <3>1. /\ clz(rbit(X)) \in XBits /\ clz(rbit(X)) \div 4 \in H \cup H
          /\ \A i \in H \cup H : clz(rbit(X)) \div 4 <= i
      BY <1>1, <1>3, PairsFirst
    <3>2. k \in H /\ \A i \in H : k <= i
      BY <1>1, <2>1, <3>1
    <3> HIDE DEF l
    <3>3. k \in Lanes /\ k \in Int
      BY <1>1, <3>2 DEF Lanes
    <3>4. l = k /\ \A i \in H : (W - 1) - LaneOf(i, big) = i
      <4>1. l = (W - 1) - ((W - 1) - k) /\ \A i \in H : LaneOf(i, big) = (W - 1) - i
        BY <2>1 DEF LaneOf, l
      <4>2. (W - 1) - ((W - 1) - k) = k
        BY <3>3, WAssumption
      <4>3. ASSUME NEW i \in H PROVE (W - 1) - ((W - 1) - i) = i
        BY <1>1, WAssumption DEF Lanes
      <4>. QED
        BY <4>1, <4>2, <4>3
    <3>. QED
      BY <3>2, <3>3, <3>4
  <2>2. CASE ~big
    <3>1. /\ clz(X) \in XBits /\ (W - 1) - (clz(X) \div 4) \in H \cup H
          /\ \A i \in H \cup H : clz(X) \div 4 <= (W - 1) - i
      BY <1>1, <1>3, PairsLast
    <3>2. (W - 1) - k \in H /\ \A i \in H : k <= (W - 1) - i
      BY <1>1, <2>2, <3>1
    <3>3. k \in Int
      BY <2>2, <3>1 DEF XBits
    <3> HIDE DEF l
    <3>4. k \in Lanes
      BY <1>1, <3>2, <3>3, WAssumption DEF Lanes
    <3>5. l = (W - 1) - k /\ \A i \in H : LaneOf(i, big) = i
      BY <2>2 DEF LaneOf, l
    <3>6. \A i \in H : (W - 1) - i \in Int
      BY <1>1, WAssumption DEF Lanes
    <3>. QED
      BY <3>2, <3>3, <3>4, <3>5, <3>6
  <2>. QED
    BY <2>1, <2>2
<1> HIDE DEF l
<1>5. g0 \in Lanes /\ a + g0 = (a + (W - 1)) - k
  BY <1>4, WAssumption DEF Lanes
<1>6. m[(a + (W - 1)) - k] \in C
  BY <1>2, <1>4, <1>5 DEF l
<1>7. ASSUME NEW g \in 0 .. (k - 1), m[(a + (W - 1)) - g] \in C PROVE FALSE
  <2> DEFINE h == (W - 1) - g
  <2>1. h \in Lanes /\ a + h = (a + (W - 1)) - g /\ (W - 1) - h = g /\ g < k
    BY <1>4, WAssumption DEF Lanes
  <2> HIDE DEF h
  <2>2. LaneOf(h, big) \in H /\ LaneOf(LaneOf(h, big), big) = h
    BY <1>2, <1>7, <2>1, LaneOfIs
  <2>3. (W - 1) - h >= k
    BY <1>4, <2>2
  <2>. QED
    BY <1>4, <2>1, <2>3 DEF Lanes
<1>. QED
  BY <1>4, <1>6, <1>7 DEF Trails

-----------------------------------------------------------------------------
\* A vector reduced to its low half: are there any bits?

LEMMA HalfLane ==
    ASSUME NEW i \in 0 .. (W \div 2 - 1)
    PROVE  2 * i \in Lanes /\ 2 * i + 1 \in Lanes /\ i \in Lanes /\ (2 * i) % W = 2 * i /\ 2 * i < W
<1>1. 2 * i \in 0 .. (W - 1) /\ 2 * i + 1 \in 0 .. (W - 1) /\ i \in 0 .. (W - 1)
  BY WAssumption
<1>. QED
  BY <1>1, WAssumption, ModSmall DEF Lanes

LEMMA LargerByteEmpty ==
    ASSUME NEW A \in SUBSET AllOnes, NEW B \in SUBSET AllOnes
    PROVE  LargerByte(A, B) = {} <=> A = {} /\ B = {}
<1>1. CASE A = {}
  <2>1. ASSUME B # {} PROVE Max(SymmetricDiff(A, B)) \notin A
    BY <1>1
  <2>. QED
    BY <1>1, <2>1 DEF LargerByte
<1>2. CASE A # {} /\ B = {}
  <2>1. SymmetricDiff(A, B) = A
    BY <1>2 DEF SymmetricDiff
  <2>2. Max(A) \in A
    <3>1. 7 \in Int /\ A \subseteq 0 .. 7
      BY DEF AllOnes
    <3>. QED
      BY <1>2, <3>1, MaxExists
  <2>. QED
    BY <1>2, <2>1, <2>2 DEF LargerByte
<1>3. CASE A # {} /\ B # {}
  BY <1>3 DEF LargerByte
<1>. QED
  BY <1>1, <1>2, <1>3

LEMMA umaxpEmpty ==
    ASSUME NEW V, \A i \in Lanes : V[i] \in SUBSET AllOnes
    PROVE  fmov(umaxp(V, V)) = {} <=> \A i \in Lanes : V[i] = {}
<1> DEFINE u == umaxp(V, V)
<1>1. ASSUME NEW i \in 0 .. (W \div 2 - 1)
      PROVE  u[i] = LargerByte(V[2 * i], V[2 * i + 1])
  BY HalfLane DEF umaxp, Pairwise
<1>2. ASSUME NEW i \in 0 .. (W \div 2 - 1)
      PROVE  u[i] = {} <=> V[2 * i] = {} /\ V[2 * i + 1] = {}
  BY <1>1, HalfLane, LargerByteEmpty
<1> HIDE DEF u
<1>3. fmov(u) = {} <=> \A i \in 0 .. (W \div 2 - 1) : u[i] = {}
  <2> DEFINE of(i) == {8 * i + b : b \in u[i]}
  <2>1. \A i \in 0 .. (W \div 2 - 1) : of(i) = {} <=> u[i] = {}
    OBVIOUS
  <2>2. fmov(u) = UNION {of(i) : i \in 0 .. (W \div 2 - 1)}
    BY DEF fmov
  <2> HIDE DEF of
  <2>. QED
    BY <2>1, <2>2
<1>4. ASSUME NEW l \in Lanes
      PROVE  l \div 2 \in 0 .. (W \div 2 - 1) /\ (l = 2 * (l \div 2) \/ l = 2 * (l \div 2) + 1)
  BY WAssumption DEF Lanes
<1>5. (\A i \in 0 .. (W \div 2 - 1) : u[i] = {}) <=> \A l \in Lanes : V[l] = {}
  BY <1>2, <1>4, HalfLane
<1>. QED
  BY <1>3, <1>5 DEF u

\* As the loops use it: does a chunk have a byte of C?
LEMMA FoundMask ==
    ASSUME NEW M \in SUBSET Lanes
    PROVE  fmov(umaxp(MaskOf(M), MaskOf(M))) = {} <=> M = {}
<1>1. {} # AllOnes
  BY 0 \in 0 .. 7 DEF AllOnes
<1>2. \A i \in Lanes : MaskOf(M)[i] \in SUBSET AllOnes /\ (MaskOf(M)[i] = {} <=> i \notin M)
  BY <1>1 DEF MaskOf
<1>. QED
  BY <1>2, umaxpEmpty

\* strlen's narrower syndrome: bit 4i of an even lane i, and those from 4i - 3 to
\* 4i + 3 of an odd one.
Narrow(M) == {k \in XBits : IF k % 8 = 0 THEN k \div 4 \in M ELSE 2 * (k \div 8) + 1 \in M}

LEMMA addhnMask ==
    ASSUME NEW M \in SUBSET Lanes
    PROVE  addhn(MaskOf(M)) = Narrow(M)
<1> DEFINE bits(i) == IF i % 2 = 0 THEN {4 * i : b \in MaskOf(M)[i] \cap {7}}
                      ELSE {4 * (i - 1) + 1 + b : b \in MaskOf(M)[i] \cap 0 .. 6}
<1>1. ASSUME NEW i \in Lanes, NEW k
      PROVE  k \in bits(i) <=> i \in M /\ k \in (IF i % 2 = 0 THEN {4 * i} ELSE (4 * i - 3) .. (4 * i + 3))
  <2>1. i \in 0 .. (W - 1) /\ MaskOf(M)[i] = (IF i \in M THEN 0 .. 7 ELSE {})
    BY DEF Lanes, MaskOf, AllOnes
  <2>2. CASE i % 2 = 0
    <3>1. 7 \in 0 .. 7
      OBVIOUS
    <3>. QED
      BY <2>1, <2>2, <3>1
  <2>3. CASE i % 2 # 0 /\ i \in M
    <3>1. bits(i) = {4 * (i - 1) + 1 + b : b \in 0 .. 6}
      <4>1. (0 .. 7) \cap (0 .. 6) = 0 .. 6
        OBVIOUS
      <4>. QED
        BY <2>1, <2>3, <4>1
    <3>2. k \in (4 * i - 3) .. (4 * i + 3) => k - (4 * (i - 1) + 1) \in 0 .. 6
      BY <2>1
    <3>. QED
      BY <2>1, <2>3, <3>1, <3>2
  <2>4. CASE i % 2 # 0 /\ i \notin M
    BY <2>1, <2>4
  <2>. QED
    BY <2>2, <2>3, <2>4
<1>2. \A k : k \in addhn(MaskOf(M)) <=> \E i \in Lanes : k \in bits(i)
  BY DEF addhn
<1> HIDE DEF bits
<1>3. ASSUME NEW k PROVE (\E i \in Lanes : k \in bits(i)) <=> k \in Narrow(M)
  <2>1. ASSUME NEW i \in Lanes, k \in bits(i) PROVE k \in Narrow(M)
    <3>1. i \in 0 .. (W - 1) /\ i \in M
      BY <1>1, <2>1 DEF Lanes
    <3>2. CASE i % 2 = 0
      <4>1. k = 4 * i
        BY <1>1, <2>1, <3>2
      <4>2. k \in XBits /\ k % 8 = 0 /\ k \div 4 = i
        BY <3>1, <3>2, <4>1, WAssumption DEF XBits
      <4>. QED
        BY <3>1, <4>2 DEF Narrow
    <3>3. CASE i % 2 # 0
      <4>1. k \in (4 * i - 3) .. (4 * i + 3)
        BY <1>1, <2>1, <3>3
      <4>2. k \in XBits /\ k % 8 # 0 /\ 2 * (k \div 8) + 1 = i
        BY <3>1, <3>3, <4>1, WAssumption DEF XBits
      <4>. QED
        BY <3>1, <4>2 DEF Narrow
    <3>. QED
      BY <3>2, <3>3
  <2>2. ASSUME k \in Narrow(M) PROVE \E i \in Lanes : k \in bits(i)
    <3>1. k \in 0 .. (4 * W - 1) /\ (IF k % 8 = 0 THEN k \div 4 \in M ELSE 2 * (k \div 8) + 1 \in M)
      BY <2>2 DEF Narrow, XBits
    <3>2. CASE k % 8 = 0
      <4>1. k \div 4 \in M /\ (k \div 4) % 2 = 0 /\ k = 4 * (k \div 4)
        BY <3>1, <3>2
      <4>. QED
        BY <1>1, <4>1
    <3>3. CASE k % 8 # 0
      <4> DEFINE i == 2 * (k \div 8) + 1
      <4>1. i \in M /\ i % 2 # 0 /\ k \in (4 * i - 3) .. (4 * i + 3)
        BY <3>1, <3>3
      <4> HIDE DEF i
      <4>. QED
        BY <1>1, <4>1
    <3>. QED
      BY <3>2, <3>3
  <2>. QED
    BY <2>1, <2>2
<1>. QED
  BY <1>2, <1>3

LEMMA NarrowEmpty ==
    ASSUME NEW M \in SUBSET Lanes
    PROVE  Narrow(M) \in SUBSET XBits /\ (Narrow(M) = {} <=> M = {})
<1>1. ASSUME NEW i \in M PROVE Narrow(M) # {}
  <2>1. i \in 0 .. (W - 1)
    BY DEF Lanes
  <2>2. CASE i % 2 = 0
    <3>1. 4 * i \in XBits /\ (4 * i) % 8 = 0 /\ (4 * i) \div 4 = i
      BY <2>1, <2>2, WAssumption DEF XBits
    <3>2. 4 * i \in Narrow(M)
      BY <3>1 DEF Narrow
    <3>. QED
      BY <3>2
  <2>3. CASE i % 2 # 0
    <3>1. 4 * i \in XBits /\ (4 * i) % 8 # 0 /\ 2 * ((4 * i) \div 8) + 1 = i
      BY <2>1, <2>3, WAssumption DEF XBits
    <3>2. 4 * i \in Narrow(M)
      BY <3>1 DEF Narrow
    <3>. QED
      BY <3>2
  <2>. QED
    BY <2>2, <2>3
<1>. QED
  BY <1>1 DEF Narrow

LEMMA NarrowFirst ==
    ASSUME NEW m, NEW a \in Int, NEW big \in BOOLEAN, NEW C,
           ~ChunkClean(m, a, C),
           NEW X, X = Narrow(Having(ldrq(m, a, big), C)),
           NEW f, f = (clz(IF big THEN X ELSE rbit(X)) + (IF big THEN 0 ELSE 3)) \div 4
    PROVE  f \in Lanes /\ Leads(m, a, f, C)
<1> DEFINE v == ldrq(m, a, big)
           M == Having(v, C)
           c == clz(IF big THEN X ELSE rbit(X))
           l == LaneOf(f, big)
<1>1. M \in SUBSET Lanes /\ M # {}
  BY ldrqClean DEF Having
<1>2. X \in SUBSET XBits
  BY DEF Narrow
<1>3. ASSUME NEW i \in M
      PROVE  LET lo == IF i % 2 = 0 THEN 4 * i ELSE 4 * i - 3
                 hi == IF i % 2 = 0 THEN 4 * i ELSE 4 * i + 3
             IN  lo \in X /\ hi \in X /\ i \in 0 .. (W - 1)
  <2>1. i \in 0 .. (W - 1)
    BY <1>1, <1>3 DEF Lanes
  <2>2. CASE i % 2 = 0
    <3>1. 4 * i \in XBits /\ (4 * i) % 8 = 0 /\ (4 * i) \div 4 = i
      BY <2>1, <2>2, WAssumption DEF XBits
    <3>. QED
      BY <1>3, <2>1, <2>2, <3>1 DEF Narrow
  <2>3. CASE i % 2 # 0
    <3>1. /\ 4 * i - 3 \in XBits /\ (4 * i - 3) % 8 # 0 /\ 2 * ((4 * i - 3) \div 8) + 1 = i
          /\ 4 * i + 3 \in XBits /\ (4 * i + 3) % 8 # 0 /\ 2 * ((4 * i + 3) \div 8) + 1 = i
      BY <2>1, <2>3, WAssumption DEF XBits
    <3>. QED
      BY <1>3, <2>1, <2>3, <3>1 DEF Narrow
  <2>. QED
    BY <2>2, <2>3
<1>4. X # {}
  BY <1>1, <1>3
<1>5. ASSUME NEW k \in X
      PROVE  /\ k \in 0 .. (4 * W - 1)
             /\ IF k % 8 = 0 THEN k \div 4 \in M ELSE 2 * (k \div 8) + 1 \in M
  BY <1>2 DEF Narrow, XBits
<1> HIDE DEF v, M
<1>6. f \in Lanes /\ l \in M /\ \A i \in M : f <= LaneOf(i, big)
  <2>1. CASE big
    <3> DEFINE h == (4 * W - 1) - c
    <3>1. c \in XBits /\ h \in X /\ \A k \in X : k <= h
      BY <1>2, <1>4, <2>1, clzIs
    <3>2. c \in 0 .. (4 * W - 1) /\ f = (c + 0) \div 4
      BY <2>1, <3>1 DEF XBits
    <3>8. c = (4 * W - 1) - h
      BY <3>2, WAssumption
    <3> HIDE DEF c, h
    <3>3. h \in 0 .. (4 * W - 1) /\ IF h % 8 = 0 THEN h \div 4 \in M ELSE 2 * (h \div 8) + 1 \in M
      BY <1>5, <3>1
    <3>9. l = (W - 1) - f
      BY <2>1 DEF LaneOf
    <3>4. f \in 0 .. (W - 1) /\ f = c \div 4
      BY <3>2, WAssumption
    <3>5. l = h \div 4 /\ l \in 0 .. (W - 1)
      BY <3>3, <3>4, <3>8, <3>9, WAssumption
    <3> HIDE DEF l
    <3>6. ASSUME NEW i \in M PROVE f <= LaneOf(i, big) /\ i <= l
      <4>1. (IF i % 2 = 0 THEN 4 * i ELSE 4 * i + 3) <= h /\ i \in 0 .. (W - 1)
        BY <1>3, <3>1
      <4>2. i <= l
        BY <3>3, <3>5, <4>1
      <4>3. LaneOf(i, big) = (W - 1) - i
        BY <2>1 DEF LaneOf
      <4>4. f <= (W - 1) - i
        BY <3>4, <3>9, <4>1, <4>2, WAssumption
      <4>. QED
        BY <4>2, <4>3, <4>4
    <3>7. l \in M
      <4>1. CASE h % 8 = 0
        BY <3>3, <3>5, <4>1
      <4>2. CASE h % 8 # 0
        <5>1. 2 * (h \div 8) + 1 \in M
          BY <3>3, <4>2
        <5>2. 2 * (h \div 8) + 1 <= l
          BY <3>6, <5>1
        <5>3. l = 2 * (h \div 8) + 1
          BY <3>3, <3>5, <5>2
        <5>. QED
          BY <5>1, <5>3
      <4>. QED
        BY <4>1, <4>2
    <3>. QED
      BY <3>4, <3>6, <3>7 DEF Lanes
  <2>2. CASE ~big
    <3>1. c \in X /\ \A k \in X : c <= k
      BY <1>2, <1>4, <2>2, clzRbitIs
    <3>2. f = (c + 3) \div 4
      BY <2>2
    <3> HIDE DEF c
    <3>3. c \in 0 .. (4 * W - 1) /\ IF c % 8 = 0 THEN c \div 4 \in M ELSE 2 * (c \div 8) + 1 \in M
      BY <1>5, <3>1
    <3>4. CASE c % 8 = 0
      <4>1. c \div 4 \in M /\ f = c \div 4
        BY <3>2, <3>3, <3>4
      <4>2. ASSUME NEW i \in M PROVE f <= i
        <5>1. c <= (IF i % 2 = 0 THEN 4 * i ELSE 4 * i - 3) /\ i \in 0 .. (W - 1)
          BY <1>3, <3>1
        <5>. QED
          BY <3>3, <3>4, <4>1, <5>1
      <4>. QED
        BY <1>1, <2>2, <4>1, <4>2 DEF LaneOf
    <3>5. CASE c % 8 # 0
      <4> DEFINE i == 2 * (c \div 8) + 1
      <4>1. i \in M /\ i % 2 # 0
        BY <3>3, <3>5
      <4>2. c <= 4 * i - 3
        BY <1>3, <3>1, <4>1
      <4>3. c = 4 * i - 3 /\ f = i
        BY <3>2, <3>3, <3>5, <4>2
      <4> HIDE DEF i
      <4>4. ASSUME NEW j \in M PROVE f <= j
        <5>1. c <= (IF j % 2 = 0 THEN 4 * j ELSE 4 * j - 3) /\ j \in 0 .. (W - 1) /\ i \in 0 .. (W - 1)
          BY <1>3, <3>1, <4>1
        <5>. QED
          BY <4>1, <4>3, <5>1
      <4>. QED
        BY <1>1, <2>2, <4>1, <4>3, <4>4 DEF LaneOf
    <3>. QED
      BY <3>4, <3>5
  <2>. QED
    BY <2>1, <2>2
<1> HIDE DEF l
<1>7. m[a + f] \in C
  BY <1>6, ldrqAt DEF M, Having, v, l
<1>8. ASSUME NEW g \in 0 .. (f - 1), m[a + g] \in C PROVE FALSE
  <2>1. g \in Lanes /\ g < f
    BY <1>6, WAssumption DEF Lanes
  <2>2. LaneOf(g, big) \in M /\ LaneOf(LaneOf(g, big), big) = g
    BY <1>8, <2>1, LaneOfIs, ldrqAt DEF M, Having, v
  <2>. QED
    BY <1>6, <2>1, <2>2 DEF Lanes
<1>. QED
  BY <1>6, <1>7, <1>8 DEF Leads

-----------------------------------------------------------------------------
\* The syndromes of strrchr's second loop, which shares a lane's byte of the
\* result between two lanes of the data.

LEMMA fmovBit ==
    ASSUME NEW U, \A i \in 0 .. (W \div 2 - 1) : U[i] \in SUBSET AllOnes, NEW k
    PROVE  k \in fmov(U) <=> k \in XBits /\ k % 8 \in U[k \div 8]
<1>1. k \in fmov(U) <=> \E i \in 0 .. (W \div 2 - 1) : \E b \in U[i] : k = 8 * i + b
  BY DEF fmov
<1>2. ASSUME NEW i \in 0 .. (W \div 2 - 1), NEW b \in U[i], k = 8 * i + b
      PROVE  k \in XBits /\ k % 8 \in U[k \div 8]
  <2>1. b \in 0 .. 7
    BY DEF AllOnes
  <2>2. k \in XBits /\ k \div 8 = i /\ k % 8 = b
    BY <1>2, <2>1, WAssumption DEF XBits
  <2>. QED
    BY <2>2
<1>3. ASSUME k \in XBits
      PROVE  k \div 8 \in 0 .. (W \div 2 - 1) /\ k = 8 * (k \div 8) + (k % 8)
  <2>1. k \in 0 .. (4 * W - 1)
    BY <1>3 DEF XBits
  <2>. QED
    BY <2>1, WAssumption
<1>. QED
  BY <1>1, <1>2, <1>3

\* The larger of two bytes has the highest bit that only one of them has.
LEMMA LargerByteIs ==
    ASSUME NEW A \in SUBSET AllOnes, NEW B \in SUBSET AllOnes, NEW t \in A \cup B,
           t \notin A \cap B, \A y \in A \cup B : y <= t
    PROVE  LargerByte(A, B) = IF t \in A THEN A ELSE B
<1> DEFINE D == SymmetricDiff(A, B)
<1>1. D \subseteq Int /\ t \in D /\ \A y \in D : y <= t
  BY DEF SymmetricDiff, AllOnes
<1>2. Max(D) = t
  BY <1>1, MaxIs
<1>3. A # B
  OBVIOUS
<1>. QED
  BY <1>2, <1>3 DEF LargerByte

\* The lanes of the data: where M, the mask, and where P, the rest of the byte.
KeptLane(i, M, P) ==
    LET mask == IF i % 2 = 0 THEN {0, 1} ELSE {0, 1, 4, 5}
    IN  (IF i \in M THEN mask ELSE {}) \cup (IF i \in P THEN AllOnes \ mask ELSE {})

\* An odd lane's bits stand for the even one before it as well.
Smear(M) == {i \in Lanes : i \in M \/ (i % 2 = 0 /\ i + 1 \in M)}

\* The larger byte Y of lanes 2i and 2i + 1.
LargerKept(i, M, P, Y) ==
    /\ Y \in SUBSET AllOnes
    /\ 2 * i \in P \/ 2 * i + 1 \in P => 7 \in Y
    /\ 2 * i \notin P /\ 2 * i + 1 \notin P =>
          Y = IF 2 * i + 1 \in M THEN {0, 1, 4, 5} ELSE IF 2 * i \in M THEN {0, 1} ELSE {}

LEMMA KeptByte ==
    ASSUME NEW i \in Nat, NEW M, NEW P,
           NEW A, A = KeptLane(2 * i, M, P), NEW B, B = KeptLane(2 * i + 1, M, P),
           NEW Y, Y = LargerByte(A, B)
    PROVE  LargerKept(i, M, P, Y)
<1>1. (2 * i) % 2 = 0 /\ (2 * i + 1) % 2 # 0
  OBVIOUS
<1>2. /\ A = (IF 2 * i \in M THEN {0, 1} ELSE {}) \cup (IF 2 * i \in P THEN AllOnes \ {0, 1} ELSE {})
      /\ B = (IF 2 * i + 1 \in M THEN {0, 1, 4, 5} ELSE {})
             \cup (IF 2 * i + 1 \in P THEN AllOnes \ {0, 1, 4, 5} ELSE {})
  BY <1>1 DEF KeptLane
<1>3. {0, 1} \in SUBSET AllOnes /\ {0, 1, 4, 5} \in SUBSET AllOnes /\ 7 \in AllOnes
  BY DEF AllOnes
<1>4. A \in SUBSET AllOnes /\ B \in SUBSET AllOnes
  BY <1>2, <1>3
<1>5. Y = A \/ Y = B
  BY DEF LargerByte
<1>6. (2 * i \in P <=> 7 \in A) /\ (2 * i + 1 \in P <=> 7 \in B)
  BY <1>2, <1>3
<1>7. ASSUME 2 * i \in P \/ 2 * i + 1 \in P PROVE 7 \in Y
  <2>1. \A y \in A \cup B : y <= 7
    BY <1>4 DEF AllOnes
  <2>2. 7 \in A \cup B
    BY <1>6, <1>7
  <2>3. 7 \notin A \cap B => Y = IF 7 \in A THEN A ELSE B
    BY <1>4, <2>1, <2>2, LargerByteIs
  <2>. QED
    BY <1>5, <2>2, <2>3
<1>8. ASSUME 2 * i \notin P, 2 * i + 1 \notin P
      PROVE  Y = IF 2 * i + 1 \in M THEN {0, 1, 4, 5} ELSE IF 2 * i \in M THEN {0, 1} ELSE {}
  <2>1. /\ A = IF 2 * i \in M THEN {0, 1} ELSE {}
        /\ B = IF 2 * i + 1 \in M THEN {0, 1, 4, 5} ELSE {}
    BY <1>2, <1>8
  <2>2. CASE 2 * i + 1 \in M
    <3>1. B = {0, 1, 4, 5} /\ A \subseteq {0, 1}
      BY <2>1, <2>2
    <3>2. 5 \in A \cup B /\ 5 \notin A /\ \A y \in A \cup B : y <= 5
      BY <3>1
    <3>3. Y = B
      BY <1>4, <3>2, LargerByteIs
    <3>. QED
      BY <2>2, <3>1, <3>3
  <2>3. CASE 2 * i + 1 \notin M /\ 2 * i \in M
    <3>1. B = {} /\ A = {0, 1}
      BY <2>1, <2>3
    <3>2. 1 \in A \cup B /\ 1 \in A /\ 1 \notin B /\ \A y \in A \cup B : y <= 1
      BY <3>1
    <3>3. Y = A
      BY <1>4, <3>2, LargerByteIs
    <3>. QED
      BY <2>3, <3>1, <3>3
  <2>4. CASE 2 * i + 1 \notin M /\ 2 * i \notin M
    BY <1>5, <2>1, <2>4
  <2>. QED
    BY <2>2, <2>3, <2>4
<1>. QED
  BY <1>4, <1>5, <1>7, <1>8 DEF LargerKept

\* The bits of a syndrome that stand for a NUL.
NulsOf(X) == {k \in X : k % 4 >= 2}

LEMMA KeptSyndrome ==
    ASSUME NEW M \in SUBSET Lanes, NEW P \in SUBSET Lanes,
           NEW V, \A i \in Lanes : V[i] = KeptLane(i, M, P),
           NEW X, X = fmov(umaxp(V, V))
    PROVE  /\ X \in SUBSET XBits
           /\ NulsOf(X) = {} <=> P = {}
           /\ P = {} => X = Pairs(Smear(M), {})
<1> DEFINE u == umaxp(V, V)
<1>1. ASSUME NEW i \in 0 .. (W \div 2 - 1)
      PROVE  /\ u[i] = LargerByte(KeptLane(2 * i, M, P), KeptLane(2 * i + 1, M, P))
             /\ i \in Nat
  BY HalfLane DEF umaxp, Pairwise
<1> HIDE DEF u
<1>2. ASSUME NEW i \in 0 .. (W \div 2 - 1)
      PROVE  /\ u[i] \in SUBSET AllOnes
             /\ 2 * i \in P \/ 2 * i + 1 \in P => 7 \in u[i]
             /\ P = {} =>
                 u[i] = IF 2 * i + 1 \in M THEN {0, 1, 4, 5} ELSE IF 2 * i \in M THEN {0, 1} ELSE {}
  <2> DEFINE A == KeptLane(2 * i, M, P)
             B == KeptLane(2 * i + 1, M, P)
  <2>1. /\ A = KeptLane(2 * i, M, P) /\ B = KeptLane(2 * i + 1, M, P)
        /\ u[i] = LargerByte(A, B) /\ i \in Nat
    BY <1>1
  <2> HIDE DEF A, B
  <2>2. LargerKept(i, M, P, u[i])
    BY <2>1, KeptByte
  <2>. QED
    BY <2>2 DEF LargerKept
<1>3. ASSUME NEW k PROVE k \in X <=> k \in XBits /\ k % 8 \in u[k \div 8]
  BY <1>2, fmovBit DEF u
<1>4. ASSUME NEW k \in XBits
      PROVE  /\ k \in Nat /\ k \div 8 \in 0 .. (W \div 2 - 1) /\ k % 8 \in 0 .. 7
             /\ k \div 4 = IF k % 8 < 4 THEN 2 * (k \div 8) ELSE 2 * (k \div 8) + 1
             /\ k % 4 = IF k % 8 < 4 THEN k % 8 ELSE (k % 8) - 4
             /\ k \div 4 \in Lanes
  <2>1. k \in 0 .. (4 * W - 1)
    BY DEF XBits
  <2>. QED
    BY <2>1, WAssumption DEF Lanes
<1>5. ASSUME NEW i \in P PROVE NulsOf(X) # {}
  <2> DEFINE k == 8 * (i \div 2) + 7
  <2>1. i \in 0 .. (W - 1)
    BY DEF Lanes
  <2>2. /\ i \div 2 \in 0 .. (W \div 2 - 1) /\ (i = 2 * (i \div 2) \/ i = 2 * (i \div 2) + 1)
        /\ k \in XBits /\ k % 8 = 7 /\ k \div 8 = i \div 2 /\ k % 4 >= 2
    BY <2>1, WAssumption DEF XBits
  <2>3. 7 \in u[i \div 2]
    BY <1>2, <2>2
  <2>4. k \in X
    BY <1>3, <2>2, <2>3
  <2>. QED
    BY <2>2, <2>4 DEF NulsOf
<1>6. ASSUME P = {} PROVE X = Pairs(Smear(M), {})
  <2>1. ASSUME NEW k \in XBits
        PROVE  k % 8 \in u[k \div 8] <=> k % 4 < 2 /\ k \div 4 \in Smear(M)
    <3> DEFINE i == k \div 8
    <3>1. u[i] = IF 2 * i + 1 \in M THEN {0, 1, 4, 5} ELSE IF 2 * i \in M THEN {0, 1} ELSE {}
      BY <1>2, <1>4, <1>6
    <3>2. CASE k % 8 < 4
      <4>1. k \div 4 = 2 * i /\ k % 4 = k % 8 /\ (2 * i) % 2 = 0 /\ 2 * i \in Lanes
        BY <1>4, <3>2
      <4>2. 2 * i \in Smear(M) <=> 2 * i \in M \/ 2 * i + 1 \in M
        BY <4>1 DEF Smear
      <4>. QED
        BY <1>4, <3>1, <3>2, <4>1, <4>2
    <3>3. CASE ~(k % 8 < 4)
      <4>1. k \div 4 = 2 * i + 1 /\ k % 4 = (k % 8) - 4 /\ (2 * i + 1) % 2 # 0 /\ 2 * i + 1 \in Lanes
        BY <1>4, <3>3
      <4>2. 2 * i + 1 \in Smear(M) <=> 2 * i + 1 \in M
        BY <4>1 DEF Smear
      <4>. QED
        BY <1>4, <3>1, <3>3, <4>1, <4>2
    <3>. QED
      BY <3>2, <3>3
  <2>2. \A k : k \in Pairs(Smear(M), {}) <=> k \in XBits /\ k % 4 < 2 /\ k \div 4 \in Smear(M)
    BY DEF Pairs
  <2>. QED
    BY <1>3, <2>1, <2>2
<1>7. ASSUME P = {} PROVE NulsOf(X) = {}
  <2>1. ASSUME NEW k \in X, k % 4 >= 2 PROVE FALSE
    <3>1. k \in XBits /\ k % 4 < 2
      BY <1>6, <1>7 DEF Pairs
    <3>. QED
      BY <1>4, <2>1, <3>1
  <2>. QED
    BY <2>1 DEF NulsOf
<1>. QED
  BY <1>3, <1>5, <1>6, <1>7

\* k lanes above the highest of M is the top.
IsLastIn(k, M) == k \in Lanes /\ (W - 1) - k \in M /\ \A i \in M : k <= (W - 1) - i

\* The highest lane that it stands for is the last of M.
LEMMA SmearLast ==
    ASSUME NEW M \in SUBSET Lanes, M # {}, NEW k, k = clz(Pairs(Smear(M), {})) \div 4
    PROVE  IsLastIn(k, M)
<1> DEFINE R == Smear(M)
           l == (W - 1) - k
<1>1. R \in SUBSET Lanes /\ M \subseteq R /\ R \cup {} = R /\ R # {} /\ {} \in SUBSET Lanes
  BY DEF Smear
<1>2. \A i \in R : i \in M \/ i + 1 \in M
  BY DEF Smear
<1> HIDE DEF R
<1>3. /\ clz(Pairs(R, {})) \in XBits /\ l \in R \cup {}
      /\ \A i \in R \cup {} : k <= (W - 1) - i
  <2> DEFINE f == clz(Pairs(R, {}))
  <2>1. /\ f \in XBits /\ (W - 1) - (f \div 4) \in R \cup {}
        /\ \A i \in R \cup {} : f \div 4 <= (W - 1) - i
    BY <1>1, PairsLast
  <2>2. k = f \div 4
    BY DEF R
  <2>. QED
    BY <2>1, <2>2
<1>4. k \in Int /\ l \in R /\ \A i \in R : k <= (W - 1) - i
  <2>1. k \in Int
    BY <1>3 DEF XBits, R
  <2>. QED
    BY <1>1, <1>3, <2>1
<1>5. k \in Lanes
  BY <1>1, <1>4, WAssumption DEF Lanes
<1>6. l + 1 \notin R
  <2>1. ~(k <= (W - 1) - (l + 1))
    BY <1>4, WAssumption
  <2>. QED
    BY <1>4, <2>1
<1>. QED
  BY <1>1, <1>2, <1>4, <1>5, <1>6 DEF IsLastIn

\* The syndromes X and Y agree on the lanes up to n.
SameUpTo(X, Y, n) == \A k \in XBits : k \div 4 <= n => (k \in X <=> k \in Y)

\* The matches of a syndrome up to its first NUL, that of lane n: subtracting one
\* clears the NUL's lowest bit and sets those below.
LEMMA UpToNul ==
    ASSUME NEW M \in SUBSET Lanes, NEW P \in SUBSET Lanes, NEW n \in P, \A i \in P : n <= i,
           NEW X \in SUBSET XBits, SameUpTo(X, Pairs(M, P), n)
    PROVE  {k \in X : k % 4 < 2} \cap MinusOne(NulsOf(X)) = Pairs({i \in M : i <= n}, {})
<1> DEFINE Y == NulsOf(X)
           b == 4 * n + 2
<1>1. n \in 0 .. (W - 1)
  BY DEF Lanes
<1>2. b \in XBits /\ b \div 4 = n /\ b % 4 = 2
  BY <1>1, WAssumption DEF XBits
<1>3. b \in Y
  <2>1. n <= n /\ ~(b % 4 < 2) /\ b % 4 >= 2
    BY <1>1, <1>2
  <2>2. b \in Pairs(M, P)
    BY <1>2, <2>1 DEF Pairs
  <2>3. b \in X
    BY <1>2, <2>1, <2>2 DEF SameUpTo
  <2>. QED
    BY <2>1, <2>3 DEF NulsOf
<1>4. ASSUME NEW k \in Y PROVE b <= k
  <2>1. k \in 0 .. (4 * W - 1) /\ k \in XBits /\ k \in X /\ k % 4 >= 2
    BY <1>4 DEF XBits, NulsOf
  <2>2. SUFFICES ASSUME k < b PROVE FALSE
    BY <1>1, <2>1
  <2>3. k \div 4 < n
    BY <1>1, <2>1, <2>2
  <2>4. k \in Pairs(M, P)
    BY <1>1, <2>1, <2>3 DEF SameUpTo
  <2>5. k \div 4 \in P
    BY <2>1, <2>4 DEF Pairs
  <2>. QED
    BY <1>1, <2>1, <2>3, <2>5
<1>5. Y \subseteq Int /\ Y # {}
  <2>1. X \subseteq Int
    BY DEF XBits
  <2>2. Y \subseteq X
    BY DEF NulsOf
  <2>. QED
    BY <1>3, <2>1, <2>2
<1> HIDE DEF Y, b
<1>6. Min(Y) = b
  BY <1>3, <1>4, <1>5, MinIs
<1>7. MinusOne(Y) = (Y \ {b}) \cup 0 .. (b - 1)
  BY <1>5, <1>6 DEF MinusOne
<1>8. ASSUME NEW k
      PROVE  k \in X /\ k % 4 < 2 /\ k \in MinusOne(Y) <=> k \in Pairs({i \in M : i <= n}, {})
  <2>1. k \in Pairs({i \in M : i <= n}, {}) <=> k \in XBits /\ k % 4 < 2 /\ k \div 4 \in M /\ k \div 4 <= n
    BY DEF Pairs
  <2>2. CASE k \notin XBits
    BY <2>1, <2>2
  <2>3. CASE k \in XBits
    <3>1. k \in 0 .. (4 * W - 1)
      BY <2>3 DEF XBits
    <3>2. k % 4 < 2 => k \notin Y
      BY <3>1 DEF Y, NulsOf
    <3>3. k % 4 < 2 => (k \in 0 .. (b - 1) <=> k \div 4 <= n)
      BY <1>1, <3>1 DEF b
    <3>4. k % 4 < 2 => (k \in Pairs(M, P) <=> k \div 4 \in M)
      BY <2>3 DEF Pairs
    <3>5. k \div 4 <= n => (k \in X <=> k \in Pairs(M, P))
      BY <2>3 DEF SameUpTo
    <3>. QED
      BY <1>7, <2>1, <2>3, <3>2, <3>3, <3>4, <3>5
  <2>. QED
    BY <2>2, <2>3
<1>. QED
  BY <1>8 DEF Y

\* Adding a byte of which the lower half is 0 leaves that of the other as it is.
LEMMA AddedIs ==
    ASSUME NEW A \in SUBSET AllOnes, NEW B \in SUBSET (4 .. 7)
    PROVE  /\ AddedBytes(A, B) \in SUBSET AllOnes
           /\ \A b \in 0 .. 3 : b \in AddedBytes(A, B) <=> b \in A
           /\ A \cap B = {} => AddedBytes(A, B) = A \cup B
<1>1. B \in SUBSET AllOnes /\ \A b \in 0 .. 3 : b \notin B
  BY DEF AllOnes
<1>2. CASE A \cap B = {}
  <2>1. AddedBytes(A, B) = A \cup B
    BY <1>2 DEF AddedBytes, Sum
  <2>. QED
    BY <1>1, <2>1
<1>3. CASE A \cap B # {}
  <2> DEFINE Carry(k) == \E j \in 0 .. (k - 1) :
                       j \in A \cap B /\ \A l \in (j + 1) .. (k - 1) : l \in A \cup B
  <2>1. AddedBytes(A, B) = {k \in 0 .. (8 - 1) : k \in SymmetricDiff(A, B) <=> ~Carry(k)}
    BY <1>3 DEF AddedBytes, Sum
  <2>2. AddedBytes(A, B) \in SUBSET AllOnes
    BY <2>1 DEF AllOnes
  <2>3. ASSUME NEW b \in 0 .. 3 PROVE b \in AddedBytes(A, B) <=> b \in A
    <3>1. ~Carry(b)
      <4>1. \A j \in 0 .. (b - 1) : j \in 0 .. 3
        OBVIOUS
      <4>. QED
        BY <1>1, <4>1
    <3>2. b \in SymmetricDiff(A, B) <=> b \in A
      BY <1>1 DEF SymmetricDiff
    <3>3. b \in 0 .. (8 - 1)
      OBVIOUS
    <3> HIDE DEF Carry
    <3>. QED
      BY <2>1, <3>1, <3>2, <3>3
  <2>. QED
    BY <1>3, <2>2, <2>3
<1>. QED
  BY <1>2, <1>3

\* The last chunk's syndrome is right up to its first NUL.
LEMMA AddedSyndrome ==
    ASSUME NEW M \in SUBSET Lanes, NEW P \in SUBSET Lanes, NEW n \in P, \A i \in P : n <= i,
           NEW V, \A i \in Lanes : V[i] = KeptLane(i, M, P) \cap (IF i % 2 = 0 THEN AllOnes ELSE 4 .. 7),
           NEW X, X = fmov(addp(V, V))
    PROVE  /\ X \in SUBSET XBits
           /\ SameUpTo(X, Pairs(M, P), n)
<1> DEFINE u == addp(V, V)
<1>1. ASSUME NEW i \in 0 .. (W \div 2 - 1)
      PROVE  u[i] = AddedBytes(V[2 * i], V[2 * i + 1]) /\ 2 * i \in Lanes /\ 2 * i + 1 \in Lanes
  BY HalfLane DEF addp, Pairwise
<1> HIDE DEF u
<1>2. n \in 0 .. (W - 1)
  BY DEF Lanes
<1>3. ASSUME NEW i \in 0 .. (W \div 2 - 1)
      PROVE  /\ V[2 * i] = (IF 2 * i \in M THEN {0, 1} ELSE {})
                           \cup (IF 2 * i \in P THEN AllOnes \ {0, 1} ELSE {})
             /\ V[2 * i + 1] = (IF 2 * i + 1 \in M THEN {4, 5} ELSE {})
                               \cup (IF 2 * i + 1 \in P THEN {6, 7} ELSE {})
  <2>1. (2 * i) % 2 = 0 /\ (2 * i + 1) % 2 # 0
    OBVIOUS
  <2>2. {0, 1} \cap AllOnes = {0, 1} /\ {0, 1, 4, 5} \cap (4 .. 7) = {4, 5}
        /\ (AllOnes \ {0, 1, 4, 5}) \cap (4 .. 7) = {6, 7}
    BY DEF AllOnes
  <2>3. /\ V[2 * i] = KeptLane(2 * i, M, P) \cap AllOnes
        /\ V[2 * i + 1] = KeptLane(2 * i + 1, M, P) \cap (4 .. 7)
    BY <1>1, <2>1
  <2>4. V[2 * i] = (IF 2 * i \in M THEN {0, 1} ELSE {})
                   \cup (IF 2 * i \in P THEN AllOnes \ {0, 1} ELSE {})
    BY <2>1, <2>2, <2>3 DEF KeptLane
  <2>5. V[2 * i + 1] = (IF 2 * i + 1 \in M THEN {4, 5} ELSE {})
                       \cup (IF 2 * i + 1 \in P THEN {6, 7} ELSE {})
    BY <2>1, <2>2, <2>3 DEF KeptLane
  <2>. QED
    BY <2>4, <2>5
<1>4. ASSUME NEW i \in 0 .. (W \div 2 - 1)
      PROVE  V[2 * i] \in SUBSET AllOnes /\ V[2 * i + 1] \in SUBSET (4 .. 7)
  <2>1. {0, 1} \subseteq AllOnes /\ {4, 5} \subseteq 4 .. 7 /\ {6, 7} \subseteq 4 .. 7
    BY DEF AllOnes
  <2>. QED
    BY <1>3, <2>1
<1>5. ASSUME NEW i \in 0 .. (W \div 2 - 1) PROVE u[i] \in SUBSET AllOnes
  <2> DEFINE A == V[2 * i]
             B == V[2 * i + 1]
  <2>1. A \in SUBSET AllOnes /\ B \in SUBSET (4 .. 7) /\ u[i] = AddedBytes(A, B)
    BY <1>1, <1>4
  <2> HIDE DEF A, B
  <2>2. AddedBytes(A, B) \in SUBSET AllOnes
    BY <2>1, AddedIs
  <2>. QED
    BY <2>1, <2>2
<1>6. ASSUME NEW k PROVE k \in X <=> k \in XBits /\ k % 8 \in u[k \div 8]
  BY <1>5, fmovBit DEF u
<1>7. ASSUME NEW k \in XBits, k \div 4 <= n
      PROVE  k \in X <=> k \in Pairs(M, P)
  <2> DEFINE i == k \div 8
             A == V[2 * i]
             B == V[2 * i + 1]
  <2>1. k \in 0 .. (4 * W - 1)
    BY DEF XBits
  <2>2. /\ i \in 0 .. (W \div 2 - 1) /\ k % 8 \in 0 .. 7
        /\ k \div 4 = IF k % 8 < 4 THEN 2 * i ELSE 2 * i + 1
        /\ k % 4 = IF k % 8 < 4 THEN k % 8 ELSE (k % 8) - 4
    BY <2>1, WAssumption
  <2>3. k \in Pairs(M, P) <=> k \div 4 \in (IF k % 4 < 2 THEN M ELSE P)
    BY DEF Pairs
  <2>4. k \in X <=> k % 8 \in AddedBytes(A, B)
    BY <1>1, <1>6, <2>2
  <2>5. /\ A = (IF 2 * i \in M THEN {0, 1} ELSE {})
                           \cup (IF 2 * i \in P THEN AllOnes \ {0, 1} ELSE {})
        /\ B = (IF 2 * i + 1 \in M THEN {4, 5} ELSE {})
                               \cup (IF 2 * i + 1 \in P THEN {6, 7} ELSE {})
        /\ A \in SUBSET AllOnes /\ B \in SUBSET (4 .. 7)
    BY <1>3, <1>4, <2>2
  <2> HIDE DEF i, A, B
  <2>6. CASE k % 8 < 4
    <3>1. k % 8 \in 0 .. 3
      BY <2>2, <2>6
    <3>2. k \in X <=> k % 8 \in A
      BY <2>4, <2>5, <3>1, AddedIs
    <3>3. k % 8 \in A <=> 2 * i \in (IF k % 8 < 2 THEN M ELSE P)
      BY <2>5, <3>1 DEF AllOnes
    <3>. QED
      BY <2>2, <2>3, <2>6, <3>2, <3>3
  <2>7. CASE ~(k % 8 < 4)
    <3>1. k % 8 \in 4 .. 7 /\ 2 * i < n
      BY <1>2, <1>7, <2>2, <2>7
    <3>2. 2 * i \notin P
      BY <1>2, <2>2, <3>1
    <3>3. A \cap B = {} /\ k % 8 \notin A
      BY <2>5, <3>1, <3>2
    <3>4. k \in X <=> k % 8 \in B
      BY <2>4, <2>5, <3>3, AddedIs
    <3>5. k % 8 \in B <=> 2 * i + 1 \in (IF (k % 8) - 4 < 2 THEN M ELSE P)
      BY <2>5, <3>1
    <3>. QED
      BY <2>2, <2>3, <2>7, <3>4, <3>5
  <2>. QED
    BY <2>6, <2>7
<1>8. X \in SUBSET XBits
  BY <1>6
<1>. QED
  BY <1>7, <1>8 DEF SameUpTo

\* The last of the matches up to the first NUL.
LEMMA PairsLastOf ==
    ASSUME NEW M \in SUBSET Lanes, NEW k, k = clz(Pairs(M, {})) \div 4
    PROVE  /\ Pairs(M, {}) = {} <=> M = {}
           /\ M # {} => IsLastIn(k, M)
<1> DEFINE f == clz(Pairs(M, {}))
<1>1. M \cup {} = M /\ {} \in SUBSET Lanes
  OBVIOUS
<1>2. Pairs(M, {}) = {} <=> M = {}
  BY <1>1, PairsEmpty
<1>3. ASSUME M # {} PROVE IsLastIn(k, M)
  <2>1. /\ f \in XBits /\ (W - 1) - (f \div 4) \in M \cup {}
        /\ \A i \in M \cup {} : f \div 4 <= (W - 1) - i
    BY <1>1, <1>3, PairsLast
  <2>2. k \in Int
    BY <2>1 DEF XBits
  <2>3. (W - 1) - k \in M /\ \A i \in M : k <= (W - 1) - i
    BY <1>1, <2>1
  <2> HIDE DEF f
  <2>4. (W - 1) - k \in 0 .. (W - 1)
    BY <2>3 DEF Lanes
  <2>5. k \in Lanes
    BY <2>2, <2>4, WAssumption DEF Lanes
  <2>. QED
    BY <2>3, <2>5 DEF IsLastIn
<1>. QED
  BY <1>2, <1>3

\* A shift right and back left clears the bits of the bytes before the pointer.
LEMMA lslLsrPairs ==
    ASSUME NEW M \in SUBSET Lanes, NEW P \in SUBSET Lanes, NEW p \in Int
    PROVE  lsl(lsr(Pairs(M, P), 4 * p), 4 * p)
           = Pairs({i \in M : i >= p % W}, {i \in P : i >= p % W})
<1> DEFINE r == p % W
<1>1. r \in 0 .. (W - 1)
  BY WAssumption, DivMod
<1>2. Shifted(M, r) \in SUBSET Lanes /\ Shifted(P, r) \in SUBSET Lanes
  BY DEF Shifted
<1>3. lsl(lsr(Pairs(M, P), 4 * p), 4 * p)
      = Pairs(Raised(Shifted(M, r), r), Raised(Shifted(P, r), r))
  BY <1>2, lsrPairs, lslPairs
<1> HIDE DEF r
<1>4. ASSUME NEW Q \in SUBSET Lanes
      PROVE  Raised(Shifted(Q, r), r) = {i \in Q : i >= r}
  <2>1. ASSUME NEW i \in Lanes
        PROVE  i - r \in Shifted(Q, r) <=> i \in Q /\ i >= r
    <3>1. i \in 0 .. (W - 1) /\ (i - r) + r = i
      BY <1>1 DEF Lanes
    <3>2. i - r \in Lanes <=> i >= r
      BY <1>1, <3>1, WAssumption DEF Lanes
    <3>. QED
      BY <3>1, <3>2 DEF Shifted
  <2>. QED
    BY <2>1 DEF Raised
<1>. QED
  BY <1>3, <1>4 DEF r

\* Reversing the bits reverses the lanes, and the two halves of each lane's bits.
LEMMA rbitPairs ==
    ASSUME NEW M \in SUBSET Lanes, NEW P \in SUBSET Lanes
    PROVE  rbit(Pairs(M, P)) = Pairs({i \in Lanes : (W - 1) - i \in P},
                                     {i \in Lanes : (W - 1) - i \in M})
<1> DEFINE FM == {i \in Lanes : (W - 1) - i \in M}
           FP == {i \in Lanes : (W - 1) - i \in P}
<1>1. ASSUME NEW k \in XBits
      PROVE  /\ (4 * W - 1) - k \in XBits /\ (4 * W - 1) - ((4 * W - 1) - k) = k
             /\ (4 * W - 1) - k \in Pairs(M, P) <=> k \in Pairs(FP, FM)
  <2> DEFINE h == (4 * W - 1) - k
  <2>1. k \in 0 .. (4 * W - 1)
    BY DEF XBits
  <2>2. /\ h \in XBits /\ (4 * W - 1) - h = k /\ k \div 4 \in Lanes
        /\ h \div 4 = (W - 1) - (k \div 4) /\ h % 4 = 3 - (k % 4) /\ k % 4 \in 0 .. 3
    BY <2>1, WAssumption DEF XBits, Lanes
  <2> HIDE DEF h
  <2>3. h \in Pairs(M, P) <=> (W - 1) - (k \div 4) \in (IF 3 - (k % 4) < 2 THEN M ELSE P)
    BY <2>2 DEF Pairs
  <2>4. k \in Pairs(FP, FM) <=> (W - 1) - (k \div 4) \in (IF k % 4 < 2 THEN P ELSE M)
    BY <2>2 DEF Pairs
  <2>. QED
    BY <2>2, <2>3, <2>4 DEF h
<1>2. \A k \in Pairs(M, P) : k \in XBits
  BY DEF Pairs
<1>3. \A k \in Pairs(FP, FM) : k \in XBits
  BY DEF Pairs
<1> HIDE DEF FM, FP
<1>4. \A k : k \in rbit(Pairs(M, P)) <=> \E j \in Pairs(M, P) : k = (4 * W - 1) - j
  BY DEF rbit
<1>5. \A k : k \in rbit(Pairs(M, P)) <=> k \in Pairs(FP, FM)
  BY <1>1, <1>2, <1>3, <1>4
<1>. QED
  BY <1>5 DEF FM, FP

\* A syndrome in ldr's byte order, put in the order of memory.
LEMMA MemoryOrder ==
    ASSUME NEW m, NEW a \in Int, NEW big \in BOOLEAN, NEW C, NEW D, NEW v, v = ldrq(m, a, big)
    PROVE  (IF big THEN rbit(Pairs(Having(v, D), Having(v, C))) ELSE Pairs(Having(v, C), Having(v, D)))
           = Pairs({i \in Lanes : m[a + i] \in C}, {i \in Lanes : m[a + i] \in D})
<1>1. CASE big
  <2>1. ASSUME NEW i \in Lanes, NEW Q
        PROVE  (W - 1) - i \in Having(v, Q) <=> m[a + i] \in Q
    <3>1. (W - 1) - i \in Lanes /\ LaneOf(i, big) = (W - 1) - i
      BY <1>1, WAssumption DEF Lanes, LaneOf
    <3>2. v[(W - 1) - i] = m[a + i]
      BY <3>1, ldrqAt
    <3>. QED
      BY <3>1, <3>2 DEF Having
  <2>2. {i \in Lanes : (W - 1) - i \in Having(v, C)} = {i \in Lanes : m[a + i] \in C}
    BY <2>1
  <2>3. {i \in Lanes : (W - 1) - i \in Having(v, D)} = {i \in Lanes : m[a + i] \in D}
    BY <2>1
  <2>4. Having(v, C) \in SUBSET Lanes /\ Having(v, D) \in SUBSET Lanes
    BY DEF Having
  <2>. QED
    BY <1>1, <2>2, <2>3, <2>4, rbitPairs
<1>2. CASE ~big
  <2>1. ASSUME NEW i \in Lanes PROVE v[i] = m[a + i]
    BY <1>2 DEF ldrq
  <2>2. Having(v, C) = {i \in Lanes : m[a + i] \in C} /\ Having(v, D) = {i \in Lanes : m[a + i] \in D}
    BY <2>1 DEF Having
  <2>. QED
    BY <1>2, <2>2
<1>. QED
  BY <1>1, <1>2

-----------------------------------------------------------------------------
\* Words in the general registers.

\* A word of which no byte is 0 where that is looked for has none marked.
LEMMA ZerosNone ==
    ASSUME NEW x, NEW k \in 0 .. N, \A j \in 0 .. (k - 1) : x[j] \in 1 .. 255,
           \A j \in k .. (N - 1) : x[j] \in 0 .. 255
    PROVE  Zeros(x, k) = {}
<1> DEFINE One(i) == IF i < k THEN 1 ELSE 0
           Borrow(i) == \E j \in 0 .. (i - 1) :
                            x[j] < One(j) /\ \A l \in (j + 1) .. (i - 1) : x[l] <= One(l)
           Less(i) == x[i] - One(i) - (IF Borrow(i) THEN 1 ELSE 0)
<1>1. N \in Nat
  BY WAssumption DEF N
<1>2. ASSUME NEW j \in 0 .. (N - 1) PROVE x[j] \in 0 .. 255 /\ ~(x[j] < One(j))
  BY <1>1
<1>3. ASSUME NEW j \in 0 .. (N - 1) PROVE ~Borrow(j)
  BY <1>1, <1>2
<1>4. ASSUME NEW j \in 0 .. (N - 1), x[j] < 128 PROVE ~(Less(j) % 256 >= 128)
  <2>1. Less(j) = x[j] - One(j)
    BY <1>2, <1>3, <1>4
  <2>2. One(j) \in {0, 1} /\ x[j] \in 0 .. 127 /\ x[j] >= One(j)
    <3>1. CASE j < k
      BY <1>1, <1>2, <1>4, <3>1
    <3>2. CASE ~(j < k)
      BY <1>1, <1>2, <1>4, <3>2
    <3>. QED
      BY <3>1, <3>2
  <2>3. x[j] - One(j) \in 0 .. 127
    BY <2>2
  <2>. QED
    BY <2>1, <2>3
<1>. QED
  BY <1>4 DEF Zeros

\* The first byte that is 0 is the first that is marked.
LEMMA ZerosFirst ==
    ASSUME NEW x, NEW k \in 0 .. N, NEW f \in 0 .. (k - 1),
           x[f] = 0, \A j \in 0 .. (f - 1) : x[j] \in 1 .. 255
    PROVE  /\ 8 * f + 7 \in Zeros(x, k)
           /\ \A b \in Zeros(x, k) : \E i \in f .. (N - 1) : b = 8 * i + 7
<1> DEFINE One(i) == IF i < k THEN 1 ELSE 0
           Borrow(i) == \E j \in 0 .. (i - 1) :
                            x[j] < One(j) /\ \A l \in (j + 1) .. (i - 1) : x[l] <= One(l)
           Less(i) == x[i] - One(i) - (IF Borrow(i) THEN 1 ELSE 0)
           T == {j \in 0 .. (N - 1) : x[j] < 128 /\ Less(j) % 256 >= 128}
<1>1. N \in Nat /\ f \in 0 .. (N - 1)
  BY WAssumption DEF N
<1>2. ASSUME NEW j \in 0 .. (f - 1) PROVE x[j] \in 1 .. 255 /\ ~(x[j] < One(j))
  BY <1>1
<1>3. ASSUME NEW j \in 0 .. (f - 1) PROVE ~Borrow(j)
  BY <1>1, <1>2
<1>4. ASSUME NEW j \in 0 .. (f - 1), x[j] < 128 PROVE ~(Less(j) % 256 >= 128)
  <2>1. Less(j) = x[j] - One(j)
    BY <1>2, <1>3, <1>4
  <2>2. One(j) \in {0, 1} /\ x[j] \in 0 .. 127 /\ x[j] >= One(j)
    BY <1>1, <1>2, <1>4
  <2>3. x[j] - One(j) \in 0 .. 127
    BY <2>2
  <2>. QED
    BY <2>1, <2>3
<1>5. f \in T
  <2>1. Less(f) = IF Borrow(f) THEN -2 ELSE -1
    BY <1>1
  <2>2. Less(f) % 256 >= 128
    BY <2>1
  <2>. QED
    BY <1>1, <2>2
<1>6. ASSUME NEW j \in T PROVE j \in f .. (N - 1)
  BY <1>1, <1>4
<1>7. Zeros(x, k) = {8 * i + 7 : i \in T}
  BY DEF Zeros
<1> HIDE DEF T
<1>. QED
  BY <1>5, <1>6, <1>7

\* Counting zeros at the top of the register with its bits, or its bytes, reversed
\* finds it.
LEMMA FirstMarked ==
    ASSUME NEW f \in 0 .. (N - 1), NEW X, 8 * f + 7 \in X,
           \A b \in X : \E i \in f .. (N - 1) : b = 8 * i + 7
    PROVE  clz(rbit(X)) \div 8 = f /\ clz(rev(X)) \div 8 = f
<1>1. N \in Nat /\ 4 * W = 8 * N /\ W \in Nat
  BY WAssumption DEF N
<1>2. ASSUME NEW b \in X PROVE b \in XBits /\ b >= 8 * f + 7
  BY <1>1, <1>2 DEF XBits
<1>3. clz(rbit(X)) = 8 * f + 7
  <2>1. X \in SUBSET XBits /\ X # {}
    BY <1>2
  <2>2. clz(rbit(X)) \in X /\ clz(rbit(X)) <= 8 * f + 7
    BY <2>1, clzRbitIs
  <2>. QED
    BY <1>2, <2>2 DEF XBits
<1>4. clz(rev(X)) = 8 * f
  <2>1. ASSUME NEW i \in f .. (N - 1)
        PROVE  8 * (N - 1 - ((8 * i + 7) \div 8)) + ((8 * i + 7) % 8) = 8 * (N - 1 - i) + 7
    BY <1>1
  <2>2. ASSUME NEW k \in rev(X) PROVE \E i \in f .. (N - 1) : k = 8 * (N - 1 - i) + 7
    BY <2>1 DEF rev
  <2>3. 8 * (N - 1 - f) + 7 \in rev(X)
    <3>1. f \in f .. (N - 1)
      BY <1>1
    <3>. QED
      BY <2>1, <3>1 DEF rev
  <2>4. rev(X) \subseteq Int /\ \A k \in rev(X) : k <= 8 * (N - 1 - f) + 7
    BY <1>1, <2>2
  <2>5. Max(rev(X)) = 8 * (N - 1 - f) + 7
    BY <2>3, <2>4, MaxIs
  <2>. QED
    BY <1>1, <2>3, <2>5 DEF clz
<1>. QED
  BY <1>1, <1>3, <1>4

-----------------------------------------------------------------------------
\* Bytes as sets of bits.

LEMMA BitsAre ==
    ASSUME NEW x \in 0 .. 255
    PROVE  /\ BitsOf(x) \in SUBSET (0 .. 7)
           /\ 0 \in BitsOf(x) <=> x % 2 = 1
           /\ 1 \in BitsOf(x) <=> (x \div 2) % 2 = 1
           /\ 2 \in BitsOf(x) <=> (x \div 4) % 2 = 1
           /\ 3 \in BitsOf(x) <=> (x \div 8) % 2 = 1
           /\ 4 \in BitsOf(x) <=> (x \div 16) % 2 = 1
           /\ 5 \in BitsOf(x) <=> (x \div 32) % 2 = 1
           /\ 6 \in BitsOf(x) <=> (x \div 64) % 2 = 1
           /\ 7 \in BitsOf(x) <=> (x \div 128) % 2 = 1
<1>1. /\ 2^0 = 1 /\ 2^1 = 2 /\ 2^2 = 4 /\ 2^3 = 8
      /\ 2^4 = 16 /\ 2^5 = 32 /\ 2^6 = 64 /\ 2^7 = 128
  OBVIOUS
<1>2. ASSUME NEW b \in 0 .. 7 PROVE b \in BitsOf(x) <=> (x \div 2^b) % 2 = 1
  BY DEF BitsOf
<1>3. BitsOf(x) \in SUBSET (0 .. 7)
  BY DEF BitsOf
<1>. QED
  BY <1>1, <1>2, <1>3

LEMMA NumberIs ==
    ASSUME NEW X, NEW lo
    PROVE  Number(X, lo) = (IF lo + 0 \in X THEN 1 ELSE 0) + (IF lo + 1 \in X THEN 2 ELSE 0)
                           + (IF lo + 2 \in X THEN 4 ELSE 0) + (IF lo + 3 \in X THEN 8 ELSE 0)
                           + (IF lo + 4 \in X THEN 16 ELSE 0) + (IF lo + 5 \in X THEN 32 ELSE 0)
                           + (IF lo + 6 \in X THEN 64 ELSE 0) + (IF lo + 7 \in X THEN 128 ELSE 0)
<1>1. /\ 2^0 = 1 /\ 2^1 = 2 /\ 2^2 = 4 /\ 2^3 = 8
      /\ 2^4 = 16 /\ 2^5 = 32 /\ 2^6 = 64 /\ 2^7 = 128
  OBVIOUS
<1>. QED
  BY <1>1 DEF Number

\* A byte is made of its bits.
LEMMA BitsMake ==
    ASSUME NEW x \in 0 .. 255, NEW y \in 0 .. 255, BitsOf(x) = BitsOf(y)
    PROVE  x = y
<1>1. ASSUME NEW z \in 0 .. 255
      PROVE  z = (z % 2) + 2 * ((z \div 2) % 2) + 4 * ((z \div 4) % 2) + 8 * ((z \div 8) % 2)
                 + 16 * ((z \div 16) % 2) + 32 * ((z \div 32) % 2) + 64 * ((z \div 64) % 2)
                 + 128 * ((z \div 128) % 2)
  OBVIOUS
<1>2. \A u, v \in Int : (u % 2 = 1 <=> v % 2 = 1) => u % 2 = v % 2
  OBVIOUS
<1>3. ASSUME NEW z \in 0 .. 255
      PROVE  /\ 0 \in BitsOf(z) <=> z % 2 = 1
             /\ 1 \in BitsOf(z) <=> (z \div 2) % 2 = 1
             /\ 2 \in BitsOf(z) <=> (z \div 4) % 2 = 1
             /\ 3 \in BitsOf(z) <=> (z \div 8) % 2 = 1
             /\ 4 \in BitsOf(z) <=> (z \div 16) % 2 = 1
             /\ 5 \in BitsOf(z) <=> (z \div 32) % 2 = 1
             /\ 6 \in BitsOf(z) <=> (z \div 64) % 2 = 1
             /\ 7 \in BitsOf(z) <=> (z \div 128) % 2 = 1
  BY BitsAre
<1>4. x % 2 = y % 2
  <2>1. x % 2 = 1 <=> 0 \in BitsOf(x)
    BY <1>3
  <2>2. y % 2 = 1 <=> 0 \in BitsOf(y)
    BY <1>3
  <2>. QED
    BY <2>1, <2>2, BitsOf(x) = BitsOf(y)
<1>5. (x \div 2) % 2 = (y \div 2) % 2
  <2>1. (x \div 2) % 2 = 1 <=> 1 \in BitsOf(x)
    BY <1>3
  <2>2. (y \div 2) % 2 = 1 <=> 1 \in BitsOf(y)
    BY <1>3
  <2>. QED
    BY <2>1, <2>2, BitsOf(x) = BitsOf(y)
<1>6. (x \div 4) % 2 = (y \div 4) % 2
  <2>1. (x \div 4) % 2 = 1 <=> 2 \in BitsOf(x)
    BY <1>3
  <2>2. (y \div 4) % 2 = 1 <=> 2 \in BitsOf(y)
    BY <1>3
  <2>. QED
    BY <2>1, <2>2, BitsOf(x) = BitsOf(y)
<1>7. (x \div 8) % 2 = (y \div 8) % 2
  <2>1. (x \div 8) % 2 = 1 <=> 3 \in BitsOf(x)
    BY <1>3
  <2>2. (y \div 8) % 2 = 1 <=> 3 \in BitsOf(y)
    BY <1>3
  <2>. QED
    BY <2>1, <2>2, BitsOf(x) = BitsOf(y)
<1>8. (x \div 16) % 2 = (y \div 16) % 2
  <2>1. (x \div 16) % 2 = 1 <=> 4 \in BitsOf(x)
    BY <1>3
  <2>2. (y \div 16) % 2 = 1 <=> 4 \in BitsOf(y)
    BY <1>3
  <2>. QED
    BY <2>1, <2>2, BitsOf(x) = BitsOf(y)
<1>9. (x \div 32) % 2 = (y \div 32) % 2
  <2>1. (x \div 32) % 2 = 1 <=> 5 \in BitsOf(x)
    BY <1>3
  <2>2. (y \div 32) % 2 = 1 <=> 5 \in BitsOf(y)
    BY <1>3
  <2>. QED
    BY <2>1, <2>2, BitsOf(x) = BitsOf(y)
<1>10. (x \div 64) % 2 = (y \div 64) % 2
  <2>1. (x \div 64) % 2 = 1 <=> 6 \in BitsOf(x)
    BY <1>3
  <2>2. (y \div 64) % 2 = 1 <=> 6 \in BitsOf(y)
    BY <1>3
  <2>. QED
    BY <2>1, <2>2, BitsOf(x) = BitsOf(y)
<1>11. (x \div 128) % 2 = (y \div 128) % 2
  <2>1. (x \div 128) % 2 = 1 <=> 7 \in BitsOf(x)
    BY <1>3
  <2>2. (y \div 128) % 2 = 1 <=> 7 \in BitsOf(y)
    BY <1>3
  <2>. QED
    BY <2>1, <2>2, BitsOf(x) = BitsOf(y)
<1>. QED
  BY <1>1, <1>4, <1>5, <1>6, <1>7, <1>8, <1>9, <1>10, <1>11

=============================================================================
