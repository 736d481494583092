-------------------------- MODULE SearchHunksProofs ---------------------------
(***************************************************************************)
(* Proofs about SearchHunks, for hunks, words and pages of every size: no  *)
(* routine loads a hunk, word or page that it may not, and each of them    *)
(* takes only the steps that Search allows.                                *)
(***************************************************************************)
EXTENDS SearchHunks, SimdProofs

-----------------------------------------------------------------------------
\* The syndrome of a hunk.  Its bits 2h and 2h + 1 are for the byte h of the hunk.

HunkLanes == 0 .. (2 * W - 1)
OfLane(i) == {2 * (i % 4), 2 * (i % 4) + 1}
BitOf(k) == 2 * ((k \div 2) % 4) + (k % 2)
InHunk(U, V, h) == IF h < W THEN U[h] ELSE V[h - W]

LEMMA DisjointAdded ==
    ASSUME NEW A, NEW B, A \cap B = {}
    PROVE  AddedBytes(A, B) = A \cup B
  BY DEF AddedBytes, Sum

LEMMA WSplits ==
    W \in Nat /\ W > 0 /\ W \div 2 \in Nat /\ W = 2 * (W \div 2) /\ (W \div 2) % 2 = 0
  BY WAssumption

\* The first addp makes pairs of the lanes of both registers.
LEMMA AddedOnce ==
    ASSUME NEW U, NEW V, \A i \in Lanes : U[i] \subseteq OfLane(i) /\ V[i] \subseteq OfLane(i),
           NEW j \in Lanes
    PROVE  /\ 2 * j \in HunkLanes /\ 2 * j + 1 \in HunkLanes
           /\ addp(U, V)[j] = InHunk(U, V, 2 * j) \cup InHunk(U, V, 2 * j + 1)
<1> DEFINE H == W \div 2
<1>1. W \in Nat /\ H \in Nat /\ W = 2 * H /\ j \in 0 .. (W - 1) /\ W > 0
  BY WSplits DEF Lanes
<1> HIDE DEF H
<1>2. ASSUME NEW k \in Int, k \in Lanes, k % 2 = 0, NEW A, A \in {U, V}
      PROVE  A[k] \cap A[k + 1] = {}
  <2>1. k + 1 \in Lanes /\ k \in 0 .. (W - 1)
    BY <1>1, <1>2 DEF Lanes
  <2>2. OfLane(k) \cap OfLane(k + 1) = {}
    BY <1>2, <2>1 DEF OfLane
  <2>. QED
    BY <1>2, <2>1, <2>2
<1>3. CASE 2 * j < W
  <2>1. (2 * j) % W = 2 * j /\ 2 * j \in Lanes /\ (2 * j) % 2 = 0 /\ 2 * j + 1 < W /\ 2 * j \in Int
    BY <1>1, <1>3, ModSmall DEF Lanes
  <2>2. addp(U, V)[j] = AddedBytes(U[2 * j], U[2 * j + 1])
    BY <1>3, <2>1 DEF addp, Pairwise
  <2>3. addp(U, V)[j] = U[2 * j] \cup U[2 * j + 1]
    BY <1>2, <2>1, <2>2, DisjointAdded
  <2>. QED
    BY <1>1, <1>3, <2>1, <2>3 DEF InHunk, HunkLanes
<1>4. CASE ~(2 * j < W)
  <2>1. /\ (2 * j) % W = 2 * j - W /\ 2 * j - W \in Lanes /\ (2 * j - W) % 2 = 0
        /\ ~(2 * j + 1 < W) /\ 2 * j - W \in Int /\ (2 * j + 1) - W = (2 * j - W) + 1
    <3>1. 2 * j = W * 1 + (2 * j - W) /\ 2 * j - W \in 0 .. (W - 1)
      BY <1>1, <1>4
    <3>2. (2 * j) % W = 2 * j - W
      BY <1>1, <3>1, DivModIs
    <3>3. (2 * j - W) % 2 = 0
      <4>1. 2 * j - W = 2 * (j - H)
        BY <1>1
      <4>. QED
        BY <1>1, <4>1
    <3>. QED
      BY <1>1, <1>4, <3>1, <3>2, <3>3 DEF Lanes
  <2>2. addp(U, V)[j] = AddedBytes(V[2 * j - W], V[(2 * j - W) + 1])
    BY <1>4, <2>1 DEF addp, Pairwise
  <2>3. addp(U, V)[j] = V[2 * j - W] \cup V[(2 * j - W) + 1]
    BY <1>2, <2>1, <2>2, DisjointAdded
  <2>. QED
    BY <1>1, <1>4, <2>1, <2>3 DEF InHunk, HunkLanes
<1>. QED
  BY <1>3, <1>4

\* The second makes fours of them, the bits of which are apart.
LEMMA AddedTwice ==
    ASSUME NEW U, NEW V, \A i \in Lanes : U[i] \subseteq OfLane(i) /\ V[i] \subseteq OfLane(i),
           NEW v, v = addp(U, V), NEW i \in 0 .. (W \div 2 - 1)
    PROVE  /\ {4 * i, 4 * i + 1, 4 * i + 2, 4 * i + 3} \subseteq HunkLanes
           /\ addp(v, v)[i] = (InHunk(U, V, 4 * i) \cup InHunk(U, V, 4 * i + 1))
                              \cup (InHunk(U, V, 4 * i + 2) \cup InHunk(U, V, 4 * i + 3))
<1> DEFINE A == InHunk(U, V, 4 * i) \cup InHunk(U, V, 4 * i + 1)
           B == InHunk(U, V, 4 * i + 2) \cup InHunk(U, V, 4 * i + 3)
<1>1. 2 * i \in Lanes /\ 2 * i + 1 \in Lanes /\ i \in Lanes /\ (2 * i) % W = 2 * i /\ 2 * i < W
  BY HalfLane
<1>2. 2 * (2 * i) = 4 * i /\ 2 * (2 * i) + 1 = 4 * i + 1
      /\ 2 * (2 * i + 1) = 4 * i + 2 /\ 2 * (2 * i + 1) + 1 = 4 * i + 3
  OBVIOUS
<1>3. v[2 * i] = A /\ 4 * i \in HunkLanes /\ 4 * i + 1 \in HunkLanes
  BY <1>1, <1>2, AddedOnce
<1>4. v[2 * i + 1] = B /\ 4 * i + 2 \in HunkLanes /\ 4 * i + 3 \in HunkLanes
  BY <1>1, <1>2, AddedOnce
<1>5. ASSUME NEW h \in HunkLanes PROVE InHunk(U, V, h) \subseteq OfLane(h)
  <2>1. CASE h < W
    BY <2>1, WAssumption DEF HunkLanes, Lanes, InHunk
  <2>2. CASE ~(h < W)
    <3>1. h - W \in Lanes
      BY <2>2, WAssumption DEF HunkLanes, Lanes
    <3>2. (h - W) % 4 = h % 4
      BY <2>2, WAssumption DEF HunkLanes
    <3>. QED
      BY <2>2, <3>1, <3>2 DEF InHunk, OfLane
  <2>. QED
    BY <2>1, <2>2
<1>6. A \cap B = {}
  <2>1. (4 * i) % 4 = 0 /\ (4 * i + 1) % 4 = 1 /\ (4 * i + 2) % 4 = 2 /\ (4 * i + 3) % 4 = 3
    OBVIOUS
  <2>2. A \subseteq {0, 1, 2, 3}
    BY <1>3, <1>5, <2>1 DEF OfLane
  <2>3. B \subseteq {4, 5, 6, 7}
    BY <1>4, <1>5, <2>1 DEF OfLane
  <2>. QED
    BY <2>2, <2>3
<1>7. addp(v, v)[i] = AddedBytes(v[2 * i], v[2 * i + 1])
  BY <1>1 DEF addp, Pairwise
<1>. QED
  BY <1>3, <1>4, <1>6, <1>7, DisjointAdded

LEMMA SyndromeBit ==
    ASSUME NEW U, NEW V, NEW P \in SUBSET {0, 1}, NEW k
    PROVE  k \in Syndrome(U, V, Stepped(P))
             <=> k \in XBits /\ k % 2 \in P /\ BitOf(k) \in InHunk(U, V, k \div 2)
<1> DEFINE A == and(U, Stepped(P))
           B == and(V, Stepped(P))
           v == addp(A, B)
           w == addp(v, v)
           Here(h, b) == b \in InHunk(A, B, h)
<1>1. ASSUME NEW i \in Lanes
      PROVE  /\ A[i] = U[i] \cap {2 * (i % 4) + b : b \in P}
             /\ B[i] = V[i] \cap {2 * (i % 4) + b : b \in P}
  BY DEF and, Stepped
<1>2. ASSUME NEW i \in Lanes PROVE A[i] \subseteq OfLane(i) /\ B[i] \subseteq OfLane(i)
  <2>1. i \in Int
    BY DEF Lanes
  <2>2. ASSUME NEW b \in P PROVE 2 * (i % 4) + b \in OfLane(i)
    <3>1. b \in {0, 1}
      OBVIOUS
    <3>. QED
      BY <2>1, <3>1 DEF OfLane
  <2>. QED
    BY <1>1, <2>2
<1> HIDE DEF A, B
<1>3. ASSUME NEW h \in HunkLanes
      PROVE  InHunk(A, B, h) = InHunk(U, V, h) \cap {2 * (h % 4) + b : b \in P}
  <2>1. CASE h < W
    BY <1>1, <2>1, WAssumption DEF HunkLanes, Lanes, InHunk
  <2>2. CASE ~(h < W)
    <3>1. h - W \in Lanes
      BY <2>2, WAssumption DEF HunkLanes, Lanes
    <3>2. (h - W) % 4 = h % 4
      BY <2>2, WAssumption DEF HunkLanes
    <3>. QED
      BY <1>1, <2>2, <3>1, <3>2 DEF InHunk
  <2>. QED
    BY <2>1, <2>2
<1>4. ASSUME NEW i \in 0 .. (W \div 2 - 1)
      PROVE  /\ {4 * i, 4 * i + 1, 4 * i + 2, 4 * i + 3} \subseteq HunkLanes
             /\ w[i] = (InHunk(A, B, 4 * i) \cup InHunk(A, B, 4 * i + 1))
                       \cup (InHunk(A, B, 4 * i + 2) \cup InHunk(A, B, 4 * i + 3))
  BY <1>2, AddedTwice
<1>5. Syndrome(U, V, Stepped(P)) = fmov(w)
  BY DEF Syndrome, A, B
<1> HIDE DEF v, w
<1>6. ASSUME NEW h \in HunkLanes PROVE InHunk(A, B, h) \subseteq OfLane(h)
  <2>1. {2 * (h % 4) + b : b \in P} \subseteq OfLane(h)
    BY DEF OfLane, HunkLanes
  <2>. QED
    BY <1>3, <2>1
<1>7. ASSUME NEW i \in 0 .. (W \div 2 - 1) PROVE w[i] \in SUBSET AllOnes
  <2>1. ASSUME NEW h \in HunkLanes PROVE OfLane(h) \subseteq AllOnes
    BY DEF HunkLanes, OfLane, AllOnes
  <2>. QED
    BY <1>4, <1>6, <2>1
<1>8. k \in fmov(w) <=> k \in XBits /\ k % 8 \in w[k \div 8]
  BY <1>7, fmovBit
<1>9. ASSUME k \in XBits
      PROVE  k % 8 \in w[k \div 8] <=> k % 2 \in P /\ BitOf(k) \in InHunk(U, V, k \div 2)
  <2> DEFINE i == k \div 8
             h == k \div 2
  <2>1. /\ k \in 0 .. (4 * W - 1) /\ h \in HunkLanes /\ i \in 0 .. (W \div 2 - 1)
        /\ h = 4 * i + (h % 4) /\ k = 2 * h + (k % 2)
        /\ h % 4 \in 0 .. 3 /\ k % 2 \in {0, 1} /\ k % 8 = 2 * (h % 4) + (k % 2)
    BY <1>9, WAssumption DEF XBits, HunkLanes
  <2>2. k % 8 = BitOf(k)
    BY <2>1 DEF BitOf
  <2> HIDE DEF i, h
  <2>3. ASSUME NEW g \in {4 * i, 4 * i + 1, 4 * i + 2, 4 * i + 3}, BitOf(k) \in InHunk(A, B, g)
        PROVE  g = h
    <3>1. BitOf(k) \in OfLane(g)
      BY <1>4, <1>6, <2>1, <2>3
    <3>2. g % 4 \in 0 .. 3 /\ g = 4 * i + (g % 4)
      <4>1. i \in Int
        BY <2>1
      <4>2. (4 * i) % 4 = 0 /\ (4 * i + 1) % 4 = 1 /\ (4 * i + 2) % 4 = 2 /\ (4 * i + 3) % 4 = 3
        BY <4>1
      <4>. QED
        BY <2>3, <4>1, <4>2
    <3>3. 2 * (h % 4) + (k % 2) \in {2 * (g % 4), 2 * (g % 4) + 1}
      BY <2>1, <2>2, <3>1 DEF OfLane
    <3>4. g % 4 = h % 4
      BY <2>1, <3>2, <3>3
    <3>. QED
      BY <2>1, <3>2, <3>4
  <2>4. h \in {4 * i, 4 * i + 1, 4 * i + 2, 4 * i + 3}
    BY <2>1
  <2>5. BitOf(k) \in w[i] <=> BitOf(k) \in InHunk(A, B, h)
    BY <1>4, <2>1, <2>3, <2>4
  <2>6. BitOf(k) \in {2 * (h % 4) + b : b \in P} <=> k % 2 \in P
    <3>1. ASSUME NEW b \in P, BitOf(k) = 2 * (h % 4) + b PROVE b = k % 2
      <4>1. b \in {0, 1}
        OBVIOUS
      <4>. QED
        BY <2>1, <2>2, <3>1, <4>1
    <3>. QED
      BY <2>1, <2>2, <3>1
  <2>7. BitOf(k) \in InHunk(A, B, h) <=> k % 2 \in P /\ BitOf(k) \in InHunk(U, V, h)
    BY <1>3, <2>1, <2>6
  <2>. QED
    BY <2>2, <2>5, <2>7 DEF i, h
<1>. QED
  BY <1>5, <1>8, <1>9

-----------------------------------------------------------------------------
\* What the syndrome says of memory.

\* The bits of X for bytes of the hunk at a: those from address p on, of C, are marked.
Marks(X, a, p, C) ==
    /\ X \in SUBSET XBits
    /\ \A h \in HunkLanes : (2 * h \in X \/ 2 * h + 1 \in X) <=> a + h >= p /\ mem[a + h] \in C

LEMMA LaneOfBit ==
    ASSUME NEW k \in XBits
    PROVE  /\ k \in Nat /\ k \div 2 \in HunkLanes /\ k % 2 \in {0, 1} /\ k = 2 * (k \div 2) + (k % 2)
           /\ BitOf(k) \in AllOnes
  BY WAssumption DEF XBits, HunkLanes, BitOf, AllOnes

LEMMA BitsOfLane ==
    ASSUME NEW h \in HunkLanes
    PROVE  /\ h \in Nat /\ 2 * h \in XBits /\ 2 * h + 1 \in XBits
           /\ (2 * h) \div 2 = h /\ (2 * h) % 2 = 0 /\ (2 * h + 1) \div 2 = h /\ (2 * h + 1) % 2 = 1
  BY WAssumption DEF XBits, HunkLanes

LEMMA LanesOfHunk ==
    ASSUME NEW h \in HunkLanes
    PROVE  IF h < W THEN h \in Lanes ELSE h - W \in Lanes /\ (h - W) % 4 = h % 4
  BY WAssumption DEF HunkLanes, Lanes

LEMMA MaskOfHunk ==
    ASSUME NEW m, NEW a \in Int, NEW C, NEW h \in HunkLanes, NEW b \in AllOnes
    PROVE  b \in InHunk(MaskOf(Having(ld1(m, a), C)), MaskOf(Having(ld1(m, a + W), C)), h)
             <=> m[a + h] \in C
<1>1. ASSUME NEW c \in Int, NEW i \in Lanes
      PROVE  b \in MaskOf(Having(ld1(m, c), C))[i] <=> m[c + i] \in C
  BY DEF MaskOf, Having, ld1
<1>2. CASE h < W
  BY <1>1, <1>2, LanesOfHunk DEF InHunk
<1>3. CASE ~(h < W)
  <2>1. h - W \in Lanes /\ (a + W) + (h - W) = a + h /\ a + W \in Int
    BY <1>3, WAssumption DEF HunkLanes, Lanes
  <2>. QED
    BY <1>1, <1>3, <2>1 DEF InHunk
<1>. QED
  BY <1>2, <1>3

LEMMA SyndromeIs ==
    ASSUME NEW m, NEW a \in Int, NEW C, NEW P \in SUBSET {0, 1}, NEW k
    PROVE  k \in Syndrome(MaskOf(Having(ld1(m, a), C)), MaskOf(Having(ld1(m, a + W), C)), Stepped(P))
             <=> k \in XBits /\ k % 2 \in P /\ m[a + (k \div 2)] \in C
<1>1. CASE k \in XBits
  BY <1>1, SyndromeBit, LaneOfBit, MaskOfHunk
<1>2. CASE k \notin XBits
  BY <1>2, SyndromeBit
<1>. QED
  BY <1>1, <1>2

\* Results of two comparisons are merged, the one in the even bits and the other in
\* the odd ones.
LEMMA MergedSyndromeIs ==
    ASSUME NEW m, NEW a \in Int, NEW C, NEW D, NEW mask,
           mask = [i \in Lanes |-> {2 * (i % 4) + 1, 2 * (i % 4) + 2} \cap AllOnes], NEW k,
           NEW U, U = bif(MaskOf(Having(ld1(m, a), D)), MaskOf(Having(ld1(m, a), C)), mask),
           NEW V, V = bif(MaskOf(Having(ld1(m, a + W), D)), MaskOf(Having(ld1(m, a + W), C)), mask)
    PROVE  k \in Syndrome(U, V, Stepped({0, 1}))
             <=> k \in XBits /\ m[a + (k \div 2)] \in (IF k % 2 = 0 THEN C ELSE D)
<1> DEFINE MU(B) == MaskOf(Having(ld1(m, a), B))
           MV(B) == MaskOf(Having(ld1(m, a + W), B))
<1>1. CASE k \notin XBits
  BY <1>1, SyndromeBit
<1>2. CASE k \in XBits
  <2> DEFINE h == k \div 2
             b == BitOf(k)
  <2>1. /\ h \in HunkLanes /\ k % 2 \in {0, 1} /\ b \in AllOnes /\ b = 2 * (h % 4) + (k % 2)
    BY <1>2, LaneOfBit DEF BitOf
  <2>2. k \in Syndrome(U, V, Stepped({0, 1})) <=> b \in InHunk(U, V, h)
    BY <1>2, <2>1, SyndromeBit
  <2>3. ASSUME NEW B PROVE b \in InHunk(MU(B), MV(B), h) <=> m[a + h] \in B
    BY <2>1, MaskOfHunk
  <2> HIDE DEF MU, MV, h, b
  <2>4. ASSUME NEW i \in Lanes, i % 4 = h % 4
        PROVE  b \in mask[i] <=> k % 2 = 1
    <3>1. i % 4 \in 0 .. 3 /\ b \in {2 * (i % 4), 2 * (i % 4) + 1} /\ (b = 2 * (i % 4) + 1 <=> k % 2 = 1)
      BY <2>1, <2>4 DEF Lanes
    <3>. QED
      BY <2>1, <3>1
  <2>5. b \in InHunk(U, V, h) <=> IF k % 2 = 0 THEN b \in InHunk(MU(C), MV(C), h)
                                  ELSE b \in InHunk(MU(D), MV(D), h)
    <3>1. CASE h < W
      <4>1. h \in Lanes
        BY <2>1, <3>1, LanesOfHunk
      <4>2. U[h] = (MU(D)[h] \cap mask[h]) \cup (MU(C)[h] \ mask[h])
        BY <4>1 DEF bif, MU
      <4>. QED
        BY <2>1, <2>4, <3>1, <4>1, <4>2 DEF InHunk
    <3>2. CASE ~(h < W)
      <4>1. h - W \in Lanes /\ (h - W) % 4 = h % 4
        BY <2>1, <3>2, LanesOfHunk
      <4>2. V[h - W] = (MV(D)[h - W] \cap mask[h - W]) \cup (MV(C)[h - W] \ mask[h - W])
        BY <4>1 DEF bif, MV
      <4>. QED
        BY <2>1, <2>4, <3>2, <4>1, <4>2 DEF InHunk
    <3>. QED
      BY <3>1, <3>2
  <2>. QED
    BY <1>2, <2>1, <2>2, <2>3, <2>5 DEF h
<1>. QED
  BY <1>1, <1>2

\* The bits before those of the byte p of the hunk.
LEMMA PaddingIs ==
    ASSUME NEW r \in 1 .. (2 * W - 1)
    PROVE  lsr(XBits, -(2 * r)) = 0 .. (2 * r - 1)
<1> DEFINE s == (-(2 * r)) % (4 * W)
<1>1. s = 4 * W - 2 * r
  <2> DEFINE n == 4 * W
             t == 4 * W - 2 * r
             a == -(2 * r)
  <2>1. a = n * (-1) + t /\ t \in 0 .. (n - 1) /\ n \in Nat /\ a \in Int /\ -1 \in Int
    BY WAssumption
  <2>2. s = a % n
    OBVIOUS
  <2> HIDE DEF n, t, a, s
  <2>3. a % n = t
    BY <2>1, DivModIs
  <2>. QED
    BY <2>2, <2>3 DEF t
<1>2. lsr(XBits, -(2 * r)) = {k - s : k \in {j \in XBits : j >= s}}
  BY DEF lsr
<1> HIDE DEF s
<1>3. ASSUME NEW k \in XBits, k >= s PROVE k - s \in 0 .. (2 * r - 1)
  BY <1>1, <1>3, WAssumption DEF XBits
<1>4. ASSUME NEW j \in 0 .. (2 * r - 1) PROVE \E k \in {l \in XBits : l >= s} : j = k - s
  <2>1. j + s \in XBits /\ j + s >= s /\ j = (j + s) - s
    BY <1>1, WAssumption DEF XBits
  <2>. QED
    BY <2>1
<1>. QED
  BY <1>2, <1>3, <1>4

\* Shifted down and up again.
LEMMA DownAndUp ==
    ASSUME NEW X \in SUBSET XBits, NEW r \in 0 .. (2 * W - 1)
    PROVE  lsl(lsr(X, 2 * r), 2 * r) = {k \in X : k >= 2 * r}
<1>1. 2 * r \in 0 .. (4 * W - 1) /\ (2 * r) % (4 * W) = 2 * r /\ 4 * W \in Nat
  BY WAssumption, ModSmall
<1> DEFINE Z == lsr(X, 2 * r)
<1>2. Z = {k - 2 * r : k \in {j \in X : j >= 2 * r}}
  BY <1>1 DEF lsr
<1>3. lsl(Z, 2 * r) = {k + 2 * r : k \in {j \in Z : j + 2 * r \in XBits}}
  BY <1>1 DEF lsl
<1>4. ASSUME NEW k \in X, k >= 2 * r PROVE k - 2 * r \in Z /\ (k - 2 * r) + 2 * r = k
  BY <1>1, <1>2, <1>4 DEF XBits
<1>5. ASSUME NEW k \in Z PROVE k + 2 * r \in X /\ k + 2 * r >= 2 * r
  BY <1>1, <1>2, <1>5 DEF XBits
<1> HIDE DEF Z
<1>. QED
  BY <1>3, <1>4, <1>5 DEF Z

\* Shifted up and down again, by a size less the bits that are to stay.
LEMMA UpAndDown ==
    ASSUME NEW X \in SUBSET XBits, NEW e \in 0 .. (2 * W - 1)
    PROVE  lsr(lsl(X, 2 * (2 * W - e)), 2 * (2 * W - e))
             = IF e = 0 THEN X ELSE {k \in X : k < 2 * e}
<1> DEFINE t == 2 * (2 * W - e)
           s == t % (4 * W)
           Z == lsl(X, t)
<1>1. s = IF e = 0 THEN 0 ELSE 4 * W - 2 * e
  <2>1. CASE e = 0
    <3>1. t = (4 * W) * 1 + 0 /\ 4 * W \in Nat /\ 0 \in 0 .. (4 * W - 1) /\ t \in Int
      BY <2>1, WAssumption
    <3>. QED
      BY <2>1, <3>1, DivModIs
  <2>2. CASE e # 0
    <3>1. t = 4 * W - 2 * e /\ t \in 0 .. (4 * W - 1) /\ 4 * W \in Nat
      BY <2>2, WAssumption
    <3>. QED
      BY <2>2, <3>1, ModSmall
  <2>. QED
    BY <2>1, <2>2
<1>2. Z = {k + s : k \in {j \in X : j + s \in XBits}}
  BY DEF lsl
<1>3. lsr(Z, t) = {k - s : k \in {j \in Z : j >= s}}
  BY DEF lsr
<1> HIDE DEF t, s, Z
<1>4. s \in Nat
  BY <1>1, WAssumption
<1>5. ASSUME NEW k \in X
      PROVE  /\ k \in Nat /\ k + s - s = k /\ k + s >= s
             /\ k + s \in XBits <=> (e = 0 \/ k < 2 * e)
  BY <1>1, <1>4, <1>5, WAssumption DEF XBits
<1>6. ASSUME NEW k \in X, k + s \in XBits PROVE k \in lsr(Z, t)
  <2>1. k + s \in {j \in Z : j >= s}
    BY <1>2, <1>5, <1>6
  <2>2. k = (k + s) - s
    BY <1>4, <1>5
  <2>. QED
    BY <1>3, <2>1, <2>2
<1>7. ASSUME NEW k \in lsr(Z, t) PROVE k \in X /\ k + s \in XBits
  <2>1. PICK z \in Z : z >= s /\ k = z - s
    BY <1>3
  <2>2. PICK x \in X : z = x + s /\ x + s \in XBits
    BY <1>2
  <2>3. k = x
    BY <1>4, <1>5, <2>1, <2>2
  <2>. QED
    BY <2>2, <2>3
<1>8. lsr(Z, t) = {k \in X : k + s \in XBits}
  BY <1>6, <1>7
<1>. QED
  BY <1>5, <1>8 DEF Z, t

-----------------------------------------------------------------------------
\* Is a byte of a hunk found?

LEMMA orrMasks ==
    ASSUME NEW M, NEW P
    PROVE  orr(MaskOf(M), MaskOf(P)) = MaskOf(M \cup P)
<1>1. ASSUME NEW i \in Lanes
      PROVE  (IF i \in M THEN AllOnes ELSE {}) \cup (IF i \in P THEN AllOnes ELSE {})
             = IF i \in M \cup P THEN AllOnes ELSE {}
  OBVIOUS
<1>2. \A i \in Lanes : MaskOf(M)[i] \cup MaskOf(P)[i] = IF i \in M \cup P THEN AllOnes ELSE {}
  BY <1>1 DEF MaskOf
<1>. QED
  BY <1>2 DEF orr, MaskOf

\* The bits of the bytes of B.
Octets(B) == {k \in Nat : k \div 8 \in B}

\* The sum of two numbers whose bytes are all ones or 0 is 0 only if both are: of the
\* lowest byte that is not 0 in either, the second bit or the first is left.
LEMMA SumFinds ==
    ASSUME NEW H \in Nat, NEW P \in SUBSET (0 .. (H - 1)), NEW Q \in SUBSET (0 .. (H - 1)),
           NEW A, NEW B, A = Octets(P), B = Octets(Q)
    PROVE  Sum(A, B, 8 * H) = {} <=> P \cup Q = {}
<1> DEFINE Carry(k) == \E j \in 0 .. (k - 1) :
                          j \in A \cap B /\ \A l \in (j + 1) .. (k - 1) : l \in A \cup B
<1>1. Sum(A, B, 8 * H) = IF A \cap B = {} THEN A \cup B
                         ELSE {k \in 0 .. (8 * H - 1) : k \in SymmetricDiff(A, B) <=> ~Carry(k)}
  BY DEF Sum
<1>2. ASSUME NEW k \in A \cup B PROVE k \div 8 \in P \cup Q /\ k \in Nat
  BY DEF Octets
<1>3. CASE P \cup Q = {}
  <2>1. A \cup B = {}
    BY <1>2, <1>3
  <2>. QED
    BY <1>1, <1>3, <2>1
<1>4. CASE P \cup Q # {}
  <2>1. P \cup Q \subseteq Nat
    OBVIOUS
  <2>2. PICK i \in P \cup Q : \A j \in P \cup Q : i <= j
    BY <1>4, <2>1, LeastOf
  <2>3. i \in 0 .. (H - 1) /\ i \in Nat
    OBVIOUS
  <2>4. /\ 8 * i \in A <=> i \in P
        /\ 8 * i \in B <=> i \in Q
        /\ 8 * i + 1 \in A <=> i \in P
        /\ 8 * i + 1 \in B <=> i \in Q
        /\ 8 * i \in 0 .. (8 * H - 1) /\ 8 * i + 1 \in 0 .. (8 * H - 1)
    <3>1. /\ 8 * i \in 0 .. (8 * H - 1) /\ 8 * i + 1 \in 0 .. (8 * H - 1)
          /\ (8 * i) \div 8 = i /\ (8 * i + 1) \div 8 = i
      BY <2>3
    <3>. QED
      BY <3>1 DEF Octets
  <2>5. CASE A \cap B = {}
    BY <1>1, <1>4, <2>4, <2>5
  <2>6. CASE A \cap B # {} /\ ~(i \in P /\ i \in Q)
    <3>1. 8 * i \in SymmetricDiff(A, B)
      BY <2>4, <2>6 DEF SymmetricDiff
    <3>2. ASSUME NEW j \in 0 .. (8 * i - 1), j \in A \cap B PROVE FALSE
      <4>1. j \div 8 \in P \cup Q
        BY <1>2, <3>2
      <4>2. i <= j \div 8
        BY <2>2, <4>1
      <4>. QED
        BY <2>3, <3>2, <4>2
    <3>3. ~Carry(8 * i)
      BY <3>2
    <3> HIDE DEF Carry
    <3>4. 8 * i \in Sum(A, B, 8 * H)
      BY <1>1, <2>4, <2>6, <3>1, <3>3
    <3>. QED
      BY <1>4, <3>4
  <2>7. CASE A \cap B # {} /\ i \in P /\ i \in Q
    <3>1. 8 * i + 1 \notin SymmetricDiff(A, B)
      BY <2>4, <2>7 DEF SymmetricDiff
    <3>2. Carry(8 * i + 1)
      <4>1. 8 * i \in 0 .. ((8 * i + 1) - 1) /\ 8 * i \in A \cap B
        BY <2>3, <2>4, <2>7
      <4>2. \A l \in (8 * i + 1) .. ((8 * i + 1) - 1) : l \in A \cup B
        BY <2>3
      <4>. QED
        BY <4>1, <4>2
    <3> HIDE DEF Carry
    <3>3. 8 * i + 1 \in Sum(A, B, 8 * H)
      BY <1>1, <2>4, <2>7, <3>1, <3>2
    <3>. QED
      BY <1>4, <3>3
  <2>. QED
    BY <2>5, <2>6, <2>7
<1>. QED
  BY <1>3, <1>4

\* The halves of the result of a comparison.
LEMMA HalvesAdded ==
    ASSUME NEW M \in SUBSET Lanes
    PROVE  Sum(fmov(MaskOf(M)), High(MaskOf(M)), 4 * W) = {} <=> M = {}
<1> DEFINE H == W \div 2
           P == {i \in 0 .. (H - 1) : i \in M}
           Q == {i \in 0 .. (H - 1) : i + H \in M}
           A == fmov(MaskOf(M))
           B == High(MaskOf(M))
<1>1. W \in Nat /\ H \in Nat /\ W = 2 * H /\ W > 0 /\ 4 * W = 8 * H
  BY WSplits
<1>2. ASSUME NEW j \in Lanes
      PROVE  \A c : c \in MaskOf(M)[j] <=> c \in 0 .. 7 /\ j \in M
  BY DEF MaskOf, AllOnes
<1> HIDE DEF H
<1>3. A = UNION {{8 * i + b : b \in MaskOf(M)[i]} : i \in 0 .. (H - 1)}
  BY DEF fmov, H
<1>4. B = UNION {{8 * (i - H) + b : b \in MaskOf(M)[i]} : i \in H .. (W - 1)}
  BY DEF High, H
<1>5. \A k : k \in A <=> \E j \in 0 .. (H - 1) : \E c \in MaskOf(M)[j] : k = 8 * j + c
  BY <1>3
<1>6. \A k : k \in B <=> \E j \in H .. (W - 1) : \E c \in MaskOf(M)[j] : k = 8 * (j - H) + c
  BY <1>4
<1> HIDE DEF A, B
<1>7. A = Octets(P)
  <2>1. ASSUME NEW j \in 0 .. (H - 1), NEW c \in MaskOf(M)[j] PROVE 8 * j + c \in Octets(P)
    <3>1. j \in Lanes
      BY <1>1 DEF Lanes
    <3>2. c \in 0 .. 7 /\ j \in P
      BY <1>2, <3>1
    <3>3. 8 * j + c \in Nat /\ (8 * j + c) \div 8 = j
      BY <3>2
    <3>. QED
      BY <3>2, <3>3 DEF Octets
  <2>2. ASSUME NEW k \in Octets(P) PROVE \E j \in 0 .. (H - 1) : \E c \in MaskOf(M)[j] : k = 8 * j + c
    <3>1. k \div 8 \in 0 .. (H - 1) /\ k \div 8 \in M /\ k % 8 \in 0 .. 7 /\ k = 8 * (k \div 8) + (k % 8)
      BY DEF Octets
    <3>2. k \div 8 \in Lanes
      BY <1>1, <3>1 DEF Lanes
    <3>. QED
      BY <1>2, <3>1, <3>2
  <2>. QED
    BY <1>5, <2>1, <2>2
<1>8. B = Octets(Q)
  <2>1. ASSUME NEW j \in H .. (W - 1), NEW c \in MaskOf(M)[j] PROVE 8 * (j - H) + c \in Octets(Q)
    <3>1. j \in Lanes /\ j - H \in 0 .. (H - 1) /\ (j - H) + H = j
      BY <1>1 DEF Lanes
    <3>2. c \in 0 .. 7 /\ j - H \in Q
      BY <1>2, <3>1
    <3>3. 8 * (j - H) + c \in Nat /\ (8 * (j - H) + c) \div 8 = j - H
      BY <3>1, <3>2
    <3>. QED
      BY <3>2, <3>3 DEF Octets
  <2>2. ASSUME NEW k \in Octets(Q) PROVE \E j \in H .. (W - 1) : \E c \in MaskOf(M)[j] : k = 8 * (j - H) + c
    <3>1. /\ k \div 8 \in 0 .. (H - 1) /\ (k \div 8) + H \in M
          /\ k % 8 \in 0 .. 7 /\ k = 8 * (k \div 8) + (k % 8)
      BY DEF Octets
    <3> DEFINE j == (k \div 8) + H
    <3>2. j \in Lanes /\ j \in H .. (W - 1) /\ j - H = k \div 8
      BY <1>1, <3>1 DEF Lanes
    <3>3. k % 8 \in MaskOf(M)[j]
      BY <1>2, <3>1, <3>2
    <3>. QED
      BY <3>1, <3>2, <3>3
  <2>. QED
    BY <1>6, <2>1, <2>2
<1>11. P \cup Q = {} <=> M = {}
  <2>1. ASSUME NEW j \in M PROVE j \in P \/ j - H \in Q
    <3>1. j \in 0 .. (W - 1)
      BY DEF Lanes
    <3>2. j \in 0 .. (H - 1) \/ (j - H \in 0 .. (H - 1) /\ (j - H) + H = j)
      BY <1>1, <3>1
    <3>. QED
      BY <3>2
  <2>. QED
    BY <2>1
<1>12. P \in SUBSET (0 .. (H - 1)) /\ Q \in SUBSET (0 .. (H - 1))
  OBVIOUS
<1> HIDE DEF P, Q
<1>13. Sum(A, B, 8 * H) = {} <=> P \cup Q = {}
  <2>1. H \in Nat
    BY <1>1
  <2>. QED
    BY <1>7, <1>8, <1>12, <2>1, SumFinds
<1>. QED
  BY <1>1, <1>11, <1>13 DEF A, B

\* The least of two pairs of bytes.
LEMMA uminpIs ==
    ASSUME NEW U, NEW V, \A h \in HunkLanes : InHunk(U, V, h) \in Nat, NEW j \in Lanes
    PROVE  /\ 2 * j \in HunkLanes /\ 2 * j + 1 \in HunkLanes
           /\ uminp(U, V)[j] \in Nat
           /\ uminp(U, V)[j] = 0 <=> InHunk(U, V, 2 * j) = 0 \/ InHunk(U, V, 2 * j + 1) = 0
<1> DEFINE H == W \div 2
<1>1. W \in Nat /\ H \in Nat /\ W = 2 * H /\ j \in 0 .. (W - 1) /\ W > 0
  BY WSplits DEF Lanes
<1> HIDE DEF H
<1>2. 2 * j \in HunkLanes /\ 2 * j + 1 \in HunkLanes
  BY <1>1 DEF HunkLanes
<1>3. uminp(U, V)[j] = SmallerNumber(InHunk(U, V, 2 * j), InHunk(U, V, 2 * j + 1))
  <2>1. CASE 2 * j < W
    <3>1. (2 * j) % W = 2 * j /\ 2 * j + 1 < W
      BY <1>1, <2>1, ModSmall
    <3>. QED
      BY <2>1, <3>1 DEF uminp, Pairwise, InHunk
  <2>2. CASE ~(2 * j < W)
    <3>1. 2 * j = W * 1 + (2 * j - W) /\ 2 * j - W \in 0 .. (W - 1)
      BY <1>1, <2>2
    <3>2. (2 * j) % W = 2 * j - W
      BY <1>1, <3>1, DivModIs
    <3>3. ~(2 * j + 1 < W) /\ (2 * j + 1) - W = (2 * j - W) + 1
      BY <1>1, <2>2
    <3>. QED
      BY <2>2, <3>2, <3>3 DEF uminp, Pairwise, InHunk
  <2>. QED
    BY <2>1, <2>2
<1>4. ASSUME NEW x \in Nat, NEW y \in Nat
      PROVE  SmallerNumber(x, y) \in Nat /\ (SmallerNumber(x, y) = 0 <=> x = 0 \/ y = 0)
  BY DEF SmallerNumber
<1>. QED
  BY <1>2, <1>3, <1>4

\* Results of a comparison added in pairs.
LEMMA AddedFinds ==
    ASSUME NEW M \in SUBSET Lanes
    PROVE  fmov(addp(MaskOf(M), MaskOf(M))) = {} <=> M = {}
<1> DEFINE v == MaskOf(M)
<1>1. ASSUME NEW i \in Lanes PROVE v[i] = IF i \in M THEN AllOnes ELSE {}
  BY DEF MaskOf
<1>2. ASSUME NEW A \in {AllOnes, {}}, NEW B \in {AllOnes, {}}
      PROVE  AddedBytes(A, B) \in SUBSET AllOnes /\ (AddedBytes(A, B) = {} <=> A = {} /\ B = {})
  <2>1. CASE A \cap B = {}
    BY <1>2, <2>1, DisjointAdded
  <2>2. CASE A \cap B # {}
    <3>1. A = AllOnes /\ B = AllOnes
      BY <2>2
    <3> DEFINE Carry(k) == \E j \in 0 .. (k - 1) :
                  j \in A \cap B /\ \A l \in (j + 1) .. (k - 1) : l \in A \cup B
    <3>2. AddedBytes(A, B) = {k \in 0 .. (8 - 1) : k \in SymmetricDiff(A, B) <=> ~Carry(k)}
      BY <2>2 DEF AddedBytes, Sum
    <3>3. Carry(1) /\ 1 \notin SymmetricDiff(A, B) /\ 1 \in 0 .. (8 - 1)
      <4>1. 0 \in 0 .. (1 - 1) /\ 0 \in A \cap B /\ (0 + 1) .. (1 - 1) = {}
        BY <3>1 DEF AllOnes
      <4>. QED
        BY <3>1, <4>1 DEF SymmetricDiff
    <3>4. 1 \in AddedBytes(A, B)
      BY <3>2, <3>3
    <3>5. AllOnes # {} /\ 0 .. (8 - 1) = AllOnes
      BY 0 \in 0 .. 7 DEF AllOnes
    <3>. QED
      BY <3>1, <3>2, <3>4, <3>5
  <2>. QED
    BY <2>1, <2>2
<1>3. ASSUME NEW i \in 0 .. (W \div 2 - 1)
      PROVE  /\ addp(v, v)[i] \in SUBSET AllOnes /\ 2 * i \in Lanes /\ 2 * i + 1 \in Lanes
             /\ addp(v, v)[i] = {} <=> 2 * i \notin M /\ 2 * i + 1 \notin M
  <2>1. 2 * i \in Lanes /\ 2 * i + 1 \in Lanes /\ i \in Lanes /\ (2 * i) % W = 2 * i /\ 2 * i < W
    BY HalfLane
  <2>2. addp(v, v)[i] = AddedBytes(v[2 * i], v[2 * i + 1])
    BY <2>1 DEF addp, Pairwise
  <2>3. AllOnes # {}
    BY 0 \in 0 .. 7 DEF AllOnes
  <2>. QED
    BY <1>1, <1>2, <2>1, <2>2, <2>3
<1>4. fmov(addp(v, v)) = {} <=> \A i \in 0 .. (W \div 2 - 1) : addp(v, v)[i] = {}
  <2>1. ASSUME NEW k, NEW w
        PROVE  k \in fmov(w) <=> \E i \in 0 .. (W \div 2 - 1) : \E b \in w[i] : k = 8 * i + b
    BY DEF fmov
  <2>2. ASSUME NEW w
        PROVE  fmov(w) = {} <=> \A i \in 0 .. (W \div 2 - 1) : w[i] = {}
    <3>1. ASSUME NEW i \in 0 .. (W \div 2 - 1), NEW b \in w[i] PROVE 8 * i + b \in fmov(w)
      BY <2>1
    <3>2. ASSUME NEW k \in fmov(w) PROVE \E i \in 0 .. (W \div 2 - 1) : w[i] # {}
      BY <2>1
    <3>. QED
      BY <3>1, <3>2
  <2>. QED
    BY <2>2
<1>5. ASSUME NEW j \in M PROVE \E i \in 0 .. (W \div 2 - 1) : j \in {2 * i, 2 * i + 1}
  <2>1. j \div 2 \in 0 .. (W \div 2 - 1) /\ j \in {2 * (j \div 2), 2 * (j \div 2) + 1}
    BY WAssumption DEF Lanes
  <2>. QED
    BY <2>1
<1> HIDE DEF v
<1>. QED
  BY <1>3, <1>4, <1>5 DEF v

-----------------------------------------------------------------------------
\* The first byte that is looked for.

\* F is the first byte of C from address p on.
IsFirst(F, p, C) == /\ F \in DOMAIN mem /\ F \in Nat /\ p <= F /\ mem[F] \in C
                    /\ \A x \in DOMAIN mem : x >= p /\ mem[x] \in C => F <= x

LEMMA FirstIs ==
    ASSUME mem \in Memories, NEW a \in Nat, NEW C, \E x \in DOMAIN mem : x >= a /\ mem[x] \in C
    PROVE  IsFirst(First(a, C), a, C)
<1> DEFINE T == {x \in DOMAIN mem : x >= a /\ mem[x] \in C}
<1>1. DOMAIN mem \subseteq Nat
  <2>1. PICK n \in DOMAIN mem : DOMAIN mem = 0 .. n
    BY MemoriesAssumption
  <2>. QED
    BY <2>1
<1>2. T \subseteq Nat /\ T # {}
  BY <1>1
<1>3. Min(T) \in T /\ \A y \in T : Min(T) <= y
  BY <1>2, MinExists
<1>4. First(a, C) = Min(T)
  BY DEF First
<1>. QED
  BY <1>1, <1>3, <1>4 DEF IsFirst

LEMMA HunkSize ==
    2 * W \in Nat /\ 2 * W > 0 /\ W \in Nat /\ W > 0
  BY WAssumption

\* The first hunk, or the first word.
LEMMA HeadOf ==
    ASSUME NEW n \in Nat, n > 0, NEW p \in Nat
    PROVE  /\ p - (p % n) \in Nat /\ (p - (p % n)) % n = 0
           /\ p - (p % n) <= p /\ p < (p - (p % n)) + n
           /\ p % n \in 0 .. (n - 1)
<1> DEFINE r == p % n
<1>1. p = n * (p \div n) + r /\ p \div n \in Int /\ r \in 0 .. (n - 1)
  BY DivMod
<1>2. p \div n >= 0
  BY <1>1
<1>3. n * (p \div n) \in Nat
  BY <1>1, <1>2
<1>4. (p - r) % n = 0
  BY ModOfAligned
<1>. QED
  BY <1>1, <1>3, <1>4

LEMMA HeadIs ==
    ASSUME NEW p \in Nat
    PROVE  /\ p - (p % (2 * W)) \in Nat /\ (p - (p % (2 * W))) % (2 * W) = 0
           /\ p - (p % (2 * W)) <= p /\ p < (p - (p % (2 * W))) + 2 * W
           /\ p % (2 * W) \in 0 .. (2 * W - 1)
  BY HunkSize, HeadOf

\* A hunk of which a later byte is in memory is in it.
LEMMA HunkInMemory ==
    ASSUME mem \in Memories, NEW a \in Nat, a % (2 * W) = 0, NEW x \in DOMAIN mem, a <= x,
           NEW g \in HunkLanes
    PROVE  a + g \in DOMAIN mem
<1> DEFINE n == 2 * W
<1>0. n \in Nat /\ n > 0 /\ a % n = 0 /\ g \in 0 .. (n - 1)
  BY HunkSize DEF HunkLanes
<1>1. PICK e \in DOMAIN mem : DOMAIN mem = 0 .. e /\ (e + 1) % n = 0
  BY HunksAssumption
<1> HIDE DEF n
<1>2. e \in Nat /\ x \in 0 .. e
  <2>1. e \in 0 .. e
    BY <1>1
  <2>. QED
    BY <1>1, <2>1
<1>3. SUFFICES ASSUME a + g > e PROVE FALSE
  BY <1>0, <1>1, <1>2
<1>4. e + 1 <= (a + g) - ((a + g) % n)
  <2>1. e + 1 \in Int /\ a + g \in Int /\ e + 1 <= a + g
    BY <1>0, <1>2, <1>3
  <2>. QED
    BY <1>0, <1>1, <1>2, <2>1, Chunks
<1>5. (a + g) % n = g
  <2>1. a = n * (a \div n) + 0 /\ a \div n \in Int
    BY <1>0, DivMod
  <2>2. a + g = n * (a \div n) + g /\ a + g \in Int
    BY <1>0, <2>1
  <2>. QED
    BY <1>0, <2>1, <2>2, DivModIs
<1>. QED
  BY <1>0, <1>2, <1>4, <1>5

\* What a syndrome says of F, the first byte of C from p on, in the hunk at a.
LEMMA MarksFirst ==
    ASSUME mem \in Memories, NEW p \in Nat, NEW C, NEW F, IsFirst(F, p, C),
           NEW a \in Nat, a % (2 * W) = 0, a <= F, NEW X, Marks(X, a, p, C),
           NEW f, f = clz(rbit(X))
    PROVE  /\ X = {} => a + 2 * W <= F
           /\ X # {} => f \in X /\ f \in XBits /\ F = a + (f \div 2) /\ F < a + 2 * W
<1>1. F \in DOMAIN mem /\ F \in Nat /\ mem[F] \in C /\ p <= F /\ W \in Nat /\ W > 0
  BY WAssumption DEF IsFirst
<1>2. X \in SUBSET XBits
  BY DEF Marks
<1>3. ASSUME F < a + 2 * W
      PROVE  /\ F - a \in HunkLanes /\ a + (F - a) = F
             /\ 2 * (F - a) \in X \/ 2 * (F - a) + 1 \in X
  <2>1. F - a \in HunkLanes /\ a + (F - a) = F
    BY <1>1, <1>3 DEF HunkLanes
  <2> DEFINE h == F - a
  <2>2. h \in HunkLanes /\ a + h = F
    BY <2>1
  <2> HIDE DEF h
  <2>3. 2 * h \in X \/ 2 * h + 1 \in X
    BY <1>1, <2>2 DEF Marks
  <2>. QED
    BY <2>1, <2>3 DEF h
<1>4. CASE X = {}
  BY <1>1, <1>3, <1>4
<1>5. CASE X # {}
  <2>1. f \in X /\ \A k \in X : f <= k
    BY <1>2, <1>5, clzRbitIs
  <2> DEFINE h == f \div 2
  <2>2. f \in XBits /\ f \in Nat /\ h \in HunkLanes /\ (f = 2 * h \/ f = 2 * h + 1)
    BY <1>2, <2>1, LaneOfBit
  <2>3. h \in Nat /\ h < 2 * W
    BY <1>1, <2>2 DEF HunkLanes
  <2> HIDE DEF h
  <2>4. a + h >= p /\ mem[a + h] \in C
    BY <2>1, <2>2 DEF Marks
  <2>5. F <= a + h
    <3>1. a + h \in DOMAIN mem
      BY <1>1, <2>2, HunkInMemory
    <3>. QED
      BY <2>4, <3>1 DEF IsFirst
  <2>6. F < a + 2 * W
    BY <1>1, <2>3, <2>5
  <2>7. f <= 2 * (F - a) + 1
    <3>1. f <= 2 * (F - a) \/ f <= 2 * (F - a) + 1
      BY <1>3, <2>1, <2>6
    <3>. QED
      BY <1>1, <2>2, <3>1
  <2>8. F = a + h
    BY <1>1, <2>2, <2>3, <2>5, <2>7
  <2>. QED
    BY <1>5, <2>1, <2>2, <2>6, <2>8 DEF h
<1>. QED
  BY <1>4, <1>5

\* A hunk no further than F's is one that may be loaded.
LEMMA MayLoad ==
    ASSUME NEW g \in Nat, g > 0, NEW p \in Nat, NEW F \in Nat, NEW a \in Int, a % g = 0,
           p - (p % g) <= a, a <= F
    PROVE  Chunk(a, g) \subseteq Granules(p, F, g)
<1>1. a <= F - (F % g)
  BY Chunks
<1>2. p % g \in Int /\ F % g \in Int
  BY DivMod
<1>. QED
  BY <1>1, <1>2 DEF Chunk, Granules

\* The arguments of a call.
GivenOK == mem \in Memories /\ srcin \in Pointers /\ big \in BOOLEAN
SameGiven == mem' = mem /\ srcin' = srcin /\ big' = big
CharOK == chrin \in Chars \cup {0}
CountOK == cntin \in 0 .. (Size - 1) /\ Size \in Nat

LEMMA FirstSame ==
    ASSUME SameGiven, NEW C
    PROVE  First(srcin, C)' = First(srcin, C)
  BY DEF SameGiven, First

\* The first byte that is looked for, from the pointer on.
LEMMA ByteIs ==
    ASSUME GivenOK, NEW C, NEW c \in C, c \in Chars \cup {0}
    PROVE  srcin \in Nat /\ IsFirst(First(srcin, C), srcin, C)
<1>1. PICK x \in DOMAIN mem : x >= srcin /\ mem[x] = c
  BY EndsAssumption DEF GivenOK
<1>2. srcin \in Nat /\ mem \in Memories
  BY PointersAssumption DEF GivenOK
<1>3. mem[x] \in C
  BY <1>1
<1>. QED
  BY <1>1, <1>2, <1>3, FirstIs

\* No byte of the hunk at a is one of C.
HunkClean(a, C) == \A h \in HunkLanes : mem[a + h] \notin C

LEMMA HunkPassed ==
    ASSUME NEW p, NEW C, NEW F, IsFirst(F, p, C), NEW a \in Int, a <= F, HunkClean(a, C)
    PROVE  a + 2 * W <= F
<1>1. F \in Int /\ mem[F] \in C /\ W \in Nat
  BY WAssumption DEF IsFirst
<1>2. SUFFICES ASSUME F < a + 2 * W PROVE FALSE
  BY <1>1
<1>3. F - a \in HunkLanes /\ a + (F - a) = F
  BY <1>1, <1>2 DEF HunkLanes
<1>. QED
  BY <1>1, <1>3 DEF HunkClean

\* The lanes of both registers of a hunk.
LEMMA HavingHunk ==
    ASSUME NEW a \in Int, NEW C
    PROVE  Having(ld1(mem, a), C) \cup Having(ld1(mem, a + W), C) = {} <=> HunkClean(a, C)
<1>1. ASSUME NEW c \in Int, NEW i \in Lanes
      PROVE  i \in Having(ld1(mem, c), C) <=> mem[c + i] \in C
  BY DEF Having, ld1
<1>2. ASSUME NEW h \in HunkLanes, mem[a + h] \in C
      PROVE  Having(ld1(mem, a), C) \cup Having(ld1(mem, a + W), C) # {}
  <2>1. CASE h < W
    BY <1>1, <1>2, <2>1, LanesOfHunk
  <2>2. CASE ~(h < W)
    <3>1. h - W \in Lanes /\ (a + W) + (h - W) = a + h /\ a + W \in Int
      BY <2>2, LanesOfHunk, WAssumption DEF HunkLanes
    <3>. QED
      BY <1>1, <1>2, <3>1
  <2>. QED
    BY <2>1, <2>2
<1>3. ASSUME NEW i \in Having(ld1(mem, a), C) PROVE ~HunkClean(a, C)
  <2>1. i \in Lanes /\ i \in HunkLanes
    BY WAssumption DEF Having, Lanes, HunkLanes
  <2>. QED
    BY <1>1, <1>3, <2>1 DEF HunkClean
<1>4. ASSUME NEW i \in Having(ld1(mem, a + W), C) PROVE ~HunkClean(a, C)
  <2>1. i \in Lanes /\ W + i \in HunkLanes /\ (a + W) + i = a + (W + i) /\ a + W \in Int
    BY WAssumption DEF Having, Lanes, HunkLanes
  <2>. QED
    BY <1>1, <1>4, <2>1 DEF HunkClean
<1>. QED
  BY <1>2, <1>3, <1>4 DEF HunkClean

\* A syndrome of one bit a byte, less the bytes before p.
LEMMA BitsMark ==
    ASSUME NEW a \in Int, NEW C, NEW b \in {0, 1}, NEW p \in Int, NEW Z,
           Z = {k \in Syndrome(MaskOf(Having(ld1(mem, a), C)), MaskOf(Having(ld1(mem, a + W), C)),
                               Stepped({b})) : k >= 2 * (p - a)}
    PROVE  /\ Marks(Z, a, p, C)
           /\ \A k \in Z : k % 2 = b
<1> DEFINE Bits == Syndrome(MaskOf(Having(ld1(mem, a), C)), MaskOf(Having(ld1(mem, a + W), C)), Stepped({b}))
<1>1. ASSUME NEW k PROVE k \in Bits <=> k \in XBits /\ k % 2 \in {b} /\ mem[a + (k \div 2)] \in C
  <2>1. {b} \in SUBSET {0, 1}
    OBVIOUS
  <2>. QED
    BY <2>1, SyndromeIs
<1> HIDE DEF Bits
<1>2. Z = {k \in Bits : k >= 2 * (p - a)}
  BY DEF Bits
<1>3. Z \in SUBSET XBits /\ \A k \in Z : k % 2 = b
  BY <1>1, <1>2
<1>4. ASSUME NEW h \in HunkLanes
      PROVE  (2 * h \in Z \/ 2 * h + 1 \in Z) <=> a + h >= p /\ mem[a + h] \in C
  <2>1. /\ h \in Nat /\ 2 * h \in XBits /\ 2 * h + 1 \in XBits
        /\ (2 * h) \div 2 = h /\ (2 * h) % 2 = 0 /\ (2 * h + 1) \div 2 = h /\ (2 * h + 1) % 2 = 1
    BY BitsOfLane
  <2>2. (2 * h >= 2 * (p - a) <=> a + h >= p) /\ (2 * h + 1 >= 2 * (p - a) <=> a + h >= p)
    BY <2>1
  <2>. QED
    BY <1>1, <1>2, <2>1, <2>2
<1>. QED
  BY <1>3, <1>4 DEF Marks

-----------------------------------------------------------------------------
\* memchr.

LEMMA MemchrNames ==
    /\ \A m, a : memchr!ld1(m, a) = ld1(m, a)
    /\ \A v, c : memchr!cmeq(v, c) = cmeq(v, c)
    /\ \A U, V : memchr!orr(U, V) = orr(U, V)
    /\ \A V : memchr!fmov(V) = fmov(V) /\ memchr!High(V) = High(V)
    /\ \A A, B, k : memchr!Sum(A, B, k) = Sum(A, B, k)
    /\ \A P : memchr!Stepped(P) = Stepped(P)
    /\ \A X, k : memchr!lsr(X, k) = lsr(X, k) /\ memchr!lsl(X, k) = lsl(X, k)
    /\ \A X : memchr!clz(X) = clz(X) /\ memchr!rbit(X) = rbit(X)
    /\ \A a, C : memchr!First(a, C) = First(a, C)
    /\ \A l, h, g : memchr!Granules(l, h, g) = Granules(l, h, g)
    /\ \A a, k : memchr!Chunk(a, k) = Chunk(a, k) /\ memchr!Aligned(a, k) = Aligned(a, k)
                 /\ memchr!AtMost(a, k) = AtMost(a, k)
    /\ memchr!XBits = XBits /\ memchr!soff = srcin % (2 * W)
  BY DEF memchr!Lanes, memchr!ld1, memchr!cmeq, memchr!orr, memchr!fmov, memchr!High, memchr!Sum,
         memchr!SymmetricDiff, memchr!Stepped, memchr!lsr, memchr!lsl, memchr!clz, memchr!rbit,
         memchr!First, memchr!Granules, memchr!Chunk, memchr!Aligned, memchr!AllOnes, memchr!Max,
         memchr!Min, memchr!XBits, memchr!AtMost, memchr!soff,
         Lanes, ld1, cmeq, orr, fmov, High, Sum, SymmetricDiff, Stepped, lsr, lsl, clz, rbit, First,
         Granules, Chunk, Aligned, AllOnes, Max, Min, XBits, AtMost

LEMMA MemchrSyndrome ==
    \A U, V, m : memchr!Syndrome(U, V, m) = Syndrome(U, V, m)
<1>1. \A A, B : memchr!AddedBytes(A, B) = AddedBytes(A, B)
  BY DEF memchr!AddedBytes, memchr!Sum, memchr!SymmetricDiff, AddedBytes, Sum, SymmetricDiff
<1>2. \A U, V : memchr!addp(U, V) = addp(U, V)
  BY <1>1 DEF memchr!addp, memchr!Pairwise, memchr!Lanes, addp, Pairwise, Lanes
<1>3. \A U, V : memchr!and(U, V) = and(U, V)
  BY DEF memchr!and, memchr!Lanes, and, Lanes
<1>4. \A U : memchr!fmov(U) = fmov(U)
  BY DEF memchr!fmov, fmov
<1>. QED
  BY <1>2, <1>3, <1>4 DEF memchr!Syndrome, Syndrome

\* Where the buffer ends in the last hunk of it that is loaded, at a.
LEMMA EndInHunk ==
    ASSUME NEW n \in Nat, n > 0, NEW s \in Int, NEW c \in Nat, NEW a \in Int, a % n = 0,
           NEW d \in 1 .. n, d = (s + c) - a
    PROVE  \E q \in Int : (c % n) + (s % n) = n * q + d
<1>1. /\ c = n * (c \div n) + (c % n) /\ c \div n \in Int /\ c % n \in Int
      /\ s = n * (s \div n) + (s % n) /\ s \div n \in Int /\ s % n \in Int
      /\ a = n * (a \div n) /\ a \div n \in Int
  BY DivMod
<1> DEFINE q == ((a \div n) - (c \div n)) - (s \div n)
<1>2. (c % n) + (s % n) = n * q + d /\ q \in Int
  BY <1>1
<1>. QED
  BY <1>2

LEMMA ModOfEnd ==
    ASSUME NEW n \in Nat, n > 0, NEW u \in Int, NEW q \in Int, NEW d \in 1 .. n, u = n * q + d
    PROVE  u % n = IF d = n THEN 0 ELSE d
<1>1. CASE d = n
  <2>1. u = n * (q + 1) + 0
    BY <1>1
  <2>. QED
    BY <1>1, <2>1, DivModIs
<1>2. CASE d # n
  BY <1>2, DivModIs
<1>. QED
  BY <1>1, <1>2

\* Each step of memchr keeps its invariant.
LEMMA MemchrInv ==
    ASSUME GivenOK, CharOK, CountOK, memchr!IInv, memchr!Next
    PROVE  memchr!IInv'
<1> DEFINE n == 2 * W
           F == First(srcin, {chrin})
           E == srcin + cntin
           r == srcin % (2 * W)
           Y == srcin - (srcin % (2 * W))
           A == IF F < E THEN F ELSE 0
           L == IF F < E - 1 THEN F ELSE E - 1
           at(X, a) == (a - n) + (clz(rbit(X)) \div 2)
           Syn(a) == Syndrome(cmeq(ld1(mem, a), chrin), cmeq(ld1(mem, a + W), chrin), Stepped({0}))
<1>1. srcin \in Nat /\ IsFirst(F, srcin, {chrin}) /\ F \in Nat /\ srcin <= F
  BY ByteIs DEF IsFirst, CharOK
<1>2. mem \in Memories /\ big \in BOOLEAN /\ cntin \in Nat /\ cntin < Size /\ Size \in Nat
  BY DEF GivenOK, CountOK
<1>3. SameGiven /\ chrin' = chrin /\ cntin' = cntin
  BY DEF SameGiven, memchr!Next, memchr!ZeroLength, memchr!Aligned0, memchr!Entry,
         memchr!Loop, memchr!MaskLast, memchr!Tail, memchr!given
<1>4. F' = F
  BY <1>3, FirstSame DEF SameGiven
<1>5. memchr!Match = F /\ memchr!Match' = F
  BY <1>3, <1>4 DEF memchr!Match, memchr!First, memchr!Min, First, Min, SameGiven
<1>6. Y \in Nat /\ Y % n = 0 /\ Y <= srcin /\ srcin < Y + n /\ r \in 0 .. (n - 1) /\ Y = srcin - r
  BY <1>1, HeadIs
<1>7. n \in Nat /\ n > 0 /\ n = 2 * W /\ W \in Nat /\ W > 0
  BY HunkSize
<1>8. E \in Nat /\ E = srcin + cntin
  BY <1>1, <1>2
<1>9. memchr!n = n /\ memchr!soff = r
  BY MemchrNames DEF memchr!n
<1>10. memchr!Answer' = A
  BY <1>3, <1>5 DEF memchr!Answer, SameGiven
<1>11. /\ memchr!Footprint <=> IF cntin = 0 THEN rd = {} ELSE rd \subseteq Granules(srcin, L, n)
       /\ memchr!Footprint' <=> IF cntin = 0 THEN rd' = {} ELSE rd' \subseteq Granules(srcin, L, n)
  <2>1. memchr!AtMost(F, srcin + cntin - 1) = L
    BY <1>1, <1>2 DEF memchr!AtMost
  <2>2. memchr!Granules(srcin, L, n) = Granules(srcin, L, n)
    BY DEF memchr!Granules, Granules
  <2>3. memchr!Footprint' <=> IF cntin = 0 THEN rd' = {}
             ELSE rd' \subseteq memchr!Granules(srcin, memchr!AtMost(F, srcin + cntin - 1), n)
    BY <1>3, <1>5 DEF memchr!Footprint, memchr!n, SameGiven
  <2>4. memchr!Footprint <=> IF cntin = 0 THEN rd = {}
             ELSE rd \subseteq memchr!Granules(srcin, memchr!AtMost(F, srcin + cntin - 1), n)
    BY <1>5 DEF memchr!Footprint, memchr!n
  <2>. QED
    BY <2>1, <2>2, <2>3, <2>4
<1> HIDE DEF F, Y, E, r, n
<1>12. /\ src \in Int /\ src % n = 0 /\ cntrem = cntin % n
       /\ pc = "entry" => src = Y /\ left = cntin /\ rd = {}
       /\ pc = "loop" => srcin <= src /\ src <= F /\ left = E - src /\ left > 0
       /\ pc \in {"masklast", "tail"} => /\ cntin > 0 /\ srcin < src /\ src - n <= F
                                         /\ src - n < E /\ synd \subseteq XBits
       /\ pc = "masklast" => /\ E <= src
                             /\ IF synd = {} THEN src <= F ELSE at(synd, src) = F
       /\ pc = "tail" => IF synd = {} THEN F >= E ELSE at(synd, src) = F /\ F < E
  <2>1. /\ src \in Int /\ src % n = 0 /\ cntrem = cntin % n
        /\ pc = "entry" => src = Y /\ left = cntin /\ rd = {}
    BY <1>9, MemchrNames DEF memchr!IInv, Aligned, Y, n
  <2>2. pc = "loop" => srcin <= src /\ src <= F /\ left = E - src /\ left > 0
    BY <1>5 DEF memchr!IInv, E
  <2>3. memchr!Marked = at(synd, src)
    BY <1>9, MemchrNames DEF memchr!Marked
  <2>4. /\ pc \in {"masklast", "tail"} => /\ cntin > 0 /\ srcin < src /\ src - n <= F
                                          /\ src - n < E /\ synd \subseteq XBits
        /\ pc = "masklast" => /\ E <= src
                              /\ IF synd = {} THEN src <= F ELSE at(synd, src) = F
        /\ pc = "tail" => IF synd = {} THEN F >= E ELSE at(synd, src) = F /\ F < E
    BY <1>5, <1>9, <2>3, MemchrNames DEF memchr!IInv, E
  <2>. QED
    BY <2>1, <2>2, <2>4
<1> DEFINE Typed == src' \in Int /\ src' % n = 0 /\ cntrem' = cntrem
           Loop == pc' = "loop" /\ srcin <= src' /\ src' <= F /\ left' = E - src' /\ left' > 0
           Last == /\ cntin > 0 /\ srcin < src' /\ src' - n <= F
                   /\ src' - n < E /\ synd' \subseteq XBits
           Mask == /\ pc' = "masklast" /\ Last /\ E <= src'
                   /\ IF synd' = {} THEN src' <= F ELSE at(synd', src') = F
           Tail == /\ pc' = "tail" /\ Last
                   /\ IF synd' = {} THEN F >= E ELSE at(synd', src') = F /\ F < E
           Ret == pc' = "ret" /\ result' = A
<1>13. ASSUME Typed, Loop \/ Mask \/ Tail \/ Ret, memchr!Footprint'
       PROVE  memchr!IInv'
  <2>1. memchr!n' = n /\ memchr!XBits' = XBits
    BY <1>7 DEF memchr!n, memchr!XBits, XBits
  <2>2. (cntin % n)' = cntin % n /\ cntrem' = cntin % n
    BY <1>3, <1>12, <1>13 DEF n
  <2>3. memchr!Marked' = at(synd', src')
    <3>1. \A X : memchr!clz(memchr!rbit(X)) = clz(rbit(X))
      BY MemchrNames
    <3>2. memchr!Marked' = (src' - n) + (memchr!clz(memchr!rbit(synd')) \div 2)
      BY <2>1 DEF memchr!Marked, memchr!clz, memchr!rbit, memchr!Max
    <3>. QED
      BY <3>1, <3>2
  <2>4. (srcin + cntin)' = E
    BY <1>3, <1>8 DEF SameGiven
  <2>5. src' \in Int /\ src' % n = 0 /\ cntrem' = cntin' % n
    BY <1>3, <1>13, <2>2
  <2>6. CASE Loop
    BY <1>3, <1>5, <1>13, <2>1, <2>4, <2>5, <2>6 DEF memchr!IInv, SameGiven
  <2>7. CASE Mask
    BY <1>3, <1>5, <1>13, <2>1, <2>3, <2>4, <2>5, <2>7 DEF memchr!IInv, SameGiven
  <2>8. CASE Tail
    BY <1>3, <1>5, <1>13, <2>1, <2>3, <2>4, <2>5, <2>8 DEF memchr!IInv, SameGiven
  <2>9. CASE Ret
    BY <1>3, <1>5, <1>10, <1>13, <2>1, <2>5, <2>9 DEF memchr!IInv, SameGiven
  <2>. QED
    BY <1>13, <2>6, <2>7, <2>8, <2>9
<1>14. ASSUME NEW a \in Int, a % n = 0, Y <= a, a <= F, a < E, cntin > 0, rd' = Chunk(a, n)
       PROVE  memchr!Footprint'
  <2>1. L \in Nat /\ a <= L
    BY <1>1, <1>2, <1>8, <1>14
  <2>2. Chunk(a, n) \subseteq Granules(srcin, L, n)
    BY <1>1, <1>7, <1>14, <2>1, MayLoad DEF Y, n
  <2>. QED
    BY <1>2, <1>11, <1>14, <2>2
\* The syndrome of the hunk at a, from the pointer on.
<1>15. ASSUME NEW a \in Nat, a % n = 0, a <= F, NEW Z, Z = {k \in Syn(a) : k >= 2 * (srcin - a)}
       PROVE  /\ Z \subseteq XBits
              /\ Z = {} => a + n <= F
              /\ Z # {} => at(Z, a + n) = F /\ F < a + n
  <2>1. Syn(a) = Syndrome(MaskOf(Having(ld1(mem, a), {chrin})), MaskOf(Having(ld1(mem, a + W), {chrin})), Stepped({0}))
    BY cmeqIs
  <2>2. 0 \in {0, 1} /\ srcin \in Int /\ a \in Int
    BY <1>1
  <2> HIDE DEF Syn
  <2>3. Marks(Z, a, srcin, {chrin})
    BY <1>15, <2>1, <2>2, BitsMark
  <2> DEFINE f == clz(rbit(Z))
  <2>4. /\ Z = {} => a + n <= F
        /\ Z # {} => f \in XBits /\ F = a + (f \div 2) /\ F < a + n
    BY <1>1, <1>2, <1>15, <2>3, MarksFirst DEF n
  <2>5. (a + n) - n = a
    BY <1>7, <1>15
  <2>. QED
    BY <2>3, <2>4, <2>5 DEF Marks
<1>16. ASSUME NEW a PROVE Syn(a) \in SUBSET XBits
  <2>1. Syn(a) = {k \in Syn(a) : k \in XBits}
    <3>1. Syn(a) = Syndrome(MaskOf(Having(ld1(mem, a), {chrin})), MaskOf(Having(ld1(mem, a + W), {chrin})), Stepped({0}))
      BY cmeqIs
    <3>2. {0} \in SUBSET {0, 1}
      OBVIOUS
    <3>. QED
      BY <3>1, <3>2, SyndromeBit
  <2>. QED
    BY <2>1
<1>17. ASSUME vdata' = ld1(mem, src), vdata2' = ld1(mem, src + W)
       PROVE  /\ memchr!HunkSyndrome = Syn(src)
              /\ ~memchr!Found(memchr!vhas_chr(vdata'), memchr!vhas_chr(vdata2'))
                   <=> HunkClean(src, {chrin})
  <2> DEFINE u == cmeq(ld1(mem, src), chrin)
             v == cmeq(ld1(mem, src + W), chrin)
             M == Having(ld1(mem, src), {chrin}) \cup Having(ld1(mem, src + W), {chrin})
  <2>1. memchr!vhas_chr(vdata') = u /\ memchr!vhas_chr(vdata2') = v
    BY <1>17, MemchrNames DEF memchr!vhas_chr
  <2>2. memchr!HunkSyndrome = Syn(src)
    BY <2>1, MemchrNames, MemchrSyndrome DEF memchr!HunkSyndrome
  <2>3. orr(u, v) = MaskOf(M)
    BY cmeqIs, orrMasks
  <2>4. M \in SUBSET Lanes
    BY DEF Having
  <2> HIDE DEF M, u, v, Syn
  <2>5. memchr!Found(u, v) <=> Sum(fmov(orr(u, v)), High(orr(u, v)), 4 * W) # {}
    BY MemchrNames DEF memchr!Found
  <2>6. ~memchr!Found(u, v) <=> M = {}
    BY <2>3, <2>4, <2>5, HalvesAdded
  <2>7. M = {} <=> HunkClean(src, {chrin})
    BY <1>12, HavingHunk DEF M
  <2>. QED
    BY <2>1, <2>2, <2>6, <2>7
<1> HIDE DEF A, L, Syn, at
<1>18. CASE memchr!ZeroLength
  <2>1. /\ pc = "entry" /\ cntin = 0 /\ pc' = "ret" /\ src' = src /\ rd' = rd /\ cntrem' = cntrem
        /\ result' = 0
    BY <1>18 DEF memchr!ZeroLength
  <2>2. result' = A
    BY <1>1, <1>2, <1>8, <2>1 DEF A
  <2>3. memchr!Footprint'
    BY <1>11, <1>12, <2>1
  <2>. QED
    BY <1>12, <1>13, <2>1, <2>2, <2>3
<1>19. CASE memchr!Aligned0
  <2>1. /\ pc = "entry" /\ cntin # 0 /\ r = 0 /\ pc' = "loop" /\ src' = src /\ rd' = rd
        /\ cntrem' = cntrem /\ left' = left
    BY <1>9, <1>19 DEF memchr!Aligned0
  <2>2. memchr!Footprint'
    BY <1>11, <1>12, <2>1
  <2>3. Loop
    BY <1>1, <1>2, <1>6, <1>8, <1>12, <2>1
  <2>. QED
    BY <1>12, <1>13, <2>1, <2>2, <2>3
<1>20. CASE memchr!Entry
  <2> DEFINE Z == {k \in Syn(Y) : k >= 2 * (srcin - Y)}
  <2>1. /\ pc = "entry" /\ cntin # 0 /\ r # 0 /\ src = Y /\ src' = Y + n /\ cntrem' = cntrem
        /\ rd' = Chunk(Y, n) /\ left' = (cntin + r - n) % Size
        /\ vdata' = ld1(mem, src) /\ vdata2' = ld1(mem, src + W)
    BY <1>9, <1>12, <1>20, MemchrNames DEF memchr!Entry, memchr!LoadHunk, n
  <2>2. synd' = lsl(lsr(Syn(Y), 2 * r), 2 * r)
    BY <1>9, <1>17, <1>20, <2>1, MemchrNames DEF memchr!Entry
  <2>3. pc' = CASE cntin + r <= n -> "masklast"
                [] cntin + r > n /\ synd' # {} -> "tail"
                [] cntin + r > n /\ synd' = {} -> "loop"
    BY <1>9, <1>20 DEF memchr!Entry
  <2>4. synd' = Z
    <3>1. Syn(Y) \in SUBSET XBits /\ r \in 0 .. (2 * W - 1)
      BY <1>6, <1>7, <1>16
    <3>2. srcin - Y = r
      BY <1>1, <1>6
    <3>. QED
      BY <2>2, <3>1, <3>2, DownAndUp
  <2>5. /\ synd' \subseteq XBits
        /\ synd' = {} => Y + n <= F
        /\ synd' # {} => at(synd', Y + n) = F /\ F < Y + n
    BY <1>1, <1>6, <1>15, <2>4
  <2>6. memchr!Footprint'
    BY <1>1, <1>2, <1>6, <1>8, <1>14, <2>1
  <2>7. Typed
    <3>1. (Y + n) % n = 0
      BY <1>6, <1>7, ModPlus
    <3>. QED
      BY <1>6, <1>7, <2>1, <3>1
  <2>8. src' - n = Y /\ srcin < src' /\ Y <= F /\ Y < E /\ cntin > 0
    BY <1>1, <1>2, <1>6, <1>7, <1>8, <2>1
  <2>9. Last
    BY <2>5, <2>8
  <2>10. CASE cntin + r <= n
    <3>1. pc' = "masklast"
      BY <1>2, <1>6, <1>7, <2>3, <2>10
    <3>2. E <= src'
      BY <1>1, <1>2, <1>6, <1>7, <1>8, <2>1, <2>10
    <3>. QED
      BY <1>13, <2>1, <2>5, <2>6, <2>7, <2>9, <3>1, <3>2
  <2>11. CASE cntin + r > n /\ synd' # {}
    <3>1. pc' = "tail"
      BY <1>2, <1>6, <1>7, <2>3, <2>11
    <3>2. src' < E
      BY <1>1, <1>2, <1>6, <1>7, <1>8, <2>1, <2>11
    <3>3. F < E
      BY <1>1, <1>6, <1>7, <1>8, <2>1, <2>5, <2>11, <3>2
    <3>. QED
      BY <1>13, <2>1, <2>5, <2>6, <2>7, <2>9, <2>11, <3>1, <3>3
  <2>12. CASE cntin + r > n /\ synd' = {}
    <3>1. pc' = "loop"
      BY <1>2, <1>6, <1>7, <2>3, <2>12
    <3>2. cntin + r - n = E - src' /\ cntin + r - n > 0 /\ cntin + r - n \in 0 .. (Size - 1)
      BY <1>1, <1>2, <1>6, <1>7, <1>8, <2>1, <2>12
    <3>3. left' = E - src' /\ left' > 0
      BY <1>2, <2>1, <3>2, ModSmall
    <3>4. srcin <= src' /\ src' <= F
      BY <1>1, <1>6, <1>7, <2>1, <2>5, <2>12
    <3>. QED
      BY <1>13, <2>6, <2>7, <3>1, <3>3, <3>4
  <2>. QED
    BY <1>2, <1>6, <1>7, <2>10, <2>11, <2>12
<1>21. CASE memchr!Loop
  <2>1. /\ pc = "loop" /\ src' = src + n /\ cntrem' = cntrem
        /\ rd' = Chunk(src, n) /\ left' = (left - n) % Size
        /\ vdata' = ld1(mem, src) /\ vdata2' = ld1(mem, src + W)
    BY <1>9, <1>21, MemchrNames DEF memchr!Loop, memchr!LoadHunk, n
  <2>2. /\ src \in Nat /\ srcin <= src /\ src <= F /\ left = E - src /\ left > 0
    BY <1>1, <1>12, <2>1
  <2>3. IF left > n /\ HunkClean(src, {chrin})
        THEN pc' = "loop" /\ synd' = synd
        ELSE synd' = Syn(src) /\ pc' = IF left >= n THEN "tail" ELSE "masklast"
    BY <1>9, <1>17, <1>21, <2>1 DEF memchr!Loop
  <2>4. Y <= src /\ src < E /\ cntin > 0
    BY <1>1, <1>2, <1>6, <1>8, <2>2
  <2>5. memchr!Footprint'
    BY <1>12, <1>14, <2>1, <2>2, <2>4
  <2>6. Typed
    BY <1>7, <1>12, <2>1, ModPlus
  <2>7. CASE left > n /\ HunkClean(src, {chrin})
    <3>1. src' <= F
      BY <1>1, <2>1, <2>2, <2>7, HunkPassed DEF n
    <3>2. left - n \in 0 .. (Size - 1) /\ left - n = E - src' /\ left - n > 0
      BY <1>1, <1>2, <1>7, <1>8, <2>1, <2>2, <2>7
    <3>3. left' = E - src' /\ left' > 0
      BY <1>2, <2>1, <3>2, ModSmall
    <3>4. srcin <= src'
      BY <1>1, <1>7, <2>1, <2>2
    <3>. QED
      BY <1>13, <2>3, <2>5, <2>6, <2>7, <3>1, <3>3, <3>4
  <2>8. CASE ~(left > n /\ HunkClean(src, {chrin}))
    <3>1. synd' = {k \in Syn(src) : k >= 2 * (srcin - src)}
      <4>1. \A k \in XBits : k >= 2 * (srcin - src)
        BY <1>1, <2>2 DEF XBits
      <4>2. Syn(src) \subseteq XBits
        BY <1>16
      <4>. QED
        BY <2>3, <2>8, <4>1, <4>2
    <3>2. /\ synd' \subseteq XBits
          /\ synd' = {} => src + n <= F
          /\ synd' # {} => at(synd', src + n) = F /\ F < src + n
      BY <1>12, <1>15, <2>2, <3>1
    <3>3. src' - n = src /\ srcin < src'
      BY <1>1, <1>7, <2>1, <2>2
    <3>4. Last
      BY <2>2, <2>4, <3>2, <3>3
    <3>5. CASE left >= n
      <4>1. pc' = "tail" /\ src' <= E
        BY <1>7, <1>8, <2>1, <2>2, <2>3, <2>8, <3>5
      <4>2. synd' = {} => F >= E
        <5>1. SUFFICES ASSUME synd' = {} PROVE F >= E
          OBVIOUS
        <5>2. src + n <= F
          BY <3>2, <5>1
        <5>3. CASE left = n
          BY <1>7, <1>8, <2>2, <5>2, <5>3
        <5>4. CASE left > n
          <6>1. PICK h \in HunkLanes : mem[src + h] = chrin
            BY <2>8, <5>4 DEF HunkClean
          <6>2. h \in Nat /\ h < n
            BY <1>7 DEF HunkLanes
          <6>3. src + h \in DOMAIN mem
            <7>1. F \in DOMAIN mem
              BY <1>1 DEF IsFirst
            <7>. QED
              BY <1>2, <1>12, <2>2, <7>1, HunkInMemory DEF n
          <6>4. F <= src + h
            BY <1>1, <2>2, <6>1, <6>2, <6>3 DEF IsFirst
          <6>. QED
            BY <1>1, <1>7, <2>2, <5>2, <6>2, <6>4
        <5>. QED
          BY <1>7, <1>8, <2>2, <3>5, <5>3, <5>4
      <4>3. synd' # {} => at(synd', src') = F /\ F < E
        BY <1>1, <1>7, <1>8, <2>1, <2>2, <3>2, <4>1
      <4>. QED
        BY <1>13, <2>5, <2>6, <3>4, <4>1, <4>2, <4>3
    <3>6. CASE ~(left >= n)
      <4>1. pc' = "masklast" /\ E <= src'
        BY <1>7, <1>8, <2>1, <2>2, <2>3, <2>8, <3>6
      <4>. QED
        BY <1>13, <2>1, <2>5, <2>6, <3>2, <3>4, <4>1
    <3>. QED
      BY <3>5, <3>6
  <2>. QED
    BY <2>7, <2>8
<1>22. CASE memchr!MaskLast
  <2> DEFINE d == E - (src - n)
             e == IF d = n THEN 0 ELSE d
             f == clz(rbit(synd))
  <2>1. /\ pc = "masklast" /\ pc' = "tail" /\ src' = src /\ cntrem' = cntrem /\ rd' = {}
        /\ synd' = lsr(lsl(synd, memchr!Shift), memchr!Shift)
    BY <1>22, MemchrNames DEF memchr!MaskLast
  <2>2. /\ cntin > 0 /\ srcin < src /\ src - n <= F /\ src - n < E /\ synd \in SUBSET XBits /\ E <= src
        /\ IF synd = {} THEN src <= F ELSE at(synd, src) = F
    BY <1>12, <2>1
  <2>3. (src - n) % n = 0
    BY <1>7, <1>12, ModPlus
  <2>4. d \in 1 .. n /\ e \in 0 .. (2 * W - 1) /\ src - n \in Int
    BY <1>7, <1>8, <1>12, <2>2
  <2>5. (cntrem + r) % n = e
    <3>1. d = (srcin + cntin) - (src - n)
      BY <1>8
    <3>2. srcin % n = r
      BY DEF n, r
    <3> HIDE DEF d
    <3>4. /\ n \in Nat /\ n > 0 /\ srcin \in Int /\ cntin \in Nat /\ src - n \in Int
          /\ (src - n) % n = 0 /\ d \in 1 .. n
      BY <1>1, <1>2, <1>7, <2>3, <2>4
    <3> DEFINE a == src - n
    <3>5. a \in Int /\ a % n = 0 /\ d = (srcin + cntin) - a
      BY <3>1, <3>4
    <3> HIDE DEF a
    <3>3. PICK q \in Int : (cntin % n) + (srcin % n) = n * q + d
      BY <3>4, <3>5, EndInHunk
    <3> DEFINE u == (cntin % n) + (srcin % n)
    <3>6. u = n * q + d /\ u = cntrem + r /\ u \in Int
      BY <1>12, <3>2, <3>3, <3>4
    <3> HIDE DEF u
    <3>7. u % n = IF d = n THEN 0 ELSE d
      BY <3>3, <3>4, <3>6, ModOfEnd
    <3>. QED
      BY <3>6, <3>7
  <2>6. memchr!Shift = 2 * (2 * W - e)
    BY <1>7, <1>9, <2>5 DEF memchr!Shift
  <2> HIDE DEF e
  <2>7. synd' = IF e = 0 THEN synd ELSE {k \in synd : k < 2 * e}
    BY <2>1, <2>2, <2>4, <2>6, UpAndDown
  <2>8. rd' \subseteq {} /\ memchr!Footprint'
    BY <1>11, <2>1
  <2>9. Typed /\ Last
    BY <1>12, <2>1, <2>2, <2>7
  <2>10. ASSUME synd # {}
         PROVE  /\ f \in synd /\ \A k \in synd : f <= k
                /\ f \in Nat /\ F = (src - n) + (f \div 2) /\ f \div 2 \in 0 .. (n - 1)
                /\ f < 2 * ((f \div 2) + 1) /\ 2 * (f \div 2) <= f
    <3>1. f \in synd /\ \A k \in synd : f <= k
      BY <2>2, <2>10, clzRbitIs
    <3>2. f \in 0 .. (2 * n - 1)
      <4>1. f \in XBits
        BY <2>2, <3>1
      <4>2. XBits = 0 .. (2 * n - 1)
        BY <1>7 DEF XBits
      <4>. QED
        BY <4>1, <4>2
    <3>3. F = (src - n) + (f \div 2)
      BY <2>2, <2>10 DEF at
    <3>4. f \div 2 \in 0 .. (n - 1) /\ f < 2 * ((f \div 2) + 1) /\ 2 * (f \div 2) <= f
      BY <1>7, <3>2
    <3>. QED
      BY <3>1, <3>2, <3>3, <3>4
  <2>11. CASE synd = {}
    <3>1. synd' = {} /\ F >= E
      BY <1>1, <1>8, <1>12, <2>2, <2>7, <2>11
    <3>. QED
      BY <1>13, <2>1, <2>8, <2>9, <3>1
  <2>12. CASE synd # {} /\ F < E
    <3>1. f \in synd'
      <4>1. e # 0 => f < 2 * e
        BY <1>1, <1>7, <1>8, <1>12, <2>4, <2>10, <2>12 DEF e
      <4>. QED
        BY <2>7, <2>10, <2>12, <4>1
    <3> DEFINE g == clz(rbit(synd'))
    <3>2. g \in synd' /\ \A k \in synd' : g <= k
      <4>1. synd' \in SUBSET XBits /\ synd' # {}
        BY <2>2, <2>7, <3>1
      <4>. QED
        BY <4>1, clzRbitIs
    <3>3. g = f
      <4>3. synd' \subseteq XBits /\ synd' \subseteq synd
        BY <2>2, <2>7
      <4>4. g \in XBits /\ g \in synd
        BY <3>2, <4>3
      <4> HIDE DEF g
      <4>1. g \in synd /\ g \in Nat
        BY <4>4 DEF XBits
      <4>2. f <= g /\ g <= f /\ f \in Nat
        BY <2>10, <2>12, <3>1, <3>2, <4>1
      <4>. QED
        BY <4>1, <4>2
    <3>4. at(synd', src') = F
      BY <2>1, <2>10, <2>12, <3>3 DEF at
    <3>. QED
      BY <1>13, <2>1, <2>8, <2>9, <2>12, <3>1, <3>4
  <2>13. CASE synd # {} /\ ~(F < E)
    <3>1. f \div 2 >= d /\ e # 0 /\ e = d
      BY <1>1, <1>7, <1>8, <1>12, <2>4, <2>10, <2>13 DEF e
    <3>2. synd' = {}
      <4>1. ASSUME NEW k \in synd PROVE ~(k < 2 * e)
        <5>1. k \in Nat /\ f <= k
          BY <2>2, <2>10, <2>13 DEF XBits
        <5>. QED
          BY <2>4, <2>10, <2>13, <3>1, <5>1
      <4>. QED
        BY <2>7, <3>1, <4>1
    <3>3. F >= E
      BY <1>1, <1>8, <2>13
    <3>. QED
      BY <1>13, <2>1, <2>8, <2>9, <3>2, <3>3
  <2>. QED
    BY <2>11, <2>12, <2>13
<1>23. CASE memchr!Tail
  <2>1. /\ pc = "tail" /\ pc' = "ret" /\ src' = src - n /\ cntrem' = cntrem /\ rd' = {}
        /\ result' = IF synd = {} THEN 0 ELSE src' + (clz(rbit(synd)) \div 2)
    BY <1>9, <1>23, MemchrNames DEF memchr!Tail
  <2>2. result' = A
    <3>1. IF synd = {} THEN F >= E ELSE at(synd, src) = F /\ F < E
      BY <1>12, <2>1
    <3>2. CASE synd = {}
      BY <1>1, <1>8, <2>1, <3>1, <3>2 DEF A
    <3>3. CASE synd # {}
      BY <2>1, <3>1, <3>3 DEF A, at
    <3>. QED
      BY <3>2, <3>3
  <2>3. Typed
    BY <1>7, <1>12, <2>1, ModPlus
  <2>4. memchr!Footprint'
    BY <1>11, <2>1
  <2>. QED
    BY <1>13, <2>1, <2>2, <2>3, <2>4
<1>. QED
  BY <1>18, <1>19, <1>20, <1>21, <1>22, <1>23 DEF memchr!Next

-----------------------------------------------------------------------------
\* strchr and strchrnul.

LEMMA StrchrNames ==
    /\ \A m, a : strchr!ld1(m, a) = ld1(m, a)
    /\ \A v, c : strchr!cmeq(v, c) = cmeq(v, c)
    /\ \A V, v : strchr!cmhs(V, v) = cmhs(V, v)
    /\ \A D, V, m : strchr!bif(D, V, m) = bif(D, V, m)
    /\ \A U, V : strchr!orr(U, V) = orr(U, V) /\ strchr!umaxp(U, V) = umaxp(U, V)
    /\ \A V : strchr!fmov(V) = fmov(V)
    /\ \A P : strchr!Stepped(P) = Stepped(P)
    /\ \A X, k : strchr!lsr(X, k) = lsr(X, k)
    /\ \A X : strchr!clz(X) = clz(X) /\ strchr!rbit(X) = rbit(X)
    /\ \A a, C : strchr!First(a, C) = First(a, C)
    /\ \A l, h, g : strchr!Granules(l, h, g) = Granules(l, h, g)
    /\ \A a, k : strchr!Chunk(a, k) = Chunk(a, k) /\ strchr!Aligned(a, k) = Aligned(a, k)
    /\ strchr!XBits = XBits /\ strchr!soff = srcin % (2 * W)
    /\ strchr!Lanes = Lanes /\ strchr!AllOnes = AllOnes
  BY DEF strchr!Lanes, strchr!ld1, strchr!cmeq, strchr!cmhs, strchr!bif, strchr!orr, strchr!umaxp,
         strchr!Pairwise, strchr!LargerByte, strchr!SymmetricDiff, strchr!fmov, strchr!Stepped,
         strchr!lsr, strchr!clz, strchr!rbit, strchr!First, strchr!Granules, strchr!Chunk,
         strchr!Aligned, strchr!AllOnes, strchr!Max, strchr!Min, strchr!XBits, strchr!soff,
         Lanes, ld1, cmeq, cmhs, bif, orr, umaxp, Pairwise, LargerByte, SymmetricDiff, fmov, Stepped,
         lsr, clz, rbit, First, Granules, Chunk, Aligned, AllOnes, Max, Min, XBits

LEMMA StrchrSyndrome ==
    \A U, V, m : strchr!Syndrome(U, V, m) = Syndrome(U, V, m)
<1>1. \A A, B : strchr!AddedBytes(A, B) = AddedBytes(A, B)
  BY DEF strchr!AddedBytes, strchr!Sum, strchr!SymmetricDiff, AddedBytes, Sum, SymmetricDiff
<1>2. \A U, V : strchr!addp(U, V) = addp(U, V)
  BY <1>1 DEF strchr!addp, strchr!Pairwise, strchr!Lanes, addp, Pairwise, Lanes
<1>3. \A U, V : strchr!and(U, V) = and(U, V)
  BY DEF strchr!and, strchr!Lanes, and, Lanes
<1>4. \A U : strchr!fmov(U) = fmov(U)
  BY DEF strchr!fmov, fmov
<1>. QED
  BY <1>2, <1>3, <1>4 DEF strchr!Syndrome, Syndrome

\* The syndrome of the hunk at a of which an even bit is for a byte of C, an odd one for
\* one of D.
Merged(a, C, D) ==
    LET mask == [i \in Lanes |-> {2 * (i % 4) + 1, 2 * (i % 4) + 2} \cap AllOnes]
    IN  Syndrome(bif(MaskOf(Having(ld1(mem, a), D)), MaskOf(Having(ld1(mem, a), C)), mask),
                 bif(MaskOf(Having(ld1(mem, a + W), D)), MaskOf(Having(ld1(mem, a + W), C)), mask),
                 Stepped({0, 1}))
\* The one of which an even bit is for a byte of C.
Even(a, C) == Syndrome(MaskOf(Having(ld1(mem, a), C)), MaskOf(Having(ld1(mem, a + W), C)), Stepped({0}))

LEMMA MergedBit ==
    ASSUME NEW a \in Int, NEW C, NEW D, NEW k
    PROVE  k \in Merged(a, C, D) <=> k \in XBits /\ mem[a + (k \div 2)] \in (IF k % 2 = 0 THEN C ELSE D)
  BY MergedSyndromeIs DEF Merged

LEMMA EvenBit ==
    ASSUME NEW a \in Int, NEW C, NEW k
    PROVE  k \in Even(a, C) <=> k \in XBits /\ k % 2 = 0 /\ mem[a + (k \div 2)] \in C
<1>1. {0} \in SUBSET {0, 1}
  OBVIOUS
<1>. QED
  BY <1>1, SyndromeIs DEF Even

\* The hunk at a from p on, marked in either way, and the first bit of the marks.
LEMMA MergedMarks ==
    ASSUME NEW a \in Int, NEW C, NEW D, NEW p \in Int, NEW Z, Z = {k \in Merged(a, C, D) : k >= 2 * (p - a)}
    PROVE  Marks(Z, a, p, C \cup D)
<1>1. Z \in SUBSET XBits
  BY MergedBit
<1>2. ASSUME NEW h \in HunkLanes
      PROVE  (2 * h \in Z \/ 2 * h + 1 \in Z) <=> a + h >= p /\ mem[a + h] \in C \cup D
  <2>1. /\ h \in Nat /\ 2 * h \in XBits /\ 2 * h + 1 \in XBits
        /\ (2 * h) \div 2 = h /\ (2 * h) % 2 = 0 /\ (2 * h + 1) \div 2 = h /\ (2 * h + 1) % 2 = 1
    BY BitsOfLane
  <2>2. (2 * h >= 2 * (p - a) <=> a + h >= p) /\ (2 * h + 1 >= 2 * (p - a) <=> a + h >= p)
    BY <2>1
  <2>3. 2 * h \in Z <=> a + h >= p /\ mem[a + h] \in C
    BY <2>1, <2>2, MergedBit
  <2>4. 2 * h + 1 \in Z <=> a + h >= p /\ mem[a + h] \in D
    BY <2>1, <2>2, MergedBit
  <2>. QED
    BY <2>3, <2>4
<1>. QED
  BY <1>1, <1>2 DEF Marks

LEMMA MergedParity ==
    ASSUME NEW a \in Int, NEW C, NEW D, NEW p \in Int, NEW Z, Z = {k \in Merged(a, C, D) : k >= 2 * (p - a)},
           Z # {}, NEW f, f = clz(rbit(Z))
    PROVE  f % 2 = 0 <=> mem[a + (f \div 2)] \in C
<1>1. Z \in SUBSET XBits
  BY MergedBit
<1>2. f \in Z /\ \A k \in Z : f <= k
  BY <1>1, clzRbitIs
<1>3. f \in XBits /\ f \in Merged(a, C, D) /\ f >= 2 * (p - a)
  BY <1>1, <1>2
<1>4. f % 2 = 0 => mem[a + (f \div 2)] \in C
  BY <1>3, MergedBit
<1>5. ASSUME f % 2 # 0, mem[a + (f \div 2)] \in C PROVE FALSE
  <2> DEFINE h == f \div 2
  <2>1. f \in Nat /\ h \in HunkLanes /\ f = 2 * h + 1 /\ h \in Nat
    BY <1>3, <1>5, LaneOfBit DEF HunkLanes
  <2>2. 2 * h \in XBits /\ (2 * h) \div 2 = h /\ (2 * h) % 2 = 0
    BY <2>1, BitsOfLane
  <2>3. mem[a + h] \in C
    BY <1>5
  <2> HIDE DEF h
  <2>4. 2 * h \in Merged(a, C, D)
    BY <2>2, <2>3, MergedBit
  <2>5. 2 * h >= 2 * (p - a)
    BY <1>3, <2>1
  <2>6. f <= 2 * h
    BY <1>2, <2>4, <2>5
  <2>. QED
    BY <2>1, <2>6
<1>. QED
  BY <1>4, <1>5

\* The bits of the bytes before the string.
LEMMA PaddingBits ==
    ASSUME NEW p \in Nat, NEW a, a = p - (p % (2 * W)), p % (2 * W) # 0, NEW Bits, Bits \subseteq XBits
    PROVE  Bits \ lsr(XBits, -(2 * (p % (2 * W)))) = {k \in Bits : k >= 2 * (p - a)}
<1> DEFINE r == p % (2 * W)
<1>1. r \in 1 .. (2 * W - 1) /\ p - a = r
  BY HeadIs
<1> HIDE DEF r
<1>2. lsr(XBits, -(2 * r)) = 0 .. (2 * r - 1)
  BY <1>1, PaddingIs
<1>3. ASSUME NEW k \in Bits PROVE k \notin 0 .. (2 * r - 1) <=> k >= 2 * (p - a)
  <2>1. k \in Nat
    BY DEF XBits
  <2>. QED
    BY <1>1, <2>1
<1>. QED
  BY <1>2, <1>3 DEF r

\* Each step of strchr and strchrnul keeps their invariant.
LEMMA StrchrInv ==
    ASSUME GivenOK, CharOK, routine \in Strchrs, strchr!IInv, strchr!Next
    PROVE  strchr!IInv'
<1> DEFINE n == 2 * W
           B == {chrin, 0}
           F == First(srcin, B)
           r == srcin % (2 * W)
           Y == srcin - (srcin % (2 * W))
           A == IF routine # "strchr" \/ mem[F] = chrin THEN F ELSE 0
           first(X) == clz(rbit(X))
           Tells(X, a) == /\ F = a + (first(X) \div 2)
                          /\ routine = "strchr" => (first(X) % 2 = 0 <=> mem[F] = chrin)
<1>1. srcin \in Nat /\ IsFirst(F, srcin, B) /\ F \in Nat /\ srcin <= F
  BY ByteIs DEF IsFirst
<1>2. mem \in Memories /\ big \in BOOLEAN
  BY DEF GivenOK
<1>3. SameGiven /\ chrin' = chrin /\ routine' = routine
  BY DEF SameGiven, strchr!Next, strchr!Aligned0, strchr!Entry, strchr!EntryNul, strchr!Loop,
         strchr!Tail, strchr!TailNul, strchr!given
<1>4. F' = F
  BY <1>3, FirstSame DEF SameGiven
<1>5. strchr!Match = F /\ strchr!Match' = F
  BY <1>3, <1>4 DEF strchr!Match, strchr!First, strchr!Min, First, Min, SameGiven
<1>6. Y \in Nat /\ Y % n = 0 /\ Y <= srcin /\ srcin < Y + n /\ r \in 0 .. (n - 1) /\ Y = srcin - r
  BY <1>1, HeadIs
<1>7. n \in Nat /\ n > 0 /\ n = 2 * W /\ W \in Nat /\ W > 0
  BY HunkSize
<1>8. strchr!Answer' = A
  BY <1>3, <1>5 DEF strchr!Answer, strchr!strchr, SameGiven
<1>9. /\ strchr!Footprint <=> rd \subseteq Granules(srcin, F, n)
      /\ strchr!Footprint' <=> rd' \subseteq Granules(srcin, F, n)
  <2>1. strchr!Granules(srcin, F, n) = Granules(srcin, F, n)
    BY DEF strchr!Granules, Granules
  <2>2. strchr!Footprint' <=> rd' \subseteq strchr!Granules(srcin, F, n)
    BY <1>3, <1>5 DEF strchr!Footprint, SameGiven
  <2>3. strchr!Footprint <=> rd \subseteq strchr!Granules(srcin, F, n)
    BY <1>5 DEF strchr!Footprint
  <2>. QED
    BY <2>1, <2>2, <2>3
<1>10. strchr!soff = r
  BY StrchrNames
<1> HIDE DEF F, Y, r, n, B
<1>11. B = {chrin, 0} /\ {chrin} \cup {0} = B /\ {chrin} \cup B = B
  BY DEF B
<1>12. /\ src \in Int /\ src % n = 0
       /\ pc = "entry" => src = Y
       /\ pc = "loop" => srcin <= src /\ src <= F
       /\ pc = "tail" => /\ srcin < src /\ src - n <= F /\ F < src
                         /\ Tells(synd, src - n)
  <2>1. /\ src \in Int /\ src % n = 0
        /\ pc = "entry" => src = Y
        /\ pc = "loop" => srcin <= src /\ src <= F
    BY <1>5, StrchrNames DEF strchr!IInv, Aligned, Y, n
  <2>2. strchr!clz(strchr!rbit(synd)) = first(synd)
    BY StrchrNames
  <2> DEFINE g == strchr!clz(strchr!rbit(synd))
  <2>3. pc = "tail" => /\ srcin < src /\ src - n <= F /\ F < src
                       /\ (src - n) + (g \div 2) = F
                       /\ strchr!strchr => (g % 2 = 0 <=> mem[F] = chrin)
    BY <1>5 DEF strchr!IInv, n
  <2>4. strchr!strchr <=> routine = "strchr"
    BY DEF strchr!strchr
  <2> HIDE DEF g
  <2>5. g = first(synd)
    BY <2>2 DEF g
  <2>. QED
    BY <2>1, <2>3, <2>4, <2>5
<1> DEFINE Typed == src' \in Int /\ src' % n = 0
           Loop == pc' = "loop" /\ srcin <= src' /\ src' <= F
           Tail == /\ pc' = "tail" /\ srcin < src' /\ src' - n <= F /\ F < src'
                   /\ Tells(synd', src' - n)
           Ret == pc' = "ret" /\ result' = A
<1>13. ASSUME Typed, Loop \/ Tail \/ Ret, strchr!Footprint'
       PROVE  strchr!IInv'
  <2>1. (2 * W)' = n
    BY <1>7
  <2> DEFINE g == strchr!clz(strchr!rbit(synd))
  <2>2. g' = first(synd')
    <3>1. \A X : strchr!clz(strchr!rbit(X)) = clz(rbit(X))
      BY StrchrNames
    <3>2. g' = strchr!clz(strchr!rbit(synd'))
      BY DEF strchr!clz, strchr!rbit, strchr!Max
    <3>. QED
      BY <3>1, <3>2
  <2>3. strchr!strchr' <=> routine = "strchr"
    BY <1>3 DEF strchr!strchr
  <2>4. CASE Loop
    BY <1>3, <1>5, <1>7, <1>13, <2>4 DEF strchr!IInv, SameGiven
  <2>5. CASE Tail
    <3> HIDE DEF g
    <3>1. (src' - n) + (g' \div 2) = F /\ (strchr!strchr' => (g' % 2 = 0 <=> mem[F] = chrin))
      BY <2>2, <2>3, <2>5
    <3>. QED
      BY <1>3, <1>5, <1>7, <1>13, <2>5, <3>1 DEF strchr!IInv, SameGiven, g
  <2>6. CASE Ret
    BY <1>3, <1>5, <1>7, <1>8, <1>13, <2>6 DEF strchr!IInv, SameGiven
  <2>. QED
    BY <1>13, <2>4, <2>5, <2>6
<1>14. ASSUME NEW a \in Int, a % n = 0, Y <= a, a <= F, rd' = Chunk(a, n)
       PROVE  strchr!Footprint'
  <2>1. Chunk(a, n) \subseteq Granules(srcin, F, n)
    BY <1>1, <1>7, <1>14, MayLoad DEF Y, n
  <2>. QED
    BY <1>9, <1>14, <2>1
<1>15. ASSUME vdata' = ld1(mem, src), vdata2' = ld1(mem, src + W)
       PROVE  /\ strchr!HunkSyndrome(strchr!cmeq(vdata', 0), strchr!cmeq(vdata2', 0)) = Merged(src, {chrin}, {0})
              /\ strchr!HunkSyndrome(strchr!vhas_nul(vdata'), strchr!vhas_nul(vdata2')) = Merged(src, {chrin}, B)
              /\ strchr!NulSyndrome = Even(src, B)
              /\ ~strchr!Found(strchr!vhas_nul(vdata'), strchr!vhas_nul(vdata2')) <=> HunkClean(src, B)
  <2> DEFINE u == ld1(mem, src)
             v == ld1(mem, src + W)
             mask == [i \in Lanes |-> {2 * (i % 4) + 1, 2 * (i % 4) + 2} \cap AllOnes]
  <2>1. /\ strchr!vhas_chr(vdata') = cmeq(u, chrin) /\ strchr!vhas_chr(vdata2') = cmeq(v, chrin)
        /\ strchr!cmeq(vdata', 0) = cmeq(u, 0) /\ strchr!cmeq(vdata2', 0) = cmeq(v, 0)
    BY <1>15, StrchrNames DEF strchr!vhas_chr
  <2>2. /\ strchr!vhas_nul(vdata') = cmhs(cmeq(u, chrin), u)
        /\ strchr!vhas_nul(vdata2') = cmhs(cmeq(v, chrin), v)
    BY <1>15, <2>1, StrchrNames DEF strchr!vhas_nul
  <2>3. /\ cmeq(u, chrin) = MaskOf(Having(u, {chrin})) /\ cmeq(v, chrin) = MaskOf(Having(v, {chrin}))
        /\ cmeq(u, 0) = MaskOf(Having(u, {0})) /\ cmeq(v, 0) = MaskOf(Having(v, {0}))
        /\ cmhs(cmeq(u, chrin), u) = MaskOf(Having(u, B)) /\ cmhs(cmeq(v, chrin), v) = MaskOf(Having(v, B))
    BY <1>11, cmeqIs, cmhsIs
  <2>4. strchr!vrepmask_0 = mask /\ strchr!vrepmask_c = Stepped({0, 1})
    BY StrchrNames DEF strchr!vrepmask_0, strchr!vrepmask_c
  <2> HIDE DEF u, v, mask
  <2>5. ASSUME NEW a1, NEW a2
        PROVE  strchr!HunkSyndrome(a1, a2) = Syndrome(bif(a1, cmeq(u, chrin), mask), bif(a2, cmeq(v, chrin), mask), Stepped({0, 1}))
    BY <2>1, <2>4, StrchrNames, StrchrSyndrome DEF strchr!HunkSyndrome
  <2>6. strchr!HunkSyndrome(strchr!cmeq(vdata', 0), strchr!cmeq(vdata2', 0)) = Merged(src, {chrin}, {0})
    BY <2>1, <2>3, <2>5 DEF Merged, u, v, mask
  <2>7. strchr!HunkSyndrome(strchr!vhas_nul(vdata'), strchr!vhas_nul(vdata2')) = Merged(src, {chrin}, B)
    BY <2>2, <2>3, <2>5 DEF Merged, u, v, mask
  <2>8. strchr!NulSyndrome = Even(src, B)
    BY <2>2, <2>3, StrchrNames, StrchrSyndrome DEF strchr!NulSyndrome, Even, u, v
  <2>9. ~strchr!Found(strchr!vhas_nul(vdata'), strchr!vhas_nul(vdata2')) <=> HunkClean(src, B)
    <3> DEFINE M == Having(u, B) \cup Having(v, B)
    <3>1. M \in SUBSET Lanes
      BY DEF Having
    <3>2. orr(MaskOf(Having(u, B)), MaskOf(Having(v, B))) = MaskOf(M)
      BY orrMasks
    <3>3. M = {} <=> HunkClean(src, B)
      BY <1>12, HavingHunk DEF u, v
    <3> HIDE DEF M
    <3>4. ~strchr!Found(MaskOf(Having(u, B)), MaskOf(Having(v, B))) <=> fmov(umaxp(MaskOf(M), MaskOf(M))) = {}
      BY <3>2, StrchrNames DEF strchr!Found
    <3>. QED
      BY <2>2, <2>3, <3>1, <3>3, <3>4, FoundMask
  <2>. QED
    BY <2>6, <2>7, <2>8, <2>9
\* The syndrome of the hunk at a, from the pointer on.
<1>16. ASSUME NEW a \in Nat, a % n = 0, a <= F, NEW Z,
              \/ routine = "strchr" /\ Z = {k \in Merged(a, {chrin}, {0}) : k >= 2 * (srcin - a)}
              \/ routine = "strchr" /\ Z = {k \in Merged(a, {chrin}, B) : k >= 2 * (srcin - a)}
              \/ routine # "strchr" /\ Z = {k \in Even(a, B) : k >= 2 * (srcin - a)}
       PROVE  /\ Marks(Z, a, srcin, B)
              /\ Z = {} => a + n <= F
              /\ Z # {} => F < a + n /\ Tells(Z, a)
  <2> DEFINE f == first(Z)
  <2>1. srcin \in Int /\ a \in Int
    BY <1>1
  <2>2. /\ Marks(Z, a, srcin, B)
        /\ routine = "strchr" /\ Z # {} => (f % 2 = 0 <=> mem[a + (f \div 2)] = chrin)
    <3>1. CASE routine = "strchr" /\ Z = {k \in Merged(a, {chrin}, {0}) : k >= 2 * (srcin - a)}
      <4>1. Marks(Z, a, srcin, {chrin} \cup {0})
        BY <2>1, <3>1, MergedMarks
      <4>2. Z # {} => (f % 2 = 0 <=> mem[a + (f \div 2)] \in {chrin})
        BY <2>1, <3>1, MergedParity
      <4>. QED
        BY <1>11, <4>1, <4>2
    <3>2. CASE routine = "strchr" /\ Z = {k \in Merged(a, {chrin}, B) : k >= 2 * (srcin - a)}
      <4>1. Marks(Z, a, srcin, {chrin} \cup B)
        BY <2>1, <3>2, MergedMarks
      <4>2. Z # {} => (f % 2 = 0 <=> mem[a + (f \div 2)] \in {chrin})
        BY <2>1, <3>2, MergedParity
      <4>. QED
        BY <1>11, <4>1, <4>2
    <3>3. CASE routine # "strchr" /\ Z = {k \in Even(a, B) : k >= 2 * (srcin - a)}
      <4>1. Z = {k \in Syndrome(MaskOf(Having(ld1(mem, a), B)), MaskOf(Having(ld1(mem, a + W), B)),
                                Stepped({0})) : k >= 2 * (srcin - a)}
        BY <3>3 DEF Even
      <4>2. 0 \in {0, 1}
        OBVIOUS
      <4>3. Marks(Z, a, srcin, B)
        BY <2>1, <4>1, <4>2, BitsMark
      <4>. QED
        BY <3>3, <4>3
    <3>. QED
      BY <1>16, <3>1, <3>2, <3>3
  <2>3. /\ Z = {} => a + n <= F
        /\ Z # {} => F = a + (f \div 2) /\ F < a + n
    BY <1>1, <1>2, <1>16, <2>2, MarksFirst DEF n
  <2> HIDE DEF f
  <2>4. Z # {} => F = a + (f \div 2) /\ (routine = "strchr" => (f % 2 = 0 <=> mem[F] = chrin))
    BY <2>2, <2>3
  <2>. QED
    BY <2>2, <2>3, <2>4 DEF f
<1> HIDE DEF A, Tells
<1>17. CASE strchr!Aligned0
  <2>1. /\ pc = "entry" /\ r = 0 /\ pc' = "loop" /\ src' = src /\ rd' = rd
    BY <1>10, <1>17 DEF strchr!Aligned0
  <2>2. strchr!Footprint'
    BY <1>9, <2>1 DEF strchr!IInv
  <2>3. Loop
    BY <1>1, <1>6, <1>12, <2>1
  <2>4. Typed
    BY <1>12, <2>1
  <2>. QED
    BY <1>13, <2>2, <2>3, <2>4
\* The first hunk.
<1>18. ASSUME NEW Z, /\ pc = "entry" /\ r # 0 /\ src' = Y + n /\ rd' = Chunk(Y, n)
                     /\ pc' = IF Z = {} THEN "loop" ELSE "tail"
                     /\ synd' = Z,
              \/ routine = "strchr" /\ Z = Merged(Y, {chrin}, {0}) \ lsr(XBits, -(2 * r))
              \/ routine # "strchr" /\ Z = Even(Y, B) \ lsr(XBits, -(2 * r))
       PROVE  strchr!IInv'
  <2>1. ASSUME NEW Bits, Bits \subseteq XBits PROVE Bits \ lsr(XBits, -(2 * r)) = {k \in Bits : k >= 2 * (srcin - Y)}
    BY <1>1, <1>6, <1>18, <2>1, PaddingBits DEF r, Y
  <2>2. Merged(Y, {chrin}, {0}) \subseteq XBits /\ Even(Y, B) \subseteq XBits
    BY <1>6, MergedBit, EvenBit
  <2>3. Y <= F
    BY <1>1, <1>6
  <2>4. /\ Z = {} => Y + n <= F
        /\ Z # {} => F < Y + n /\ Tells(Z, Y)
    BY <1>6, <1>16, <1>18, <2>1, <2>2, <2>3
  <2>5. Typed /\ (src' - n) = Y /\ srcin < src'
    <3>1. (Y + n) % n = 0
      BY <1>6, <1>7, ModPlus
    <3>. QED
      BY <1>1, <1>6, <1>7, <1>18, <3>1
  <2>6. strchr!Footprint'
    BY <1>6, <1>14, <1>18, <2>3
  <2>7. CASE Z = {}
    BY <1>1, <1>13, <1>18, <2>4, <2>5, <2>6, <2>7
  <2>8. CASE Z # {}
    BY <1>13, <1>18, <2>3, <2>4, <2>5, <2>6, <2>8
  <2>. QED
    BY <2>7, <2>8
<1>19. strchr!Padding = lsr(XBits, -(2 * r))
  BY <1>10, StrchrNames DEF strchr!Padding
<1>20. CASE strchr!Entry
  <2>1. /\ pc = "entry" /\ r # 0 /\ src = Y /\ src' = Y + n /\ rd' = Chunk(Y, n) /\ routine = "strchr"
        /\ vdata' = ld1(mem, src) /\ vdata2' = ld1(mem, src + W)
    BY <1>10, <1>12, <1>20, StrchrNames DEF strchr!Entry, strchr!LoadHunk, strchr!strchr, n
  <2>2. synd' = Merged(Y, {chrin}, {0}) \ lsr(XBits, -(2 * r)) /\ pc' = IF synd' = {} THEN "loop" ELSE "tail"
    BY <1>15, <1>19, <1>20, <2>1 DEF strchr!Entry
  <2>. QED
    BY <1>18, <2>1, <2>2
<1>21. CASE strchr!EntryNul
  <2>1. /\ pc = "entry" /\ r # 0 /\ src = Y /\ src' = Y + n /\ rd' = Chunk(Y, n) /\ routine # "strchr"
        /\ vdata' = ld1(mem, src) /\ vdata2' = ld1(mem, src + W)
    BY <1>10, <1>12, <1>21, StrchrNames DEF strchr!EntryNul, strchr!LoadHunk, strchr!strchr, n
  <2>2. synd' = Even(Y, B) \ lsr(XBits, -(2 * r)) /\ pc' = IF synd' = {} THEN "loop" ELSE "tail"
    BY <1>15, <1>19, <1>21, <2>1 DEF strchr!EntryNul
  <2>. QED
    BY <1>18, <2>1, <2>2
<1>22. CASE strchr!Loop
  <2>1. /\ pc = "loop" /\ src' = src + n /\ rd' = Chunk(src, n)
        /\ vdata' = ld1(mem, src) /\ vdata2' = ld1(mem, src + W)
    BY <1>22, StrchrNames DEF strchr!Loop, strchr!LoadHunk, n
  <2>2. src \in Nat /\ srcin <= src /\ src <= F /\ Y <= src
    BY <1>1, <1>6, <1>12, <2>1
  <2>3. IF HunkClean(src, B) THEN pc' = "loop" /\ synd' = synd
        ELSE /\ synd' = IF routine = "strchr" THEN Merged(src, {chrin}, B) ELSE Even(src, B)
             /\ pc' = "tail"
    BY <1>15, <1>22, <2>1 DEF strchr!Loop, strchr!strchr
  <2>4. Typed
    BY <1>7, <1>12, <2>1, ModPlus
  <2>5. strchr!Footprint'
    BY <1>12, <1>14, <2>1, <2>2
  <2>6. CASE HunkClean(src, B)
    <3>1. src' <= F /\ srcin <= src'
      BY <1>1, <1>7, <2>1, <2>2, <2>6, HunkPassed DEF n
    <3>. QED
      BY <1>13, <2>3, <2>4, <2>5, <2>6, <3>1
  <2>7. CASE ~HunkClean(src, B)
    <3> DEFINE Bits == IF routine = "strchr" THEN Merged(src, {chrin}, B) ELSE Even(src, B)
    <3>1. Bits \subseteq XBits
      BY <1>12, MergedBit, EvenBit
    <3>2. Bits = {k \in Bits : k >= 2 * (srcin - src)}
      <4>1. \A k \in XBits : k >= 2 * (srcin - src)
        BY <1>1, <2>2 DEF XBits
      <4>. QED
        BY <3>1, <4>1
    <3>3. /\ Marks(Bits, src, srcin, B)
          /\ Bits # {} => F < src + n /\ Tells(Bits, src)
      BY <1>12, <1>16, <2>2, <3>2
    <3> HIDE DEF Bits
    <3>4. Bits # {}
      <4>1. PICK h \in HunkLanes : mem[src + h] \in B
        BY <2>7 DEF HunkClean
      <4>2. src + h >= srcin
        BY <1>1, <1>7, <2>2 DEF HunkLanes
      <4>. QED
        BY <3>3, <4>1, <4>2 DEF Marks
    <3>5. synd' = Bits /\ pc' = "tail"
      BY <2>3, <2>7 DEF Bits
    <3>6. src' - n = src /\ srcin < src' /\ src <= F
      BY <1>1, <1>7, <2>1, <2>2
    <3>. QED
      BY <1>13, <2>1, <2>4, <2>5, <3>3, <3>4, <3>5, <3>6
  <2>. QED
    BY <2>6, <2>7
<1>23. CASE strchr!Tail \/ strchr!TailNul
  <2>1. /\ pc = "tail" /\ pc' = "ret" /\ src' = src - n /\ rd' = {}
        /\ result' = IF routine = "strchr" /\ first(synd) % 2 # 0 THEN 0 ELSE src' + (first(synd) \div 2)
    BY <1>23, StrchrNames DEF strchr!Tail, strchr!TailNul, strchr!strchr, strchr!IfMatch, n
  <2>2. Tells(synd, src - n)
    BY <1>12, <2>1
  <2>3. result' = A
    BY <2>1, <2>2 DEF A, Tells
  <2>4. Typed
    BY <1>7, <1>12, <2>1, ModPlus
  <2>5. strchr!Footprint'
    BY <1>9, <2>1
  <2>. QED
    BY <1>13, <2>1, <2>3, <2>4, <2>5
<1>. QED
  BY <1>17, <1>20, <1>21, <1>22, <1>23 DEF strchr!Next

-----------------------------------------------------------------------------
\* strrchr.

LEMMA StrrchrNames ==
    /\ \A m, a : strrchr!ld1(m, a) = ld1(m, a)
    /\ \A v, c : strrchr!cmeq(v, c) = cmeq(v, c)
    /\ \A U, V : strrchr!uminp(U, V) = uminp(U, V)
    /\ \A V : strrchr!fmov(V) = fmov(V)
    /\ \A P : strrchr!Stepped(P) = Stepped(P)
    /\ \A X, k : strrchr!lsr(X, k) = lsr(X, k)
    /\ \A X : strrchr!clz(X) = clz(X) /\ strrchr!rbit(X) = rbit(X) /\ strrchr!MinusOne(X) = MinusOne(X)
    /\ \A X : strrchr!Min(X) = Min(X) /\ strrchr!Max(X) = Max(X)
    /\ \A X, Z : strrchr!SymmetricDiff(X, Z) = SymmetricDiff(X, Z)
    /\ \A a, C : strrchr!First(a, C) = First(a, C)
    /\ \A l, h, g : strrchr!Granules(l, h, g) = Granules(l, h, g)
    /\ \A a, k : strrchr!Chunk(a, k) = Chunk(a, k) /\ strrchr!Aligned(a, k) = Aligned(a, k)
    /\ strrchr!XBits = XBits /\ strrchr!soff = srcin % (2 * W)
    /\ strrchr!Lanes = Lanes /\ strrchr!AllOnes = AllOnes
  BY DEF strrchr!Lanes, strrchr!ld1, strrchr!cmeq, strrchr!uminp, strrchr!SmallerNumber,
         strrchr!Pairwise, strrchr!SymmetricDiff, strrchr!fmov, strrchr!Stepped, strrchr!MinusOne,
         strrchr!lsr, strrchr!clz, strrchr!rbit, strrchr!First, strrchr!Granules, strrchr!Chunk,
         strrchr!Aligned, strrchr!AllOnes, strrchr!Max, strrchr!Min, strrchr!XBits, strrchr!soff,
         Lanes, ld1, cmeq, uminp, SmallerNumber, Pairwise, SymmetricDiff, fmov, Stepped, MinusOne,
         lsr, clz, rbit, First, Granules, Chunk, Aligned, AllOnes, Max, Min, XBits

LEMMA StrrchrAdded ==
    /\ \A U, V, m : strrchr!Syndrome(U, V, m) = Syndrome(U, V, m)
    /\ \A U, V : strrchr!addp(U, V) = addp(U, V)
<1>1. \A A, B : strrchr!AddedBytes(A, B) = AddedBytes(A, B)
  BY DEF strrchr!AddedBytes, strrchr!Sum, strrchr!SymmetricDiff, AddedBytes, Sum, SymmetricDiff
<1>2. \A U, V : strrchr!addp(U, V) = addp(U, V)
  BY <1>1 DEF strrchr!addp, strrchr!Pairwise, strrchr!Lanes, addp, Pairwise, Lanes
<1>3. \A U, V : strrchr!and(U, V) = and(U, V)
  BY DEF strrchr!and, strrchr!Lanes, and, Lanes
<1>4. \A U : strrchr!fmov(U) = fmov(U)
  BY DEF strrchr!fmov, fmov
<1>. QED
  BY <1>2, <1>3, <1>4 DEF strrchr!Syndrome, Syndrome

\* The bytes of a hunk are its lanes.
LEMMA ByteInHunk ==
    ASSUME NEW a \in Int, NEW h \in HunkLanes
    PROVE  InHunk(ld1(mem, a), ld1(mem, a + W), h) = mem[a + h]
<1>1. CASE h < W
  BY <1>1, LanesOfHunk DEF InHunk, ld1
<1>2. CASE ~(h < W)
  <2>1. h - W \in Lanes /\ (a + W) + (h - W) = a + h
    BY <1>2, LanesOfHunk, WAssumption DEF HunkLanes
  <2>. QED
    BY <1>2, <2>1 DEF InHunk, ld1
<1>. QED
  BY <1>1, <1>2

\* The least of each two bytes of a hunk in memory.
LEMMA MinimaFind ==
    ASSUME mem \in Memories, NEW a \in Nat, a % (2 * W) = 0, NEW x \in DOMAIN mem, a <= x,
           NEW v, v = cmeq(uminp(ld1(mem, a), ld1(mem, a + W)), 0)
    PROVE  fmov(addp(v, v)) = {} <=> HunkClean(a, {0})
<1> DEFINE U == ld1(mem, a)
           V == ld1(mem, a + W)
           M == Having(uminp(U, V), {0})
<1>1. ASSUME NEW h \in HunkLanes PROVE InHunk(U, V, h) = mem[a + h] /\ mem[a + h] \in Nat
  <2>1. mem[a + h] \in 0 .. 255
    BY HunkInMemory, BytesAssumption
  <2>. QED
    BY <2>1, ByteInHunk
<1>2. ASSUME NEW j \in Lanes
      PROVE  /\ 2 * j \in HunkLanes /\ 2 * j + 1 \in HunkLanes
             /\ j \in M <=> mem[a + 2 * j] = 0 \/ mem[a + (2 * j + 1)] = 0
  <2> HIDE DEF U, V
  <2>1. /\ 2 * j \in HunkLanes /\ 2 * j + 1 \in HunkLanes
        /\ uminp(U, V)[j] = 0 <=> InHunk(U, V, 2 * j) = 0 \/ InHunk(U, V, 2 * j + 1) = 0
    BY <1>1, uminpIs
  <2>2. InHunk(U, V, 2 * j) = mem[a + 2 * j] /\ InHunk(U, V, 2 * j + 1) = mem[a + (2 * j + 1)]
    BY <1>1, <2>1
  <2>. QED
    BY <2>1, <2>2 DEF Having
<1>3. ASSUME NEW h \in HunkLanes PROVE \E j \in Lanes : h = 2 * j \/ h = 2 * j + 1
  <2>1. h \div 2 \in Lanes /\ (h = 2 * (h \div 2) \/ h = 2 * (h \div 2) + 1)
    BY WAssumption DEF HunkLanes, Lanes
  <2>. QED
    BY <2>1
<1>4. M \in SUBSET Lanes /\ v = MaskOf(M)
  BY cmeqIs DEF Having
<1> HIDE DEF M
<1>5. fmov(addp(v, v)) = {} <=> M = {}
  BY <1>4, AddedFinds
<1>6. M = {} <=> HunkClean(a, {0})
  <2>1. ASSUME NEW j \in M PROVE ~HunkClean(a, {0})
    BY <1>2, <1>4 DEF HunkClean
  <2>2. ASSUME NEW h \in HunkLanes, mem[a + h] = 0 PROVE M # {}
    BY <1>2, <1>3, <2>2
  <2>. QED
    BY <2>1, <2>2 DEF HunkClean
<1>. QED
  BY <1>5, <1>6

\* The last match before address q that registers sm and so tell.
LatestIs(sm, so, q) ==
    IF so = {} THEN \A x \in srcin .. (q - 1) : mem[x] # chrin
    ELSE LET latest == sm - ((clz(so) + 2) \div 2)
         IN  /\ latest \in srcin .. (q - 1) /\ mem[latest] = chrin
             /\ \A x \in (latest + 1) .. (q - 1) : mem[x] # chrin

\* The bits of a hunk's matches before q.
MatchBits(a, q) == {k \in XBits : /\ k % 2 = 0 /\ a + (k \div 2) >= srcin /\ a + (k \div 2) < q
                                  /\ mem[a + (k \div 2)] = chrin}

\* The matches of the hunk at a become the last ones if there are any.
LEMMA KeepLatest ==
    ASSUME srcin \in Int, NEW a \in Int, NEW q \in Int, a <= q, q <= a + 2 * W,
           NEW sm \in Int, NEW so, LatestIs(sm, so, a),
           NEW X, X = MatchBits(a, q)
    PROVE  /\ X # {} => LatestIs(a + 2 * W, X, q)
           /\ X = {} => LatestIs(sm, so, q)
<1>1. X \in SUBSET XBits /\ W \in Nat /\ W > 0
  BY WAssumption DEF MatchBits
\* A match of the hunk has its bit.
<1>2. ASSUME NEW x \in Int, srcin <= x, a <= x, x < q, mem[x] = chrin
      PROVE  x - a \in HunkLanes /\ 2 * (x - a) \in X
  <2> DEFINE h == x - a
  <2>1. h \in HunkLanes /\ a + h = x
    BY <1>1, <1>2 DEF HunkLanes
  <2> HIDE DEF h
  <2>2. 2 * h \in XBits /\ (2 * h) \div 2 = h /\ (2 * h) % 2 = 0
    BY <2>1, BitsOfLane
  <2>3. 2 * h \in X
    BY <1>2, <2>1, <2>2 DEF MatchBits
  <2>. QED
    BY <2>1, <2>3 DEF h
<1>3. CASE X # {}
  <2> DEFINE t == (4 * W - 1) - clz(X)
             h == t \div 2
  <2>1. t \in X /\ (\A k \in X : k <= t) /\ clz(X) \in XBits
    BY <1>1, <1>3, clzIs
  <2>2. t \in XBits /\ clz(X) \in Int /\ clz(X) = (4 * W - 1) - t
    BY <1>1, <2>1 DEF XBits
  <2> HIDE DEF t
  <2>3. t = 2 * h /\ h \in Nat /\ h \in HunkLanes /\ h < 2 * W
    <3>1. t % 2 = 0
      BY <2>1 DEF MatchBits
    <3>2. t = 2 * h /\ h \in HunkLanes
      BY <2>2, <3>1, LaneOfBit
    <3>. QED
      BY <1>1, <3>2 DEF HunkLanes
  <2>4. a + h >= srcin /\ a + h < q /\ mem[a + h] = chrin
    BY <2>1 DEF MatchBits
  <2> HIDE DEF h
  <2>5. (a + 2 * W) - ((clz(X) + 2) \div 2) = a + h
    <3>1. clz(X) + 2 = 2 * (2 * W - h) + 1
      BY <1>1, <2>2, <2>3
    <3>2. (clz(X) + 2) \div 2 = 2 * W - h
      BY <1>1, <2>3, <3>1
    <3>. QED
      BY <1>1, <2>3, <3>2
  <2>6. ASSUME NEW x \in ((a + h) + 1) .. (q - 1), mem[x] = chrin PROVE FALSE
    <3>1. x \in Int /\ srcin <= x /\ a <= x /\ x < q /\ a + h < x
      BY <2>3, <2>4
    <3>2. 2 * (x - a) <= t
      BY <1>2, <2>1, <2>6, <3>1
    <3>. QED
      BY <2>3, <3>1, <3>2
  <2>7. a + h \in srcin .. (q - 1)
    BY <2>3, <2>4
  <2>8. LatestIs(a + 2 * W, X, q)
    BY <1>3, <2>4, <2>5, <2>6, <2>7 DEF LatestIs
  <2>. QED
    BY <1>3, <2>8
<1>4. CASE X = {}
  <2>1. ASSUME NEW x \in Int, srcin <= x, a <= x, x < q PROVE mem[x] # chrin
    BY <1>2, <1>4, <2>1
  <2>2. CASE so = {}
    <3>1. ASSUME NEW x \in srcin .. (q - 1) PROVE mem[x] # chrin
      BY <2>1, <2>2 DEF LatestIs
    <3>. QED
      BY <1>4, <2>2, <3>1 DEF LatestIs
  <2>3. CASE so # {}
    <3> DEFINE latest == sm - ((clz(so) + 2) \div 2)
    <3>1. /\ latest \in srcin .. (a - 1) /\ mem[latest] = chrin
          /\ \A x \in (latest + 1) .. (a - 1) : mem[x] # chrin
      BY <2>3 DEF LatestIs
    <3> HIDE DEF latest
    <3>2. latest \in srcin .. (q - 1)
      BY <3>1
    <3>3. ASSUME NEW x \in (latest + 1) .. (q - 1) PROVE mem[x] # chrin
      BY <2>1, <3>1
    <3>. QED
      BY <1>4, <2>3, <3>1, <3>2, <3>3 DEF LatestIs, latest
  <2>. QED
    BY <2>2, <2>3
<1>. QED
  BY <1>3, <1>4

\* The addresses of the character up to F.
CharsTo(F) == {x \in srcin .. F : mem[x] = chrin}

LEMMA LatestAnswers ==
    ASSUME srcin \in Int, NEW F \in Int, NEW sm, NEW so, LatestIs(sm, so, F + 1)
    PROVE  (IF so = {} THEN 0 ELSE sm - ((clz(so) + 2) \div 2))
             = IF CharsTo(F) = {} THEN 0 ELSE Max(CharsTo(F))
<1> DEFINE T == CharsTo(F)
<1>0. T = {x \in srcin .. F : mem[x] = chrin}
  BY DEF CharsTo
<1> HIDE DEF T
<1>1. (F + 1) - 1 = F
  OBVIOUS
<1>2. CASE so = {}
  <2>1. T = {}
    BY <1>0, <1>1, <1>2 DEF LatestIs
  <2>. QED
    BY <1>2, <2>1 DEF T
<1>3. CASE so # {}
  <2> DEFINE latest == sm - ((clz(so) + 2) \div 2)
  <2>1. /\ latest \in srcin .. F /\ mem[latest] = chrin
        /\ \A x \in (latest + 1) .. F : mem[x] # chrin
    BY <1>1, <1>3 DEF LatestIs
  <2> HIDE DEF latest
  <2>2. latest \in T /\ T \subseteq Int
    BY <1>0, <2>1
  <2>3. \A y \in T : y <= latest
    BY <1>0, <2>1
  <2>4. Max(T) = latest
    BY <2>2, <2>3, MaxIs
  <2>. QED
    BY <1>3, <2>2, <2>4 DEF latest, T
<1>. QED
  BY <1>2, <1>3 DEF T

\* The bits up to the lowest of X.
LEMMA UpToLowest ==
    ASSUME NEW X \in SUBSET XBits, X # {}, NEW m, m = Min(X)
    PROVE  /\ m \in X /\ m = clz(rbit(X)) /\ m \in Nat
           /\ SymmetricDiff(MinusOne(X), X) = 0 .. m
<1>1. X \subseteq Nat /\ X \subseteq Int
  BY DEF XBits
<1>2. m \in X /\ \A y \in X : m <= y
  BY <1>1, MinExists
<1>3. clz(rbit(X)) = m
  <2>1. clz(rbit(X)) \in X /\ \A y \in X : clz(rbit(X)) <= y
    BY clzRbitIs
  <2>. QED
    BY <1>1, <2>1, MinIs
<1>4. MinusOne(X) = (X \ {m}) \cup 0 .. (m - 1)
  BY DEF MinusOne
<1>5. m \in Nat
  BY <1>1, <1>2
<1>6. ASSUME NEW y PROVE y \in SymmetricDiff(MinusOne(X), X) <=> y \in 0 .. m
  <2>1. y \in X => y \in Nat /\ m <= y
    BY <1>1, <1>2
  <2>2. y \in MinusOne(X) <=> (y \in X /\ y # m) \/ y \in 0 .. (m - 1)
    BY <1>4
  <2>3. y \in 0 .. m <=> y = m \/ y \in 0 .. (m - 1)
    BY <1>5
  <2>4. ~(y \in X /\ y \in 0 .. (m - 1)) /\ ~(y = m /\ y \in 0 .. (m - 1))
    BY <1>5, <2>1
  <2>. QED
    BY <1>2, <2>2, <2>3, <2>4 DEF SymmetricDiff
<1>. QED
  BY <1>2, <1>3, <1>5, <1>6

\* The matches of the hunk at a, as a syndrome.
LEMMA MatchesAre ==
    ASSUME NEW a \in Int, srcin \in Int
    PROVE  strrchr!MatchesOf(a) = MatchBits(a, a + 2 * W)
<1> DEFINE T == {j \in 0 .. (2 * W - 1) : a + j >= srcin /\ mem[a + j] = chrin}
<1>1. strrchr!MatchesOf(a) = {2 * i : i \in T}
  BY DEF strrchr!MatchesOf
<1>2. ASSUME NEW i \in T PROVE 2 * i \in MatchBits(a, a + 2 * W)
  <2>1. i \in HunkLanes /\ a + i < a + 2 * W
    BY WAssumption DEF HunkLanes
  <2>2. 2 * i \in XBits /\ (2 * i) \div 2 = i /\ (2 * i) % 2 = 0
    BY <2>1, BitsOfLane
  <2>. QED
    BY <2>1, <2>2 DEF MatchBits
<1>3. ASSUME NEW k \in MatchBits(a, a + 2 * W) PROVE \E i \in T : k = 2 * i
  <2>1. k \in XBits /\ k % 2 = 0 /\ a + (k \div 2) >= srcin /\ mem[a + (k \div 2)] = chrin
    BY DEF MatchBits
  <2>2. k \div 2 \in T /\ k = 2 * (k \div 2)
    BY <2>1, LaneOfBit DEF HunkLanes
  <2>. QED
    BY <2>2
<1> HIDE DEF T
<1>. QED
  BY <1>1, <1>2, <1>3

\* Each step of strrchr keeps its invariant.
LEMMA StrrchrInv ==
    ASSUME GivenOK, CharOK, strrchr!IInv, strrchr!Next
    PROVE  strrchr!IInv'
<1> DEFINE n == 2 * W
           F == First(srcin, {0})
           r == srcin % (2 * W)
           Y == srcin - (srcin % (2 * W))
           T == {x \in srcin .. F : mem[x] = chrin}
           A == IF T = {} THEN 0 ELSE Max(T)
           IsNul(X, a) == /\ X # {} /\ X \subseteq XBits
                          /\ a + (Min(X) \div 2) = F /\ Min(X) % 2 = 1
<1>1. srcin \in Nat /\ IsFirst(F, srcin, {0}) /\ F \in Nat /\ srcin <= F
  BY ByteIs DEF IsFirst
<1>2. mem \in Memories /\ big \in BOOLEAN
  BY DEF GivenOK
<1>3. SameGiven /\ chrin' = chrin
  BY DEF SameGiven, strrchr!Next, strrchr!Aligned0, strrchr!Entry, strrchr!LoopTop,
         strrchr!AlignedHunk, strrchr!Tail, strrchr!given
<1>4. F' = F
  BY <1>3, FirstSame DEF SameGiven
<1>5. strrchr!Nul = F /\ strrchr!Nul' = F
  BY <1>3, <1>4 DEF strrchr!Nul, strrchr!First, strrchr!Min, First, Min, SameGiven
<1>6. Y \in Nat /\ Y % n = 0 /\ Y <= srcin /\ srcin < Y + n /\ r \in 0 .. (n - 1) /\ Y = srcin - r
  BY <1>1, HeadIs
<1>7. n \in Nat /\ n > 0 /\ n = 2 * W /\ W \in Nat /\ W > 0
  BY HunkSize
<1>8. strrchr!Answer' = A
  <2>1. strrchr!Matches' = T
    BY <1>3, <1>5 DEF strrchr!Matches, SameGiven
  <2>. QED
    BY <2>1 DEF strrchr!Answer, strrchr!Max, Max
<1>9. /\ strrchr!Footprint <=> rd \subseteq Granules(srcin, F, n)
      /\ strrchr!Footprint' <=> rd' \subseteq Granules(srcin, F, n)
  <2>1. strrchr!Granules(srcin, F, n) = Granules(srcin, F, n)
    BY DEF strrchr!Granules, Granules
  <2>2. strrchr!Footprint' <=> rd' \subseteq strrchr!Granules(srcin, F, n)
    BY <1>3, <1>5 DEF strrchr!Footprint, SameGiven
  <2>3. strrchr!Footprint <=> rd \subseteq strrchr!Granules(srcin, F, n)
    BY <1>5 DEF strrchr!Footprint
  <2>. QED
    BY <2>1, <2>2, <2>3
<1>10. strrchr!soff = r
  BY StrrchrNames
<1> DEFINE Before(q) == LatestIs(src_match, src_offset, q)
           BeforeNext(q) == LatestIs(src_match', src_offset', q)
<1>11. ASSUME NEW q
       PROVE  strrchr!LatestBefore(q) <=> Before(q)
  BY StrrchrNames DEF strrchr!LatestBefore, LatestIs
<1>12. /\ strrchr!LatestBefore(src)' <=> BeforeNext(src')
       /\ strrchr!LatestBefore(src - 2 * W)' <=> BeforeNext(src' - n)
  <2>1. \A X : strrchr!clz(X) = clz(X)
    BY StrrchrNames
  <2>2. strrchr!clz(src_offset)' = clz(src_offset')
    <3>1. strrchr!clz(src_offset)' = strrchr!clz(src_offset')
      BY DEF strrchr!clz, strrchr!Max
    <3>. QED
      BY <2>1, <3>1
  <2>3. strrchr!LatestBefore(src)' <=> BeforeNext(src')
    BY <1>3, <2>2 DEF strrchr!LatestBefore, LatestIs, SameGiven
  <2>4. strrchr!LatestBefore(src - 2 * W)' <=> BeforeNext(src' - 2 * W)
    BY <1>3, <2>2 DEF strrchr!LatestBefore, LatestIs, SameGiven
  <2>. QED
    BY <2>3, <2>4
<1>13. ASSUME NEW a \in Int
       PROVE  strrchr!MatchesOf(a) = MatchBits(a, a + n)
  BY <1>1, MatchesAre
<1>14. ASSUME src' \in Int
       PROVE  strrchr!MatchesOf(src - 2 * W)' = MatchBits(src' - n, (src' - n) + n)
  <2>1. strrchr!MatchesOf(src - 2 * W)' = strrchr!MatchesOf(src' - 2 * W)
    BY <1>3 DEF strrchr!MatchesOf, SameGiven
  <2>2. src' - 2 * W \in Int
    BY <1>7, <1>14
  <2>. QED
    BY <1>13, <2>1, <2>2
<1> HIDE DEF F, Y, r, n, T, A, Before, BeforeNext
<1>15. /\ src \in Int /\ src % n = 0 /\ src_match \in Int /\ src_offset \subseteq XBits
       /\ pc = "entry" => src = Y /\ src_offset = {}
       /\ pc = "aligned" => srcin <= src /\ src <= F /\ Before(src)
       /\ pc = "loop" => src <= F
       /\ pc = "tail" => src - n <= F /\ F < src /\ IsNul(nul_match, src - n)
       /\ pc \in {"loop", "tail"} => /\ srcin < src /\ chr_match = MatchBits(src - n, src)
                                     /\ Before(src - n)
  <2>1. /\ src \in Int /\ src % n = 0 /\ src_match \in Int /\ src_offset \subseteq XBits
        /\ pc = "entry" => src = Y /\ src_offset = {}
        /\ pc = "loop" => src <= F
    BY <1>5, StrrchrNames DEF strrchr!IInv, Aligned, Y, n
  <2>2. pc = "aligned" => srcin <= src /\ src <= F /\ Before(src)
    BY <1>5, <1>11 DEF strrchr!IInv
  <2>3. pc = "tail" => src - n <= F /\ F < src /\ IsNul(nul_match, src - n)
    BY <1>5, StrrchrNames DEF strrchr!IInv, n
  <2>4. src - n \in Int /\ (src - n) + n = src
    BY <1>7, <2>1
  <2>5. strrchr!MatchesOf(src - n) = MatchBits(src - n, src)
    BY <1>13, <2>4
  <2>6. pc \in {"loop", "tail"} => /\ srcin < src /\ chr_match = MatchBits(src - n, src)
                                   /\ Before(src - n)
    BY <1>11, <2>5 DEF strrchr!IInv, n
  <2>. QED
    BY <2>1, <2>2, <2>3, <2>6
<1> DEFINE Typed == src' \in Int /\ src' % n = 0 /\ src_match' \in Int /\ src_offset' \subseteq XBits
           Hunk == pc' = "aligned" /\ srcin <= src' /\ src' <= F /\ BeforeNext(src')
           Known == srcin < src' /\ chr_match' = MatchBits(src' - n, src') /\ BeforeNext(src' - n)
           Loop == pc' = "loop" /\ src' <= F /\ Known
           Tail == pc' = "tail" /\ src' - n <= F /\ F < src' /\ IsNul(nul_match', src' - n) /\ Known
           Ret == pc' = "ret" /\ result' = A
<1>16. ASSUME Typed, Hunk \/ Loop \/ Tail \/ Ret, strrchr!Footprint'
       PROVE  strrchr!IInv'
  <2>1. (2 * W)' = n /\ strrchr!XBits' = XBits
    BY <1>7 DEF strrchr!XBits, XBits
  <2>2. src' \in Int /\ (src' - n) + n = src'
    <3>1. src' \in Int
      BY <1>16
    <3>2. ASSUME NEW s \in Int PROVE (s - n) + n = s
      BY <1>7
    <3>. QED
      BY <3>1, <3>2
  <2>3. strrchr!MatchesOf(src - 2 * W)' = MatchBits(src' - n, src')
    BY <1>14, <1>16, <2>2
  <2>4. strrchr!Min(nul_match)' = Min(nul_match')
    BY DEF strrchr!Min, Min
  <2>5. CASE Hunk
    BY <1>3, <1>5, <1>7, <1>12, <1>16, <2>1, <2>5 DEF strrchr!IInv, SameGiven
  <2>6. CASE Loop
    BY <1>3, <1>5, <1>7, <1>12, <1>16, <2>1, <2>3, <2>6 DEF strrchr!IInv, SameGiven
  <2>7. CASE Tail
    BY <1>3, <1>5, <1>7, <1>12, <1>16, <2>1, <2>3, <2>4, <2>7 DEF strrchr!IInv, SameGiven
  <2>8. CASE Ret
    BY <1>3, <1>5, <1>7, <1>8, <1>16, <2>1, <2>8 DEF strrchr!IInv, SameGiven
  <2>. QED
    BY <1>16, <2>5, <2>6, <2>7, <2>8
<1>17. ASSUME NEW a \in Int, a % n = 0, Y <= a, a <= F, rd' = Chunk(a, n)
       PROVE  strrchr!Footprint'
  <2>1. Chunk(a, n) \subseteq Granules(srcin, F, n)
    BY <1>1, <1>7, <1>17, MayLoad DEF Y, n
  <2>. QED
    BY <1>9, <1>17, <2>1
\* The two syndromes of the hunk at a.
<1> DEFINE Odd(a) == Syndrome(MaskOf(Having(ld1(mem, a), {0})), MaskOf(Having(ld1(mem, a + W), {0})), Stepped({1}))
<1>18. ASSUME vdata' = ld1(mem, src), vdata2' = ld1(mem, src + W)
       PROVE  /\ strrchr!Bits(0, {1}) = Odd(src)
              /\ strrchr!Bits(chrin, {0}) = Even(src, {chrin})
              /\ \A x \in DOMAIN mem : src \in Nat /\ src <= x => (~strrchr!HasNul <=> HunkClean(src, {0}))
  <2>1. strrchr!Bits(0, {1}) = Odd(src) /\ strrchr!Bits(chrin, {0}) = Even(src, {chrin})
    BY <1>18, cmeqIs, StrrchrNames, StrrchrAdded DEF strrchr!Bits, Even
  <2> DEFINE v == cmeq(uminp(ld1(mem, src), ld1(mem, src + W)), 0)
  <2>2. ~strrchr!HasNul <=> fmov(addp(v, v)) = {}
    BY <1>18, StrrchrNames, StrrchrAdded DEF strrchr!HasNul
  <2>3. ASSUME NEW x \in DOMAIN mem, src \in Nat, src <= x
        PROVE  fmov(addp(v, v)) = {} <=> HunkClean(src, {0})
    BY <1>2, <1>15, <2>3, MinimaFind DEF n
  <2>. QED
    BY <2>1, <2>2, <2>3
<1>19. ASSUME NEW a \in Nat, a % n = 0, a <= F, NEW Z, Z = {k \in Odd(a) : k >= 2 * (srcin - a)}
       PROVE  /\ Z \subseteq XBits
              /\ Z = {} => a + n <= F
              /\ Z # {} => IsNul(Z, a) /\ F < a + n
              /\ srcin <= a /\ ~HunkClean(a, {0}) => Z # {}
  <2>1. 1 \in {0, 1} /\ srcin \in Int /\ a \in Int
    BY <1>1
  <2>2. Marks(Z, a, srcin, {0}) /\ \A k \in Z : k % 2 = 1
    BY <1>19, <2>1, BitsMark
  <2>3. Z \in SUBSET XBits
    BY <2>2 DEF Marks
  <2>4. /\ Z = {} => a + n <= F
        /\ Z # {} => F = a + (clz(rbit(Z)) \div 2) /\ F < a + n
    BY <1>1, <1>2, <1>19, <2>2, MarksFirst DEF n
  <2>5. Z # {} => Min(Z) = clz(rbit(Z)) /\ Min(Z) \in Z
    BY <2>3, UpToLowest
  <2>6. ASSUME srcin <= a, ~HunkClean(a, {0}) PROVE Z # {}
    <3>1. PICK h \in HunkLanes : mem[a + h] \in {0}
      BY <2>6 DEF HunkClean
    <3>2. a + h >= srcin
      BY <1>1, <1>7, <2>6 DEF HunkLanes
    <3>. QED
      BY <2>2, <3>1, <3>2 DEF Marks
  <2>. QED
    BY <2>2, <2>3, <2>4, <2>5, <2>6
<1>20. ASSUME NEW a \in Int, NEW b \in Int, b = a + n
       PROVE  {k \in Even(a, {chrin}) : k >= 2 * (srcin - a)} = MatchBits(a, b)
  <2>1. ASSUME NEW k
        PROVE  k \in Even(a, {chrin}) /\ k >= 2 * (srcin - a) <=> k \in MatchBits(a, b)
    <3>1. CASE k \in XBits /\ k % 2 = 0
      <4>1. k \div 2 \in Int /\ k = 2 * (k \div 2) /\ k \div 2 < 2 * W
        BY <1>7, <3>1, LaneOfBit DEF HunkLanes
      <4>2. k >= 2 * (srcin - a) <=> a + (k \div 2) >= srcin
        BY <1>1, <4>1
      <4>3. a + (k \div 2) < b
        BY <1>7, <1>20, <4>1
      <4>. QED
        BY <3>1, <4>2, <4>3, EvenBit DEF MatchBits
    <3>2. CASE ~(k \in XBits /\ k % 2 = 0)
      BY <3>2, EvenBit DEF MatchBits
    <3>. QED
      BY <3>1, <3>2
  <2>. QED
    BY <2>1
<1>21. ASSUME NEW a \in Int, srcin <= a PROVE \A k \in XBits : k >= 2 * (srcin - a)
  BY <1>1, <1>21 DEF XBits
<1>22. ASSUME NEW a \in Int
       PROVE  Odd(a) \subseteq XBits /\ Even(a, {chrin}) \subseteq XBits
  <2>1. {1} \in SUBSET {0, 1}
    OBVIOUS
  <2>. QED
    BY <2>1, SyndromeIs, EvenBit
<1> HIDE DEF Odd, IsNul
<1>23. CASE strrchr!Aligned0
  <2>1. /\ pc = "entry" /\ r = 0 /\ pc' = "aligned" /\ src' = src /\ rd' = rd
        /\ src_match' = src_match /\ src_offset' = src_offset
    BY <1>10, <1>23 DEF strrchr!Aligned0
  <2>2. strrchr!Footprint'
    BY <1>9, <2>1 DEF strrchr!IInv
  <2>3. src' = srcin /\ src_offset' = {}
    BY <1>1, <1>6, <1>15, <2>1
  <2>4. srcin .. (srcin - 1) = {}
    BY <1>1
  <2>5. Hunk
    BY <1>1, <2>1, <2>3, <2>4 DEF BeforeNext, LatestIs
  <2>6. Typed
    BY <1>15, <2>1
  <2>. QED
    BY <1>16, <2>2, <2>5, <2>6
<1>24. CASE strrchr!Entry
  <2>1. /\ pc = "entry" /\ r # 0 /\ src = Y /\ src' = Y + n /\ rd' = Chunk(Y, n)
        /\ src_match' = src_match /\ src_offset' = src_offset
        /\ vdata' = ld1(mem, src) /\ vdata2' = ld1(mem, src + W)
    BY <1>10, <1>15, <1>24, StrrchrNames DEF strrchr!Entry, strrchr!LoadHunk, n
  <2>2. strrchr!Padding = lsr(XBits, -(2 * r))
    BY <1>10, StrrchrNames DEF strrchr!Padding
  <2>3. /\ nul_match' = Odd(Y) \ lsr(XBits, -(2 * r))
        /\ chr_match' = Even(Y, {chrin}) \ lsr(XBits, -(2 * r))
        /\ pc' = IF nul_match' = {} THEN "loop" ELSE "tail"
    BY <1>18, <1>24, <2>1, <2>2 DEF strrchr!Entry
  <2>4. ASSUME NEW Bits, Bits \subseteq XBits PROVE Bits \ lsr(XBits, -(2 * r)) = {k \in Bits : k >= 2 * (srcin - Y)}
    BY <1>1, <2>1, <2>4, PaddingBits DEF r, Y
  <2>5. nul_match' = {k \in Odd(Y) : k >= 2 * (srcin - Y)} /\ chr_match' = MatchBits(Y, src')
    <3>1. Y \in Int /\ Y + n \in Int
      BY <1>6, <1>7
    <3>. QED
      BY <1>20, <1>22, <2>1, <2>3, <2>4, <3>1
  <2>6. Y <= F
    BY <1>1, <1>6
  <2>7. /\ nul_match' = {} => Y + n <= F
        /\ nul_match' # {} => IsNul(nul_match', Y) /\ F < Y + n
    BY <1>6, <1>19, <2>5, <2>6
  <2>8. Typed /\ src' - n = Y /\ srcin < src'
    <3>1. (Y + n) % n = 0
      BY <1>6, <1>7, ModPlus
    <3>. QED
      BY <1>1, <1>6, <1>7, <1>15, <2>1, <3>1
  <2>9. strrchr!Footprint'
    BY <1>6, <1>17, <2>1, <2>6
  <2>10. Known
    <3>1. src_offset' = {}
      BY <1>15, <2>1
    <3>2. srcin .. (Y - 1) = {}
      BY <1>1, <1>6
    <3>3. BeforeNext(Y)
      BY <3>1, <3>2 DEF BeforeNext, LatestIs
    <3>. QED
      BY <2>5, <2>8, <3>3
  <2>. QED
    BY <1>16, <2>1, <2>3, <2>6, <2>7, <2>8, <2>9, <2>10
<1>25. ASSUME NEW X, X = MatchBits(src - n, src)
       PROVE  X \subseteq XBits
  BY <1>25 DEF MatchBits
<1>26. CASE strrchr!LoopTop
  <2> DEFINE a == src - n
  <2>1. /\ pc = "loop" /\ pc' = "aligned" /\ rd' = {} /\ src' = src
        /\ src_match' = IF chr_match # {} THEN src ELSE src_match
        /\ src_offset' = IF chr_match # {} THEN chr_match ELSE src_offset
    BY <1>26 DEF strrchr!LoopTop, strrchr!KeepMatch
  <2>2. src <= F /\ srcin < src /\ chr_match = MatchBits(a, src) /\ Before(a)
    BY <1>15, <2>1
  <2>3. a \in Int /\ a <= src /\ src <= a + 2 * W /\ a + 2 * W = src /\ srcin \in Int
    BY <1>1, <1>7, <1>15
  <2> HIDE DEF a
  <2>4. BeforeNext(src)
    <3>1. /\ chr_match # {} => LatestIs(a + 2 * W, chr_match, src)
          /\ chr_match = {} => LatestIs(src_match, src_offset, src)
      <4>1. LatestIs(src_match, src_offset, a)
        BY <2>2 DEF Before
      <4>. QED
        BY <1>15, <2>2, <2>3, <4>1, KeepLatest
    <3>. QED
      BY <2>1, <2>3, <3>1 DEF BeforeNext
  <2>5. chr_match \subseteq XBits
    BY <2>2 DEF MatchBits
  <2>6. Typed
    BY <1>15, <2>1, <2>5
  <2>7. Hunk
    BY <1>1, <1>15, <2>1, <2>2, <2>4
  <2>8. strrchr!Footprint'
    BY <1>9, <2>1
  <2>. QED
    BY <1>16, <2>6, <2>7, <2>8
<1>27. CASE strrchr!AlignedHunk
  <2>1. /\ pc = "aligned" /\ src' = src + n /\ rd' = Chunk(src, n)
        /\ src_match' = src_match /\ src_offset' = src_offset
        /\ vdata' = ld1(mem, src) /\ vdata2' = ld1(mem, src + W)
    BY <1>27, StrrchrNames DEF strrchr!AlignedHunk, strrchr!LoadHunk, n
  <2>2. src \in Nat /\ srcin <= src /\ src <= F /\ Before(src) /\ Y <= src
    BY <1>1, <1>6, <1>15, <2>1
  <2>3. ~strrchr!HasNul <=> HunkClean(src, {0})
    BY <1>1, <1>18, <2>1, <2>2 DEF IsFirst
  <2>4. /\ chr_match' = Even(src, {chrin})
        /\ IF HunkClean(src, {0}) THEN nul_match' = {} /\ pc' = "loop"
           ELSE nul_match' = Odd(src) /\ pc' = "tail"
    BY <1>18, <1>27, <2>1, <2>3 DEF strrchr!AlignedHunk
  <2>5. src' - n = src /\ srcin < src' /\ src' \in Int
    BY <1>1, <1>7, <1>15, <2>1, <2>2
  <2>6. chr_match' = MatchBits(src, src')
    BY <1>15, <1>20, <1>21, <1>22, <2>1, <2>2, <2>4, <2>5
  <2>7. Known
    BY <2>1, <2>2, <2>5, <2>6 DEF Before, BeforeNext
  <2>8. Typed
    BY <1>7, <1>15, <2>1, ModPlus
  <2>9. strrchr!Footprint'
    BY <1>15, <1>17, <2>1, <2>2
  <2>10. CASE HunkClean(src, {0})
    <3>1. src' <= F
      BY <1>1, <2>1, <2>2, <2>10, HunkPassed DEF n
    <3>. QED
      BY <1>16, <2>4, <2>7, <2>8, <2>9, <2>10, <3>1
  <2>11. CASE ~HunkClean(src, {0})
    <3> DEFINE Z == Odd(src)
    <3>1. Z = {k \in Odd(src) : k >= 2 * (srcin - src)}
      BY <1>15, <1>21, <1>22, <2>2
    <3> HIDE DEF Z
    <3>2. IsNul(Z, src) /\ F < src + n
      BY <1>15, <1>19, <2>2, <2>11, <3>1
    <3>3. nul_match' = Z /\ pc' = "tail"
      BY <2>4, <2>11 DEF Z
    <3>. QED
      BY <1>16, <2>1, <2>2, <2>5, <2>7, <2>8, <2>9, <3>2, <3>3
  <2>. QED
    BY <2>10, <2>11
<1>28. CASE strrchr!Tail
  <2> DEFINE a == src - n
             m == Min(nul_match)
             X == chr_match \cap SymmetricDiff(MinusOne(nul_match), nul_match)
  <2>1. /\ pc = "tail" /\ pc' = "ret" /\ rd' = {} /\ src' = src
        /\ src_match' = IF X # {} THEN src ELSE src_match
        /\ src_offset' = IF X # {} THEN X ELSE src_offset
        /\ result' = IF src_offset' = {} THEN 0 ELSE src_match' - ((clz(src_offset') + 2) \div 2)
    <3>1. strrchr!UpToNul = X
      BY StrrchrNames DEF strrchr!UpToNul
    <3>. QED
      BY <1>28, <3>1, StrrchrNames DEF strrchr!Tail, strrchr!KeepMatch
  <2>2. /\ srcin < src /\ chr_match = MatchBits(a, src) /\ Before(a)
        /\ a <= F /\ F < src /\ IsNul(nul_match, a)
    BY <1>15, <2>1
  <2>3. a \in Int /\ a + 2 * W = src /\ srcin \in Int /\ a <= F + 1 /\ F + 1 <= a + 2 * W /\ F + 1 \in Int
    BY <1>1, <1>7, <1>15, <2>2
  <2>4. m \in Nat /\ SymmetricDiff(MinusOne(nul_match), nul_match) = 0 .. m
    BY <2>2, UpToLowest DEF IsNul
  <2>5. a + (m \div 2) = F /\ m % 2 = 1
    BY <2>2 DEF IsNul
  <2>6. X \subseteq XBits
    BY <2>2 DEF MatchBits
  <2> HIDE DEF m, a
  <2>7. X = MatchBits(a, F + 1)
    <3>1. ASSUME NEW k \in XBits, k % 2 = 0
          PROVE  k \in 0 .. m <=> a + (k \div 2) < F + 1
      <4>1. k \in Nat /\ k = 2 * (k \div 2)
        BY <3>1, LaneOfBit
      <4>2. m = 2 * (m \div 2) + 1
        BY <2>4, <2>5
      <4>. QED
        BY <1>1, <2>3, <2>4, <2>5, <4>1, <4>2
    <3>2. ASSUME NEW k \in XBits, a + (k \div 2) < F + 1
          PROVE  a + (k \div 2) < src
      BY <1>1, <1>15, <2>2, <2>3, <3>2, LaneOfBit DEF HunkLanes
    <3>3. ASSUME NEW k PROVE k \in X <=> k \in MatchBits(a, F + 1)
      BY <2>2, <2>4, <3>1, <3>2 DEF MatchBits
    <3>. QED
      BY <3>3
  <2> HIDE DEF X
  <2>8. LatestIs(src_match', src_offset', F + 1)
    <3>1. /\ X # {} => LatestIs(a + 2 * W, X, F + 1)
          /\ X = {} => LatestIs(src_match, src_offset, F + 1)
      <4>1. LatestIs(src_match, src_offset, a)
        BY <2>2 DEF Before
      <4>. QED
        BY <1>15, <2>3, <2>7, <4>1, KeepLatest
    <3>. QED
      BY <2>1, <2>3, <3>1
  <2>9. result' = A
    <3>1. srcin \in Int /\ F \in Int /\ T = CharsTo(F)
      BY <1>1 DEF T, CharsTo
    <3>2. (IF src_offset' = {} THEN 0 ELSE src_match' - ((clz(src_offset') + 2) \div 2))
            = IF CharsTo(F) = {} THEN 0 ELSE Max(CharsTo(F))
      BY <2>8, <3>1, LatestAnswers
    <3>. QED
      BY <2>1, <3>1, <3>2 DEF A
  <2>10. Typed
    BY <1>15, <2>1, <2>6
  <2>11. strrchr!Footprint'
    BY <1>9, <2>1
  <2>. QED
    BY <1>16, <2>1, <2>9, <2>10, <2>11
<1>. QED
  BY <1>23, <1>24, <1>26, <1>27, <1>28 DEF strrchr!Next

-----------------------------------------------------------------------------
\* Words.

LEMMA WordSize ==
    N \in Nat /\ N > 0 /\ 2 * W = 4 * N /\ W = 2 * N
  BY WAssumption DEF N

\* F, if it is no earlier than q, is the first from q on too.
LEMMA FirstFrom ==
    ASSUME mem \in Memories, NEW p \in Int, NEW C, NEW F, IsFirst(F, p, C), NEW q \in Int,
           p <= q, q <= F
    PROVE  IsFirst(F, q, C)
<1>1. DOMAIN mem \subseteq Int
  <2>1. PICK e \in DOMAIN mem : DOMAIN mem = 0 .. e
    BY MemoriesAssumption
  <2>. QED
    BY <2>1
<1>. QED
  BY <1>1 DEF IsFirst

\* The bytes before a byte of memory are in it.
LEMMA BytesBefore ==
    ASSUME mem \in Memories, NEW x \in DOMAIN mem, NEW y \in Nat, y <= x
    PROVE  y \in DOMAIN mem
<1>1. PICK e \in DOMAIN mem : DOMAIN mem = 0 .. e
  BY MemoriesAssumption
<1>. QED
  BY <1>1

\* The first k bytes of the word d are 0 where memory from p on has c.
Spells(d, k, p, c) ==
    /\ \A j \in 0 .. (k - 1) :
          p + j \in DOMAIN mem => d[j] \in 0 .. 255 /\ (d[j] = 0 <=> mem[p + j] = c)
    /\ \A j \in k .. (N - 1) : d[j] \in 0 .. 255

\* What Zeros then says of F, the first c from p on.
LEMMA WordFinds ==
    ASSUME mem \in Memories, NEW p \in Nat, NEW c, NEW F, IsFirst(F, p, {c}),
           NEW k \in 0 .. N, NEW d, Spells(d, k, p, c)
    PROVE  /\ Zeros(d, k) = {} => p + k <= F
           /\ Zeros(d, k) # {} => /\ F < p + k
                                  /\ clz(rbit(Zeros(d, k))) \div 8 = F - p
                                  /\ clz(rev(Zeros(d, k))) \div 8 = F - p
<1>1. F \in Nat /\ p <= F /\ F \in DOMAIN mem /\ mem[F] = c /\ N \in Nat
  BY WordSize DEF IsFirst
<1>2. ASSUME NEW j \in Nat, j < k, p + j < F
      PROVE  d[j] \in 1 .. 255
  <2>1. p + j \in DOMAIN mem
    BY <1>1, <1>2, BytesBefore
  <2>2. mem[p + j] # c
    BY <1>1, <1>2, <2>1 DEF IsFirst
  <2>3. d[j] \in 0 .. 255 /\ d[j] # 0
    BY <1>2, <2>1, <2>2 DEF Spells
  <2>. QED
    BY <2>3
<1>3. CASE F < p + k
  <2> DEFINE f == F - p
  <2>1. f \in 0 .. (k - 1) /\ f \in 0 .. (N - 1) /\ p + f = F
    BY <1>1, <1>3
  <2>2. d[f] = 0
    BY <1>1, <2>1 DEF Spells
  <2>3. \A j \in 0 .. (f - 1) : d[j] \in 1 .. 255
    BY <1>1, <1>2, <1>3
  <2> HIDE DEF f
  <2>4. /\ 8 * f + 7 \in Zeros(d, k)
        /\ \A b \in Zeros(d, k) : \E i \in f .. (N - 1) : b = 8 * i + 7
    BY <2>1, <2>2, <2>3, ZerosFirst
  <2>5. clz(rbit(Zeros(d, k))) \div 8 = f /\ clz(rev(Zeros(d, k))) \div 8 = f
    BY <2>1, <2>4, FirstMarked
  <2>. QED
    BY <1>3, <2>4, <2>5 DEF f
<1>4. CASE ~(F < p + k)
  <2>1. \A j \in 0 .. (k - 1) : d[j] \in 1 .. 255
    BY <1>1, <1>2, <1>4
  <2>2. Zeros(d, k) = {}
    BY <2>1, ZerosNone DEF Spells
  <2>. QED
    BY <1>1, <1>4, <2>2
<1>. QED
  BY <1>3, <1>4

LEMMA ScalarNames ==
    /\ memchr_scalar!N = N
    /\ \A a, m : memchr_scalar!Aligned(a, m) = Aligned(a, m)
    /\ \A a, m : memchr_scalar!Chunk(a, m) = Chunk(a, m)
    /\ \A a, b, g : memchr_scalar!Granules(a, b, g) = Granules(a, b, g)
    /\ \A X : memchr_scalar!clz(X) = clz(X)
    /\ \A X : memchr_scalar!rbit(X) = rbit(X)
    /\ \A a : memchr_scalar!LoadWord(a) = LoadWord(a)
    /\ \A x, k : memchr_scalar!Zeros(x, k) = Zeros(x, k)
    /\ \A x : memchr_scalar!BitsOf(x) = BitsOf(x)
    /\ \A X, k : memchr_scalar!Number(X, k) = Number(X, k)
    /\ \A A, B : memchr_scalar!SymmetricDiff(A, B) = SymmetricDiff(A, B)
<1>1. memchr_scalar!N = N
  BY DEF memchr_scalar!N, N
<1>2. \A x, k : memchr_scalar!Zeros(x, k) = Zeros(x, k)
  BY <1>1 DEF memchr_scalar!Zeros, Zeros
<1>3. \A X : memchr_scalar!clz(X) = clz(X)
  BY DEF memchr_scalar!clz, clz, memchr_scalar!Max, Max
<1>4. \A X : memchr_scalar!rbit(X) = rbit(X)
  BY DEF memchr_scalar!rbit, rbit
<1>5. /\ \A a, m : memchr_scalar!Aligned(a, m) = Aligned(a, m)
      /\ \A a, m : memchr_scalar!Chunk(a, m) = Chunk(a, m)
      /\ \A a, b, g : memchr_scalar!Granules(a, b, g) = Granules(a, b, g)
  BY DEF memchr_scalar!Aligned, Aligned, memchr_scalar!Chunk, Chunk, memchr_scalar!Granules, Granules
<1>6. \A a : memchr_scalar!LoadWord(a) = LoadWord(a)
  BY <1>1 DEF memchr_scalar!LoadWord, LoadWord
<1>7. \A x : memchr_scalar!BitsOf(x) = BitsOf(x)
  BY DEF memchr_scalar!BitsOf, BitsOf
<1>8. \A X, k : memchr_scalar!Number(X, k) = Number(X, k)
  BY DEF memchr_scalar!Number, Number
<1>9. \A A, B : memchr_scalar!SymmetricDiff(A, B) = SymmetricDiff(A, B)
  BY DEF memchr_scalar!SymmetricDiff, SymmetricDiff
<1>. QED
  BY <1>1, <1>2, <1>3, <1>4, <1>5, <1>6, <1>7, <1>8, <1>9

\* The exclusive or of two bytes is 0 if they are equal.
LEMMA EorIs ==
    ASSUME NEW x \in 0 .. 255, NEW y \in 0 .. 255
    PROVE  /\ memchr_scalar!eor(x, y) \in 0 .. 255
           /\ memchr_scalar!eor(x, y) = 0 <=> x = y
<1> DEFINE X == SymmetricDiff(BitsOf(x), BitsOf(y))
<1>1. memchr_scalar!eor(x, y) = Number(X, 0)
  BY ScalarNames DEF memchr_scalar!eor
<1>2. BitsOf(x) \in SUBSET (0 .. 7) /\ BitsOf(y) \in SUBSET (0 .. 7)
  BY BitsAre
<1>3. X = {} <=> BitsOf(x) = BitsOf(y)
  BY DEF SymmetricDiff
<1>4. X \in SUBSET (0 .. 7)
  BY <1>2 DEF SymmetricDiff
<1> HIDE DEF X
<1>5. Number(X, 0) = (IF 0 \in X THEN 1 ELSE 0) + (IF 1 \in X THEN 2 ELSE 0)
                       + (IF 2 \in X THEN 4 ELSE 0) + (IF 3 \in X THEN 8 ELSE 0)
                       + (IF 4 \in X THEN 16 ELSE 0) + (IF 5 \in X THEN 32 ELSE 0)
                       + (IF 6 \in X THEN 64 ELSE 0) + (IF 7 \in X THEN 128 ELSE 0)
  <2>1. /\ 0 + 0 = 0 /\ 0 + 1 = 1 /\ 0 + 2 = 2 /\ 0 + 3 = 3
        /\ 0 + 4 = 4 /\ 0 + 5 = 5 /\ 0 + 6 = 6 /\ 0 + 7 = 7
    OBVIOUS
  <2>. QED
    BY <2>1, NumberIs
<1>6. Number(X, 0) \in 0 .. 255 /\ (Number(X, 0) = 0 <=> X = {})
  <2>1. X = {} <=> /\ 0 \notin X /\ 1 \notin X /\ 2 \notin X /\ 3 \notin X
                   /\ 4 \notin X /\ 5 \notin X /\ 6 \notin X /\ 7 \notin X
    BY <1>4
  <2>. QED
    BY <1>5, <2>1
<1>. QED
  BY <1>1, <1>3, <1>6, BitsMake

\* Each step of memchr by words keeps its invariant.
LEMMA ScalarInv ==
    ASSUME GivenOK, CharOK, CountOK, memchr_scalar!IInv, memchr_scalar!Next
    PROVE  memchr_scalar!IInv'
<1> DEFINE F == First(srcin, {chrin})
           E == srcin + cntin
           r == srcin % N
           Y == srcin - (srcin % N)
           A == IF F < E THEN F ELSE 0
           L == IF F < E - 1 THEN F ELSE E - 1
           End == IF srcin + cntin >= Size THEN Size - 1 ELSE srcin + cntin
           xor(x, y) == memchr_scalar!eor(x, y)
           found(X) == clz(rbit(X)) \div 8
<1>1. srcin \in Nat /\ IsFirst(F, srcin, {chrin}) /\ F \in Nat /\ srcin <= F /\ F \in DOMAIN mem
  BY ByteIs DEF IsFirst, CharOK
<1>2. mem \in Memories /\ big \in BOOLEAN /\ cntin \in Nat /\ cntin < Size /\ Size \in Nat
  BY DEF GivenOK, CountOK
<1>3. SameGiven /\ chrin' = chrin /\ cntin' = cntin
  BY DEF SameGiven, memchr_scalar!Next, memchr_scalar!ZeroLength, memchr_scalar!Entry,
         memchr_scalar!LoopStart, memchr_scalar!Loop, memchr_scalar!given
<1>4. F' = F
  BY <1>3, FirstSame DEF SameGiven
<1>5. memchr_scalar!Match = F /\ memchr_scalar!Match' = F
  BY <1>3, <1>4 DEF memchr_scalar!Match, memchr_scalar!First, memchr_scalar!Min, First, Min, SameGiven
<1>6. N \in Nat /\ N > 0
  BY WordSize
<1>7. Y \in Nat /\ Y % N = 0 /\ Y <= srcin /\ srcin < Y + N /\ r \in 0 .. (N - 1) /\ Y = srcin - r
  BY <1>1, <1>6, HeadOf
<1>8. E \in Nat /\ E = srcin + cntin
  BY <1>1, <1>2
<1>9. memchr_scalar!Answer' = A
  BY <1>3, <1>5 DEF memchr_scalar!Answer, SameGiven
<1>10. /\ memchr_scalar!Footprint <=> IF cntin = 0 THEN rd = {} ELSE rd \subseteq Granules(srcin, L, N)
       /\ memchr_scalar!Footprint' <=> IF cntin = 0 THEN rd' = {} ELSE rd' \subseteq Granules(srcin, L, N)
  <2>1. memchr_scalar!AtMost(F, srcin + cntin - 1) = L
    BY <1>1, <1>2 DEF memchr_scalar!AtMost
  <2>2. memchr_scalar!Granules(srcin, L, memchr_scalar!N) = Granules(srcin, L, N)
    BY ScalarNames
  <2>3. memchr_scalar!Footprint' <=> IF cntin = 0 THEN rd' = {}
             ELSE rd' \subseteq memchr_scalar!Granules(srcin, memchr_scalar!AtMost(F, srcin + cntin - 1), memchr_scalar!N)
    BY <1>3, <1>5 DEF memchr_scalar!Footprint, SameGiven
  <2>4. memchr_scalar!Footprint <=> IF cntin = 0 THEN rd = {}
             ELSE rd \subseteq memchr_scalar!Granules(srcin, memchr_scalar!AtMost(F, srcin + cntin - 1), memchr_scalar!N)
    BY <1>5 DEF memchr_scalar!Footprint
  <2>. QED
    BY <2>1, <2>2, <2>3, <2>4
<1>11. /\ End \in Nat /\ End <= E
       /\ F >= End <=> F >= E
  <2>1. \E e \in DOMAIN mem : DOMAIN mem = 0 .. e
    BY <1>2, MemoriesAssumption
  <2>2. DOMAIN mem \subseteq 0 .. (Size - 2)
    BY <1>2, BytesAssumption
  <2>3. F <= Size - 2
    BY <1>1, <1>2, <2>2
  <2>. QED
    BY <1>1, <1>2, <1>8, <2>3
<1>12. memchr_scalar!End = End /\ memchr_scalar!End' = End
  BY <1>3 DEF memchr_scalar!End, SameGiven
<1>13. ASSUME NEW x \in DOMAIN mem PROVE mem[x] \in 0 .. 255
  BY <1>2, BytesAssumption
<1>14. chrin \in 0 .. 255
  BY CharsAssumption DEF CharOK
<1> HIDE DEF F, Y, E, r, End
<1>15. /\ src \in Int /\ src % N = 0
       /\ pc = "entry" => src = Y /\ result = 0 /\ rd = {}
       /\ pc \in {"loop_start", "loop"} => cntin > 0 /\ srcin < src /\ src <= F
       /\ pc = "loop" => src_end = End
  <2>1. src \in Int /\ src % N = 0 /\ (pc = "entry" => src = Y /\ result = 0 /\ rd = {})
    BY ScalarNames DEF memchr_scalar!IInv, Aligned, Y
  <2>2. pc \in {"loop_start", "loop"} => cntin > 0 /\ srcin < src /\ src <= F
    BY <1>5 DEF memchr_scalar!IInv
  <2>3. pc = "loop" => src_end = End
    BY <1>12 DEF memchr_scalar!IInv
  <2>. QED
    BY <2>1, <2>2, <2>3
<1> DEFINE Typed == src' \in Int /\ src' % N = 0
           Searching == cntin > 0 /\ srcin < src' /\ src' <= F
           Start == pc' = "loop_start" /\ Searching
           Loop == pc' = "loop" /\ Searching /\ src_end' = End
           Ret == pc' = "ret" /\ result' = A
<1>16. ASSUME Typed, Start \/ Loop \/ Ret, memchr_scalar!Footprint'
       PROVE  memchr_scalar!IInv'
  <2>1. memchr_scalar!N' = N
    BY <1>6 DEF memchr_scalar!N, N
  <2>2. CASE Start
    BY <1>3, <1>5, <1>16, <2>1, <2>2 DEF memchr_scalar!IInv, SameGiven
  <2>3. CASE Loop
    BY <1>3, <1>5, <1>12, <1>16, <2>1, <2>3 DEF memchr_scalar!IInv, SameGiven
  <2>4. CASE Ret
    BY <1>3, <1>5, <1>9, <1>16, <2>1, <2>4 DEF memchr_scalar!IInv, SameGiven
  <2>. QED
    BY <1>16, <2>2, <2>3, <2>4
<1>17. ASSUME NEW a \in Int, a % N = 0, Y <= a, a <= F, a < E, cntin > 0, rd' = Chunk(a, N)
       PROVE  memchr_scalar!Footprint'
  <2>1. L \in Nat /\ a <= L
    BY <1>1, <1>2, <1>8, <1>17
  <2>2. Chunk(a, N) \subseteq Granules(srcin, L, N)
    BY <1>1, <1>6, <1>17, <2>1, MayLoad DEF Y
  <2>. QED
    BY <1>2, <1>10, <1>17, <2>2
<1> HIDE DEF A, L
<1>18. CASE memchr_scalar!ZeroLength
  <2>1. pc = "entry" /\ cntin = 0 /\ pc' = "ret" /\ src' = src /\ rd' = rd /\ result' = 0
    BY <1>18 DEF memchr_scalar!ZeroLength, memchr_scalar!NoMatch
  <2>2. result' = A
    BY <1>1, <1>2, <1>8, <2>1 DEF A
  <2>3. memchr_scalar!Footprint'
    BY <1>10, <1>15, <2>1
  <2>. QED
    BY <1>15, <1>16, <2>1, <2>2, <2>3
<1>19. CASE memchr_scalar!Entry
  <2> DEFINE k == N - r
             d == [i \in 0 .. (N - 1) |-> xor(IF i + r < N THEN LoadWord(src)[i + r] ELSE 0, chrin)]
             X == Zeros(d, k)
  <2>1. /\ pc = "entry" /\ cntin # 0 /\ src = Y /\ src' = src + N /\ rd' = Chunk(src, N)
        /\ IF X = {} THEN pc' = "loop_start"
           ELSE result' = (IF cntin > found(X) THEN srcin + found(X) ELSE 0) /\ pc' = "ret"
    <3>1. pc = "entry" /\ cntin # 0 /\ src' = src + N /\ rd' = Chunk(src, N)
      BY <1>19, ScalarNames DEF memchr_scalar!Entry
    <3>2. memchr_scalar!LoadWord(src) = LoadWord(src) /\ memchr_scalar!N = N
      BY ScalarNames
    <3>3. IF memchr_scalar!Zeros(d, k) = {} THEN pc' = "loop_start"
          ELSE /\ result' = (IF cntin > memchr_scalar!FirstFound(memchr_scalar!Zeros(d, k))
                             THEN srcin + memchr_scalar!FirstFound(memchr_scalar!Zeros(d, k)) ELSE 0)
               /\ pc' = "ret"
      BY <1>19, <3>2 DEF memchr_scalar!Entry, r
    <3>4. memchr_scalar!Zeros(d, k) = X
      BY ScalarNames
    <3>5. \A Z : memchr_scalar!FirstFound(Z) = found(Z)
      BY ScalarNames DEF memchr_scalar!FirstFound
    <3> HIDE DEF X, found
    <3>. QED
      BY <1>15, <3>1, <3>3, <3>4, <3>5
  <2>2. k \in 0 .. N /\ k \in Int
    BY <1>6, <1>7
  <2>3. ASSUME NEW j \in 0 .. (k - 1), srcin + j \in DOMAIN mem
        PROVE  d[j] \in 0 .. 255 /\ (d[j] = 0 <=> mem[srcin + j] = chrin)
    <3>1. j \in 0 .. (N - 1) /\ j + r < N /\ j + r \in 0 .. (N - 1) /\ src + (j + r) = srcin + j
      BY <1>1, <1>6, <1>7, <2>1, <2>3
    <3>2. d[j] = xor(mem[srcin + j], chrin)
      BY <3>1 DEF LoadWord
    <3>3. mem[srcin + j] \in 0 .. 255
      BY <1>13, <2>3
    <3> DEFINE m == mem[srcin + j]
             e == d[j]
    <3>4. e = xor(m, chrin) /\ m \in 0 .. 255 /\ chrin \in 0 .. 255
      BY <1>14, <3>2, <3>3
    <3> HIDE DEF m, e
    <3>5. e \in 0 .. 255 /\ (e = 0 <=> m = chrin)
      BY <3>4, EorIs
    <3>. QED
      BY <3>5 DEF m, e
  <2>4. ASSUME NEW j \in k .. (N - 1)
        PROVE  d[j] \in 0 .. 255
    <3>1. j \in 0 .. (N - 1) /\ ~(j + r < N)
      BY <1>6, <1>7, <2>2, <2>4
    <3> DEFINE e == d[j]
               z == 0
    <3>2. e = xor(z, chrin) /\ z \in 0 .. 255 /\ chrin \in 0 .. 255
      BY <1>14, <3>1
    <3> HIDE DEF e, z
    <3>3. e \in 0 .. 255
      BY <3>2, EorIs
    <3>. QED
      BY <3>3 DEF e
  <2> HIDE DEF d, k
  <2>5. /\ X = {} => srcin + k <= F
        /\ X # {} => F < srcin + k /\ found(X) = F - srcin
    <3>1. Spells(d, k, srcin, chrin)
      BY <2>3, <2>4 DEF Spells
    <3>. QED
      BY <1>1, <1>2, <2>2, <3>1, WordFinds
  <2> HIDE DEF X, found
  <2>6. memchr_scalar!Footprint'
    BY <1>1, <1>2, <1>7, <1>8, <1>17, <2>1
  <2>7. Typed
    BY <1>6, <1>15, <2>1, ModPlus
  <2>8. CASE X = {}
    <3>1. Start
      BY <1>1, <1>2, <1>6, <1>7, <2>1, <2>5, <2>8 DEF k
    <3>. QED
      BY <1>16, <2>6, <2>7, <3>1
  <2>9. CASE X # {}
    <3>1. result' = A
      BY <1>1, <1>2, <1>8, <2>1, <2>5, <2>9 DEF A
    <3>. QED
      BY <1>16, <2>1, <2>6, <2>7, <2>9, <3>1
  <2>. QED
    BY <2>8, <2>9
<1>20. CASE memchr_scalar!LoopStart
  <2>1. pc = "loop_start" /\ src_end' = End /\ pc' = "loop" /\ rd' = {} /\ src' = src
    BY <1>12, <1>20 DEF memchr_scalar!LoopStart
  <2>2. memchr_scalar!Footprint'
    BY <1>10, <2>1
  <2>. QED
    BY <1>15, <1>16, <2>1, <2>2
<1>21. CASE memchr_scalar!Loop
  <2> DEFINE d == [i \in 0 .. (N - 1) |-> xor(LoadWord(src)[i], chrin)]
             X == Zeros(d, N)
  <2>1. /\ pc = "loop"
        /\ IF src >= src_end THEN result' = 0 /\ pc' = "ret" /\ rd' = {} /\ src' = src
           ELSE /\ rd' = Chunk(src, N)
                /\ IF X = {} THEN src' = src + N /\ pc' = "loop"
                   ELSE /\ result' = (IF src_end > src + found(X) THEN src + found(X) ELSE 0)
                        /\ pc' = "ret" /\ src' = src
    <3>1. memchr_scalar!LoadWord(src) = LoadWord(src) /\ memchr_scalar!N = N
      BY ScalarNames
    <3>2. memchr_scalar!Zeros(d, N) = X
      BY ScalarNames
    <3>3. \A Z : memchr_scalar!FirstFound(Z) = found(Z)
      BY ScalarNames DEF memchr_scalar!FirstFound
    <3>4. memchr_scalar!Chunk(src, N) = Chunk(src, N)
      BY ScalarNames
    <3> DEFINE G(Z, a) == /\ pc = "loop"
              /\ IF src >= src_end THEN result' = 0 /\ pc' = "ret" /\ rd' = {} /\ src' = src
                 ELSE /\ rd' = Chunk(src, N)
                      /\ IF Z = {} THEN src' = src + N /\ pc' = "loop"
                         ELSE /\ result' = (IF src_end > src + a THEN src + a ELSE 0)
                              /\ pc' = "ret" /\ src' = src
    <3>5. G(memchr_scalar!Zeros(d, N), memchr_scalar!FirstFound(memchr_scalar!Zeros(d, N)))
      BY <1>21, <3>1, <3>4 DEF memchr_scalar!Loop, memchr_scalar!AtEnd, memchr_scalar!NoMatch
    <3> HIDE DEF X, found
    <3>6. G(X, found(X))
      BY <3>2, <3>3, <3>5
    <3>. QED
      BY <3>6
  <2>2. cntin > 0 /\ srcin < src /\ src <= F /\ src_end = End /\ src \in Nat
    BY <1>1, <1>15, <2>1
  <2>3. CASE src >= src_end
    <3>1. result' = A
      BY <1>1, <1>8, <1>11, <2>1, <2>2, <2>3 DEF A
    <3>2. memchr_scalar!Footprint'
      BY <1>10, <2>1, <2>3
    <3>. QED
      BY <1>15, <1>16, <2>1, <2>3, <3>1, <3>2
  <2>4. CASE ~(src >= src_end)
    <3>1. ASSUME NEW j \in 0 .. (N - 1), src + j \in DOMAIN mem
          PROVE  d[j] \in 0 .. 255 /\ (d[j] = 0 <=> mem[src + j] = chrin)
      <4>1. d[j] = xor(mem[src + j], chrin)
        BY DEF LoadWord
      <4>2. mem[src + j] \in 0 .. 255
        BY <1>13, <3>1
      <4> DEFINE m == mem[src + j]
             e == d[j]
      <4>4. e = xor(m, chrin) /\ m \in 0 .. 255 /\ chrin \in 0 .. 255
        BY <1>14, <4>1, <4>2
      <4> HIDE DEF m, e
      <4>5. e \in 0 .. 255 /\ (e = 0 <=> m = chrin)
        BY <4>4, EorIs
      <4>. QED
        BY <4>5 DEF m, e
    <3>2. \A j \in N .. (N - 1) : d[j] \in 0 .. 255
      BY <1>6
    <3>3. N \in 0 .. N /\ IsFirst(F, src, {chrin})
      BY <1>1, <1>2, <1>6, <2>2, FirstFrom
    <3> HIDE DEF d
    <3>4. /\ X = {} => src + N <= F
          /\ X # {} => F < src + N /\ found(X) = F - src
      <4>1. Spells(d, N, src, chrin)
        BY <3>1, <3>2 DEF Spells
      <4>. QED
        BY <1>2, <2>2, <3>3, <4>1, WordFinds
    <3> HIDE DEF X, found
    <3>5. src < E /\ Y <= src
      BY <1>1, <1>7, <1>8, <1>11, <2>2, <2>4
    <3>6. memchr_scalar!Footprint'
      BY <1>15, <1>17, <2>1, <2>2, <2>4, <3>5
    <3>7. CASE X = {}
      <4>1. src' = src + N /\ pc' = "loop" /\ src_end' = src_end
        BY <1>21, <2>1, <2>4, <3>7 DEF memchr_scalar!Loop
      <4>2. Typed
        BY <1>6, <1>15, <4>1, ModPlus
      <4>3. Loop
        BY <1>1, <1>6, <2>2, <3>4, <3>7, <4>1
      <4>. QED
        BY <1>16, <3>6, <4>2, <4>3
    <3>8. CASE X # {}
      <4>1. result' = A
        BY <1>1, <1>8, <1>11, <2>1, <2>2, <2>4, <3>4, <3>8 DEF A
      <4>. QED
        BY <1>15, <1>16, <2>1, <2>4, <3>6, <3>8, <4>1
    <3>. QED
      BY <3>7, <3>8
  <2>. QED
    BY <2>3, <2>4
<1>. QED
  BY <1>18, <1>19, <1>20, <1>21 DEF memchr_scalar!Next

-----------------------------------------------------------------------------
\* strlen.

LEMMA StrlenNames ==
    /\ strlen!N = N /\ strlen!Lanes = Lanes
    /\ \A m, a : strlen!ld1(m, a) = ld1(m, a)
    /\ \A m, a, b : strlen!ldrq(m, a, b) = ldrq(m, a, b)
    /\ \A v, c : strlen!cmeq(v, c) = cmeq(v, c)
    /\ \A U, V : strlen!uminp(U, V) = uminp(U, V)
    /\ \A V : strlen!shrn(V) = shrn(V)
    /\ \A V : strlen!fmov(V) = fmov(V)
    /\ \A P : strlen!Stepped(P) = Stepped(P)
    /\ \A X, k : strlen!lsr(X, k) = lsr(X, k)
    /\ \A X : strlen!clz(X) = clz(X) /\ strlen!rbit(X) = rbit(X)
    /\ \A X : strlen!rev(X) = rev(X)
    /\ \A a : strlen!LoadWord(a) = LoadWord(a)
    /\ \A x, k : strlen!Zeros(x, k) = Zeros(x, k)
    /\ \A a, C : strlen!First(a, C) = First(a, C)
    /\ \A l, h, g : strlen!Granules(l, h, g) = Granules(l, h, g)
    /\ \A a, k : strlen!Chunk(a, k) = Chunk(a, k) /\ strlen!Aligned(a, k) = Aligned(a, k)
<1>1. strlen!N = N
  BY DEF strlen!N, N
<1>2. \A x, k : strlen!Zeros(x, k) = Zeros(x, k)
  BY <1>1 DEF strlen!Zeros, Zeros
<1>3. \A a : strlen!LoadWord(a) = LoadWord(a)
  BY <1>1 DEF strlen!LoadWord, LoadWord
<1>4. \A X : strlen!rev(X) = rev(X)
  BY <1>1 DEF strlen!rev, rev
<1>5. /\ strlen!Lanes = Lanes
      /\ \A m, a : strlen!ld1(m, a) = ld1(m, a)
      /\ \A m, a, b : strlen!ldrq(m, a, b) = ldrq(m, a, b)
      /\ \A v, c : strlen!cmeq(v, c) = cmeq(v, c)
      /\ \A U, V : strlen!uminp(U, V) = uminp(U, V)
      /\ \A V : strlen!shrn(V) = shrn(V)
      /\ \A V : strlen!fmov(V) = fmov(V)
      /\ \A P : strlen!Stepped(P) = Stepped(P)
  BY DEF strlen!Lanes, strlen!ld1, strlen!ldrq, strlen!cmeq, strlen!uminp, strlen!SmallerNumber,
         strlen!Pairwise, strlen!shrn, strlen!fmov, strlen!Stepped, strlen!AllOnes,
         Lanes, ld1, ldrq, cmeq, uminp, SmallerNumber, Pairwise, shrn, fmov, Stepped, AllOnes
<1>6. /\ \A X, k : strlen!lsr(X, k) = lsr(X, k)
      /\ \A X : strlen!clz(X) = clz(X) /\ strlen!rbit(X) = rbit(X)
      /\ \A a, C : strlen!First(a, C) = First(a, C)
      /\ \A l, h, g : strlen!Granules(l, h, g) = Granules(l, h, g)
      /\ \A a, k : strlen!Chunk(a, k) = Chunk(a, k) /\ strlen!Aligned(a, k) = Aligned(a, k)
  BY DEF strlen!lsr, strlen!clz, strlen!rbit, strlen!First, strlen!Granules, strlen!Chunk,
         strlen!Aligned, strlen!Max, strlen!Min,
         lsr, clz, rbit, First, Granules, Chunk, Aligned, Max, Min
<1>. QED
  BY <1>1, <1>2, <1>3, <1>4, <1>5, <1>6

LEMMA StrlenSyndrome ==
    \A U, V, m : strlen!fmov(strlen!addp(strlen!addp(strlen!and(U, m), strlen!and(V, m)),
                                         strlen!addp(strlen!and(U, m), strlen!and(V, m))))
                 = Syndrome(U, V, m)
<1>1. \A A, B : strlen!AddedBytes(A, B) = AddedBytes(A, B)
  BY DEF strlen!AddedBytes, strlen!Sum, strlen!SymmetricDiff, AddedBytes, Sum, SymmetricDiff
<1>2. \A U, V : strlen!addp(U, V) = addp(U, V)
  BY <1>1 DEF strlen!addp, strlen!Pairwise, strlen!Lanes, addp, Pairwise, Lanes
<1>3. \A U, V : strlen!and(U, V) = and(U, V)
  BY DEF strlen!and, strlen!Lanes, and, Lanes
<1>4. \A U : strlen!fmov(U) = fmov(U)
  BY DEF strlen!fmov, fmov
<1>. QED
  BY <1>2, <1>3, <1>4 DEF Syndrome

-----------------------------------------------------------------------------
\* Pages.

\* Of two aligned addresses, the second is a chunk further.
LEMMA ChunkApart ==
    ASSUME NEW n \in Nat, n > 0, NEW a \in Int, a % n = 0, NEW c \in Int, c % n = 0, a < c
    PROVE  a + n <= c
<1>1. c = n * (c \div n) /\ c \div n \in Int
  BY DivMod
<1>2. c - 1 = n * (c \div n - 1) + (n - 1) /\ c - 1 \in Int /\ c \div n - 1 \in Int
      /\ n - 1 \in 0 .. (n - 1)
  BY <1>1
<1>3. (c - 1) % n = n - 1
  BY <1>2, DivModIs
<1> DEFINE x == c - 1
<1>4. x \in Int /\ a <= x /\ x % n = n - 1 /\ x = c - 1
  BY <1>2, <1>3
<1> HIDE DEF x
<1>5. a <= x - (x % n)
  BY <1>4, Chunks
<1>. QED
  BY <1>4, <1>5

LEMMA PageAligned ==
    ASSUME NEW c \in Int, c % MinPageSize = 0
    PROVE  c % (2 * W) = 0
<1> DEFINE n == 2 * W
           q == c \div MinPageSize
           m == MinPageSize \div n
<1>1. n \in Nat /\ n > 0
  BY HunkSize
<1>2. MinPageSize = n * m /\ m \in Int
  BY <1>1, MinPageSizeAssumption, DivMod
<1>3. c = MinPageSize * q /\ q \in Int
  BY MinPageSizeAssumption, DivMod
<1> HIDE DEF n, m, q
<1>4. c = n * (m * q) + 0 /\ m * q \in Int
  BY <1>1, <1>2, <1>3
<1> DEFINE t == m * q
<1>5. c = n * t + 0 /\ t \in Int
  BY <1>4
<1> HIDE DEF t
<1>6. c % n = 0
  BY <1>1, <1>5, DivModIs
<1>. QED
  BY <1>6 DEF n

LEMMA PageSize ==
    MinPageSize \in Nat /\ MinPageSize > 0 /\ MinPageSize >= 2 * W
<1>1. MinPageSize % (2 * W) = 0 /\ 0 % (2 * W) = 0
  BY HunkSize, MinPageSizeAssumption
<1>. QED
  BY <1>1, HunkSize, MinPageSizeAssumption, ChunkApart

\* An aligned hunk from the first one on, no further than F, is in F's page or an
\* earlier one of the string.
LEMMA HunkInPages ==
    ASSUME NEW p \in Nat, NEW F \in Nat, NEW a \in Int, a % (2 * W) = 0,
           p - (p % (2 * W)) <= a, a <= F
    PROVE  Chunk(a, 2 * W) \subseteq Granules(p, F, MinPageSize)
<1> DEFINE P == MinPageSize
           n == 2 * W
           b == a - (a % P)
           h == p - (p % P)
<1>1. P \in Nat /\ P > 0 /\ n \in Nat /\ n > 0
  BY PageSize, HunkSize
<1>2. /\ b \in Int /\ b <= a /\ a < b + P /\ b % P = 0
      /\ h \in Int /\ h <= p /\ h % P = 0
  <2>1. /\ a % P \in 0 .. (P - 1) /\ p % P \in 0 .. (P - 1)
    BY <1>1, DivMod
  <2>. QED
    BY <1>1, <2>1, ModOfAligned
<1>3. (b + P) % P = 0 /\ b + P \in Int
  BY <1>1, <1>2, ModPlus
<1>4. (b + P) % n = 0 /\ h % n = 0
  BY <1>2, <1>3, PageAligned
<1>5. h <= a
  <2>1. h <= p - (p % n)
    BY <1>1, <1>2, <1>4, Chunks
  <2>2. p % n \in Int
    BY <1>1, DivMod
  <2>. QED
    BY <1>1, <1>2, <2>1, <2>2
<1>6. h <= b
  BY <1>1, <1>2, <1>5, Chunks
<1>7. a + n <= b + P
  BY <1>1, <1>2, <1>3, <1>4, ChunkApart
<1>8. b <= F
  BY <1>1, <1>2
<1>9. Chunk(b, P) \subseteq Granules(p, F, P)
  BY <1>1, <1>2, <1>6, <1>8, MayLoad
<1>10. Chunk(a, n) \subseteq Chunk(b, P)
  BY <1>1, <1>2, <1>7 DEF Chunk
<1>. QED
  BY <1>9, <1>10

\* The bytes that follow p in its page.
LEMMA BytesInPage ==
    ASSUME NEW p \in Nat, NEW F \in Nat, p <= F, NEW k \in {0, W},
           ~(p % MinPageSize > MinPageSize - 2 * W)
    PROVE  Chunk(p + k, W) \subseteq Granules(p, F, MinPageSize)
<1> DEFINE P == MinPageSize
           b == p - (p % P)
<1>1. P \in Nat /\ P > 0 /\ W \in Nat /\ W > 0
  BY PageSize, HunkSize
<1>2. p % P \in 0 .. (P - 1) /\ b % P = 0 /\ b \in Int
  BY <1>1, HeadOf
<1>3. b <= p /\ (p + k) + W <= b + P
  BY <1>1, <1>2
<1>4. Chunk(b, P) \subseteq Granules(p, F, P)
  BY <1>1, <1>2, <1>3, MayLoad
<1>5. Chunk(p + k, W) \subseteq Chunk(b, P)
  BY <1>1, <1>2, <1>3 DEF Chunk
<1>. QED
  BY <1>4, <1>5

-----------------------------------------------------------------------------
\* The words, the hunks and the first hunk that strlen searches.

\* Two words at q, in search of F, the first NUL from q on.
LEMMA TwoWordsFind ==
    ASSUME mem \in Memories, NEW q \in Nat, NEW F, IsFirst(F, q, {0}),
           NEW X, X = Zeros(LoadWord(q), N), NEW Z, Z = Zeros(LoadWord(q + N), N)
    PROVE  /\ X = {} /\ Z = {} => q + W <= F
           /\ X # {} => clz(rev(X)) \div 8 = F - q
           /\ X = {} /\ Z # {} => clz(rev(Z)) \div 8 = F - (q + N)
<1>1. N \in Nat /\ N > 0 /\ W = 2 * N /\ N \in 0 .. N
  BY WordSize
<1>2. ASSUME NEW a \in Int PROVE Spells(LoadWord(a), N, a, 0)
  <2>1. ASSUME NEW j \in 0 .. (N - 1), a + j \in DOMAIN mem
        PROVE  LoadWord(a)[j] \in 0 .. 255 /\ (LoadWord(a)[j] = 0 <=> mem[a + j] = 0)
    <3>1. LoadWord(a)[j] = mem[a + j]
      BY DEF LoadWord
    <3>2. mem[a + j] \in 0 .. 255
      BY <2>1, BytesAssumption
    <3>. QED
      BY <3>1, <3>2
  <2>2. \A j \in N .. (N - 1) : LoadWord(a)[j] \in 0 .. 255
    BY <1>1
  <2>. QED
    BY <2>1, <2>2 DEF Spells
<1>3. F \in Nat /\ q <= F
  BY DEF IsFirst
<1>4. /\ X = {} => q + N <= F
      /\ X # {} => clz(rev(X)) \div 8 = F - q
  <2>1. Spells(LoadWord(q), N, q, 0)
    BY <1>2
  <2>. QED
    BY <1>1, <2>1, WordFinds
<1>5. ASSUME X = {}
      PROVE  /\ Z = {} => (q + N) + N <= F
             /\ Z # {} => clz(rev(Z)) \div 8 = F - (q + N)
  <2>1. q + N \in Nat /\ Spells(LoadWord(q + N), N, q + N, 0)
    BY <1>1, <1>2
  <2>2. IsFirst(F, q + N, {0})
    BY <1>1, <1>3, <1>4, <1>5, FirstFrom
  <2>. QED
    BY <1>1, <2>1, <2>2, WordFinds
<1>6. X = {} /\ Z = {} => q + W <= F
  BY <1>1, <1>3, <1>5
<1>. QED
  BY <1>4, <1>5, <1>6

\* The least of each four bytes of a hunk: the lanes of one register, then the other's.
LEMMA MinimaAre ==
    ASSUME NEW U, NEW V, \A h \in HunkLanes : InHunk(U, V, h) \in Nat,
           NEW v, v = uminp(U, V), NEW m, m = cmeq(uminp(v, v), 0), NEW i \in 0 .. (W \div 2 - 1)
    PROVE  /\ i \in Lanes /\ m[i] \in SUBSET AllOnes
           /\ {4 * i, 4 * i + 1, 4 * i + 2, 4 * i + 3} \subseteq HunkLanes
           /\ IF \E h \in {4 * i, 4 * i + 1, 4 * i + 2, 4 * i + 3} : InHunk(U, V, h) = 0
              THEN m[i] = AllOnes ELSE m[i] = {}
<1>1. i \in Nat /\ i \in Lanes /\ 2 * i \in Lanes /\ 2 * i + 1 \in Lanes /\ 2 * i < W /\ 2 * i + 1 < W
  BY WSplits DEF Lanes
<1>2. ASSUME NEW j \in Lanes
      PROVE  /\ 2 * j \in HunkLanes /\ 2 * j + 1 \in HunkLanes
             /\ v[j] \in Nat
             /\ v[j] = 0 <=> InHunk(U, V, 2 * j) = 0 \/ InHunk(U, V, 2 * j + 1) = 0
  BY uminpIs
<1>3. ASSUME NEW h \in HunkLanes PROVE InHunk(v, v, h) \in Nat
  BY <1>2, LanesOfHunk DEF InHunk
<1>4. uminp(v, v)[i] = 0 <=> v[2 * i] = 0 \/ v[2 * i + 1] = 0
  <2>1. uminp(v, v)[i] = 0 <=> InHunk(v, v, 2 * i) = 0 \/ InHunk(v, v, 2 * i + 1) = 0
    BY <1>1, <1>3, uminpIs
  <2>. QED
    BY <1>1, <2>1 DEF InHunk
<1>5. /\ 2 * (2 * i) = 4 * i /\ 2 * (2 * i) + 1 = 4 * i + 1
      /\ 2 * (2 * i + 1) = 4 * i + 2 /\ 2 * (2 * i + 1) + 1 = 4 * i + 3
  BY <1>1
<1>6. /\ {4 * i, 4 * i + 1, 4 * i + 2, 4 * i + 3} \subseteq HunkLanes
      /\ v[2 * i] = 0 <=> InHunk(U, V, 4 * i) = 0 \/ InHunk(U, V, 4 * i + 1) = 0
      /\ v[2 * i + 1] = 0 <=> InHunk(U, V, 4 * i + 2) = 0 \/ InHunk(U, V, 4 * i + 3) = 0
  <2>1. /\ 4 * i \in HunkLanes /\ 4 * i + 1 \in HunkLanes
        /\ v[2 * i] = 0 <=> InHunk(U, V, 4 * i) = 0 \/ InHunk(U, V, 4 * i + 1) = 0
    BY <1>1, <1>2, <1>5
  <2>2. /\ 4 * i + 2 \in HunkLanes /\ 4 * i + 3 \in HunkLanes
        /\ v[2 * i + 1] = 0 <=> InHunk(U, V, 4 * i + 2) = 0 \/ InHunk(U, V, 4 * i + 3) = 0
    <3> DEFINE j == 2 * i + 1
    <3>1. j \in Lanes /\ 2 * j = 4 * i + 2 /\ 2 * j + 1 = 4 * i + 3
      BY <1>1, <1>5
    <3>2. v[j] = 0 <=> InHunk(U, V, 2 * j) = 0 \/ InHunk(U, V, 2 * j + 1) = 0
      BY <1>2, <3>1
    <3>3. 2 * j \in HunkLanes /\ 2 * j + 1 \in HunkLanes
      BY <1>2, <3>1
    <3> HIDE DEF j
    <3>4. v[j] = 0 <=> InHunk(U, V, 4 * i + 2) = 0 \/ InHunk(U, V, 4 * i + 3) = 0
      BY <3>1, <3>2
    <3>. QED
      BY <3>1, <3>3, <3>4 DEF j
  <2>. QED
    BY <2>1, <2>2
<1>7. m[i] = IF uminp(v, v)[i] = 0 THEN AllOnes ELSE {}
  BY <1>1 DEF cmeq
<1>. QED
  BY <1>1, <1>4, <1>6, <1>7

\* Which of their bits are set.
LEMMA MinimaMark ==
    ASSUME NEW U, NEW V, \A h \in HunkLanes : InHunk(U, V, h) \in Nat,
           NEW v, v = uminp(U, V), NEW X, X = fmov(cmeq(uminp(v, v), 0))
    PROVE  /\ X = {} <=> \A h \in HunkLanes : InHunk(U, V, h) # 0
           /\ X \cap 0 .. (2 * W - 1) # {} <=> \E g \in Lanes : U[g] = 0
<1> DEFINE m == cmeq(uminp(v, v), 0)
           Four(i) == {4 * i, 4 * i + 1, 4 * i + 2, 4 * i + 3}
<1>1. ASSUME NEW i \in 0 .. (W \div 2 - 1)
      PROVE  /\ m[i] \in SUBSET AllOnes /\ Four(i) \subseteq HunkLanes
             /\ IF \E h \in Four(i) : InHunk(U, V, h) = 0 THEN m[i] = AllOnes ELSE m[i] = {}
  BY MinimaAre
<1> HIDE DEF m, Four
<1>2. ASSUME NEW k
      PROVE  k \in X <=> k \in XBits /\ k % 8 \in m[k \div 8]
  <2>1. X = fmov(m)
    BY DEF m
  <2>. QED
    BY <1>1, <2>1, fmovBit
<1>3. ASSUME NEW k \in X
      PROVE  /\ k \in XBits /\ k \div 8 \in 0 .. (W \div 2 - 1)
             /\ \E h \in Four(k \div 8) : h \in HunkLanes /\ InHunk(U, V, h) = 0
  <2>1. k \in XBits /\ k % 8 \in m[k \div 8]
    BY <1>2
  <2>2. k \div 8 \in 0 .. (W \div 2 - 1)
    BY <2>1, WSplits DEF XBits
  <2>. QED
    BY <1>1, <2>1, <2>2
<1>4. ASSUME NEW h \in HunkLanes, InHunk(U, V, h) = 0
      PROVE  8 * (h \div 4) \in X /\ (h < W => 8 * (h \div 4) \in 0 .. (2 * W - 1))
  <2>1. h \in 0 .. (2 * W - 1)
    BY DEF HunkLanes
  <2>2. /\ h \div 4 \in 0 .. (W \div 2 - 1) /\ 8 * (h \div 4) \in XBits
        /\ h < W => 8 * (h \div 4) \in 0 .. (2 * W - 1)
        /\ h = 4 * (h \div 4) \/ h = 4 * (h \div 4) + 1 \/ h = 4 * (h \div 4) + 2 \/ h = 4 * (h \div 4) + 3
    BY <2>1, WSplits DEF XBits
  <2> DEFINE i == h \div 4
  <2>3. h \in Four(i)
    BY <2>2 DEF Four
  <2>4. /\ i \in 0 .. (W \div 2 - 1) /\ 8 * i \in XBits /\ (8 * i) % 8 = 0 /\ (8 * i) \div 8 = i
        /\ h < W => 8 * i \in 0 .. (2 * W - 1)
    BY <2>2
  <2> HIDE DEF i
  <2>5. m[i] = AllOnes
    BY <1>1, <1>4, <2>3, <2>4
  <2>6. 8 * i \in X
    BY <1>2, <2>4, <2>5 DEF AllOnes
  <2>. QED
    BY <2>4, <2>6 DEF i
<1>5. ASSUME NEW k \in X, k \in 0 .. (2 * W - 1)
      PROVE  \E g \in Lanes : U[g] = 0
  <2>1. PICK h \in Four(k \div 8) : h \in HunkLanes /\ InHunk(U, V, h) = 0
    BY <1>3
  <2>2. h \in Nat /\ h < W
    <3>1. 4 * (k \div 8) + 3 < W /\ k \div 8 \in Nat
      BY <1>5, WAssumption
    <3>. QED
      BY <2>1, <3>1, WAssumption DEF Four
  <2>. QED
    BY <2>1, <2>2, WAssumption DEF InHunk, Lanes
<1>6. ASSUME NEW g \in Lanes, U[g] = 0
      PROVE  X \cap 0 .. (2 * W - 1) # {}
  <2>1. g \in HunkLanes /\ g < W
    BY WAssumption DEF Lanes, HunkLanes
  <2>. QED
    BY <1>4, <1>6, <2>1 DEF InHunk
<1>7. X = {} <=> \A h \in HunkLanes : InHunk(U, V, h) # 0
  <2>1. ASSUME X # {} PROVE \E h \in HunkLanes : InHunk(U, V, h) = 0
    BY <1>3, <2>1
  <2>. QED
    BY <1>4, <2>1
<1>. QED
  BY <1>5, <1>6, <1>7

\* A hunk in memory, in two q registers.
LEMMA HunkInRegisters ==
    ASSUME mem \in Memories, big \in BOOLEAN, NEW a \in Nat, a % (2 * W) = 0,
           NEW x \in DOMAIN mem, a <= x,
           NEW U, U = ldrq(mem, a, big), NEW V, V = ldrq(mem, a + W, big)
    PROVE  /\ \A h \in HunkLanes : InHunk(U, V, h) \in Nat
           /\ (\E g \in Lanes : U[g] = 0) <=> ~ChunkClean(mem, a, {0})
           /\ (\A h \in HunkLanes : InHunk(U, V, h) # 0) <=> HunkClean(a, {0})
<1>1. W \in Nat /\ W > 0
  BY WAssumption
<1>2. ASSUME NEW h \in HunkLanes PROVE mem[a + h] \in Nat
  <2>1. mem[a + h] \in 0 .. 255
    BY HunkInMemory, BytesAssumption
  <2>. QED
    BY <2>1
<1>3. ASSUME NEW g \in Lanes
      PROVE  /\ U[g] \in Nat /\ V[g] \in Nat
             /\ g \in HunkLanes /\ W + g \in HunkLanes
             /\ InHunk(U, V, g) = U[g] /\ InHunk(U, V, W + g) = V[g]
  <2> DEFINE l == LaneOf(g, big)
  <2>1. l \in Lanes /\ l \in HunkLanes /\ W + l \in HunkLanes /\ (a + W) + l = a + (W + l)
    BY <1>1 DEF LaneOf, Lanes, HunkLanes
  <2>2. U[g] = mem[a + l] /\ V[g] = mem[(a + W) + l]
    <3>1. LaneOf(l, big) = g
      BY LaneOfIs
    <3>2. a \in Int /\ a + W \in Int
      BY <1>1
    <3> HIDE DEF l
    <3>. QED
      BY <2>1, <3>1, <3>2, ldrqAt
  <2>3. g \in HunkLanes /\ W + g \in HunkLanes /\ g < W /\ ~(W + g < W) /\ (W + g) - W = g
    BY <1>1 DEF Lanes, HunkLanes
  <2> HIDE DEF l
  <2>4. U[g] \in Nat /\ V[g] \in Nat
    BY <1>2, <2>1, <2>2
  <2>. QED
    BY <2>3, <2>4 DEF InHunk
<1>4. ASSUME NEW h \in HunkLanes
      PROVE  \E g \in Lanes : h = g \/ h = W + g
  <2>1. CASE h < W
    BY <2>1, LanesOfHunk
  <2>2. CASE ~(h < W)
    <3>1. h - W \in Lanes /\ h = W + (h - W)
      BY <1>1, <2>2, LanesOfHunk DEF HunkLanes
    <3>. QED
      BY <3>1
  <2>. QED
    BY <2>1, <2>2
<1>5. ASSUME NEW h \in HunkLanes PROVE InHunk(U, V, h) \in Nat
  BY <1>3, <1>4
<1>6. /\ (\E g \in Lanes : U[g] = 0) <=> ~ChunkClean(mem, a, {0})
      /\ (\E g \in Lanes : V[g] = 0) <=> ~ChunkClean(mem, a + W, {0})
  <2>1. a \in Int /\ a + W \in Int
    BY <1>1
  <2>2. /\ Having(U, {0}) = {} <=> ChunkClean(mem, a, {0})
        /\ Having(V, {0}) = {} <=> ChunkClean(mem, a + W, {0})
    BY <2>1, ldrqClean
  <2>. QED
    BY <2>2 DEF Having
<1>7. (\A h \in HunkLanes : InHunk(U, V, h) # 0) <=> \A g \in Lanes : U[g] # 0 /\ V[g] # 0
  BY <1>3, <1>4
<1>8. HunkClean(a, {0}) <=> ChunkClean(mem, a, {0}) /\ ChunkClean(mem, a + W, {0})
  <2>1. ASSUME NEW g \in Lanes
        PROVE  g \in HunkLanes /\ W + g \in HunkLanes /\ (a + W) + g = a + (W + g)
    BY <1>1 DEF Lanes, HunkLanes
  <2>. QED
    BY <1>4, <2>1 DEF HunkClean, ChunkClean
<1>. QED
  BY <1>5, <1>6, <1>7, <1>8

\* The first NUL of a hunk that has one, in registers U and V.
LEMMA FoundIs ==
    ASSUME mem \in Memories, big \in BOOLEAN, NEW p \in Nat, NEW F, IsFirst(F, p, {0}),
           NEW a \in Nat, a % (2 * W) = 0, p <= a, a <= F, ~HunkClean(a, {0}),
           NEW U, U = ldrq(mem, a, big), NEW V, V = ldrq(mem, a + W, big),
           NEW inFirst \in BOOLEAN, inFirst <=> ~ChunkClean(mem, a, {0})
    PROVE  (IF inFirst THEN FirstOf(shrn(cmeq(U, 0))) \div 4
            ELSE W + (FirstOf(shrn(cmeq(V, 0))) \div 4)) = F - a
<1> DEFINE f(v) == FirstOf(shrn(cmeq(v, 0))) \div 4
<1>1. W \in Nat /\ W > 0 /\ F \in DOMAIN mem /\ F \in Nat /\ p <= F /\ mem[F] = 0
  BY WAssumption DEF IsFirst
<1>2. ASSUME NEW b \in Int, NEW v, v = ldrq(mem, b, big), ~ChunkClean(mem, b, {0})
      PROVE  f(v) \in Lanes /\ Leads(mem, b, f(v), {0})
  <2>1. shrn(cmeq(v, 0)) = Quads(Having(v, {0}))
    BY cmeqIs, shrnMask
  <2> DEFINE X == shrn(cmeq(v, 0))
             g == clz(IF big THEN X ELSE rbit(X)) \div 4
  <2>2. X = Quads(Having(ldrq(mem, b, big), {0})) /\ f(v) = g
    BY <1>2, <2>1 DEF FirstOf
  <2> HIDE DEF X
  <2>3. g \in Lanes /\ Leads(mem, b, g, {0})
    BY <1>2, <2>2, QuadsFirst
  <2>. QED
    BY <2>2, <2>3
<1> HIDE DEF f
<1>3. ASSUME NEW b \in Nat, p <= b, NEW k \in Lanes, b = a \/ (b = a + W /\ ChunkClean(mem, a, {0})),
             Leads(mem, b, k, {0})
      PROVE  F = b + k
  <2>1. k \in Nat /\ k < W /\ mem[b + k] = 0 /\ \A g \in 0 .. (k - 1) : mem[b + g] # 0
    <3>1. k \in Nat /\ k < W
      BY <1>1, <1>3 DEF Lanes
    <3>2. Leads(mem, b, k, {0})
      BY <1>3
    <3>. QED
      BY <3>1, <3>2 DEF Leads
  <2>2. b + k \in DOMAIN mem
    <3>1. \E h \in HunkLanes : b + k = a + h
      <4>1. k \in HunkLanes /\ W + k \in HunkLanes /\ (a + W) + k = a + (W + k)
        BY <1>1, <2>1 DEF HunkLanes
      <4>. QED
        BY <1>3, <4>1
    <3>. QED
      BY <1>1, <3>1, HunkInMemory
  <2>3. F <= b + k
    BY <1>1, <1>3, <2>1, <2>2 DEF IsFirst
  <2>4. b <= F
    <3>1. SUFFICES ASSUME b = a + W, F < a + W, ChunkClean(mem, a, {0}) PROVE FALSE
      BY <1>1, <1>3
    <3>2. F - a \in Lanes /\ a + (F - a) = F
      BY <1>1, <3>1 DEF Lanes
    <3>. QED
      BY <1>1, <3>1, <3>2 DEF ChunkClean
  <2>5. ~(F < b + k)
    <3>1. SUFFICES ASSUME F < b + k PROVE FALSE
      OBVIOUS
    <3>2. F - b \in 0 .. (k - 1) /\ b + (F - b) = F
      BY <1>1, <2>1, <2>4, <3>1
    <3>. QED
      BY <1>1, <2>1, <3>2
  <2>. QED
    BY <1>1, <2>1, <2>3, <2>5
<1>4. CASE inFirst
  <2>1. f(U) \in Lanes /\ Leads(mem, a, f(U), {0})
    BY <1>2, <1>4
  <2>2. F = a + f(U) /\ f(U) \in Nat
    BY <1>3, <2>1 DEF Lanes
  <2>3. f(U) = F - a
    BY <2>2
  <2>. QED
    BY <1>4, <2>3 DEF f
<1>5. CASE ~inFirst
  <2>1. ChunkClean(mem, a, {0}) /\ a + W \in Nat /\ p <= a + W
    BY <1>1, <1>5
  <2>2. ~ChunkClean(mem, a + W, {0})
    <3>1. PICK h \in HunkLanes : mem[a + h] = 0
      BY DEF HunkClean
    <3>2. ~(h < W)
      BY <2>1, <3>1, LanesOfHunk DEF ChunkClean
    <3>3. h - W \in Lanes /\ (a + W) + (h - W) = a + h
      BY <1>1, <3>2, LanesOfHunk DEF HunkLanes
    <3>. QED
      BY <3>1, <3>3 DEF ChunkClean
  <2>3. f(V) \in Lanes /\ Leads(mem, a + W, f(V), {0})
    BY <1>2, <2>1, <2>2
  <2> DEFINE b == a + W
  <2>4. b \in Nat /\ p <= b /\ b = a + W /\ Leads(mem, b, f(V), {0})
    BY <2>1, <2>3
  <2> HIDE DEF b
  <2>5. F = b + f(V)
    BY <1>3, <2>1, <2>3, <2>4
  <2>6. f(V) \in Nat
    BY <2>3 DEF Lanes
  <2>7. W + f(V) = F - a
    BY <1>1, <2>4, <2>5, <2>6
  <2>. QED
    BY <1>5, <2>7 DEF f
<1>. QED
  BY <1>4, <1>5

\* The hunk that p is in, two bits a byte, less the bytes before p.
LEMMA CrossFinds ==
    ASSUME mem \in Memories, NEW p \in Nat, NEW F, IsFirst(F, p, {0}),
           NEW a, a = p - (p % (2 * W)),
           NEW Bits, Bits = Syndrome(cmeq(ld1(mem, a), 0), cmeq(ld1(mem, a + W), 0), Stepped({0, 1})),
           NEW X, X = lsr(Bits, 2 * p)
    PROVE  /\ X = {} => a + 2 * W <= F
           /\ X # {} => clz(rbit(X)) \div 2 = F - p
<1> DEFINE n == 2 * W
           r == p % (2 * W)
           Z == {k \in Bits : k >= 2 * (p - a)}
<1>1. n \in Nat /\ n > 0 /\ W \in Nat
  BY HunkSize
<1>2. a \in Nat /\ a % n = 0 /\ a <= p /\ p < a + n /\ r \in 0 .. (n - 1) /\ p - a = r
  BY HeadIs
<1>3. F \in Nat /\ p <= F
  BY DEF IsFirst
<1>4. ASSUME NEW k PROVE k \in Bits <=> k \in XBits /\ mem[a + (k \div 2)] = 0
  <2>1. Bits = Syndrome(MaskOf(Having(ld1(mem, a), {0})), MaskOf(Having(ld1(mem, a + W), {0})), Stepped({0, 1}))
    BY cmeqIs
  <2>2. {0, 1} \in SUBSET {0, 1} /\ a \in Int
    BY <1>2
  <2>3. k \in Bits <=> k \in XBits /\ k % 2 \in {0, 1} /\ mem[a + (k \div 2)] \in {0}
    BY <2>1, <2>2, SyndromeIs
  <2>. QED
    BY <2>3, LaneOfBit
<1>5. Marks(Z, a, p, {0})
  <2>1. Z \in SUBSET XBits
    BY <1>4
  <2>2. ASSUME NEW h \in HunkLanes
        PROVE  (2 * h \in Z \/ 2 * h + 1 \in Z) <=> a + h >= p /\ mem[a + h] \in {0}
    <3>1. /\ h \in Nat /\ 2 * h \in XBits /\ 2 * h + 1 \in XBits
          /\ (2 * h) \div 2 = h /\ (2 * h + 1) \div 2 = h
      BY BitsOfLane
    <3>2. /\ 2 * h \in Bits <=> mem[a + h] = 0
          /\ 2 * h + 1 \in Bits <=> mem[a + h] = 0
      BY <1>4, <3>1
    <3>3. /\ a + h >= p <=> 2 * h >= 2 * (p - a)
          /\ 2 * h + 1 >= 2 * (p - a) <=> a + h >= p
      BY <1>2, <3>1
    <3>. QED
      BY <3>2, <3>3
  <2>. QED
    BY <2>1, <2>2 DEF Marks
<1>6. X = {k - 2 * r : k \in Z}
  <2>1. (2 * p) % (4 * W) = 2 * r
    <3>1. p = n * (p \div n) + r /\ p \div n \in Int
      BY <1>1, DivMod
    <3> DEFINE q == p \div n
    <3>2. 2 * p = (4 * W) * q + 2 * r /\ 2 * r \in 0 .. (4 * W - 1) /\ q \in Int /\ 4 * W \in Nat
          /\ 2 * p \in Int
      BY <1>1, <1>2, <3>1
    <3> HIDE DEF q, r
    <3>. QED
      BY <3>2, DivModIs
  <2>2. Z = {k \in Bits : k >= 2 * r}
    BY <1>2
  <2> HIDE DEF Z, r
  <2>. QED
    BY <2>1, <2>2 DEF lsr
<1> HIDE DEF Z
<1> DEFINE f == clz(rbit(Z))
<1>7. /\ Z = {} => a + n <= F
      /\ Z # {} => f \in Z /\ f \in XBits /\ F = a + (f \div 2)
  BY <1>2, <1>3, <1>5, MarksFirst
<1>8. CASE X = {}
  <2>1. Z = {}
    <3>1. ASSUME NEW k \in Z PROVE FALSE
      BY <1>6, <1>8, <3>1
    <3>. QED
      BY <3>1
  <2>. QED
    BY <1>7, <1>8, <2>1
<1>9. CASE X # {}
  <2>1. Z # {}
    BY <1>6, <1>9
  <2>2. \A k \in Z : k \in XBits /\ k \in Nat /\ k >= 2 * r
    BY <1>2, <1>4, LaneOfBit DEF Z
  <2>3. X \in SUBSET XBits
    <3>1. ASSUME NEW k \in Z PROVE k - 2 * r \in XBits
      BY <1>1, <1>2, <2>2 DEF XBits
    <3>. QED
      BY <1>6, <3>1
  <2> DEFINE g == clz(rbit(X))
  <2>4. g \in X /\ \A k \in X : g <= k
    BY <1>9, <2>3, clzRbitIs
  <2>5. f \in Z /\ f \in Nat /\ F = a + (f \div 2) /\ \A k \in Z : f <= k
    <3>1. Z \in SUBSET XBits
      BY <2>2
    <3>. QED
      BY <1>7, <2>1, <2>2, <3>1, clzRbitIs
  <2> HIDE DEF f, g, r
  <2>6. f - 2 * r \in X
    BY <1>6, <2>5
  <2>7. PICK k \in Z : g = k - 2 * r
    BY <1>6, <2>4
  <2>8. g = f - 2 * r
    <3>1. k \in Nat /\ f <= k /\ g <= f - 2 * r /\ r \in Nat
      BY <1>2, <2>2, <2>4, <2>5, <2>6, <2>7
    <3>. QED
      BY <2>5, <2>7, <3>1
  <2>9. g \div 2 = (f \div 2) - r
    BY <1>2, <2>5, <2>8
  <2>10. g \div 2 = F - p
    <3>1. f \div 2 \in Int /\ r \in Int /\ a \in Int /\ p = a + r
      BY <1>2, <2>5
    <3>. QED
      BY <2>5, <2>9, <3>1
  <2>. QED
    BY <1>9, <2>10 DEF g
<1>. QED
  BY <1>8, <1>9

\* Each step of strlen keeps its invariant.
LEMMA StrlenInv ==
    ASSUME GivenOK, strlen!IInv, strlen!Next
    PROVE  strlen!IInv'
<1> DEFINE n == 2 * W
           F == First(srcin, {0})
           Y == srcin - (srcin % (2 * W))
           MC == srcin % MinPageSize > MinPageSize - 2 * W
<1>1. srcin \in Nat /\ IsFirst(F, srcin, {0}) /\ F \in Nat /\ srcin <= F /\ F \in DOMAIN mem
  BY ByteIs DEF IsFirst
<1>2. mem \in Memories /\ big \in BOOLEAN
  BY DEF GivenOK
<1>3. SameGiven
  BY DEF SameGiven, strlen!Next, strlen!Entry, strlen!Bytes16_31, strlen!Loop, strlen!Found,
         strlen!PageCross, strlen!given
<1>4. F' = F
  BY <1>3, FirstSame DEF SameGiven
<1>5. strlen!Length = F - srcin /\ strlen!Length' = F - srcin
  BY <1>3, <1>4 DEF strlen!Length, strlen!First, strlen!Min, First, Min, SameGiven
<1>6. Y \in Nat /\ Y % n = 0 /\ Y <= srcin /\ srcin < Y + n
  BY <1>1, HeadIs
<1>7. n \in Nat /\ n > 0 /\ n = 2 * W /\ W \in Nat /\ W > 0
  BY HunkSize
<1>8. N \in Nat /\ N > 0 /\ W = 2 * N
  BY WordSize
<1>9. /\ strlen!Footprint <=> rd \subseteq Granules(srcin, F, MinPageSize)
      /\ strlen!Footprint' <=> rd' \subseteq Granules(srcin, F, MinPageSize)
  <2>1. srcin + (F - srcin) = F
    BY <1>1
  <2>2. strlen!Granules(srcin, F, MinPageSize) = Granules(srcin, F, MinPageSize)
    BY StrlenNames
  <2>3. strlen!Footprint' <=> rd' \subseteq strlen!Granules(srcin, srcin + (F - srcin), MinPageSize)
    BY <1>3, <1>5 DEF strlen!Footprint, SameGiven
  <2>4. strlen!Footprint <=> rd \subseteq strlen!Granules(srcin, srcin + (F - srcin), MinPageSize)
    BY <1>5 DEF strlen!Footprint
  <2>. QED
    BY <2>1, <2>2, <2>3, <2>4
<1>10. (strlen!MayCross <=> MC) /\ (strlen!MayCross' <=> MC)
  BY <1>3 DEF strlen!MayCross, SameGiven
<1>11. \A a : (\E i \in 0 .. (2 * W - 1) : mem[a + i] = 0) <=> ~HunkClean(a, {0})
  BY DEF HunkClean, HunkLanes
<1> HIDE DEF F, Y, n, MC
<1>12. /\ pc = "entry" => rd \subseteq Granules(srcin, F, MinPageSize)
       /\ pc = "page_cross" => MC
       /\ pc = "bytes16_31" => ~MC /\ srcin + W <= F
       /\ pc = "loop" => /\ src \in Int /\ src % n = 0 /\ srcin < src + n /\ src + n <= F
                         /\ MC \/ srcin + n <= F
       /\ pc = "found" => /\ src \in Int /\ src % n = 0 /\ srcin <= src /\ src <= F
                          /\ vdata = ldrq(mem, src, big) /\ vdata2 = ldrq(mem, src + W, big)
                          /\ ~HunkClean(src, {0})
  <2>1. pc = "entry" => rd \subseteq Granules(srcin, F, MinPageSize)
    BY <1>9 DEF strlen!IInv
  <2>2. pc = "page_cross" => MC
    BY <1>10 DEF strlen!IInv
  <2>3. pc = "bytes16_31" => ~MC /\ srcin + W <= F
    BY <1>1, <1>5, <1>7, <1>10 DEF strlen!IInv
  <2>4. pc = "loop" => /\ src \in Int /\ src % n = 0 /\ srcin < src + n /\ src + n <= F
                       /\ MC \/ srcin + n <= F
    BY <1>1, <1>5, <1>7, <1>10 DEF strlen!IInv, n
  <2>5. pc = "found" => /\ src \in Int /\ src % n = 0 /\ srcin <= src /\ src <= F
    BY <1>1, <1>5 DEF strlen!IInv, n
  <2>6. pc = "found" => /\ vdata = ldrq(mem, src, big) /\ vdata2 = ldrq(mem, src + W, big)
                        /\ ~HunkClean(src, {0})
    BY <1>11, StrlenNames DEF strlen!IInv
  <2>. QED
    BY <2>1, <2>2, <2>3, <2>4, <2>5, <2>6
<1> DEFINE Cross == pc' = "page_cross" /\ MC
           Bytes == pc' = "bytes16_31" /\ ~MC /\ srcin + W <= F
           Loop == /\ pc' = "loop" /\ src' \in Int /\ src' % n = 0
                   /\ srcin < src' + n /\ src' + n <= F /\ (MC \/ srcin + n <= F)
           Found == /\ pc' = "found" /\ src' \in Int /\ src' % n = 0
                    /\ srcin <= src' /\ src' <= F /\ (MC \/ srcin + n <= F)
                    /\ vdata' = ldrq(mem, src', big) /\ vdata2' = ldrq(mem, src' + W, big)
                    /\ ~HunkClean(src', {0})
           Ret == pc' = "ret" /\ result' = F - srcin
<1>13. ASSUME Cross \/ Bytes \/ Loop \/ Found \/ Ret, strlen!Footprint'
       PROVE  strlen!IInv'
  <2>1. (2 * W)' = n /\ W' = W
    BY <1>7
  <2>2. CASE Cross
    BY <1>10, <1>13, <2>2 DEF strlen!IInv
  <2>3. CASE Bytes
    BY <1>1, <1>5, <1>7, <1>10, <1>13, <2>3 DEF strlen!IInv
  <2>4. CASE Loop
    <3>5. srcin + n <= F => n <= F - srcin
      BY <1>1, <1>7
    <3>1. (src' + n) - srcin <= F - srcin /\ (MC \/ n <= F - srcin)
      <4>1. src' \in Int /\ src' + n <= F
        BY <2>4
      <4>2. ASSUME NEW s \in Int, s + n <= F PROVE (s + n) - srcin <= F - srcin
        BY <1>1, <1>7, <4>2
      <4>3. (src' + n) - srcin <= F - srcin
        BY <4>1, <4>2
      <4>. QED
        BY <2>4, <3>5, <4>3
    <3>. QED
      BY <1>3, <1>5, <1>10, <1>13, <2>1, <2>4, <3>1 DEF strlen!IInv, SameGiven
  <2>5. CASE Found
    <3>5. srcin + n <= F => n <= F - srcin
      BY <1>1, <1>7
    <3>1. src' - srcin <= F - srcin /\ (MC \/ n <= F - srcin)
      <4>1. src' \in Int /\ src' <= F
        BY <2>5
      <4>2. ASSUME NEW s \in Int, s <= F PROVE s - srcin <= F - srcin
        BY <1>1, <4>2
      <4>3. src' - srcin <= F - srcin
        BY <4>1, <4>2
      <4>. QED
        BY <2>5, <3>5, <4>3
    <3>2. strlen!ldrq(mem, src, big)' = ldrq(mem, src', big)
      <4>1. strlen!ldrq(mem, src, big)' = strlen!ldrq(mem, src', big)
        BY <1>3 DEF strlen!ldrq, strlen!Lanes, SameGiven
      <4>. QED
        BY <4>1, StrlenNames
    <3>3. strlen!ldrq(mem, src + W, big)' = ldrq(mem, src' + W, big)
      <4>1. strlen!ldrq(mem, src + W, big)' = strlen!ldrq(mem, src' + W, big)
        BY <1>3 DEF strlen!ldrq, strlen!Lanes, SameGiven
      <4>. QED
        BY <4>1, StrlenNames
    <3>4. \E i \in 0 .. (2 * W - 1) : mem[src' + i] = 0
      BY <1>11, <2>5
    <3>. QED
      BY <1>3, <1>5, <1>10, <1>13, <2>1, <2>5, <3>1, <3>2, <3>3, <3>4 DEF strlen!IInv, SameGiven
  <2>6. CASE Ret
    BY <1>5, <1>13, <2>6 DEF strlen!IInv
  <2>. QED
    BY <1>13, <2>2, <2>3, <2>4, <2>5, <2>6
<1>14. ASSUME NEW a \in Int, a % n = 0, Y <= a, a <= F, rd' = Chunk(a, n)
       PROVE  strlen!Footprint'
  <2>1. Chunk(a, n) \subseteq Granules(srcin, F, MinPageSize)
    BY <1>1, <1>14, HunkInPages DEF Y, n
  <2>. QED
    BY <1>9, <1>14, <2>1
\* Two words at srcin + k.
<1>15. ASSUME NEW k \in {0, W}, NEW next, strlen!TwoWords(k, next), ~MC, srcin + k <= F
       PROVE  /\ strlen!Footprint'
              /\ \/ pc' = next /\ srcin + (k + W) <= F
                 \/ Ret
  <2> DEFINE q == srcin + k
             X == Zeros(LoadWord(q), N)
             Z == Zeros(LoadWord(q + N), N)
  <2>1. /\ rd' = Chunk(q, W)
        /\ IF X = {} /\ Z = {} THEN pc' = next
           ELSE /\ pc' = "ret"
                /\ result' = IF X # {} THEN k + (clz(rev(X)) \div 8)
                             ELSE k + N + (clz(rev(Z)) \div 8)
    <3>1. /\ strlen!Zeros(strlen!LoadWord(srcin + k), strlen!N) = X
          /\ strlen!Zeros(strlen!LoadWord(srcin + k + strlen!N), strlen!N) = Z
      BY StrlenNames
    <3>2. \A A : strlen!FirstByte(A) = clz(rev(A)) \div 8
      BY StrlenNames DEF strlen!FirstByte
    <3>3. strlen!Chunk(srcin + k, W) = Chunk(q, W)
      BY StrlenNames
    <3> DEFINE G(A, B, fa, fb) ==
            IF A = {} /\ B = {} THEN pc' = next
            ELSE /\ pc' = "ret"
                 /\ result' = IF A # {} THEN k + fa ELSE k + N + fb
               A1 == strlen!Zeros(strlen!LoadWord(srcin + k), strlen!N)
               B1 == strlen!Zeros(strlen!LoadWord(srcin + k + strlen!N), strlen!N)
    <3>4. G(A1, B1, strlen!FirstByte(A1), strlen!FirstByte(B1))
      BY <1>15, StrlenNames DEF strlen!TwoWords
    <3>5. rd' = strlen!Chunk(srcin + k, W)
      BY <1>15 DEF strlen!TwoWords
    <3> HIDE DEF X, Z
    <3>6. G(X, Z, clz(rev(X)) \div 8, clz(rev(Z)) \div 8)
      BY <3>1, <3>2, <3>4
    <3>. QED
      BY <3>3, <3>5, <3>6
  <2>2. q \in Nat /\ srcin <= q /\ q <= F /\ k \in Nat /\ q \in Int /\ srcin \in Int
    BY <1>1, <1>7, <1>15
  <2>3. IsFirst(F, q, {0})
    BY <1>1, <1>2, <2>2, FirstFrom
  <2> HIDE DEF q
  <2>4. /\ X = {} /\ Z = {} => q + W <= F
        /\ X # {} => clz(rev(X)) \div 8 = F - q
        /\ X = {} /\ Z # {} => clz(rev(Z)) \div 8 = F - (q + N)
    BY <1>2, <2>2, <2>3, TwoWordsFind
  <2>5. strlen!Footprint'
    <3>1. Chunk(srcin + k, W) \subseteq Granules(srcin, F, MinPageSize)
      BY <1>1, <1>15, BytesInPage DEF MC
    <3>. QED
      BY <1>9, <2>1, <3>1 DEF q
  <2> HIDE DEF X, Z
  <2>6. CASE X = {} /\ Z = {}
    BY <1>1, <1>7, <2>1, <2>2, <2>4, <2>5, <2>6 DEF q
  <2>7. CASE X # {}
    <3> DEFINE f == clz(rev(X)) \div 8
    <3>1. result' = k + f /\ f = F - q /\ q = srcin + k /\ pc' = "ret"
      BY <2>1, <2>4, <2>7 DEF q
    <3> HIDE DEF f
    <3>2. result' = F - srcin
      BY <1>1, <2>2, <3>1
    <3>. QED
      BY <2>5, <3>1, <3>2
  <2>8. CASE X = {} /\ Z # {}
    <3> DEFINE f == clz(rev(Z)) \div 8
    <3>1. result' = k + N + f /\ f = F - (q + N) /\ q = srcin + k /\ pc' = "ret"
      BY <2>1, <2>4, <2>8 DEF q
    <3> HIDE DEF f
    <3>2. result' = F - srcin
      BY <1>1, <1>8, <2>2, <3>1
    <3>. QED
      BY <2>5, <3>1, <3>2
  <2>. QED
    BY <2>6, <2>7, <2>8
\* The two registers of a hunk.
<1>16. ASSUME NEW U, NEW V, NEW a \in Nat, a % n = 0, a <= F,
              U = ldrq(mem, a, big), V = ldrq(mem, a + W, big)
       PROVE  /\ strlen!fmov(strlen!Minima(U, V)) = {} <=> HunkClean(a, {0})
              /\ strlen!fmov(strlen!Minima(U, V)) \cap 0 .. (2 * W - 1) # {}
                   <=> ~ChunkClean(mem, a, {0})
  <2> DEFINE v == uminp(U, V)
             X == fmov(cmeq(uminp(v, v), 0))
  <2>1. strlen!fmov(strlen!Minima(U, V)) = X
    BY StrlenNames DEF strlen!Minima
  <2>2. /\ \A h \in HunkLanes : InHunk(U, V, h) \in Nat
        /\ (\E g \in Lanes : U[g] = 0) <=> ~ChunkClean(mem, a, {0})
        /\ (\A h \in HunkLanes : InHunk(U, V, h) # 0) <=> HunkClean(a, {0})
    BY <1>1, <1>2, <1>16, HunkInRegisters DEF n
  <2>3. /\ X = {} <=> \A h \in HunkLanes : InHunk(U, V, h) # 0
        /\ X \cap 0 .. (2 * W - 1) # {} <=> \E g \in Lanes : U[g] = 0
    BY <2>2, MinimaMark
  <2> HIDE DEF X
  <2>. QED
    BY <2>1, <2>2, <2>3
<1>17. CASE strlen!Entry
  <2>1. CASE MC
    <3>1. pc' = "page_cross" /\ rd' = rd /\ pc = "entry"
      BY <1>10, <1>17, <2>1 DEF strlen!Entry
    <3>2. strlen!Footprint'
      BY <1>9, <1>12, <3>1
    <3>. QED
      BY <1>13, <2>1, <3>1, <3>2
  <2>2. CASE ~MC
    <3>1. strlen!TwoWords(0, "bytes16_31")
      BY <1>10, <1>17, <2>2 DEF strlen!Entry
    <3>2. srcin + 0 <= F /\ 0 + W = W
      BY <1>1, <1>7
    <3>3. /\ strlen!Footprint'
          /\ (pc' = "bytes16_31" /\ srcin + W <= F) \/ Ret
      BY <1>15, <2>2, <3>1, <3>2
    <3>. QED
      BY <1>13, <2>2, <3>3
  <2>. QED
    BY <2>1, <2>2
<1>18. CASE strlen!Bytes16_31
  <2>1. pc = "bytes16_31" /\ strlen!TwoWords(W, "loop") /\ ~MC /\ srcin + W <= F
        /\ (pc' = "loop" => src' = Y)
    BY <1>12, <1>18, StrlenNames DEF strlen!Bytes16_31, Aligned, Y
  <2>2. /\ strlen!Footprint'
        /\ (pc' = "loop" /\ srcin + (W + W) <= F) \/ Ret
    BY <1>15, <2>1
  <2>3. CASE pc' = "loop" /\ srcin + (W + W) <= F
    <3>1. srcin + n <= F /\ Y + n <= F
      BY <1>1, <1>6, <1>7, <2>3
    <3>2. Loop
      BY <1>6, <2>1, <2>3, <3>1
    <3>. QED
      BY <1>13, <2>2, <3>2
  <2>4. CASE Ret
    BY <1>13, <2>2, <2>4
  <2>. QED
    BY <2>2, <2>3, <2>4
<1>19. CASE strlen!Loop
  <2> DEFINE a == src + n
  <2>1. /\ pc = "loop" /\ src' = a
        /\ vdata' = ldrq(mem, a, big) /\ vdata2' = ldrq(mem, a + W, big)
        /\ rd' = Chunk(a, n)
        /\ pc' = IF strlen!fmov(strlen!Minima(vdata', vdata2')) = {} THEN "loop" ELSE "found"
    BY <1>19, StrlenNames DEF strlen!Loop, n
  <2>2. /\ src \in Int /\ src % n = 0 /\ srcin < a /\ a <= F /\ (MC \/ srcin + n <= F)
    BY <1>12, <2>1
  <2>3. a \in Nat /\ a % n = 0 /\ Y <= a
    BY <1>1, <1>6, <1>7, <2>2, ModPlus
  <2> HIDE DEF a
  <2>4. strlen!Footprint'
    BY <1>14, <2>1, <2>2, <2>3
  <2>5. strlen!fmov(strlen!Minima(vdata', vdata2')) = {} <=> HunkClean(a, {0})
    BY <1>16, <2>1, <2>2, <2>3
  <2>6. CASE HunkClean(a, {0})
    <3>1. a + n <= F
      BY <1>1, <2>2, <2>3, <2>6, HunkPassed DEF n
    <3>2. Loop
      BY <1>1, <1>7, <2>1, <2>2, <2>3, <2>5, <2>6, <3>1
    <3>. QED
      BY <1>13, <2>4, <3>2
  <2>7. CASE ~HunkClean(a, {0})
    <3>1. Found
      BY <1>1, <1>7, <2>1, <2>2, <2>3, <2>5, <2>7
    <3>. QED
      BY <1>13, <2>4, <3>1
  <2>. QED
    BY <2>6, <2>7
<1>20. CASE strlen!Found
  <2> DEFINE f(v) == FirstOf(shrn(cmeq(v, 0))) \div 4
             g == IF strlen!InFirst THEN f(vdata) ELSE W + f(vdata2)
  <2>1. pc = "found" /\ result' = (src - srcin) + g /\ pc' = "ret" /\ rd' = {}
    <3>1. \A v : strlen!FirstOf(strlen!shrn(strlen!cmeq(v, 0))) \div 4 = f(v)
      BY StrlenNames DEF strlen!FirstOf, FirstOf
    <3> HIDE DEF f
    <3>. QED
      BY <1>20, <3>1 DEF strlen!Found
  <2>2. /\ src \in Nat /\ src % n = 0 /\ srcin <= src /\ src <= F
        /\ vdata = ldrq(mem, src, big) /\ vdata2 = ldrq(mem, src + W, big)
        /\ ~HunkClean(src, {0})
    BY <1>1, <1>12, <2>1
  <2>3. strlen!InFirst \in BOOLEAN /\ (strlen!InFirst <=> ~ChunkClean(mem, src, {0}))
    BY <1>16, <2>2 DEF strlen!InFirst
  <2> DEFINE inFirst == strlen!InFirst
  <2>4. inFirst \in BOOLEAN /\ (inFirst <=> ~ChunkClean(mem, src, {0}))
    BY <2>3
  <2> HIDE DEF inFirst
  <2>5. g = F - src
    <3>1. (IF inFirst THEN f(vdata) ELSE W + f(vdata2)) = F - src
      BY <1>1, <1>2, <2>2, <2>4, FoundIs DEF n
    <3>. QED
      BY <3>1 DEF inFirst
  <2> HIDE DEF g
  <2>6. result' = F - srcin
    BY <1>1, <2>1, <2>2, <2>5
  <2>7. strlen!Footprint'
    BY <1>9, <2>1
  <2>. QED
    BY <1>13, <2>1, <2>6, <2>7
<1>21. CASE strlen!PageCross
  <2> DEFINE Bits == Syndrome(cmeq(ld1(mem, Y), 0), cmeq(ld1(mem, Y + W), 0), Stepped({0, 1}))
             X == lsr(Bits, 2 * srcin)
  <2>1. /\ pc = "page_cross" /\ src' = Y /\ rd' = Chunk(Y, n)
        /\ IF X = {} THEN pc' = "loop"
           ELSE pc' = "ret" /\ result' = clz(rbit(X)) \div 2
    <3>1. /\ pc = "page_cross" /\ src' = Y
          /\ vdata' = ld1(mem, Y) /\ vdata2' = ld1(mem, Y + W) /\ rd' = Chunk(Y, n)
      BY <1>21, StrlenNames DEF strlen!PageCross, Aligned, Y, n
    <3> DEFINE S1(m) == strlen!fmov(strlen!addp(strlen!addp(strlen!and(cmeq(ld1(mem, Y), 0), m),
                                                         strlen!and(cmeq(ld1(mem, Y + W), 0), m)),
                                              strlen!addp(strlen!and(cmeq(ld1(mem, Y), 0), m),
                                                         strlen!and(cmeq(ld1(mem, Y + W), 0), m))))
               G(Z) == IF Z = {} THEN pc' = "loop"
                       ELSE pc' = "ret" /\ result' = strlen!clz(strlen!rbit(Z)) \div 2
    <3>2. G(strlen!lsr(S1(Stepped({0, 1})), 2 * srcin))
      BY <1>21, <3>1, StrlenNames DEF strlen!PageCross
    <3>3. S1(Stepped({0, 1})) = Bits
      BY StrlenSyndrome
    <3> HIDE DEF Bits, S1
    <3>4. G(X)
      BY <3>2, <3>3, StrlenNames
    <3>5. strlen!clz(strlen!rbit(X)) = clz(rbit(X))
      BY StrlenNames
    <3> HIDE DEF X
    <3>. QED
      BY <3>1, <3>4, <3>5
  <2>2. MC
    BY <1>12, <2>1
  <2>3. /\ X = {} => Y + n <= F
        /\ X # {} => clz(rbit(X)) \div 2 = F - srcin
    <3>1. Y = srcin - (srcin % (2 * W))
      BY DEF Y
    <3>. QED
      BY <1>1, <1>2, <3>1, CrossFinds DEF n
  <2>4. strlen!Footprint'
    BY <1>1, <1>6, <1>14, <2>1
  <2> HIDE DEF X
  <2>5. CASE X = {}
    <3>1. Loop
      BY <1>6, <2>1, <2>2, <2>3, <2>5
    <3>. QED
      BY <1>13, <2>4, <3>1
  <2>6. CASE X # {}
    BY <1>13, <2>1, <2>3, <2>4, <2>6
  <2>. QED
    BY <2>5, <2>6
<1>. QED
  BY <1>17, <1>18, <1>19, <1>20, <1>21 DEF strlen!Next

-----------------------------------------------------------------------------
(* All of them: no routine loads a hunk, a word or a page that it may not.  *)

\* The arguments of a call, of those that its routine has.
Routines == Strchrs \cup {"memchr", "strrchr", "strlen", "memchr_scalar"}
ArgsOK == /\ routine \in Routines /\ GivenOK /\ CharOK
          /\ routine \in {"memchr", "memchr_scalar"} => CountOK

\* A call begins with it.
LEMMA InitIInv ==
    ASSUME Init
    PROVE  ArgsOK /\ IInv
<1>1. CASE routine = "memchr" /\ memchr!Init
  <2>1. /\ mem \in Memories /\ srcin \in Pointers /\ big \in BOOLEAN /\ chrin \in Chars
        /\ cntin \in Counts /\ cntrem = cntin % (2 * W) /\ left = cntin
        /\ pc = "entry" /\ src = srcin - (srcin % (2 * W)) /\ rd = {} /\ result = 0
    BY <1>1, MemchrNames DEF memchr!Init, memchr!CalledWithChar, memchr!Called, memchr!n, Aligned
  <2>2. ArgsOK
    BY <1>1, <2>1, CountsAssumption DEF ArgsOK, Routines, GivenOK, CharOK, CountOK
  <2>3. srcin \in Nat
    BY <2>1, PointersAssumption
  <2>4. src \in Int /\ src % (2 * W) = 0 /\ memchr!Aligned(srcin, 2 * W) = src
    BY <2>1, <2>3, HeadIs, MemchrNames DEF Aligned
  <2>5. memchr!IInv
    BY <2>1, <2>4 DEF memchr!IInv, memchr!Footprint, memchr!n
  <2>. QED
    BY <1>1, <2>2, <2>5 DEF IInv, Strchrs
<1>2. CASE strchr!Init
  <2>1. /\ mem \in Memories /\ srcin \in Pointers /\ big \in BOOLEAN /\ chrin \in Chars
        /\ routine \in Strchrs
        /\ pc = "entry" /\ src = srcin - (srcin % (2 * W)) /\ rd = {} /\ result = 0
    BY <1>2, StrchrNames DEF strchr!Init, strchr!CalledWithChar, strchr!Called, Aligned, Strchrs
  <2>2. ArgsOK
    BY <2>1 DEF ArgsOK, Routines, GivenOK, CharOK, Strchrs
  <2>3. srcin \in Nat
    BY <2>1, PointersAssumption
  <2>4. src \in Int /\ src % (2 * W) = 0 /\ strchr!Aligned(srcin, 2 * W) = src
    BY <2>1, <2>3, HeadIs, StrchrNames DEF Aligned
  <2>5. strchr!IInv
    BY <2>1, <2>4 DEF strchr!IInv, strchr!Footprint
  <2>. QED
    BY <2>1, <2>2, <2>5 DEF IInv, Strchrs
<1>3. CASE routine = "strrchr" /\ strrchr!Init
  <2>1. /\ mem \in Memories /\ srcin \in Pointers /\ big \in BOOLEAN /\ chrin \in Chars
        /\ src_match = 0 /\ src_offset = {}
        /\ pc = "entry" /\ src = srcin - (srcin % (2 * W)) /\ rd = {} /\ result = 0
    BY <1>3, StrrchrNames DEF strrchr!Init, strrchr!CalledWithChar, strrchr!Called, Aligned
  <2>2. ArgsOK
    BY <1>3, <2>1 DEF ArgsOK, Routines, GivenOK, CharOK
  <2>3. srcin \in Nat
    BY <2>1, PointersAssumption
  <2>4. src \in Int /\ src % (2 * W) = 0 /\ strrchr!Aligned(srcin, 2 * W) = src
    BY <2>1, <2>3, HeadIs, StrrchrNames DEF Aligned
  <2>5. strrchr!IInv
    BY <2>1, <2>4 DEF strrchr!IInv, strrchr!Footprint
  <2>. QED
    BY <1>3, <2>2, <2>5 DEF IInv, Strchrs
<1>4. CASE routine = "strlen" /\ strlen!Init /\ chrin = 0
  <2>1. /\ mem \in Memories /\ srcin \in Pointers /\ big \in BOOLEAN
        /\ pc = "entry" /\ rd = {} /\ result = 0
    BY <1>4 DEF strlen!Init, strlen!Called
  <2>2. ArgsOK
    BY <1>4, <2>1 DEF ArgsOK, Routines, GivenOK, CharOK
  <2>3. strlen!IInv
    BY <2>1 DEF strlen!IInv, strlen!Footprint
  <2>. QED
    BY <1>4, <2>2, <2>3 DEF IInv, Strchrs
<1>5. CASE routine = "memchr_scalar" /\ memchr_scalar!Init
  <2>1. /\ mem \in Memories /\ srcin \in Pointers /\ big \in BOOLEAN /\ chrin \in Chars
        /\ cntin \in Counts
        /\ pc = "entry" /\ src = srcin - (srcin % N) /\ rd = {} /\ result = 0
    BY <1>5, ScalarNames DEF memchr_scalar!Init, memchr_scalar!Called, Aligned
  <2>2. ArgsOK
    BY <1>5, <2>1, CountsAssumption DEF ArgsOK, Routines, GivenOK, CharOK, CountOK
  <2>3. srcin \in Nat
    BY <2>1, PointersAssumption
  <2>4. src \in Int /\ src % N = 0 /\ memchr_scalar!Aligned(srcin, N) = src
    <3>1. srcin - (srcin % N) \in Nat /\ (srcin - (srcin % N)) % N = 0
      BY <2>3, WordSize, HeadOf
    <3>2. memchr_scalar!Aligned(srcin, N) = srcin - (srcin % N)
      BY ScalarNames DEF Aligned
    <3>. QED
      BY <2>1, <3>1, <3>2
  <2>5. memchr_scalar!IInv
    BY <2>1, <2>4, ScalarNames DEF memchr_scalar!IInv, memchr_scalar!Footprint
  <2>. QED
    BY <1>5, <2>2, <2>5 DEF IInv, Strchrs
<1>. QED
  BY <1>1, <1>2, <1>3, <1>4, <1>5 DEF Init

\* No step changes a call's arguments.
LEMMA SameCall ==
    ASSUME Next
    PROVE  SameGiven /\ routine' = routine /\ chrin' = chrin /\ cntin' = cntin
<1>1. CASE Memchr
  BY <1>1 DEF Memchr, memchr!Next, memchr!ZeroLength, memchr!Aligned0, memchr!Entry, memchr!Loop,
     memchr!MaskLast, memchr!Tail, memchr!given, SameGiven
<1>2. CASE Strchr
  BY <1>2 DEF Strchr, strchr!Next, strchr!Aligned0, strchr!Entry, strchr!EntryNul, strchr!Loop,
     strchr!Tail, strchr!TailNul, strchr!given, SameGiven, counted
<1>3. CASE Strrchr
  BY <1>3 DEF Strrchr, strrchr!Next, strrchr!Aligned0, strrchr!Entry, strrchr!LoopTop,
     strrchr!AlignedHunk, strrchr!Tail, strrchr!given, SameGiven, counted
<1>4. CASE Strlen
  BY <1>4 DEF Strlen, strlen!Next, strlen!Entry, strlen!Bytes16_31, strlen!Loop, strlen!Found,
     strlen!PageCross, strlen!given, SameGiven, counted
<1>5. CASE MemchrScalarStep
  BY <1>5 DEF MemchrScalarStep, memchr_scalar!Next, memchr_scalar!ZeroLength, memchr_scalar!Entry,
     memchr_scalar!LoopStart, memchr_scalar!Loop, memchr_scalar!given, SameGiven
<1>. QED
  BY <1>1, <1>2, <1>3, <1>4, <1>5 DEF Next

\* The routine called is the one that goes on.
LEMMA NextIInv ==
    ASSUME ArgsOK, IInv, Next
    PROVE  ArgsOK' /\ IInv'
<1>1. SameGiven /\ routine' = routine /\ chrin' = chrin /\ cntin' = cntin
  BY SameCall
<1>2. ArgsOK'
  BY <1>1 DEF ArgsOK, GivenOK, CharOK, CountOK, SameGiven
<1>3. GivenOK /\ CharOK /\ (routine \in {"memchr", "memchr_scalar"} => CountOK)
  BY DEF ArgsOK
<1>4. CASE Memchr
  <2>1. routine = "memchr" /\ memchr!Next
    BY <1>4 DEF Memchr
  <2>2. memchr!IInv
    BY <2>1 DEF IInv
  <2>3. memchr!IInv'
    BY <1>3, <2>1, <2>2, MemchrInv
  <2>. QED
    BY <1>1, <1>2, <2>1, <2>3 DEF IInv, Strchrs
<1>5. CASE Strchr
  <2>1. routine \in Strchrs /\ strchr!Next
    BY <1>5 DEF Strchr
  <2>2. strchr!IInv
    BY <2>1 DEF IInv
  <2>3. strchr!IInv'
    BY <1>3, <2>1, <2>2, StrchrInv
  <2>. QED
    BY <1>1, <1>2, <2>1, <2>3 DEF IInv, Strchrs
<1>6. CASE Strrchr
  <2>1. routine = "strrchr" /\ strrchr!Next
    BY <1>6 DEF Strrchr
  <2>2. strrchr!IInv
    BY <2>1 DEF IInv
  <2>3. strrchr!IInv'
    BY <1>3, <2>1, <2>2, StrrchrInv
  <2>. QED
    BY <1>1, <1>2, <2>1, <2>3 DEF IInv, Strchrs
<1>7. CASE Strlen
  <2>1. routine = "strlen" /\ strlen!Next
    BY <1>7 DEF Strlen
  <2>2. strlen!IInv
    BY <2>1 DEF IInv
  <2>3. strlen!IInv'
    BY <1>3, <2>1, <2>2, StrlenInv
  <2>. QED
    BY <1>1, <1>2, <2>1, <2>3 DEF IInv, Strchrs
<1>8. CASE MemchrScalarStep
  <2>1. routine = "memchr_scalar" /\ memchr_scalar!Next
    BY <1>8 DEF MemchrScalarStep
  <2>2. memchr_scalar!IInv
    BY <2>1 DEF IInv
  <2>3. memchr_scalar!IInv'
    BY <1>3, <2>1, <2>2, ScalarInv
  <2>. QED
    BY <1>1, <1>2, <2>1, <2>3 DEF IInv, Strchrs
<1>. QED
  BY <1>2, <1>4, <1>5, <1>6, <1>7, <1>8 DEF Next

LEMMA StutterIInv ==
    ASSUME ArgsOK, IInv, UNCHANGED vars
    PROVE  ArgsOK' /\ IInv'
<1>1. /\ SameGiven /\ routine' = routine /\ chrin' = chrin /\ cntin' = cntin /\ cntrem' = cntrem
      /\ pc' = pc /\ src' = src /\ vdata' = vdata /\ rd' = rd /\ result' = result
      /\ vdata2' = vdata2 /\ left' = left /\ src_end' = src_end
      /\ synd' = synd /\ src_match' = src_match /\ chr_match' = chr_match
      /\ nul_match' = nul_match /\ src_offset' = src_offset
  BY DEF vars, SameGiven
<1>2. ArgsOK'
  BY <1>1 DEF ArgsOK, GivenOK, CharOK, CountOK, SameGiven
<1>3. memchr!IInv => memchr!IInv'
  <2>1. memchr!Match' = memchr!Match
    BY <1>1 DEF memchr!Match, memchr!First, memchr!Min, SameGiven
  <2>2. memchr!Answer' = memchr!Answer /\ memchr!Marked' = memchr!Marked
    BY <1>1, <2>1 DEF memchr!Answer, memchr!Marked, memchr!n, memchr!clz, memchr!rbit, memchr!Max,
       memchr!XBits, SameGiven
  <2>3. memchr!Footprint' <=> memchr!Footprint
    BY <1>1, <2>1 DEF memchr!Footprint, memchr!AtMost, memchr!Granules, memchr!n, SameGiven
  <2>. QED
    BY <1>1, <2>1, <2>2, <2>3 DEF memchr!IInv, memchr!Aligned, memchr!n, memchr!XBits, SameGiven
<1>4. strchr!IInv => strchr!IInv'
  <2>1. strchr!Match' = strchr!Match
    BY <1>1 DEF strchr!Match, strchr!First, strchr!Min, SameGiven
  <2>2. strchr!Answer' = strchr!Answer /\ (strchr!Footprint' <=> strchr!Footprint)
    BY <1>1, <2>1 DEF strchr!Answer, strchr!strchr, strchr!Footprint, strchr!Granules, SameGiven
  <2>3. strchr!clz(strchr!rbit(synd))' = strchr!clz(strchr!rbit(synd))
    BY <1>1 DEF strchr!clz, strchr!rbit, strchr!Max, strchr!XBits
  <2>. QED
    BY <1>1, <2>1, <2>2, <2>3 DEF strchr!IInv, strchr!Aligned, strchr!strchr, SameGiven
<1>5. strrchr!IInv => strrchr!IInv'
  <2>1. strrchr!Nul' = strrchr!Nul
    BY <1>1 DEF strrchr!Nul, strrchr!First, strrchr!Min, SameGiven
  <2>2. strrchr!Matches' = strrchr!Matches
    BY <1>1, <2>1 DEF strrchr!Matches, SameGiven
  <2>3. strrchr!Answer' = strrchr!Answer /\ (strrchr!Footprint' <=> strrchr!Footprint)
    BY <1>1, <2>1, <2>2 DEF strrchr!Answer, strrchr!Max, strrchr!Footprint, strrchr!Granules, SameGiven
  <2>4. strrchr!clz(src_offset)' = strrchr!clz(src_offset)
    BY <1>1 DEF strrchr!clz, strrchr!Max, strrchr!XBits
  <2>5. strrchr!LatestBefore(src)' <=> strrchr!LatestBefore(src)
    BY <1>1, <2>4 DEF strrchr!LatestBefore, SameGiven
  <2>6. strrchr!LatestBefore(src - 2 * W)' <=> strrchr!LatestBefore(src - 2 * W)
    BY <1>1, <2>4 DEF strrchr!LatestBefore, SameGiven
  <2>7. strrchr!MatchesOf(src - 2 * W)' = strrchr!MatchesOf(src - 2 * W)
    BY <1>1 DEF strrchr!MatchesOf, SameGiven
  <2>. QED
    BY <1>1, <2>1, <2>3, <2>5, <2>6, <2>7
       DEF strrchr!IInv, strrchr!Aligned, strrchr!Min, strrchr!XBits, SameGiven
<1>6. strlen!IInv => strlen!IInv'
  <2>1. strlen!Length' = strlen!Length
    BY <1>1 DEF strlen!Length, strlen!First, strlen!Min, SameGiven
  <2>2. strlen!Footprint' <=> strlen!Footprint
    BY <1>1, <2>1 DEF strlen!Footprint, strlen!Granules, SameGiven
  <2>3. strlen!MayCross' <=> strlen!MayCross
    BY <1>1 DEF strlen!MayCross, SameGiven
  <2>4. /\ strlen!ldrq(mem, src, big)' = strlen!ldrq(mem, src, big)
        /\ strlen!ldrq(mem, src + W, big)' = strlen!ldrq(mem, src + W, big)
    BY <1>1 DEF strlen!ldrq, strlen!Lanes, SameGiven
  <2>. QED
    BY <1>1, <2>1, <2>2, <2>3, <2>4 DEF strlen!IInv, SameGiven
<1>7. memchr_scalar!IInv => memchr_scalar!IInv'
  <2>1. memchr_scalar!Match' = memchr_scalar!Match
    BY <1>1 DEF memchr_scalar!Match, memchr_scalar!First, memchr_scalar!Min, SameGiven
  <2>2. memchr_scalar!Answer' = memchr_scalar!Answer /\ memchr_scalar!End' = memchr_scalar!End
    BY <1>1, <2>1 DEF memchr_scalar!Answer, memchr_scalar!End, SameGiven
  <2>3. memchr_scalar!Footprint' <=> memchr_scalar!Footprint
    BY <1>1, <2>1 DEF memchr_scalar!Footprint, memchr_scalar!AtMost, memchr_scalar!Granules,
       memchr_scalar!N, SameGiven
  <2>. QED
    BY <1>1, <2>1, <2>2, <2>3
       DEF memchr_scalar!IInv, memchr_scalar!Aligned, memchr_scalar!N, SameGiven
<1>. QED
  BY <1>1, <1>2, <1>3, <1>4, <1>5, <1>6, <1>7 DEF IInv, Strchrs

\* Before each step of any of the routines what it has passed over is free of what is
\* looked for, and the hunk a loop has ended at is the one that settles the answer.
THEOREM Invariance == Spec => []IInv
<1>1. Init => ArgsOK /\ IInv
  BY InitIInv
<1>2. (ArgsOK /\ IInv) /\ [Next]_vars => (ArgsOK /\ IInv)'
  BY NextIInv, StutterIInv
<1>. QED
  BY <1>1, <1>2, PTL DEF Spec

\* No routine loads a hunk or a word, nor strlen from a page, of which it may read no
\* byte: whatever the alignment, the size and the position of the byte that ends the
\* search.
THEOREM LoadsOnlyGranules == Spec => []Footprint
<1>1. IInv => Footprint
  BY DEF IInv, Footprint, memchr!IInv, strchr!IInv, strrchr!IInv, strlen!IInv,
     memchr_scalar!IInv
<1>. QED
  BY <1>1, Invariance, PTL

-----------------------------------------------------------------------------
(* All of them implement Search, but for its termination.                  *)

\* A search for which the byte that settles it is at stop: of the passed bytes none
\* follows it.
Within(stop, answer, passed) ==
    /\ stop \in Nat /\ answer \in Nat /\ passed \in Int /\ passed <= stop
    /\ pc = "entry" => passed = 0
    /\ pc = "ret" => passed = stop

LEMMA MemchrPassed ==
    ASSUME GivenOK, CharOK, CountOK, memchr!IInv
    PROVE  Within(memchr!Stop, memchr!Answer, memchr!Passed)
<1> DEFINE F == First(srcin, {chrin})
           Least(x) == IF x < cntin THEN x ELSE cntin
           After(a) == IF a < srcin THEN 0 ELSE a - srcin
<1>1. srcin \in Nat /\ F \in Nat /\ srcin <= F /\ W \in Nat /\ cntin \in Nat
  <2>1. chrin \in {chrin} /\ chrin \in Chars \cup {0}
    BY DEF CharOK
  <2>2. srcin \in Nat /\ IsFirst(F, srcin, {chrin})
    BY <2>1, ByteIs
  <2>. QED
    BY <2>2, WAssumption DEF IsFirst, CountOK
<1>2. memchr!Match = F
  BY MemchrNames DEF memchr!Match
<1>3. \A x : memchr!AtMost(x, cntin) = Least(x)
  BY DEF memchr!AtMost
<1> HIDE DEF F
<1>4. /\ src \in Int
      /\ pc \in {"entry", "loop", "masklast", "tail", "ret"}
      /\ pc = "loop" => srcin <= src /\ src <= F
      /\ pc \in {"masklast", "tail"} => src - 2 * W <= F /\ src - 2 * W < srcin + cntin
  BY <1>2 DEF memchr!IInv, memchr!n
<1>5. memchr!Stop = Least(F - srcin) /\ Least(F - srcin) \in Nat
  <2>1. Least(F - srcin) \in Nat
    BY <1>1
  <2> HIDE DEF Least
  <2>. QED
    BY <1>2, <1>3, <2>1 DEF memchr!Stop
<1>6. memchr!Answer \in Nat
  BY <1>1, <1>2 DEF memchr!Answer
<1>7. memchr!Passed = CASE pc = "entry" -> 0
            [] pc = "loop" -> Least(After(src))
            [] pc \in {"masklast", "tail"} -> After(src - 2 * W)
            [] pc = "ret" -> Least(F - srcin)
  <2> HIDE DEF Least
  <2>. QED
    BY <1>2, <1>3 DEF memchr!Passed, memchr!n
<1>8. memchr!Passed \in Int /\ memchr!Passed <= Least(F - srcin)
  BY <1>1, <1>4, <1>7
<1> HIDE DEF Least, After
<1>. QED
  BY <1>5, <1>6, <1>7, <1>8 DEF Within

LEMMA MemchrGrows ==
    ASSUME GivenOK, CountOK, memchr!IInv, memchr!Next, memchr!IInv',
           Within(memchr!Stop, memchr!Answer, memchr!Passed)
    PROVE  /\ pc # "ret" /\ memchr!Stop' = memchr!Stop /\ memchr!Answer' = memchr!Answer
           /\ memchr!Passed' >= memchr!Passed
           /\ pc' = "ret" => result' = memchr!Answer
<1> DEFINE L == memchr!AtMost(memchr!Match - srcin, cntin)
           p == memchr!Passed
           Least(x) == IF x < cntin THEN x ELSE cntin
           After(a) == IF a < srcin THEN 0 ELSE a - srcin
<1>1. srcin \in Nat /\ W \in Nat /\ W > 0 /\ cntin \in Nat
  BY PointersAssumption, WAssumption DEF GivenOK, CountOK
<1>2. SameGiven /\ pc # "ret" /\ chrin' = chrin /\ cntin' = cntin
  BY DEF SameGiven, memchr!Next, memchr!ZeroLength, memchr!Aligned0, memchr!Entry, memchr!Loop,
         memchr!MaskLast, memchr!Tail, memchr!given
<1>3. memchr!Match' = memchr!Match
  BY <1>2 DEF memchr!Match, memchr!First, memchr!Min, SameGiven
<1>4. L \in Nat /\ p \in Int /\ p <= L /\ (pc = "entry" => p = 0)
  BY DEF Within, memchr!Stop
<1>5. p = CASE pc = "entry" -> 0
            [] pc = "loop" -> Least(After(src))
            [] pc \in {"masklast", "tail"} -> After(src - 2 * W)
            [] pc = "ret" -> L
  BY DEF memchr!Passed, memchr!AtMost, memchr!n
<1>6. memchr!Passed' = CASE pc' = "entry" -> 0
            [] pc' = "loop" -> Least(After(src'))
            [] pc' \in {"masklast", "tail"} -> After(src' - 2 * W)
            [] pc' = "ret" -> L
  BY <1>2, <1>3 DEF memchr!Passed, memchr!AtMost, memchr!n, SameGiven
<1>7. src \in Int /\ src' \in Int /\ pc' \in {"entry", "loop", "masklast", "tail", "ret"}
  BY DEF memchr!IInv
<1>8. memchr!Stop' = memchr!Stop
  BY <1>2, <1>3 DEF memchr!Stop, memchr!AtMost, SameGiven
<1>9. memchr!Answer' = memchr!Answer
  BY <1>2, <1>3 DEF memchr!Answer, SameGiven
<1>10. pc' = "ret" => result' = memchr!Answer
  BY <1>9 DEF memchr!IInv
<1> HIDE DEF L, p
<1>11. memchr!Passed' >= p
  <2>1. CASE pc = "entry"
    <3>1. memchr!Passed' >= 0
      BY <1>1, <1>4, <1>6, <1>7
    <3>. QED
      BY <1>4, <2>1, <3>1
  <2>2. CASE memchr!Loop
    <3>1. pc = "loop" /\ src' = src + 2 * W /\ (pc' = "loop" \/ pc' = "masklast" \/ pc' = "tail")
      BY <2>2 DEF memchr!Loop, memchr!LoadHunk
    <3>2. src' - 2 * W = src
      BY <1>1, <1>7, <3>1
    <3>. QED
      BY <1>1, <1>4, <1>5, <1>6, <1>7, <3>1, <3>2
  <2>3. CASE memchr!MaskLast
    <3>1. pc = "masklast" /\ src' = src /\ pc' = "tail"
      BY <2>3 DEF memchr!MaskLast
    <3>. QED
      BY <1>1, <1>4, <1>5, <1>6, <1>7, <3>1
  <2>4. CASE memchr!Tail
    <3>1. pc' = "ret"
      BY <2>4 DEF memchr!Tail
    <3>. QED
      BY <1>4, <1>6, <3>1
  <2>. QED
    BY <2>1, <2>2, <2>3, <2>4 DEF memchr!Next, memchr!ZeroLength, memchr!Aligned0, memchr!Entry
<1>. QED
  BY <1>2, <1>8, <1>9, <1>10, <1>11 DEF p

LEMMA StrchrPassed ==
    ASSUME GivenOK, CharOK, strchr!IInv
    PROVE  Within(strchr!Stop, strchr!Answer, strchr!Passed)
<1> DEFINE F == First(srcin, {chrin, 0})
           After(a) == IF a < srcin THEN 0 ELSE a - srcin
<1>1. srcin \in Nat /\ F \in Nat /\ srcin <= F /\ W \in Nat
  BY ByteIs, WAssumption DEF IsFirst
<1>2. strchr!Match = F
  BY StrchrNames DEF strchr!Match
<1> HIDE DEF F
<1>3. /\ src \in Int
      /\ pc \in {"entry", "loop", "tail", "ret"}
      /\ pc = "loop" => srcin <= src /\ src <= F
      /\ pc = "tail" => src - 2 * W <= F
  BY <1>2 DEF strchr!IInv
<1>4. strchr!Answer \in Nat
  BY <1>1, <1>2 DEF strchr!Answer
<1>5. strchr!Passed = CASE pc = "entry" -> 0
            [] pc = "loop" -> After(src)
            [] pc = "tail" -> After(src - 2 * W)
            [] pc = "ret" -> F - srcin
  BY <1>2 DEF strchr!Passed
<1>. QED
  BY <1>1, <1>2, <1>3, <1>4, <1>5 DEF Within, strchr!Stop

LEMMA StrchrGrows ==
    ASSUME GivenOK, strchr!IInv, strchr!Next, strchr!IInv',
           Within(strchr!Stop, strchr!Answer, strchr!Passed)
    PROVE  /\ pc # "ret" /\ strchr!Stop' = strchr!Stop /\ strchr!Answer' = strchr!Answer
           /\ strchr!Passed' >= strchr!Passed
           /\ pc' = "ret" => result' = strchr!Answer
<1> DEFINE L == strchr!Match - srcin
           p == strchr!Passed
           After(a) == IF a < srcin THEN 0 ELSE a - srcin
<1>1. srcin \in Nat /\ W \in Nat /\ W > 0
  BY PointersAssumption, WAssumption DEF GivenOK
<1>2. SameGiven /\ pc # "ret" /\ chrin' = chrin /\ routine' = routine
  BY DEF SameGiven, strchr!Next, strchr!Aligned0, strchr!Entry, strchr!EntryNul, strchr!Loop,
         strchr!Tail, strchr!TailNul, strchr!given
<1>3. strchr!Match' = strchr!Match
  BY <1>2 DEF strchr!Match, strchr!First, strchr!Min, SameGiven
<1>4. L \in Nat /\ p \in Int /\ p <= L /\ (pc = "entry" => p = 0)
  BY DEF Within, strchr!Stop
<1>5. p = CASE pc = "entry" -> 0
            [] pc = "loop" -> After(src)
            [] pc = "tail" -> After(src - 2 * W)
            [] pc = "ret" -> L
  BY DEF strchr!Passed
<1>6. strchr!Passed' = CASE pc' = "entry" -> 0
            [] pc' = "loop" -> After(src')
            [] pc' = "tail" -> After(src' - 2 * W)
            [] pc' = "ret" -> L
  BY <1>2, <1>3 DEF strchr!Passed, SameGiven
<1>7. src \in Int /\ src' \in Int /\ pc' \in {"entry", "loop", "tail", "ret"}
  BY DEF strchr!IInv
<1>8. strchr!Answer' = strchr!Answer
  BY <1>2, <1>3 DEF strchr!Answer, strchr!strchr, SameGiven
<1>9. pc' = "ret" => result' = strchr!Answer
  BY <1>8 DEF strchr!IInv
<1>10. strchr!Stop' = strchr!Stop
  BY <1>2, <1>3 DEF strchr!Stop, SameGiven
<1> HIDE DEF L, p
<1>11. strchr!Passed' >= p
  <2>1. CASE pc = "entry"
    <3>1. strchr!Passed' >= 0
      BY <1>1, <1>4, <1>6, <1>7
    <3>. QED
      BY <1>4, <2>1, <3>1
  <2>2. CASE strchr!Loop
    <3>1. pc = "loop" /\ src' = src + 2 * W /\ (pc' = "loop" \/ pc' = "tail")
      BY <2>2 DEF strchr!Loop, strchr!LoadHunk
    <3>2. src' - 2 * W = src
      BY <1>1, <1>7, <3>1
    <3>. QED
      BY <1>1, <1>4, <1>5, <1>6, <1>7, <3>1, <3>2
  <2>3. CASE strchr!Tail \/ strchr!TailNul
    <3>1. pc' = "ret"
      BY <2>3 DEF strchr!Tail, strchr!TailNul
    <3>. QED
      BY <1>4, <1>6, <3>1
  <2>. QED
    BY <2>1, <2>2, <2>3 DEF strchr!Next, strchr!Aligned0, strchr!Entry, strchr!EntryNul
<1>. QED
  BY <1>2, <1>8, <1>9, <1>10, <1>11 DEF p

LEMMA StrrchrPassed ==
    ASSUME GivenOK, CharOK, strrchr!IInv
    PROVE  Within(strrchr!Stop, strrchr!Answer, strrchr!Passed)
<1> DEFINE Z == First(srcin, {0})
           After(a) == IF a < srcin THEN 0 ELSE a - srcin
<1>1. srcin \in Nat /\ Z \in Nat /\ srcin <= Z /\ W \in Nat
  BY ByteIs, WAssumption DEF IsFirst
<1>2. strrchr!Nul = Z
  BY StrrchrNames DEF strrchr!Nul
<1> HIDE DEF Z
<1>3. /\ src \in Int
      /\ pc \in {"entry", "loop", "aligned", "tail", "ret"}
      /\ pc \in {"loop", "aligned"} => src <= Z
      /\ pc = "tail" => src - 2 * W <= Z
  BY <1>2 DEF strrchr!IInv
<1>4. strrchr!Answer \in Nat
  <2> DEFINE M == {x \in srcin .. Z : mem[x] = chrin}
  <2>1. strrchr!Answer = IF M = {} THEN 0 ELSE Max(M)
    BY <1>2, StrrchrNames DEF strrchr!Answer, strrchr!Matches
  <2>2. ASSUME M # {} PROVE Max(M) \in M
    <3>1. M \subseteq 0 .. Z /\ Z \in Int
      BY <1>1
    <3>. QED
      BY <1>1, <2>2, <3>1, MaxExists
  <2>3. M \subseteq Nat
    BY <1>1
  <2>. QED
    BY <2>1, <2>2, <2>3
<1>5. strrchr!Passed = CASE pc = "entry" -> 0
            [] pc \in {"loop", "aligned"} -> After(src)
            [] pc = "tail" -> After(src - 2 * W)
            [] pc = "ret" -> Z - srcin
  BY <1>2 DEF strrchr!Passed
<1>. QED
  BY <1>1, <1>2, <1>3, <1>4, <1>5 DEF Within, strrchr!Stop

LEMMA StrrchrGrows ==
    ASSUME GivenOK, strrchr!IInv, strrchr!Next, strrchr!IInv',
           Within(strrchr!Stop, strrchr!Answer, strrchr!Passed)
    PROVE  /\ pc # "ret" /\ strrchr!Stop' = strrchr!Stop /\ strrchr!Answer' = strrchr!Answer
           /\ strrchr!Passed' >= strrchr!Passed
           /\ pc' = "ret" => result' = strrchr!Answer
<1> DEFINE L == strrchr!Nul - srcin
           p == strrchr!Passed
           After(a) == IF a < srcin THEN 0 ELSE a - srcin
<1>1. srcin \in Nat /\ W \in Nat /\ W > 0
  BY PointersAssumption, WAssumption DEF GivenOK
<1>2. SameGiven /\ pc # "ret" /\ chrin' = chrin
  BY DEF SameGiven, strrchr!Next, strrchr!Aligned0, strrchr!Entry, strrchr!LoopTop,
         strrchr!AlignedHunk, strrchr!Tail, strrchr!given
<1>3. strrchr!Nul' = strrchr!Nul
  BY <1>2 DEF strrchr!Nul, strrchr!First, strrchr!Min, SameGiven
<1>4. L \in Nat /\ p \in Int /\ p <= L /\ (pc = "entry" => p = 0)
  BY DEF Within, strrchr!Stop
<1>5. p = CASE pc = "entry" -> 0
            [] pc \in {"loop", "aligned"} -> After(src)
            [] pc = "tail" -> After(src - 2 * W)
            [] pc = "ret" -> L
  BY DEF strrchr!Passed
<1>6. strrchr!Passed' = CASE pc' = "entry" -> 0
            [] pc' \in {"loop", "aligned"} -> After(src')
            [] pc' = "tail" -> After(src' - 2 * W)
            [] pc' = "ret" -> L
  BY <1>2, <1>3 DEF strrchr!Passed, SameGiven
<1>7. src \in Int /\ src' \in Int /\ pc' \in {"entry", "loop", "aligned", "tail", "ret"}
  BY DEF strrchr!IInv
<1>8. strrchr!Matches' = strrchr!Matches
  BY <1>2, <1>3 DEF strrchr!Matches, SameGiven
<1>9. strrchr!Answer' = strrchr!Answer
  BY <1>8 DEF strrchr!Answer, strrchr!Max
<1>10. pc' = "ret" => result' = strrchr!Answer
  BY <1>9 DEF strrchr!IInv
<1>11. strrchr!Stop' = strrchr!Stop
  BY <1>2, <1>3 DEF strrchr!Stop, SameGiven
<1> HIDE DEF L, p
<1>12. strrchr!Passed' >= p
  <2>1. CASE pc = "entry"
    <3>1. strrchr!Passed' >= 0
      BY <1>1, <1>4, <1>6, <1>7
    <3>. QED
      BY <1>4, <2>1, <3>1
  <2>2. CASE strrchr!LoopTop
    <3>1. pc = "loop" /\ src' = src /\ pc' = "aligned"
      BY <2>2 DEF strrchr!LoopTop
    <3>. QED
      BY <1>1, <1>4, <1>5, <1>6, <1>7, <3>1
  <2>3. CASE strrchr!AlignedHunk
    <3>1. pc = "aligned" /\ src' = src + 2 * W /\ (pc' = "loop" \/ pc' = "tail")
      BY <2>3 DEF strrchr!AlignedHunk, strrchr!LoadHunk
    <3>2. src' - 2 * W = src
      BY <1>1, <1>7, <3>1
    <3>. QED
      BY <1>1, <1>4, <1>5, <1>6, <1>7, <3>1, <3>2
  <2>4. CASE strrchr!Tail
    <3>1. pc' = "ret"
      BY <2>4 DEF strrchr!Tail
    <3>. QED
      BY <1>4, <1>6, <3>1
  <2>. QED
    BY <2>1, <2>2, <2>3, <2>4 DEF strrchr!Next, strrchr!Aligned0, strrchr!Entry
<1>. QED
  BY <1>2, <1>9, <1>10, <1>11, <1>12 DEF p

LEMMA StrlenPassed ==
    ASSUME GivenOK, strlen!IInv
    PROVE  Within(strlen!Stop, strlen!Answer, strlen!Passed)
<1> DEFINE F == First(srcin, {0})
           Before(a) == IF strlen!MayCross \/ a - srcin > 2 * W THEN a - srcin ELSE 2 * W
<1>1. srcin \in Nat /\ F \in Nat /\ srcin <= F /\ W \in Nat
  BY ByteIs, WAssumption DEF IsFirst
<1>2. strlen!Length = F - srcin
  BY StrlenNames DEF strlen!Length
<1> HIDE DEF F
<1>3. /\ pc \in {"entry", "bytes16_31", "page_cross", "loop", "found", "ret"}
      /\ pc = "bytes16_31" => W <= F - srcin
      /\ pc = "loop" => /\ src \in Int /\ (src + 2 * W) - srcin <= F - srcin
                        /\ strlen!MayCross \/ 2 * W <= F - srcin
      /\ pc = "found" => /\ src \in Int /\ src - srcin <= F - srcin
                         /\ strlen!MayCross \/ 2 * W <= F - srcin
  BY <1>2 DEF strlen!IInv
<1>4. strlen!Passed = CASE pc \in {"entry", "page_cross"} -> 0
            [] pc = "bytes16_31" -> W
            [] pc = "loop" -> Before(src + 2 * W)
            [] pc = "found" -> Before(src)
            [] pc = "ret" -> F - srcin
  BY <1>2 DEF strlen!Passed, strlen!Before, strlen!MayCross
<1>5. strlen!Passed \in Int /\ strlen!Passed <= F - srcin
  BY <1>1, <1>3, <1>4
<1> HIDE DEF Before
<1>6. strlen!Stop = F - srcin /\ strlen!Answer = F - srcin /\ F - srcin \in Nat
  BY <1>1, <1>2 DEF strlen!Stop, strlen!Answer
<1>7. pc = "entry" => strlen!Passed = 0
  BY <1>4
<1>8. pc = "ret" => strlen!Passed = F - srcin
  BY <1>4
<1>. QED
  BY <1>5, <1>6, <1>7, <1>8 DEF Within

LEMMA StrlenGrows ==
    ASSUME GivenOK, strlen!IInv, strlen!Next, strlen!IInv',
           Within(strlen!Stop, strlen!Answer, strlen!Passed)
    PROVE  /\ pc # "ret" /\ strlen!Stop' = strlen!Stop /\ strlen!Answer' = strlen!Answer
           /\ strlen!Passed' >= strlen!Passed
           /\ pc' = "ret" => result' = strlen!Answer
<1> DEFINE L == strlen!Length
           p == strlen!Passed
           Before(a) == IF strlen!MayCross \/ a - srcin > 2 * W THEN a - srcin ELSE 2 * W
<1>1. srcin \in Nat /\ W \in Nat /\ W > 0
  BY PointersAssumption, WAssumption DEF GivenOK
<1>2. SameGiven /\ pc # "ret"
  BY DEF SameGiven, strlen!Next, strlen!Entry, strlen!Bytes16_31, strlen!Loop, strlen!Found,
         strlen!PageCross, strlen!given
<1>3. strlen!Length' = L /\ (strlen!MayCross' <=> strlen!MayCross)
  BY <1>2 DEF strlen!Length, strlen!First, strlen!Min, strlen!MayCross, SameGiven
<1>4. L \in Nat /\ p \in Int /\ p <= L
  BY DEF Within, strlen!Stop
<1>5. p = CASE pc \in {"entry", "page_cross"} -> 0
            [] pc = "bytes16_31" -> W
            [] pc = "loop" -> Before(src + 2 * W)
            [] pc = "found" -> Before(src)
            [] pc = "ret" -> L
  BY DEF strlen!Passed, strlen!Before, strlen!MayCross
<1>6. strlen!Passed' = CASE pc' \in {"entry", "page_cross"} -> 0
            [] pc' = "bytes16_31" -> W
            [] pc' = "loop" -> Before(src' + 2 * W)
            [] pc' = "found" -> Before(src')
            [] pc' = "ret" -> L
  BY <1>2, <1>3 DEF strlen!Passed, strlen!Before, strlen!MayCross, SameGiven
<1>7. /\ pc = "loop" => src \in Int
      /\ pc = "bytes16_31" => ~strlen!MayCross
      /\ pc' = "loop" => src' \in Int /\ srcin < src' + 2 * W
  BY <1>2 DEF strlen!IInv, SameGiven
<1>8. pc' = "ret" => result' = L
  BY <1>3 DEF strlen!IInv
<1> HIDE DEF L, p
<1>9. strlen!Passed' >= p
  <2>1. CASE strlen!Entry
    <3>1. pc = "entry" /\ (pc' = "page_cross" \/ pc' = "bytes16_31" \/ pc' = "ret")
      BY <2>1 DEF strlen!Entry, strlen!TwoWords
    <3>. QED
      BY <1>1, <1>4, <1>5, <1>6, <3>1
  <2>2. CASE strlen!Bytes16_31
    <3>1. pc = "bytes16_31" /\ (pc' = "loop" \/ pc' = "ret")
      BY <2>2 DEF strlen!Bytes16_31, strlen!TwoWords
    <3>. QED
      BY <1>1, <1>4, <1>5, <1>6, <1>7, <3>1
  <2>3. CASE strlen!Loop
    <3>1. pc = "loop" /\ src' = src + 2 * W /\ (pc' = "loop" \/ pc' = "found")
      BY <2>3 DEF strlen!Loop
    <3>. QED
      BY <1>1, <1>4, <1>5, <1>6, <1>7, <3>1
  <2>4. CASE strlen!Found
    <3>1. pc' = "ret"
      BY <2>4 DEF strlen!Found
    <3>. QED
      BY <1>4, <1>6, <3>1
  <2>5. CASE strlen!PageCross
    <3>1. pc = "page_cross" /\ (pc' = "loop" \/ pc' = "ret")
      BY <2>5 DEF strlen!PageCross
    <3>. QED
      BY <1>1, <1>4, <1>5, <1>6, <1>7, <3>1
  <2>. QED
    BY <2>1, <2>2, <2>3, <2>4, <2>5 DEF strlen!Next
<1>. QED
  BY <1>2, <1>3, <1>8, <1>9 DEF p, L, strlen!Stop, strlen!Answer

LEMMA ScalarPassed ==
    ASSUME GivenOK, CharOK, CountOK, memchr_scalar!IInv
    PROVE  Within(memchr_scalar!Stop, memchr_scalar!Answer, memchr_scalar!Passed)
<1> DEFINE F == First(srcin, {chrin})
           Least(x) == IF x < cntin THEN x ELSE cntin
<1>1. srcin \in Nat /\ F \in Nat /\ srcin <= F /\ cntin \in Nat
  <2>1. chrin \in {chrin} /\ chrin \in Chars \cup {0}
    BY DEF CharOK
  <2>2. srcin \in Nat /\ IsFirst(F, srcin, {chrin})
    BY <2>1, ByteIs
  <2>. QED
    BY <2>2 DEF IsFirst, CountOK
<1>2. memchr_scalar!Match = F
  BY DEF memchr_scalar!Match, memchr_scalar!First, memchr_scalar!Min, First, Min
<1>3. \A x : memchr_scalar!AtMost(x, cntin) = Least(x)
  BY DEF memchr_scalar!AtMost
<1> HIDE DEF F
<1>4. /\ src \in Int
      /\ pc \in {"entry", "loop_start", "loop", "ret"}
      /\ pc \in {"loop_start", "loop"} => src <= F
  BY <1>2 DEF memchr_scalar!IInv
<1>5. memchr_scalar!Stop = Least(F - srcin) /\ Least(F - srcin) \in Nat
  <2>1. Least(F - srcin) \in Nat
    BY <1>1
  <2> HIDE DEF Least
  <2>. QED
    BY <1>2, <1>3, <2>1 DEF memchr_scalar!Stop
<1>6. memchr_scalar!Answer \in Nat
  BY <1>1, <1>2 DEF memchr_scalar!Answer
<1>7. memchr_scalar!Passed = CASE pc = "entry" -> 0
            [] pc \in {"loop_start", "loop"} -> Least(src - srcin)
            [] pc = "ret" -> Least(F - srcin)
  <2> HIDE DEF Least
  <2>. QED
    BY <1>2, <1>3 DEF memchr_scalar!Passed
<1>8. memchr_scalar!Passed \in Int /\ memchr_scalar!Passed <= Least(F - srcin)
  BY <1>1, <1>4, <1>7
<1> HIDE DEF Least
<1>. QED
  BY <1>5, <1>6, <1>7, <1>8 DEF Within

LEMMA ScalarGrows ==
    ASSUME GivenOK, CountOK, memchr_scalar!IInv, memchr_scalar!Next, memchr_scalar!IInv',
           Within(memchr_scalar!Stop, memchr_scalar!Answer, memchr_scalar!Passed)
    PROVE  /\ pc # "ret" /\ memchr_scalar!Stop' = memchr_scalar!Stop
           /\ memchr_scalar!Answer' = memchr_scalar!Answer
           /\ memchr_scalar!Passed' >= memchr_scalar!Passed
           /\ pc' = "ret" => result' = memchr_scalar!Answer
<1> DEFINE L == memchr_scalar!AtMost(memchr_scalar!Match - srcin, cntin)
           p == memchr_scalar!Passed
           Least(x) == IF x < cntin THEN x ELSE cntin
<1>1. srcin \in Nat /\ N \in Nat /\ N > 0 /\ cntin \in Nat
  BY PointersAssumption, WordSize DEF GivenOK, CountOK
<1>2. SameGiven /\ pc # "ret" /\ chrin' = chrin /\ cntin' = cntin
  BY DEF SameGiven, memchr_scalar!Next, memchr_scalar!ZeroLength, memchr_scalar!Entry,
         memchr_scalar!LoopStart, memchr_scalar!Loop, memchr_scalar!given
<1>3. memchr_scalar!Match' = memchr_scalar!Match
  BY <1>2 DEF memchr_scalar!Match, memchr_scalar!First, memchr_scalar!Min, SameGiven
<1>4. L \in Nat /\ p \in Int /\ p <= L
  BY DEF Within, memchr_scalar!Stop
<1>5. p = CASE pc = "entry" -> 0
            [] pc \in {"loop_start", "loop"} -> Least(src - srcin)
            [] pc = "ret" -> L
  BY DEF memchr_scalar!Passed, memchr_scalar!AtMost
<1>6. memchr_scalar!Passed' = CASE pc' = "entry" -> 0
            [] pc' \in {"loop_start", "loop"} -> Least(src' - srcin)
            [] pc' = "ret" -> L
  BY <1>2, <1>3 DEF memchr_scalar!Passed, memchr_scalar!AtMost, SameGiven
<1>7. /\ src \in Int /\ src' \in Int
      /\ pc' \in {"loop_start", "loop"} => srcin < src'
  BY <1>2 DEF memchr_scalar!IInv, SameGiven
<1>8. memchr_scalar!Stop' = memchr_scalar!Stop
  BY <1>2, <1>3 DEF memchr_scalar!Stop, memchr_scalar!AtMost, SameGiven
<1>9. memchr_scalar!Answer' = memchr_scalar!Answer
  BY <1>2, <1>3 DEF memchr_scalar!Answer, SameGiven
<1>10. pc' = "ret" => result' = memchr_scalar!Answer
  BY <1>9 DEF memchr_scalar!IInv
<1> HIDE DEF L, p
<1>11. memchr_scalar!Passed' >= p
  <2>1. CASE memchr_scalar!ZeroLength
    <3>1. pc' = "ret"
      BY <2>1 DEF memchr_scalar!ZeroLength, memchr_scalar!NoMatch
    <3>. QED
      BY <1>4, <1>6, <3>1
  <2>2. CASE memchr_scalar!Entry
    <3>1. pc = "entry" /\ (pc' = "loop_start" \/ pc' = "ret")
      BY <2>2 DEF memchr_scalar!Entry
    <3>. QED
      BY <1>1, <1>4, <1>5, <1>6, <1>7, <3>1
  <2>3. CASE memchr_scalar!LoopStart
    <3>1. pc = "loop_start" /\ src' = src /\ pc' = "loop"
      BY <2>3 DEF memchr_scalar!LoopStart
    <3>. QED
      BY <1>1, <1>4, <1>5, <1>6, <1>7, <3>1
  <2>4. CASE memchr_scalar!Loop
    <3>1. pc = "loop" /\ (pc' = "ret" \/ (pc' = "loop" /\ src' = src + N))
      BY <2>4, ScalarNames DEF memchr_scalar!Loop, memchr_scalar!NoMatch
    <3>. QED
      BY <1>1, <1>4, <1>5, <1>6, <1>7, <3>1
  <2>. QED
    BY <2>1, <2>2, <2>3, <2>4 DEF memchr_scalar!Next
<1>. QED
  BY <1>2, <1>8, <1>9, <1>10, <1>11 DEF p

PassedInv == Within(Stop, Answer, Passed)

\* So is a call of any of them, where its invariant holds.
LEMMA PassedIs ==
    ASSUME ArgsOK, IInv
    PROVE  PassedInv
<1>1. GivenOK /\ CharOK /\ (routine \in {"memchr", "memchr_scalar"} => CountOK)
  BY DEF ArgsOK
<1>2. CASE routine = "memchr"
  <2>1. Stop = memchr!Stop /\ Answer = memchr!Answer /\ Passed = memchr!Passed /\ memchr!IInv
    BY <1>2 DEF IInv, Stop, Answer, Passed, Strchrs
  <2>. QED
    BY <1>1, <1>2, <2>1, MemchrPassed DEF PassedInv
<1>3. CASE routine \in Strchrs
  <2>1. Stop = strchr!Stop /\ Answer = strchr!Answer /\ Passed = strchr!Passed /\ strchr!IInv
    BY <1>3 DEF IInv, Stop, Answer, Passed, Strchrs
  <2>. QED
    BY <1>1, <2>1, StrchrPassed DEF PassedInv
<1>4. CASE routine = "strrchr"
  <2>1. Stop = strrchr!Stop /\ Answer = strrchr!Answer /\ Passed = strrchr!Passed /\ strrchr!IInv
    BY <1>4 DEF IInv, Stop, Answer, Passed, Strchrs
  <2>. QED
    BY <1>1, <2>1, StrrchrPassed DEF PassedInv
<1>5. CASE routine = "strlen"
  <2>1. Stop = strlen!Stop /\ Answer = strlen!Answer /\ Passed = strlen!Passed /\ strlen!IInv
    BY <1>5 DEF IInv, Stop, Answer, Passed, Strchrs
  <2>. QED
    BY <1>1, <2>1, StrlenPassed DEF PassedInv
<1>6. CASE routine = "memchr_scalar"
  <2>1. /\ Stop = memchr_scalar!Stop /\ Answer = memchr_scalar!Answer
        /\ Passed = memchr_scalar!Passed /\ memchr_scalar!IInv
    BY <1>6 DEF IInv, Stop, Answer, Passed, Strchrs
  <2>. QED
    BY <1>1, <1>6, <2>1, ScalarPassed DEF PassedInv
<1>. QED
  BY <1>2, <1>3, <1>4, <1>5, <1>6 DEF ArgsOK, Routines

\* A step passes over some bytes, or replies.
LEMMA PassedGrows ==
    ASSUME ArgsOK, IInv, PassedInv, Next, IInv'
    PROVE  /\ pc # "ret" /\ Stop' = Stop /\ Answer' = Answer /\ Passed' >= Passed
           /\ pc' = "ret" => result' = Answer
<1>1. GivenOK /\ (routine \in {"memchr", "memchr_scalar"} => CountOK)
  BY DEF ArgsOK
<1>2. routine' = routine
  BY SameCall
<1>3. CASE Memchr
  <2>1. routine = "memchr" /\ memchr!Next
    BY <1>3 DEF Memchr
  <2>2. memchr!IInv /\ memchr!IInv'
    BY <1>2, <2>1 DEF IInv
  <2>3. /\ Stop = memchr!Stop /\ Answer = memchr!Answer /\ Passed = memchr!Passed
        /\ Stop' = memchr!Stop' /\ Answer' = memchr!Answer' /\ Passed' = memchr!Passed'
    BY <1>2, <2>1 DEF Stop, Answer, Passed, Strchrs
  <2>. QED
    BY <1>1, <2>1, <2>2, <2>3, MemchrGrows DEF PassedInv
<1>4. CASE Strchr
  <2>1. routine \in Strchrs /\ strchr!Next
    BY <1>4 DEF Strchr
  <2>2. strchr!IInv /\ strchr!IInv'
    BY <1>2, <2>1 DEF IInv
  <2>3. /\ Stop = strchr!Stop /\ Answer = strchr!Answer /\ Passed = strchr!Passed
        /\ Stop' = strchr!Stop' /\ Answer' = strchr!Answer' /\ Passed' = strchr!Passed'
    BY <1>2, <2>1 DEF Stop, Answer, Passed, Strchrs
  <2>. QED
    BY <1>1, <2>1, <2>2, <2>3, StrchrGrows DEF PassedInv
<1>5. CASE Strrchr
  <2>1. routine = "strrchr" /\ strrchr!Next
    BY <1>5 DEF Strrchr
  <2>2. strrchr!IInv /\ strrchr!IInv'
    BY <1>2, <2>1 DEF IInv
  <2>3. /\ Stop = strrchr!Stop /\ Answer = strrchr!Answer /\ Passed = strrchr!Passed
        /\ Stop' = strrchr!Stop' /\ Answer' = strrchr!Answer' /\ Passed' = strrchr!Passed'
    BY <1>2, <2>1 DEF Stop, Answer, Passed, Strchrs
  <2>. QED
    BY <1>1, <2>1, <2>2, <2>3, StrrchrGrows DEF PassedInv
<1>6. CASE Strlen
  <2>1. routine = "strlen" /\ strlen!Next
    BY <1>6 DEF Strlen
  <2>2. strlen!IInv /\ strlen!IInv'
    BY <1>2, <2>1 DEF IInv
  <2>3. /\ Stop = strlen!Stop /\ Answer = strlen!Answer /\ Passed = strlen!Passed
        /\ Stop' = strlen!Stop' /\ Answer' = strlen!Answer' /\ Passed' = strlen!Passed'
    BY <1>2, <2>1 DEF Stop, Answer, Passed, Strchrs
  <2>. QED
    BY <1>1, <2>1, <2>2, <2>3, StrlenGrows DEF PassedInv
<1>7. CASE MemchrScalarStep
  <2>1. routine = "memchr_scalar" /\ memchr_scalar!Next
    BY <1>7 DEF MemchrScalarStep
  <2>2. memchr_scalar!IInv /\ memchr_scalar!IInv'
    BY <1>2, <2>1 DEF IInv
  <2>3. /\ Stop = memchr_scalar!Stop /\ Answer = memchr_scalar!Answer /\ Passed = memchr_scalar!Passed
        /\ Stop' = memchr_scalar!Stop' /\ Answer' = memchr_scalar!Answer' /\ Passed' = memchr_scalar!Passed'
    BY <1>2, <2>1 DEF Stop, Answer, Passed, Strchrs
  <2>. QED
    BY <1>1, <2>1, <2>2, <2>3, ScalarGrows DEF PassedInv
<1>. QED
  BY <1>3, <1>4, <1>5, <1>6, <1>7 DEF Next

LEMMA NextSearches ==
    ASSUME ArgsOK, IInv, PassedInv, Next, IInv', PassedInv'
    PROVE  [S!Next]_(S!vars)
<1>1. /\ pc # "ret" /\ Stop' = Stop /\ Answer' = Answer /\ Passed' >= Passed
      /\ pc' = "ret" => result' = Answer
  BY PassedGrows
<1>2. Passed \in Int /\ Passed' \in Int /\ Passed' <= Stop
  BY <1>1 DEF PassedInv, Within
<1>3. CASE pc' = "ret"
  <2>1. S!Reply
    BY <1>1, <1>2, <1>3 DEF S!Reply
  <2>. QED
    BY <2>1 DEF S!Next
<1>4. CASE pc' # "ret" /\ Passed' > Passed
  <2>1. S!Look
    BY <1>1, <1>2, <1>4 DEF S!Look
  <2>. QED
    BY <2>1 DEF S!Next
<1>5. CASE pc' # "ret" /\ ~(Passed' > Passed)
  <2>1. Passed' = Passed
    BY <1>1, <1>2, <1>5
  <2>2. UNCHANGED S!vars
    BY <1>1, <1>5, <2>1 DEF S!vars
  <2>. QED
    BY <2>2
<1>. QED
  BY <1>3, <1>4, <1>5

LEMMA StutterSearches ==
    ASSUME UNCHANGED vars
    PROVE  UNCHANGED S!vars
<1>1. /\ SameGiven /\ routine' = routine /\ chrin' = chrin /\ cntin' = cntin
      /\ pc' = pc /\ src' = src /\ result' = result
  BY DEF vars, SameGiven
<1>2. memchr!Stop' = memchr!Stop /\ memchr!Answer' = memchr!Answer /\ memchr!Passed' = memchr!Passed
  <2>1. memchr!Match' = memchr!Match
    BY <1>1 DEF memchr!Match, memchr!First, memchr!Min, SameGiven
  <2>. QED
    BY <1>1, <2>1 DEF memchr!Stop, memchr!Answer, memchr!Passed, memchr!AtMost, memchr!n, SameGiven
<1>3. strchr!Stop' = strchr!Stop /\ strchr!Answer' = strchr!Answer /\ strchr!Passed' = strchr!Passed
  BY <1>1 DEF strchr!Stop, strchr!Answer, strchr!Passed, strchr!Match, strchr!strchr,
     strchr!First, strchr!Min, SameGiven
<1>4. /\ strrchr!Stop' = strrchr!Stop /\ strrchr!Answer' = strrchr!Answer
      /\ strrchr!Passed' = strrchr!Passed
  <2>1. strrchr!Nul' = strrchr!Nul
    BY <1>1 DEF strrchr!Nul, strrchr!First, strrchr!Min, SameGiven
  <2>2. strrchr!Matches' = strrchr!Matches
    BY <1>1, <2>1 DEF strrchr!Matches, SameGiven
  <2>. QED
    BY <1>1, <2>1, <2>2 DEF strrchr!Stop, strrchr!Answer, strrchr!Passed, strrchr!Max, SameGiven
<1>5. strlen!Stop' = strlen!Stop /\ strlen!Answer' = strlen!Answer /\ strlen!Passed' = strlen!Passed
  <2>1. strlen!Length' = strlen!Length
    BY <1>1 DEF strlen!Length, strlen!First, strlen!Min, SameGiven
  <2>. QED
    BY <1>1, <2>1 DEF strlen!Stop, strlen!Answer, strlen!Passed, strlen!Before, SameGiven
<1>6. /\ memchr_scalar!Stop' = memchr_scalar!Stop /\ memchr_scalar!Answer' = memchr_scalar!Answer
      /\ memchr_scalar!Passed' = memchr_scalar!Passed
  <2>1. memchr_scalar!Match' = memchr_scalar!Match
    BY <1>1 DEF memchr_scalar!Match, memchr_scalar!First, memchr_scalar!Min, SameGiven
  <2>. QED
    BY <1>1, <2>1 DEF memchr_scalar!Stop, memchr_scalar!Answer, memchr_scalar!Passed,
       memchr_scalar!AtMost, SameGiven
<1>7. Stop' = Stop
  BY <1>1, <1>2, <1>3, <1>4, <1>5, <1>6 DEF Stop
<1>8. Answer' = Answer
  BY <1>1, <1>2, <1>3, <1>4, <1>5, <1>6 DEF Answer
<1>9. Passed' = Passed
  BY <1>1, <1>2, <1>3, <1>4, <1>5, <1>6 DEF Passed
<1>. QED
  BY <1>1, <1>7, <1>8, <1>9 DEF S!vars

\* Each of the routines looks at the bytes in order, passes over none, gets no further
\* than the one that settles the answer and returns what the C standard says: for every
\* alignment, size and character and in both byte orders.  That it does return is left
\* to the model checker.
THEOREM StepsSearch == Spec => S!Init /\ [][S!Next]_(S!vars)
<1> DEFINE Inv == ArgsOK /\ IInv
<1>1. Init => Inv
  BY InitIInv
<1>2. Inv /\ [Next]_vars => Inv'
  BY NextIInv, StutterIInv
<1>3. Inv => PassedInv
  BY PassedIs
<1>4. Init => S!Init
  <2>1. SUFFICES ASSUME Init PROVE S!Init
    OBVIOUS
  <2>2. pc = "entry"
    BY <2>1 DEF Init, memchr!Init, memchr!CalledWithChar, memchr!Called, strchr!Init,
       strchr!CalledWithChar, strchr!Called, strrchr!Init, strrchr!CalledWithChar,
       strrchr!Called, strlen!Init, strlen!Called, memchr_scalar!Init, memchr_scalar!Called
  <2>3. Within(Stop, Answer, Passed)
    BY <2>1, <1>1, <1>3 DEF PassedInv
  <2>. QED
    BY <2>2, <2>3 DEF S!Init, Within
<1>5. Inv /\ PassedInv /\ Inv' /\ PassedInv' /\ [Next]_vars => [S!Next]_(S!vars)
  <2>1. CASE Next
    BY <2>1, NextSearches
  <2>2. CASE UNCHANGED vars
    BY <2>2, StutterSearches
  <2>. QED
    BY <2>1, <2>2
<1> HIDE DEF Inv
<1>. QED
  BY <1>1, <1>2, <1>3, <1>4, <1>5, PTL DEF Spec

=============================================================================
