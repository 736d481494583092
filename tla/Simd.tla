--------------------------------- MODULE Simd ---------------------------------
(***************************************************************************)
(* The A64 instructions that the string routines are built from.  A vector *)
(* register of data is a function from its W byte lanes to bytes; one of   *)
(* comparison results or masks, a function from lanes to sets of bits of   *)
(* 0 .. 7.  A general register of half that size, which holds the          *)
(* "syndrome" of a vector, is the set of its bits that are set.            *)
(***************************************************************************)
EXTENDS Integers, FiniteSetsExt

CONSTANT W   \* the bytes of a vector register; 16 in the architecture

ASSUME WAssumption == W \in Nat /\ W > 0 /\ W % 4 = 0

Lanes == 0 .. (W - 1)
AllOnes == 0 .. 7
XBits == 0 .. (4 * W - 1)

-----------------------------------------------------------------------------
(* Loads.  ld1 keeps bytes in memory order; ldr of a q register loads a    *)
(* number, whose bytes a big-endian processor finds in the other order.    *)

ld1(m, a) == [i \in Lanes |-> m[a + i]]
ldrq(m, a, big) == [i \in Lanes |-> m[IF big THEN a + (W - 1) - i ELSE a + i]]

(* Vectors, lane by lane.                                                  *)

\* The pattern P of bits in every lane.
Repeated(P) == [i \in Lanes |-> P]

\* The bits P \subseteq {0, 1} of a pattern of two bits a lane, at 2 * (i % 4)
\* in lane i: the magic constants 0xc0300c03 and 0x40100401.
Stepped(P) == [i \in Lanes |-> {2 * (i % 4) + b : b \in P}]

cmeq(v, c) == [i \in Lanes |-> IF v[i] = c THEN AllOnes ELSE {}]

\* Is the comparison result V at least the data v, unsigned?
cmhs(V, v) == [i \in Lanes |-> IF V[i] = AllOnes \/ v[i] = 0 THEN AllOnes ELSE {}]

and(U, V) == [i \in Lanes |-> U[i] \cap V[i]]
orr(U, V) == [i \in Lanes |-> U[i] \cup V[i]]

\* Bits of N inserted into D where the mask is set (bit), or clear (bif).
bit(D, N, mask) == [i \in Lanes |-> (D[i] \ mask[i]) \cup (N[i] \cap mask[i])]
bif(D, N, mask) == [i \in Lanes |-> (D[i] \cap mask[i]) \cup (N[i] \ mask[i])]

(* Pairwise: lanes 2i and 2i + 1 of the registers U, V give lane i.        *)

Pairwise(Op(_, _), U, V) ==
    [i \in Lanes |-> LET j == (2 * i) % W
                     IN  IF 2 * i < W THEN Op(U[j], U[j + 1]) ELSE Op(V[j], V[j + 1])]

SymmetricDiff(A, B) == (A \ B) \cup (B \ A)

\* The sum of two numbers of n bits, modulo 2^n: bits and carries.
Sum(A, B, n) ==
    LET Carry(k) == \E j \in 0 .. (k - 1) :
                       j \in A \cap B /\ \A l \in (j + 1) .. (k - 1) : l \in A \cup B
    IN  IF A \cap B = {} THEN A \cup B
        ELSE {k \in 0 .. (n - 1) : k \in SymmetricDiff(A, B) <=> ~Carry(k)}

AddedBytes(A, B) == Sum(A, B, 8)
LargerByte(A, B) == IF A = B \/ Max(SymmetricDiff(A, B)) \in A THEN A ELSE B
SmallerNumber(x, y) == IF x <= y THEN x ELSE y

addp(U, V) == Pairwise(AddedBytes, U, V)
umaxp(U, V) == Pairwise(LargerByte, U, V)
uminp(u, v) == Pairwise(SmallerNumber, u, v)

(* To a general register.                                                  *)

\* The low half of a vector register, d[0], and the high half, d[1].
fmov(V) == UNION {{8 * i + b : b \in V[i]} : i \in 0 .. (W \div 2 - 1)}
High(V) == UNION {{8 * (i - W \div 2) + b : b \in V[i]} : i \in (W \div 2) .. (W - 1)}

\* shrn #4 keeps bits 4 .. 11 of each halfword: four for each lane.
shrn(V) == UNION { {4 * i + b - (IF i % 2 = 0 THEN 4 ELSE 0) :
                        b \in V[i] \cap (IF i % 2 = 0 THEN 4 .. 7 ELSE 0 .. 3)} : i \in Lanes }

\* addhn of a register and itself keeps bits 8 .. 15 of each halfword doubled:
\* the top bit of an even lane and the lower seven of an odd one.
addhn(V) == UNION { IF i % 2 = 0 THEN {4 * i : b \in V[i] \cap {7}}
                    ELSE {4 * (i - 1) + 1 + b : b \in V[i] \cap 0 .. 6} : i \in Lanes }

-----------------------------------------------------------------------------
(* General registers.  Shift amounts are taken modulo the register's size. *)

lsr(X, n) == LET s == n % (4 * W) IN {k - s : k \in {j \in X : j >= s}}
lsl(X, n) == LET s == n % (4 * W) IN {k + s : k \in {j \in X : j + s \in XBits}}
rbit(X) == {(4 * W - 1) - k : k \in X}
clz(X) == IF X = {} THEN 4 * W ELSE (4 * W - 1) - Max(X)

\* X - 1: the lowest bit cleared and those below it set.
MinusOne(X) == IF X = {} THEN XBits ELSE (X \ {Min(X)}) \cup 0 .. (Min(X) - 1)

-----------------------------------------------------------------------------
\* Words of N bytes in the general registers, and the arithmetic by which
\* routines of string/aarch64 look for a NUL in a word.
N == W \div 2   \* 8 in the architecture

\* The bits of a byte.
BitsOf(x) == {b \in 0 .. 7 : (x \div 2^b) % 2 = 1}

\* The number that the eight bits of X from lo on make.
Number(X, lo) == LET worth(b) == IF lo + b \in X THEN 2^b ELSE 0
                 IN  worth(0) + worth(1) + worth(2) + worth(3)
                       + worth(4) + worth(5) + worth(6) + worth(7)

\* A load of a word at a, in either byte order.
ldr(m, a, big) ==
    UNION {{8 * (IF big THEN N - 1 - i ELSE i) + b : b \in BitsOf(m[a + i])} : i \in 0 .. (N - 1)}

\* rev: the bytes of X in the other order.
rev(X) == {8 * (N - 1 - (k \div 8)) + (k % 8) : k \in X}

\* (x - ones) & ~(x | 0x7f..7f), where ones has a 1 in the bytes below k: the
\* top bits of bytes that are below 0x80 and from which the subtraction gives
\* 0x80 or more.  The borrow of a byte makes it so for a 1 that follows a 0.
\* x is the bytes of a word, the least significant first.
Zeros(x, k) ==
    LET One(i) == IF i < k THEN 1 ELSE 0
        Borrow(i) == \E j \in 0 .. (i - 1) :
                        x[j] < One(j) /\ \A l \in (j + 1) .. (i - 1) : x[l] <= One(l)
        Less(i) == x[i] - One(i) - (IF Borrow(i) THEN 1 ELSE 0)
    IN  {8 * i + 7 : i \in {j \in 0 .. (N - 1) : x[j] < 128 /\ Less(j) % 256 >= 128}}

\* The same of a register.
HasZero(X) == Zeros([i \in 0 .. (N - 1) |-> Number(X, 8 * i)], N)

\* The constant 0x0101..01.
Zeroones == {8 * i : i \in 0 .. (N - 1)}

\* Is X below Y as an unsigned number?
Below(X, Y) == \E k \in Y \ X : \A j \in X \ Y : j < k

=============================================================================
