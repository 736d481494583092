------------------------------ MODULE Checksums ------------------------------
(***************************************************************************)
(* The checksum routines of networking/include/networking.h: the three     *)
(* implementations of the Internet checksum side by side.  A build calls   *)
(* one of them; call.routine says which.  The shared helpers and the       *)
(* portable routine come first, the SIMD versions next, and the            *)
(* specification and its properties last.                                  *)
(***************************************************************************)
EXTENDS Integers

CONSTANTS
    Radix,               \* the number of values of a byte
    Mem,                 \* a sequence of memories, functions from addresses to bytes
    Calls,               \* the calls: the memory's index m, the pointer p, the size n
    MaxUnaligned,        \* __chksum sums sizes up to this unaligned: 300
    MinAlignedAArch64,   \* the SIMD versions leave sizes below these to
    MinAlignedArm        \* slurp_small: 50 and 40

ASSUME RadixAssumption == Radix \in Nat /\ Radix > 1
ASSUME MemAssumption == \A k \in DOMAIN Mem : \A a \in DOMAIN Mem[k] :
                            Mem[k][a] \in 0 .. (Radix - 1)
ASSUME MaxUnalignedAssumption == MaxUnaligned \in Nat /\ MaxUnaligned >= 3
ASSUME MinAlignedAssumption == /\ MinAlignedAArch64 \in Nat /\ MinAlignedAArch64 >= 8
                               /\ MinAlignedArm \in Nat /\ MinAlignedArm >= 8

-----------------------------------------------------------------------------
(***************************************************************************)
(* networking/chksum_common.h; networking/chksum.c: __chksum, the portable *)
(* Internet checksum; and the reference implementation of                  *)
(* networking/test/chksum.c.  A byte has Radix values, 256 in the code;    *)
(* uint16_t, uint32_t and uint64_t are 2, 4 and 8 bytes of it, and         *)
(* arithmetic wraps at those widths.  Loads are little-endian, as the      *)
(* masks of the code take them to be.                                      *)
(*                                                                         *)
(* The variables are those of a call of any of the three routines.         *)
(***************************************************************************)

U16 == Radix * Radix
U32 == U16 * U16
U64As32Bits == U32
U64 == U32 * U32

\* nbytes is an unsigned int, and the caller's buffer is in memory.
ASSUME CallsAssumption ==
    \A c \in Calls :
        /\ c.routine \in {"__chksum", "__chksum_aarch64_simd", "__chksum_arm_simd"}
        /\ c.m \in DOMAIN Mem
        /\ c.p \in Nat
        /\ c.n \in Nat /\ c.n < U32
        /\ c.p .. (c.p + c.n - 1) \subseteq DOMAIN Mem[c.m]

\* The byte at a, masked off unless it is one of first .. last.
Kept(b, a, first, last) == IF first <= a /\ a <= last THEN b[a] ELSE 0

\* A 16-bit and a 32-bit load at a under such a mask, and without one.
Half(b, a, first, last) == Kept(b, a, first, last) + Radix * Kept(b, a + 1, first, last)
Word(b, a, first, last) == Half(b, a, first, last) + U16 * Half(b, a + 2, first, last)

Byte(b, a) == b[a]
load16(b, a) == Half(b, a, a, a + 1)
load32(b, a) == Word(b, a, a, a + 3)

align_to_2(a, bytes) == a - (a % 2)
align_ptr(a, bytes) == a - (a % bytes)

\* Is bit b, a power of two, set in x?
IsSet(x, b) == (x \div b) % 2 = 1

\* The last 3 bytes of a buffer at most: a halfword and a byte.
slurp_tail(b, a, nbytes) ==
    (IF IsSet(nbytes, 2) THEN load16(b, a) ELSE 0)
        + (IF IsSet(nbytes, 1) THEN Byte(b, a + 2 * ((nbytes \div 2) % 2)) ELSE 0)

\* The carries of x above width w added in at the bottom.
Carried(x, w) == (x % w) + (x \div w)

bswap16_kept(x) == x % U16
bswap16(x) == ((x \div Radix) % Radix) + (x % Radix) * Radix

FoldOnce(x, w) == Carried(x, w)
Fold(x, w) == Carried(Carried(x, w), w)

fold_and_swap(sum, swap) ==
    LET sum16 == Fold(Fold(sum, U32), U16)
    IN  (IF swap THEN bswap16(sum16) ELSE sum16) % U16

\* What fold_and_swap asserts: two foldings reach 32 and then 16 bits.
FoldAsserts(sum) == /\ Fold(sum, U32) < U32
                    /\ Fold(Fold(sum, U32), U16) < U16

\* checksum_simple of the test: the halfwords of the buffer summed, then folded.
checksum_simple(b, p, n) ==
    LET f[k \in 0 .. (n \div 2)] ==
            IF k = 0 THEN 0 ELSE f[k - 1] + load16(b, p + 2 * (k - 1))
        odd == IF n % 2 = 1 THEN Byte(b, p + n - 1) ELSE 0
    IN  Fold(Fold(f[n \div 2] + odd, U32), U16)

\* The aligned words of w bytes that hold a byte of the buffer: reading one of
\* them cannot fault, though it may hold bytes outside the buffer.
Words(p, n, w) == (p - (p % w)) .. ((p + n - 1) - ((p + n - 1) % w) + w - 1)

-----------------------------------------------------------------------------
VARIABLES
    call,             \* the routine, memory, pointer and size of the call
    pc,
    ptr, nbytes, i,   \* what remains to be summed; the counter of the loop
    sum,              \* the scalar sum, a uint64x1_t in the Arm version
    vsums,            \* the pairs of 64-bit lanes vsum0 .. vsum3
    swap,             \* are the bytes summed swapped?
    rd, csum          \* addresses the last step loaded; the result

vars == <<call, pc, ptr, nbytes, i, sum, vsums, swap, rd, csum>>

m == Mem[call.m]

Init == /\ call \in Calls
        /\ pc = "entry"
        /\ ptr = call.p /\ nbytes = call.n /\ i = 0
        /\ sum = 0 /\ vsums = [k \in 0 .. 3 |-> <<0, 0>>]
        /\ swap = FALSE
        /\ rd = {} /\ csum = 0

\* slurp_small, which is also how __chksum sums what its 16-byte loop leaves: a
\* word at a time, then the last 0 .. 3 bytes and the folding of the sum.
SumWord == /\ pc = "words" /\ nbytes >= 4
           /\ sum' = (sum + load32(m, ptr)) % U64
           /\ rd' = ptr .. (ptr + 3)
           /\ ptr' = ptr + 4
           /\ nbytes' = nbytes - 4
           /\ UNCHANGED <<call, pc, i, vsums, swap, csum>>

SumTail == /\ pc = "words" /\ nbytes < 4
           /\ sum' = (sum + slurp_tail(m, ptr, nbytes)) % U64
           /\ rd' = ptr .. (ptr + nbytes - 1)
           /\ csum' = fold_and_swap(sum', swap)
           /\ pc' = "ret"
           /\ UNCHANGED <<call, ptr, nbytes, i, vsums, swap>>

-----------------------------------------------------------------------------
(* __chksum: the code up to its 16-byte loop, an iteration of it, and what *)
(* is after it.                                                            *)

Portable == call.routine = "__chksum"

\* ~0U << (CHAR_BIT * off): the bytes below the pointer masked off.
HeadUnmasked(a, off) == Word(m, a, a, a + 3)
Head(a, off) == Word(m, a, a + off, a + 3)

\* What slurp_head32 leaves to sum.
LeftTooMuch(off) == nbytes
LeftAfterHead(off) == nbytes - (4 - off)

\* A large buffer is aligned to 4 bytes; slurp_head32 sums the first 1 .. 3.
slurp_head32 ==
    /\ Portable /\ pc = "entry" /\ nbytes > MaxUnaligned
    /\ swap' = (ptr % 2 = 1)
    /\ LET off == ptr % 4
           a == align_ptr(ptr, 4)
       IN  IF off # 0
           THEN /\ sum' = Head(a, off)
                /\ ptr' = a + 4
                /\ nbytes' = LeftAfterHead(off)
                /\ rd' = a .. (a + 3)
           ELSE UNCHANGED <<sum, ptr, nbytes, rd>>
    /\ i' = nbytes' \div 16
    /\ pc' = "quads"
    /\ UNCHANGED <<call, vsums, csum>>

NoHead == /\ Portable /\ pc = "entry" /\ nbytes <= MaxUnaligned
          /\ i' = nbytes \div 16
          /\ pc' = "quads"
          /\ UNCHANGED <<call, ptr, nbytes, sum, vsums, swap, rd, csum>>

\* i is nquads, the iterations left.
SumQuad ==
    /\ pc = "quads" /\ i # 0
    /\ sum' = (sum + load32(m, ptr) + load32(m, ptr + 4)
                   + load32(m, ptr + 8) + load32(m, ptr + 12)) % U64
    /\ rd' = ptr .. (ptr + 15)
    /\ ptr' = ptr + 16
    /\ i' = i - 1
    /\ UNCHANGED <<call, pc, nbytes, vsums, swap, csum>>

\* The trailing words and bytes are summed as in slurp_small.
QuadsDone == /\ pc = "quads" /\ i = 0
             /\ nbytes' = nbytes % 16
             /\ rd' = {}
             /\ pc' = "words"
             /\ UNCHANGED <<call, ptr, i, sum, vsums, swap, csum>>

-----------------------------------------------------------------------------
(***************************************************************************)
(* networking/aarch64/chksum_simd.c, __chksum_aarch64_simd, and its        *)
(* version for 32-bit Arm, networking/arm/chksum_simd.c.  They align the   *)
(* pointer and sum groups of 64 bytes in the same way.  After the groups   *)
(* the Arm version folds the lanes into one accumulator by pairwise        *)
(* additions, which the code asserts to leave 32 bits in each.  A vector   *)
(* uint64x2_t is a pair of 64-bit lanes.                                   *)
(***************************************************************************)

AArch64 == call.routine = "__chksum_aarch64_simd"
Arm == call.routine = "__chksum_arm_simd"

\* Small buffers are left to slurp_small, and are not swapped.
Small == /\ pc = "entry"
         /\ \/ AArch64 /\ nbytes < MinAlignedAArch64
            \/ Arm /\ nbytes < MinAlignedArm
         /\ pc' = "words"
         /\ UNCHANGED <<call, ptr, nbytes, i, sum, vsums, swap, rd, csum>>

\* val >> 32 and (uint32_t) val of a 64-bit load at a, masked to its bytes
\* first .. last: the sum of its two words (vpaddl_u32).
TwoWords(a, first, last) == Word(m, a, first, last) + Word(m, a + 4, first, last)

\* The bytes before the pointer are masked off the first load.
FirstUnmasked(a, off) == a
First(a, off) == a + off

\* Large buffers: slurp_head64, inlined in the Arm version, aligns to 8 bytes.
SlurpHead64 ==
    LET off == ptr % 8
        a == align_ptr(ptr, 8)
    IN  IF off # 0
        THEN /\ sum' = TwoWords(a, First(a, off), a + 7)
             /\ ptr' = a + 8
             /\ nbytes' = nbytes - (8 - off)
             /\ rd' = a .. (a + 7)
        ELSE UNCHANGED <<sum, ptr, nbytes, rd>>

Large == /\ pc = "entry"
         /\ \/ AArch64 /\ nbytes >= MinAlignedAArch64
            \/ Arm /\ nbytes >= MinAlignedArm
         /\ SlurpHead64
         /\ swap' = (call.p % 2 = 1)
         /\ pc' = "groups"
         /\ UNCHANGED <<call, i, vsums, csum>>

\* vld1q_u32: the four words at a.
vld1q(a) == <<load32(m, a), load32(m, a + 4), load32(m, a + 8), load32(m, a + 12)>>

\* vreinterpretq_u32_u64: each 64-bit lane as its two words, the low one first.
Lo(x) == x % U32
Hi(x) == x \div U32
Words32(v) == <<Lo(v[1]), Hi(v[1]), Lo(v[2]), Hi(v[2])>>

\* vpadalq_u32: neighbouring words of w added to the 64-bit lanes of v.
vpadal_unpaired(v, w) == <<(v[1] + w[1]) % U64, (v[2] + w[3]) % U64>>
vpadal(v, w) == <<(v[1] + w[1] + w[2]) % U64, (v[2] + w[3] + w[4]) % U64>>

Group64 == /\ pc = "groups" /\ i < nbytes \div 64
           /\ vsums' = [k \in 0 .. 3 |-> vpadal(vsums[k], vld1q(ptr + 16 * k))]
           /\ rd' = ptr .. (ptr + 63)
           /\ ptr' = ptr + 64
           /\ i' = i + 1
           /\ UNCHANGED <<call, pc, nbytes, sum, swap, csum>>

-----------------------------------------------------------------------------
\* __chksum_aarch64_simd after the groups.

\* The bytes left after the groups of 32, 16 and 8.
LastByteTwice(n) == (n % 8) + 1
Last(n) == n % 8

\* vaddw_u32: a word is added to each lane.
vaddw(v, x, y) == <<(v[1] + x) % U64, (v[2] + y) % U64>>

\* vsum2 and vsum3, then vsum1, are folded into vsum0 between the trailing
\* groups of 32, 16 and 8 bytes; slurp_tail64 adds the last 0 .. 7 bytes, masked
\* out of an aligned load.
Trailing ==
    /\ AArch64 /\ pc = "groups" /\ i >= nbytes \div 64
    /\ LET n == nbytes % 64
           p16 == IF IsSet(n, 32) THEN ptr + 32 ELSE ptr
           p8 == IF IsSet(n, 16) THEN p16 + 16 ELSE p16
           p0 == IF IsSet(n, 8) THEN p8 + 8 ELSE p8
           v0 == vpadal(vsums[0], Words32(vsums[2]))
           v1 == vpadal(vsums[1], Words32(vsums[3]))
           w0 == IF IsSet(n, 32) THEN vpadal(v0, vld1q(ptr)) ELSE v0
           w1 == IF IsSet(n, 32) THEN vpadal(v1, vld1q(ptr + 16)) ELSE v1
           x == vpadal(w0, Words32(w1))
           y == IF IsSet(n, 16) THEN vpadal(x, vld1q(p16)) ELSE x
           z == IF IsSet(n, 8) THEN vaddw(y, load32(m, p8), load32(m, p8 + 4)) ELSE y
           words == Words32(z)
           val == words[1] + words[2] + words[3] + words[4]
           left == Last(n)
           tail == IF left # 0 THEN TwoWords(p0, p0, p0 + left - 1) ELSE 0
       IN  /\ vsums' = [vsums EXCEPT ![0] = z, ![1] = w1]
           /\ sum' = (sum + Hi(val) + Lo(val) + tail) % U64
           /\ ptr' = p0
           /\ nbytes' = n % 8
           /\ rd' = ptr .. (p0 - 1) \cup (IF left # 0 THEN p0 .. (p0 + 7) ELSE {})
    /\ csum' = fold_and_swap(sum', swap)
    /\ pc' = "ret"
    /\ UNCHANGED <<call, i, swap>>

-----------------------------------------------------------------------------
\* __chksum_arm_simd after the groups.

\* vsum1, vsum2 and vsum3 are folded into vsum0.
FoldGroups ==
    /\ Arm /\ pc = "groups" /\ i >= nbytes \div 64
    /\ LET v0 == vpadal(vsums[0], Words32(vsums[2]))
           v1 == vpadal(vsums[1], Words32(vsums[3]))
       IN  vsums' = [vsums EXCEPT ![0] = vpadal(v0, Words32(v1)), ![1] = v1]
    /\ nbytes' = nbytes % 64
    /\ rd' = {}
    /\ pc' = "sixteens"
    /\ UNCHANGED <<call, ptr, i, sum, swap, csum>>

Sixteen == /\ pc = "sixteens" /\ nbytes >= 16
           /\ vsums' = [vsums EXCEPT ![0] = vpadal(vsums[0], vld1q(ptr))]
           /\ rd' = ptr .. (ptr + 15)
           /\ ptr' = ptr + 16
           /\ nbytes' = nbytes - 16
           /\ UNCHANGED <<call, pc, i, sum, swap, csum>>

\* vsum0 is folded to two words by two pairwise additions (vpaddlq_u32), which
\* vmovn_u64 narrows and vpadal_u32 adds to vsum.
vpaddlq(v) == <<Lo(v[1]) + Hi(v[1]), Lo(v[2]) + Hi(v[2])>>
AddedOnce(v) == vpaddlq(v)
AddedTwice(v) == vpaddlq(vpaddlq(v))

Narrow == /\ pc = "sixteens" /\ nbytes < 16
          /\ LET v == AddedTwice(vsums[0])
             IN  /\ vsums' = [vsums EXCEPT ![0] = v]
                 /\ sum' = (sum + Lo(v[1]) + Lo(v[2])) % U64
          /\ rd' = {}
          /\ pc' = "tail"
          /\ UNCHANGED <<call, ptr, nbytes, i, swap, csum>>

\* The last group of 8 bytes, the last 1 .. 7 masked out of an aligned load,
\* and the folding to 16 bits, again by pairwise additions.
Tail8 ==
    /\ pc = "tail"
    /\ LET p0 == IF IsSet(nbytes, 8) THEN ptr + 8 ELSE ptr
           left == nbytes % 8
           eight == IF IsSet(nbytes, 8) THEN TwoWords(ptr, ptr, ptr + 7) ELSE 0
           tail == IF left # 0 THEN TwoWords(p0, p0, p0 + left - 1) ELSE 0
       IN  /\ sum' = (sum + eight + Lo(tail) + Hi(tail)) % U64
           /\ ptr' = p0
           /\ nbytes' = left
           /\ rd' = ptr .. (p0 - 1) \cup (IF left # 0 THEN p0 .. (p0 + 7) ELSE {})
    /\ csum' = fold_and_swap(sum', swap)
    /\ pc' = "ret"
    /\ UNCHANGED <<call, i, vsums, swap>>

\* The assertion on lanes: two pairwise additions leave words, so that nothing
\* is lost in narrowing.
LaneAssertions == pc = "tail" => \A l \in 1 .. 2 : vsums[0][l] < U32

-----------------------------------------------------------------------------
Next == \/ slurp_head32 \/ NoHead \/ SumQuad \/ QuadsDone
        \/ Small \/ Large \/ Group64 \/ Trailing
        \/ FoldGroups \/ Sixteen \/ Narrow \/ Tail8
        \/ SumWord \/ SumTail

Spec == Init /\ [][Next]_vars /\ WF_vars(Next)

-----------------------------------------------------------------------------
Lanes == (0 .. (U64 - 1)) \X (0 .. (U64 - 1))

\* Registers are within their widths; the pointer is 8-byte aligned for the
\* vector loads, as the code asserts, and 4-byte aligned in the loops of
\* __chksum over a large buffer.
TypeOK ==
    /\ call \in Calls
    /\ pc \in {"entry", "quads", "words", "groups", "sixteens", "tail", "ret"}
    /\ ptr \in Nat /\ nbytes \in 0 .. call.n /\ i \in Nat
    /\ sum \in 0 .. (U64 - 1) /\ csum \in 0 .. (U16 - 1) /\ swap \in BOOLEAN
    /\ vsums \in [0 .. 3 -> Lanes]
    /\ pc \in {"groups", "sixteens", "tail"} => ptr % 8 = 0
    /\ Portable /\ pc \in {"quads", "words"} /\ call.n > MaxUnaligned => ptr % 4 = 0

\* Every implementation returns the checksum of the reference implementation of
\* networking/test/chksum.c, at every alignment and size, whether or not it
\* summed the bytes swapped.
CsumRight == pc = "ret" => csum = checksum_simple(m, call.p, call.n)

\* The bytes of an aligned load of the head.
WordSize == IF Portable THEN 4 ELSE 8

\* Loads touch only the words, of 4 bytes in __chksum and 8 in the SIMD
\* versions, that a byte of the buffer is in: the head and the tail are read
\* past the ends of the buffer, and only alignment keeps that within a page.
Footprint == rd \subseteq Words(call.p, call.n, WordSize)

\* The assertions of the code: two foldings reach 32 and then 16 bits, and in
\* the Arm version two pairwise additions leave 32-bit lanes to be narrowed.
Assertions == (pc = "ret" => FoldAsserts(sum)) /\ LaneAssertions

\* The bytes still to be summed at each label.
Left == CASE pc = "quads"  -> 16 * i + (nbytes % 16)
          [] pc = "groups" -> nbytes - 64 * i
          [] OTHER         -> nbytes

\* What the vector accumulators hold there.
InLanes == LET lane(k) == Fold(vsums[k][1] + vsums[k][2], U32)
           IN  CASE pc = "groups"   -> lane(0) + lane(1) + lane(2) + lane(3)
                 [] pc = "sixteens" -> lane(0)
                 [] OTHER           -> 0

\* At each label the bytes passed and those left make up the buffer.
Partition == pc # "ret" => ptr + Left = call.p + call.n

\* Nothing is skipped or summed twice: the bytes summed so far, in all
\* accumulators, have the checksum of those passed.
PartialSum ==
    /\ Partition
    /\ pc # "ret" => fold_and_swap(sum + InLanes, swap)
                        = checksum_simple(m, call.p, ptr - call.p)

\* No 64-bit accumulator wraps around while the buffer is summed: a step never
\* makes the sum, nor the loop a lane, smaller.
Grows == /\ sum' >= sum
         /\ pc = "groups" /\ pc' = "groups" =>
                \A k \in 0 .. 3 : \A l \in 1 .. 2 : vsums'[k][l] >= vsums[k][l]
NoWrap == [][Grows]_vars

-----------------------------------------------------------------------------
Simd == AArch64 \/ Arm

\* Which routine is at which label, and what is left there.
Position ==
    /\ pc = "entry" => ptr = call.p /\ nbytes = call.n /\ i = 0
    /\ pc = "quads" => Portable
    /\ pc = "groups" => Simd /\ i <= nbytes \div 64
    /\ pc \in {"sixteens", "tail"} => Arm
    /\ pc = "tail" => nbytes < 16
    /\ ptr >= call.p

\* The most k words can sum to.
PerWord(k) == (U32 - 1) * k

\* The accumulators grow no faster than what has been passed: by the value of a
\* word for each word, of which a group has two for each lane.  The head may
\* have been 1 .. 3 bytes of a word, or less than two words.
Room ==
    /\ pc = "entry" => sum = 0
    /\ pc \in {"quads", "words"} => 4 * sum <= PerWord((ptr - call.p) + 4)
    /\ pc \in {"groups", "sixteens"} => sum <= 2 * (U32 - 1)
    /\ pc = "tail" => sum <= 4 * (U32 - 1)
    /\ pc \in {"entry", "groups"} =>
           \A k \in 0 .. 3 : \A l \in 1 .. 2 :
               vsums[k][l] <= PerWord(2 * i)

\* The inductive invariant of the proofs.
IInv == TypeOK /\ Partition /\ Position /\ Room /\ Footprint /\ Assertions
==============================================================================
