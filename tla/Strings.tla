------------------------------- MODULE Strings -------------------------------
(***************************************************************************)
(* What the routines of string/aarch64 that look for a byte have in        *)
(* common: their arguments, the registers they all use, and the C strings  *)
(* and granules of memory their properties speak of.                       *)
(***************************************************************************)
EXTENDS Simd

CONSTANTS Memories,   \* the memories, functions from addresses to bytes
          Pointers    \* the addresses the routine may be called with

\* A memory is of whole granules, as tagging and protection are, and the
\* addresses are numbers.
ASSUME MemoriesAssumption ==
    \A m \in Memories : \E n \in DOMAIN m : DOMAIN m = 0 .. n /\ (n + 1) % W = 0
ASSUME PointersAssumption == Pointers \subseteq Nat

VARIABLES mem, srcin,
          big,         \* is this the big-endian build?
          pc,
          src,
          vdata,       \* the data last loaded into a vector register
          rd,          \* addresses the last step loaded
          result       \* 0 is NULL

given == <<mem, srcin, big>>

\* bic: a rounded down to a multiple of n bytes.
Unaligned(a, n) == a
Aligned(a, n) == a - (a % n)

\* A call's arguments, and registers before the first load.
Called(start) == /\ mem \in Memories /\ srcin \in Pointers /\ big \in BOOLEAN
                 /\ pc = "entry"
                 /\ src = start
                 /\ vdata = [i \in Lanes |-> 0]
                 /\ rd = {} /\ result = 0

\* The addresses of the n bytes at a.
Chunk(a, n) == a .. (a + n - 1)

\* Loads of a chunk at a, in memory order and in the order of a q register.
Ld1(a) == vdata' = ld1(mem, a) /\ rd' = Chunk(a, W)
LdrQ(a) == vdata' = ldrq(mem, a, big) /\ rd' = Chunk(a, W)

\* Loads in ldr's byte order leave the first byte's bits at the top of a
\* big-endian syndrome, at the bottom of a little-endian one.
FirstOf(X) == clz(IF big THEN X ELSE rbit(X))

-----------------------------------------------------------------------------
\* The first address, from a on, of a byte of C.
First(a, C) == Min({x \in DOMAIN mem : x >= a /\ mem[x] \in C})

\* The addresses of the aligned granules of g bytes that hold one of lo .. hi.
\* A granule is a unit of memory tagging or of memory protection: who may read
\* a byte of it may read all of it.
Granules(lo, hi, g) == (lo - (lo % g)) .. ((hi - (hi % g)) + g - 1)

AtMost(x, limit) == IF x < limit THEN x ELSE limit

-----------------------------------------------------------------------------
\* Words as strlen.S and memchr-scalar.S search them: functions from 0 .. N-1 to
\* bytes, the least significant first; on a big-endian processor the code
\* reverses what it loads.
LoadWord(a) == [i \in 0 .. (N - 1) |-> mem[a + i]]

\* The index of the first byte whose top bit is set in X.
FirstByte(X) == clz(rev(X)) \div 8

=============================================================================
