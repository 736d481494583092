--------------------------------- MODULE Hunks ---------------------------------
(***************************************************************************)
(* What memchr.S, strchr.S, strchrnul.S and strrchr.S of string/aarch64    *)
(* share: aligned hunks of 2W bytes in two registers, whose syndrome has   *)
(* two bits a byte.                                                        *)
(***************************************************************************)
EXTENDS Strings

CONSTANT Chars   \* the possible values of chrin

VARIABLES chrin,
          vdata2   \* the second register of the hunk; vdata is the first

\* A call, and the start of its first hunk.
CalledWithChar == /\ Called(Aligned(srcin, 2 * W))
                  /\ chrin \in Chars
                  /\ vdata2 = [i \in Lanes |-> 0]

soff == srcin % (2 * W)

\* ld1 of two registers, [src], 2W: src is left after the hunk.
LoadHunk == /\ vdata' = ld1(mem, src)
            /\ vdata2' = ld1(mem, src + W)
            /\ rd' = Chunk(src, 2 * W)
            /\ src' = src + 2 * W

\* The two bits of each lane under a stepped mask, as a general register.
Syndrome(U, V, mask) == LET v == addp(and(U, mask), and(V, mask)) IN fmov(addp(v, v))

\* ~0 >> (-2 * soff): the bits of a syndrome for the bytes of the first hunk
\* before the string.
NoPadding == {}
Padding == lsr(XBits, -(2 * soff))

=============================================================================
