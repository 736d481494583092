------------------------------ MODULE Comparing ------------------------------
(***************************************************************************)
(* What memcmp, strcmp and strncmp of string/aarch64 have in common: their *)
(* arguments, registers, and what the C standard says they return.  And    *)
(* what strcmp and strncmp have: the registers data1, data2 and syndrome,  *)
(* a bit of which shows where words differ or the first has a NUL, and the *)
(* end that they share.                                                    *)
(***************************************************************************)
EXTENDS Simd

CONSTANT Calls   \* the calls [mem, big, s1, s2, n, ...]: mem, the memory, a
                 \* function from addresses to bytes; big, is this the
                 \* big-endian build; strcmp has no use for n

VARIABLES call,
          pc,
          src1, src2,
          rd1, rd2,      \* addresses of each argument the last step loaded
          result

m == call.mem
big == call.big

Called == /\ call \in Calls
          /\ pc = "entry"
          /\ src1 = call.s1 /\ src2 = call.s2
          /\ rd1 = {} /\ rd2 = {} /\ result = 0

\* The addresses of n bytes at a.
Chunk(a, n) == a .. (a + n - 1)

-----------------------------------------------------------------------------
\* Are the bytes i of the arguments the same?  The first i for which it is so.
SameAt(i) == m[call.s1 + i] = m[call.s2 + i]
FirstOf(P(_)) == CHOOSE i \in DOMAIN m : P(i) /\ \A j \in 0 .. (i - 1) : ~P(j)

\* A result is 1, 2 or 3 as the first argument is less, equal or greater.
Sign(x) == IF x < 0 THEN 1 ELSE IF x = 0 THEN 2 ELSE 3
Order(i) == Sign(m[call.s1 + i] - m[call.s2 + i])

-----------------------------------------------------------------------------
(* Of strcmp and strncmp.                                                  *)

VARIABLES data1, data2, syndrome

Cleared == data1 = {} /\ data2 = {} /\ syndrome = {}

Ldr(a) == ldr(m, a, big)

\* rev in the little-endian build, where the byte of the lowest address is the
\* least significant one; and in the big-endian build, where it is not.
RevLE(X) == IF big THEN X ELSE rev(X)
RevBE(X) == IF big THEN rev(X) ELSE X

\* Shifts towards the bytes of lower, and of higher, addresses.
LS_FW(X, n) == IF big THEN lsl(X, n) ELSE lsr(X, n)
LS_BK(X, n) == IF big THEN lsr(X, n) ELSE lsl(X, n)

\* The top bits of the NUL bytes of a word: in a big-endian word the bytes are
\* reversed first, or a 1 before a NUL would be taken for one.
NulsUnreversed(X) == HasZero(X)
Nuls(X) == RevBE(HasZero(RevBE(X)))

\* The byte of X that starts at the bit numbered pos from the top.
ByteAt(X, pos) == Number(X, 8 * (N - 1) - pos)

\* L(end), L(end_quick): the bytes of data1 and data2 at the first bit of the
\* syndrome, subtracted.
EndQuick == /\ pc = "end"
       /\ LET pos == clz(RevLE(syndrome))
          IN  result' = ByteAt(RevLE(data1), pos) - ByteAt(RevLE(data2), pos)
       /\ pc' = "ret"
       /\ UNCHANGED <<call, src1, src2, rd1, rd2, data1, data2, syndrome>>

-----------------------------------------------------------------------------
EndsAt(i) == m[call.s1 + i] = 0

\* The address of the NUL of the string at s.
Nul(s) == CHOOSE a \in DOMAIN m : /\ a >= s /\ m[a] = 0
                                   /\ \A b \in s .. (a - 1) : m[b] # 0

\* The aligned granules of W bytes, the unit of memory tagging, that hold one of
\* the bytes lo .. hi.
Granules(lo, hi) == (lo - (lo % W)) .. ((hi - (hi % W)) + W - 1)

-----------------------------------------------------------------------------
(* Parts of the inductive invariants of strcmp and strncmp.                *)

\* A memory is of bytes and of whole granules, as tagging is; the strings are in it.
ValidStrings(c) ==
    /\ c.s1 \in Nat /\ c.s2 \in Nat /\ c.n \in Nat /\ c.big \in BOOLEAN
    /\ \E k \in DOMAIN c.mem : DOMAIN c.mem = 0 .. k /\ (k + 1) % W = 0
    /\ \A a \in DOMAIN c.mem : c.mem[a] \in 0 .. 255
    /\ \A s \in {c.s1, c.s2} : \E a \in DOMAIN c.mem : a >= s /\ c.mem[a] = 0

\* Are the first k bytes of the strings the same, with no NUL?
Alike(k) == \A i \in 0 .. (k - 1) : SameAt(i) /\ ~EndsAt(i)
Decides(i) == ~SameAt(i) \/ EndsAt(i)

\* The bits of byte i of a word, from the least significant one on; and in the order
\* of memory, as a number too.
LowBits(X, i) == {b \in 0 .. 7 : 8 * i + b \in X}
Bits(X, i) == LowBits(X, IF big THEN N - 1 - i ELSE i)
Octet(X, i) == Number(Bits(X, i), 0)

RegistersInv == data1 \subseteq XBits /\ data2 \subseteq XBits /\ syndrome \subseteq XBits

\* Byte f is the first with a bit in the syndrome, either those in which data1 and
\* data2 differ there or the one that marks an end.
FirstMark(f) == /\ \A i \in 0 .. (f - 1) : Bits(syndrome, i) = {}
                /\ Bits(syndrome, f) # {}
                /\ \/ 7 \in Bits(syndrome, f)
                   \/ Bits(syndrome, f) = SymmetricDiff(Bits(data1, f), Bits(data2, f))

\* It has the bytes that decide.
MarksOrder(order) ==
    \E f \in 0 .. (N - 1) : FirstMark(f) /\ Sign(Octet(data1, f) - Octet(data2, f)) = order

=============================================================================
