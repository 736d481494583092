------------------------------- MODULE Strncmp -------------------------------
(***************************************************************************)
(* string/aarch64/strncmp.S: strncmp, by words of N bytes.  If the strings *)
(* are not aligned alike, two words of the second are loaded at a time,    *)
(* and a word of the first is compared with parts of two of them (step A), *)
(* or part by part (steps B and C).  limit is a size_t and wraps.          *)
(***************************************************************************)
EXTENDS Comparing

CONSTANT Size   \* the number of values of a size_t

VARIABLES limit,
          count,        \* bytes to the alignment of src1
          tmp1, tmp2    \* the last two words loaded of the second string

words == <<data1, data2, syndrome>>
ofSrc2 == <<tmp1, tmp2>>
vars == <<call, pc, src1, src2, rd1, rd2, result, limit, count, words, ofSrc2>>

Init == /\ Called
        /\ Cleared
        /\ limit = call.n /\ count = 0
        /\ tmp1 = {} /\ tmp2 = {}

Minus(x, y) == (x - y) % Size
Negative(x) == x >= Size \div 2
Return(x) == result' = x /\ pc' = "ret"

Ret0 == /\ pc = "entry" /\ limit = 0
        /\ Return(0)
        /\ UNCHANGED <<call, src1, src2, rd1, rd2, limit, count, words, ofSrc2>>

Entry == /\ pc = "entry" /\ limit # 0
         /\ count' = src1 % N
         /\ pc' = CASE (src1 - src2) % N # 0 -> "misaligned8"
                    [] (src1 - src2) % N = 0 /\ count' # 0 -> "mutual_align"
                    [] (src1 - src2) % N = 0 /\ count' = 0 -> "loop_aligned"
         /\ UNCHANGED <<call, src1, src2, rd1, rd2, result, limit, words, ofSrc2>>

-----------------------------------------------------------------------------
(* The ends.                                                               *)

\* L(full_check), little-endian: the limit is rewound.
FullCheckLE ==
    /\ syndrome' = SymmetricDiff(data1, data2) \cup HasZero(data1)
    /\ limit' = Minus(limit, -N)
    /\ pc' = "syndrome_check"
    /\ UNCHANGED <<result, data1, data2>>

\* Big-endian: a limit below zero masks off the bytes after it, of which the
\* first counts as a NUL.
FullCheckBE ==
    LET mask == IF Negative(limit) THEN lsr(XBits, 8 * Minus(limit, -N)) ELSE {}
    IN  /\ data1' = data1 \ mask /\ data2' = data2 \ mask
        /\ IF HasZero(data1) \cup mask = {}
           THEN /\ Return(IF data1 = data2 THEN 0 ELSE IF Below(data1, data2) THEN -1 ELSE 1)
                /\ UNCHANGED syndrome
           ELSE /\ syndrome' = SymmetricDiff(data1, data2) \cup Nuls(data1')
                /\ pc' = "end"
                /\ UNCHANGED result
        /\ UNCHANGED limit

FullCheck == /\ pc = "full_check"
             /\ IF big THEN FullCheckBE ELSE FullCheckLE
             /\ UNCHANGED <<call, src1, src2, rd1, rd2, count, ofSrc2>>

\* Is what decides before the limit?  The big-endian build compares the bit with
\* the limit in bits.
Before(pos) == IF big THEN pos < (8 * limit) % Size ELSE limit > pos \div 8

SyndromeCheck == /\ pc = "syndrome_check"
                 /\ IF Before(clz(RevLE(syndrome)))
                    THEN pc' = "end" /\ UNCHANGED result
                    ELSE Return(0)
                 /\ UNCHANGED <<call, src1, src2, rd1, rd2, limit, count, words, ofSrc2>>

StrncmpEnd == EndQuick /\ UNCHANGED <<limit, count, ofSrc2>>

-----------------------------------------------------------------------------
(* Strings aligned alike.                                                  *)

\* L(start_realigned): the words d1 and d2 are compared, with limit l before.
\* In the big-endian build the NULs may be marked one byte early here.
StartRealigned(d1, d2, l) ==
    /\ data1' = d1 /\ data2' = d2
    /\ limit' = Minus(l, N)
    /\ pc' = IF l > N /\ data1' = data2' /\ HasZero(data1') = {}
             THEN "loop_aligned" ELSE "full_check"

LoadWords(a1, a2) == /\ rd1' = Chunk(a1, N) /\ rd2' = Chunk(a2, N)
                     /\ src1' = a1 + N /\ src2' = a2 + N

LoopAligned == /\ pc = "loop_aligned"
               /\ LoadWords(src1, src2)
               /\ StartRealigned(Ldr(src1), Ldr(src2), limit)
               /\ UNCHANGED <<call, result, count, syndrome, ofSrc2>>

\* The limit grows with the bytes before the strings, but does not wrap.
Wrapped(l) == (limit + count) % Size
Saturated(l) == IF limit + count >= Size THEN Size - 1 ELSE limit + count

MutualAlign == /\ pc = "mutual_align"
               /\ LET before == LS_FW(XBits, -(8 * count))
                      a1 == src1 - count
                      a2 == src2 - (src2 % N)
                  IN  /\ LoadWords(a1, a2)
                      /\ StartRealigned(Ldr(a1) \cup before, Ldr(a2) \cup before,
                                        Saturated(limit))
               /\ UNCHANGED <<call, result, count, syndrome, ofSrc2>>

-----------------------------------------------------------------------------
(* Strings that are not.                                                   *)

\* Short ones byte by byte; others until src1 is aligned.
Misaligned8 ==
    /\ pc = "misaligned8"
    /\ IF limit < W
       THEN pc' = "byte_loop" /\ UNCHANGED <<count, limit>>
       ELSE IF count = 0
            THEN pc' = "src1_aligned" /\ UNCHANGED <<count, limit>>
            ELSE /\ count' = (-count) % N
                 /\ limit' = limit - count'
                 /\ pc' = "page_end_loop"
    /\ UNCHANGED <<call, src1, src2, rd1, rd2, result, words, ofSrc2>>

LoadBytes == /\ rd1' = {src1} /\ rd2' = {src2}
             /\ src1' = src1 + 1 /\ src2' = src2 + 1

Same == m[src1] # 0 /\ m[src1] = m[src2]

ByteLoop == /\ pc = "byte_loop"
            /\ LoadBytes
            /\ limit' = limit - 1
            /\ IF limit' > 0 /\ Same
               THEN UNCHANGED <<pc, result>>
               ELSE Return(m[src1] - m[src2])
            /\ UNCHANGED <<call, count, words, ofSrc2>>

PageEndLoop == /\ pc = "page_end_loop"
               /\ LoadBytes
               /\ IF Same
                  THEN /\ count' = count - 1
                       /\ pc' = IF count' > 0 THEN "page_end_loop" ELSE "src1_aligned"
                       /\ UNCHANGED result
                  ELSE Return(m[src1] - m[src2]) /\ UNCHANGED count
               /\ UNCHANGED <<call, limit, words, ofSrc2>>

\* offset, the bits of the second string's words before src2, and neg_offset
\* do not change in the loop, nor does mask: the bytes that step B leaves to C.
offset == 8 * ((call.s2 - call.s1) % N)
neg_offset == 8 * N - offset
mask == LS_BK(XBits, neg_offset)

\* ldp: two words of the second string, of which the first is the lower.
LoadPair(a) == /\ tmp1' = Ldr(a) /\ tmp2' = Ldr(a + N)
               /\ rd2' = Chunk(a, W)
               /\ src2' = a + W

LoadData1 == data1' = Ldr(src1) /\ rd1' = Chunk(src1, N) /\ src1' = src1 + N

Src1Aligned == /\ pc = "src1_aligned"
               /\ LoadPair(src2 - (src2 % W))
               /\ LoadData1
               /\ pc' = IF src2 % W >= N THEN "misaligned_mid_loop" ELSE "loop_misaligned"
               /\ UNCHANGED <<call, result, limit, count, data2, syndrome>>

\* Step A: a word put together of tmp1 and tmp2.
StepA ==
    /\ pc = "loop_misaligned"
    /\ data2' = LS_FW(tmp1, offset) \cup LS_BK(tmp2, neg_offset)
    /\ limit' = Minus(limit, N)
    /\ rd2' = {}
    /\ IF limit > N /\ data1 = data2' /\ HasZero(data1) = {}
       THEN LoadData1 /\ pc' = "misaligned_mid_loop"
       ELSE pc' = "full_check" /\ rd1' = {} /\ UNCHANGED <<src1, data1>>
    /\ UNCHANGED <<call, src2, result, count, syndrome, ofSrc2>>

\* Is there more than what step B compares?
NotExhausted == limit > 0
More == limit > neg_offset \div 8

\* Step B: the first part of data1, with what is left of tmp2.
StepB ==
    /\ pc = "misaligned_mid_loop"
    /\ data2' = LS_FW(tmp2, offset)
    /\ syndrome' = (SymmetricDiff(data1, data2') \cup Nuls(data1)) \ mask
    /\ rd1' = {}
    /\ IF More /\ syndrome' = {}
       THEN LoadPair(src2) /\ pc' = "step_C"
       ELSE pc' = "syndrome_check" /\ rd2' = {} /\ UNCHANGED <<src2, ofSrc2>>
    /\ UNCHANGED <<call, src1, result, limit, count, data1>>

\* Step C: the second part of data1, with the start of tmp1.
LeftForC(X) == X \cap mask
StepC ==
    /\ pc = "step_C"
    /\ data2' = LS_BK(tmp1, neg_offset)
    /\ syndrome' = LeftForC(SymmetricDiff(data1, data2') \cup Nuls(data1))
    /\ rd2' = {}
    /\ IF limit > N /\ syndrome' = {}
       THEN LoadData1 /\ limit' = limit - N /\ pc' = "loop_misaligned"
       ELSE pc' = "syndrome_check" /\ rd1' = {} /\ UNCHANGED <<src1, data1, limit>>
    /\ UNCHANGED <<call, src2, result, count, ofSrc2>>

Next == Ret0 \/ Entry \/ LoopAligned \/ MutualAlign \/ Misaligned8 \/ ByteLoop
          \/ PageEndLoop \/ Src1Aligned \/ StepA \/ StepB \/ StepC
          \/ FullCheck \/ SyndromeCheck \/ StrncmpEnd

Spec == Init /\ [][Next]_vars /\ WF_vars(Next)

-----------------------------------------------------------------------------
\* What decides the comparison is the limit, or else the first difference or the
\* end of the first string.
Stop == FirstOf(LAMBDA i : i = call.n \/ ~SameAt(i) \/ EndsAt(i))
Answer == IF Stop = call.n THEN Sign(0) ELSE Order(Stop)

\* The bytes known to be the same: those before data1, and in step C the part of
\* data1 that step B has compared.  At the ends data1 is known to decide.
Passed == CASE pc \in {"full_check", "syndrome_check", "end", "ret"} -> Stop
            [] pc \in {"loop_misaligned", "misaligned_mid_loop"} -> src1 - N - call.s1
            [] pc = "step_C" -> (src1 - N - call.s1) + neg_offset \div 8
            [] OTHER -> src1 - call.s1

\* Loads are within the tag granules of the bytes that the standard lets the
\* call read: none if n is 0, and up to a NUL or the limit.
LastByte(s) == Min({s + call.n - 1, Nul(s)})
Footprint == IF call.n = 0 THEN rd1 = {} /\ rd2 = {}
             ELSE /\ rd1 \subseteq Granules(call.s1, LastByte(call.s1))
                  /\ rd2 \subseteq Granules(call.s2, LastByte(call.s2))

-----------------------------------------------------------------------------
(* The inductive invariant.                                                *)

Labels == {"entry", "loop_aligned", "mutual_align", "misaligned8", "byte_loop",
           "page_end_loop", "src1_aligned", "loop_misaligned", "misaligned_mid_loop",
           "step_C", "full_check", "syndrome_check", "end", "ret"}
Words == {"loop_misaligned", "misaligned_mid_loop", "step_C"}
Checks == {"full_check", "syndrome_check"}

\* The addresses after the last one, and 8 times the limit of a big-endian build, are
\* numbers of a size_t.
ValidLimit(c) == /\ c.n < Size
                 /\ c.big => 8 * c.n < Size
                 /\ \A a \in DOMAIN c.mem : a + 1 < Size

\* The limit l at the k-th bytes is what is left of n or, near SIZE_MAX, it may be less
\* but still beyond what decides.
Leaves(k, l) == l > 0 /\ (k + l = call.n \/ (k + l < call.n /\ Stop < k + l))

\* How far src1 is; where data1 is from, and what belongs to it in the second string;
\* and how far that is into its aligned word.
Progress == src1 - call.s1
Base == Progress - N
Place2 == call.s2 + Base
Into2 == offset \div 8
Left == Minus(limit, -N)

PlaceInv ==
    /\ src1 \in Nat /\ src2 \in Nat /\ limit \in 0 .. (Size - 1) /\ count \in Nat
    /\ pc \in {"entry", "mutual_align", "misaligned8"} =>
          src1 = call.s1 /\ src2 = call.s2 /\ limit = call.n
    /\ pc \in {"mutual_align", "misaligned8"} => count = src1 % N /\ limit > 0
    /\ pc \in {"loop_aligned", "byte_loop", "page_end_loop", "src1_aligned"} =>
          Progress >= 0 /\ src2 - call.s2 = Progress
    /\ pc \in Checks => Progress >= 0
    /\ pc \in Words \/ (pc = "syndrome_check" /\ big) => Base >= 0
    /\ pc \in {"mutual_align", "loop_aligned"} => Into2 = 0
    /\ pc \in {"misaligned8", "byte_loop", "page_end_loop", "src1_aligned"} \cup Words => Into2 # 0
    /\ pc \in {"loop_aligned", "src1_aligned"} \cup Words => src1 % N = 0
    /\ pc = "mutual_align" => count # 0
    /\ pc = "page_end_loop" => count > 0 /\ (src1 + count) % N = 0

LimitInv ==
    /\ pc = "loop_aligned" => Leaves(Progress, limit)
    /\ pc \in {"byte_loop", "src1_aligned"} => Progress + limit = call.n /\ limit > 0
    /\ pc = "page_end_loop" => Progress + count + limit = call.n
    /\ pc \in {"page_end_loop", "src1_aligned"} => limit > N
    /\ pc \in Words => Base + limit = call.n /\ limit > 0
    /\ pc = "step_C" => limit > N - Into2
    /\ pc = "full_check" => Leaves(Base, Left) /\ limit = Minus(Left, N)
    /\ pc = "syndrome_check" => Leaves(Base, limit)

\* What has been passed over is the same.
PassedInv ==
    /\ pc \in {"loop_aligned", "byte_loop", "page_end_loop", "src1_aligned"} => Alike(Progress)
    /\ pc \in {"loop_misaligned", "misaligned_mid_loop", "full_check"} => Alike(Base)
    /\ pc = "step_C" => Alike(Base + (N - Into2))

\* The words of the second string that are loaded: those which what belongs to data1
\* reaches into, or the latter of them, or that and the two after it.
WordsInv ==
    /\ pc \in Words => data1 = Ldr(src1 - N)
    /\ pc = "loop_misaligned" => /\ (Place2 - Into2) % W = 0
                                 /\ tmp1 = Ldr(Place2 - Into2) /\ tmp2 = Ldr((Place2 - Into2) + N)
                                 /\ src2 = (Place2 - Into2) + W
    /\ pc = "misaligned_mid_loop" => /\ (Place2 - Into2) % W = N
                                     /\ tmp2 = Ldr(Place2 - Into2)
                                     /\ src2 = (Place2 - Into2) + N
    /\ pc = "step_C" => /\ (Place2 - Into2) % W = N
                        /\ tmp1 = Ldr((Place2 - Into2) + N) /\ tmp2 = Ldr((Place2 - Into2) + W)
                        /\ src2 = ((Place2 - Into2) + N) + W

\* Two words are fully checked; before the strings they have bytes of ones.
FullInv == /\ \A i \in 0 .. (N - 1) :
                 IF Base + i < 0 THEN Bits(data1, i) = AllOnes /\ Bits(data2, i) = AllOnes
                 ELSE /\ (call.s1 + Base) + i \in DOMAIN m /\ Place2 + i \in DOMAIN m
                      /\ Bits(data1, i) = BitsOf(m[(call.s1 + Base) + i])
                      /\ Bits(data2, i) = BitsOf(m[Place2 + i])
           /\ Left > N => \E i \in 0 .. (N - 1) : Base + i >= 0 /\ Decides(Base + i)

\* The syndrome has its first mark at byte f, or none; what precedes it and the limit
\* is the same, and if that is byte f it decides.
SyndromeInv ==
    \E f \in 0 .. N :
        /\ IF f < N THEN FirstMark(f) ELSE syndrome = {} /\ limit <= N
        /\ limit <= f => Alike(Base + limit)
        /\ f < limit => /\ f < N /\ Base + f >= 0 /\ Alike(Base + f) /\ Decides(Base + f)
                        /\ Sign(Octet(data1, f) - Octet(data2, f)) = Order(Base + f)

IInv == /\ ValidStrings(call) /\ ValidLimit(call) /\ pc \in Labels
        /\ RegistersInv /\ PlaceInv /\ LimitInv /\ PassedInv /\ WordsInv /\ Footprint
        /\ pc = "full_check" => FullInv
        /\ pc = "syndrome_check" => SyndromeInv
        /\ pc = "end" => MarksOrder(Answer)
        /\ pc = "ret" => Sign(result) = Answer

=============================================================================
