-------------------------------- MODULE Strcmp --------------------------------
(***************************************************************************)
(* string/aarch64/strcmp.S: strcmp, by words of N bytes.  If the strings   *)
(* are aligned alike their words are compared; if not, a word of the first *)
(* with an unaligned one of the second, after the aligned word of the      *)
(* second that follows has been seen, one iteration ahead, to hold no NUL. *)
(***************************************************************************)
EXTENDS Comparing

VARIABLES data3, has_nul   \* the aligned word of the second string, its NULs

vars == <<call, pc, src1, src2, rd1, rd2, result, data1, data2, syndrome, data3, has_nul>>

off2 == call.s2 - call.s1

Init == Called /\ Cleared /\ data3 = {} /\ has_nul = {}

Entry == /\ pc = "entry"
         /\ pc' = CASE off2 % N # 0 /\ src1 % N = 0 -> "src1_aligned"
                    [] off2 % N # 0 /\ src1 % N # 0 -> "do_misaligned"
                    [] off2 % N = 0 /\ src1 % N = 0 -> "loop_aligned"
                    [] off2 % N = 0 /\ src1 % N # 0 -> "mutual_align"
         /\ UNCHANGED <<call, src1, src2, rd1, rd2, result, data1, data2, syndrome, data3, has_nul>>

\* L(start_realigned): two words are compared.
StartRealigned(d1, d2) ==
    /\ data1' = d1 /\ data2' = d2
    /\ syndrome' = SymmetricDiff(data1', data2') \cup Nuls(data1')
    /\ pc' = IF syndrome' = {} THEN "loop_aligned" ELSE "end"

LoadWords(a) == /\ rd1' = Chunk(a, N) /\ rd2' = Chunk(a + off2, N)
                /\ src1' = a + N

LoopAligned == /\ pc = "loop_aligned"
               /\ LoadWords(src1)
               /\ StartRealigned(Ldr(src1), Ldr(src1 + off2))
               /\ UNCHANGED <<call, src2, result, data3, has_nul>>

\* neg shift, src2, lsl 3: the bits from src2 to the next word, modulo a word's.
Shift(a) == (-(8 * a)) % (8 * N)

\* The bytes before the strings are set in both words.
MutualAlign == /\ pc = "mutual_align"
               /\ LET a == src1 - (src1 % N)
                      before == LS_FW(XBits, Shift(src2))
                  IN  /\ LoadWords(a)
                      /\ StartRealigned(Ldr(a) \cup before, Ldr(a + off2) \cup before)
               /\ UNCHANGED <<call, src2, result, data3, has_nul>>

\* A byte at a time until src1 is aligned.
DoMisaligned == /\ pc = "do_misaligned"
                /\ rd1' = {src1} /\ rd2' = {src2}
                /\ src1' = src1 + 1 /\ src2' = src2 + 1
                /\ LET c1 == m[src1]
                       c2 == m[src2]
                   IN  IF c1 # 0 /\ c1 = c2
                       THEN /\ pc' = IF src1' % N # 0 THEN "do_misaligned" ELSE "src1_aligned"
                            /\ UNCHANGED result
                       ELSE result' = c1 - c2 /\ pc' = "ret"
                /\ UNCHANGED <<call, data1, data2, syndrome, data3, has_nul>>

\* The first aligned word of src2, the bytes before the string set to 1 at least.
Filled(X, shift) == X \cup lsr(Zeroones, shift)

Src1Aligned == /\ pc = "src1_aligned"
               /\ LET a == src2 - (src2 % N)
                  IN  /\ data3' = Filled(RevBE(Ldr(a)), Shift(src2))
                      /\ src2' = a + N
                      /\ rd2' = Chunk(a, N)
               /\ has_nul' = HasZero(data3')
               /\ pc' = IF has_nul' # {} THEN "tail" ELSE "loop_unaligned"
               /\ rd1' = {}
               /\ UNCHANGED <<call, src1, result, data1, data2, syndrome>>

\* src2 stays where L(src1_aligned) left it: src1 + off1 is the word after the
\* last one examined, and off1 = src2 - src1 at the start of the loop.
Ahead == (src1 + off2) + ((-(src1 + off2)) % N)
shift == Shift(off2)

\* NULs of data3 that the unaligned word holds are shifted to their place in it.
LoopUnaligned ==
    /\ pc = "loop_unaligned"
    /\ data3' = RevBE(Ldr(Ahead))
    /\ has_nul' = HasZero(data3')
    /\ rd1' = Chunk(src1, N)
    /\ rd2' = Chunk(Ahead, N) \cup Chunk(src1 + off2, N)
    /\ src1' = src1 + N
    /\ data1' = Ldr(src1) /\ data2' = Ldr(src1 + off2)
    /\ syndrome' = SymmetricDiff(data1', data2') \cup RevBE(lsl(has_nul', shift))
    /\ pc' = CASE has_nul' = {} /\ data1' = data2' -> "loop_unaligned"
               [] syndrome' # {} -> "end"
               [] has_nul' # {} /\ syndrome' = {} -> "tail"
    /\ UNCHANGED <<call, src2, result>>

\* A NUL that the unaligned word does not reach: the string ends within the
\* aligned word, from which what remains of it is taken.
Tail == /\ pc = "tail"
        /\ rd1' = Chunk(src1, N) /\ rd2' = {}
        /\ data1' = Ldr(src1) /\ data2' = RevBE(lsr(data3, -shift))
        /\ syndrome' = SymmetricDiff(data1', data2') \cup RevBE(lsr(has_nul, -shift))
        /\ pc' = "end"
        /\ UNCHANGED <<call, src1, src2, result, data3, has_nul>>

StrcmpEnd == EndQuick /\ UNCHANGED <<data3, has_nul>>

Next == Entry \/ LoopAligned \/ MutualAlign \/ DoMisaligned
          \/ Src1Aligned \/ LoopUnaligned \/ Tail \/ StrcmpEnd

Spec == Init /\ [][Next]_vars /\ WF_vars(Next)

-----------------------------------------------------------------------------
\* What decides the comparison is the first difference or the end of the first string.
Stop == FirstOf(LAMBDA i : ~SameAt(i) \/ EndsAt(i))
Answer == Order(Stop)

\* The bytes before src1 are the same in both strings; at the end it is known
\* what decides.
Passed == IF pc \in {"end", "ret"} THEN Stop ELSE src1 - call.s1

\* Loads are within the tag granules of the strings, so that an argument may end
\* at the end of a page; the second is not read past the word its NUL is in.
Footprint == /\ rd1 \subseteq Granules(call.s1, Nul(call.s1))
             /\ rd2 \subseteq Granules(call.s2, Nul(call.s2))

-----------------------------------------------------------------------------
(* The inductive invariant.                                                *)

Labels == {"entry", "loop_aligned", "mutual_align", "do_misaligned", "src1_aligned",
           "loop_unaligned", "tail", "end", "ret"}

\* The place in the second string, and how far into its aligned word that is.
Place2 == src1 + off2
Into2 == Place2 % N

PlaceInv ==
    /\ src1 \in Nat /\ src1 >= call.s1
    /\ pc \in {"entry", "mutual_align"} => src1 = call.s1 /\ src2 = call.s2
    /\ pc \in {"do_misaligned", "src1_aligned"} => src2 = Place2
    /\ pc \in {"mutual_align", "loop_aligned"} => off2 % N = 0
    /\ pc \in {"do_misaligned", "src1_aligned", "loop_unaligned", "tail"} => off2 % N # 0
    /\ pc \in {"mutual_align", "do_misaligned"} => src1 % N # 0
    /\ pc \in {"loop_aligned", "src1_aligned", "loop_unaligned", "tail"} => src1 % N = 0

\* What has been passed over is the same.  Of the aligned words of the second string
\* that the unaligned one reaches into, the first has been seen to have no NUL.
PassedInv == /\ pc \notin {"end", "ret"} => Alike(src1 - call.s1)
             /\ pc = "loop_unaligned" => \A a \in Place2 .. (Ahead - 1) : m[a] # 0

\* Or that word is in data3, with its NUL marked.
TailInv == /\ data3 \subseteq XBits /\ has_nul = HasZero(data3)
           /\ \E f \in Into2 .. (N - 1) :
                 /\ LowBits(data3, f) = {} /\ \A i \in 0 .. (f - 1) : LowBits(data3, i) # {}
                 /\ \A i \in Into2 .. f : LowBits(data3, i) = BitsOf(m[(Place2 - Into2) + i])

IInv == /\ ValidStrings(call) /\ pc \in Labels
        /\ RegistersInv /\ PlaceInv /\ PassedInv /\ Footprint
        /\ pc = "tail" => TailInv
        /\ pc = "end" => MarksOrder(Answer)
        /\ pc = "ret" => Sign(result) = Answer

=============================================================================
