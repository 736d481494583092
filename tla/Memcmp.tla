-------------------------------- MODULE Memcmp --------------------------------
(***************************************************************************)
(* string/aarch64/memcmp.S: memcmp, by pairs of words of 8 bytes.  A word  *)
(* is a function from 0 .. 7 to bytes, the least significant first.        *)
(***************************************************************************)
EXTENDS Comparing, FiniteSetsExt

VARIABLES limit,
          tmp   \* the bytes that are not 0 in the word of that name

vars == <<call, pc, src1, src2, rd1, rd2, result, limit, tmp>>

Init == Called /\ limit = call.n /\ tmp = {}

src1end == call.s1 + call.n
src2end == call.s2 + call.n

\* A load of n bytes, zero-extended, in either byte order; ldr of 8.
Load(a, n) == [i \in 0 .. 7 |-> IF i >= n THEN 0 ELSE m[a + (IF big THEN n - 1 - i ELSE i)]]
Word(a) == Load(a, 8)

\* rev, of the little-endian build.
AsNumber(x) == IF big THEN x ELSE [i \in 0 .. 7 |-> x[7 - i]]

Less(x, y) == \E i \in 0 .. 7 : x[i] < y[i] /\ \A j \in (i + 1) .. 7 : x[j] = y[j]

\* L(return): words compared with the byte of the lowest address first.
Return(x, y) == /\ result' = IF x = y THEN 0 ELSE IF Less(AsNumber(x), AsNumber(y)) THEN -1 ELSE 1
                /\ pc' = "ret"

\* L(return2): the second words count if the first are the same.
Return2(x, xx, y, yy) == IF x # y THEN Return(x, y) ELSE Return(xx, yy)

ReturnPair(a1, a2) == Return2(Word(a1), Word(a1 + 8), Word(a2), Word(a2 + 8))

\* ldp of both, and are the words the same?
Loaded(a1, a2, n) == rd1' = Chunk(a1, n) /\ rd2' = Chunk(a2, n)
SamePair(a1, a2) == Word(a1) = Word(a2) /\ Word(a1 + 8) = Word(a2 + 8)

\* The n bytes of each at the start, and at the end, of less than 16.
FromBothEnds(n) ==
    /\ rd1' = Chunk(src1, n) \cup Chunk(src1end - n, n)
    /\ rd2' = Chunk(src2, n) \cup Chunk(src2end - n, n)
    /\ Return2(Load(src1, n), Load(src1end - n, n), Load(src2, n), Load(src2end - n, n))
    /\ UNCHANGED <<call, src1, src2, limit, tmp>>

\* tbz: is the bit of limit worth n set?
Bit(n) == (limit \div n) % 2 = 1

Less16 == pc = "entry" /\ limit < 16 /\ Bit(8) /\ FromBothEnds(8)
Less8 == pc = "entry" /\ limit < 16 /\ ~Bit(8) /\ Bit(4) /\ FromBothEnds(4)

\* A halfword, and the last byte.
Less4 == /\ pc = "entry" /\ limit < 16 /\ ~Bit(8) /\ ~Bit(4)
         /\ LET x == Load(src1, 2)
                y == Load(src2, 2)
                two == IF Bit(2) THEN 2 ELSE 0
                one == IF Bit(1) THEN 1 ELSE 0
            IN  IF Bit(2) /\ x # y
                THEN Loaded(src1, src2, 2) /\ Return(x, y)
                ELSE /\ Loaded(src1, src2, two + one)
                     /\ result' = IF Bit(1) THEN m[src1end - 1] - m[src2end - 1] ELSE 0
                     /\ pc' = "ret"
         /\ UNCHANGED <<call, src1, src2, limit, tmp>>

\* The first 16 bytes, which decide if they differ or there are no more.
Entry16 == /\ pc = "entry" /\ limit >= 16
           /\ Loaded(src1, src2, 16)
           /\ IF limit = 16 \/ ~SamePair(src1, src2)
              THEN ReturnPair(src1, src2) /\ UNCHANGED limit
              ELSE /\ pc' = CASE limit <= 32 -> "last_bytes"
                              [] limit >= 160 -> "loop_align"
                              [] limit > 32 /\ limit < 160 -> "loop32"
                   /\ limit' = IF limit > 32 /\ limit < 160 THEN limit - 32 ELSE limit
                   /\ UNCHANGED result
           /\ UNCHANGED <<call, src1, src2, tmp>>

\* L(loop32): 16 bytes, and 16 more.
Loop32 == /\ pc = "loop32"
          /\ Loaded(src1 + 16, src2 + 16, 16)
          /\ IF SamePair(src1 + 16, src2 + 16)
             THEN pc' = (IF limit <= 16 THEN "last_bytes" ELSE "loop32_second")
                     /\ UNCHANGED result
             ELSE ReturnPair(src1 + 16, src2 + 16)
          /\ UNCHANGED <<call, src1, src2, limit, tmp>>

\* L(last64): 32 bytes of limit less, l, if there are more than that.
Last64(l) == /\ limit' = l - 32
             /\ pc' = IF l > 32 THEN "loop32" ELSE "last_bytes"

Loop32Second ==
    /\ pc = "loop32_second"
    /\ Loaded(src1 + 32, src2 + 32, 16)
    /\ IF SamePair(src1 + 32, src2 + 32)
       THEN /\ src1' = src1 + 32 /\ src2' = src2 + 32
            /\ Last64(limit)
            /\ UNCHANGED result
       ELSE ReturnPair(src1 + 32, src2 + 32) /\ UNCHANGED <<src1, src2, limit>>
    /\ UNCHANGED <<call, tmp>>

LastBytes == /\ pc = "last_bytes"
             /\ Loaded(src1end - 16, src2end - 16, 16)
             /\ ReturnPair(src1end - 16, src2end - 16)
             /\ UNCHANGED <<call, src1, src2, limit, tmp>>

\* The limit of a loop that subtracts 64, of which the last 80 bytes are left out.
Underbiased(l) == l - 64
Biased(l) == l - (64 + 16)

\* src2 is aligned up, less the 16 bytes by which loads are offset.
LoopAlign == /\ pc = "loop_align"
             /\ Loaded(src1 + 16, src2 + 16, 16)
             /\ IF SamePair(src1 + 16, src2 + 16)
                THEN LET off == (src2 % 16) - 16
                     IN  /\ src1' = src1 - off /\ src2' = src2 - off
                         /\ limit' = Biased(limit + off)
                         /\ pc' = "loop64"
                         /\ UNCHANGED result
                ELSE ReturnPair(src1 + 16, src2 + 16) /\ UNCHANGED <<src1, src2, limit>>
             /\ UNCHANGED <<call, tmp>>

\* The eor of vectors at a1 and a2, of four of them, is reduced by umaxp to a
\* word of which byte k is not 0 if one of 8 bytes is different: those from
\* 8 * k on, or in the big-endian order of bytes in each of the vectors.
Differences(a1, a2) ==
    LET from(k) == 16 * (k \div 2) + (IF big THEN 8 * (1 - (k % 2)) ELSE 8 * (k % 2))
    IN  {k \in 0 .. 7 : \E i \in from(k) .. (from(k) + 7) : m[a1 + i] # m[a2 + i]}

\* L(loop64): limit, biased by 80, goes below 0 if there are no 64 bytes left.
Loop64 == /\ pc = "loop64"
          /\ Loaded(src1 + 16, src2 + 16, 64)
          /\ src1' = src1 + 64 /\ src2' = src2 + 64
          /\ tmp' = Differences(src1 + 16, src2 + 16)
          /\ IF limit > 64 /\ tmp' = {}
             THEN limit' = limit - 64 /\ UNCHANGED pc
             ELSE limit' = (limit - 64) + (64 + 16) /\ pc' = "after_loop64"
          /\ UNCHANGED <<call, result>>

\* If the last 64 are the same the rest is for the other loop.
Same64 == /\ pc = "after_loop64" /\ tmp = {}
          /\ Last64(limit)
          /\ UNCHANGED <<call, src1, src2, rd1, rd2, result, tmp>>

\* rev16: the two bytes of each halfword exchanged.
Unexchanged(X) == X
rev16(X) == {IF k % 2 = 0 THEN k + 1 ELSE k - 1 : k \in X}

\* The word of the first difference, which is loaded again.
Different == /\ pc = "after_loop64" /\ tmp # {}
             /\ LET off == 8 * Min(IF big THEN rev16(tmp) ELSE tmp) - 48
                IN  /\ Loaded(src1 + off, src2 + off, 8)
                    /\ result' = IF Less(AsNumber(Word(src1 + off)), AsNumber(Word(src2 + off)))
                                 THEN -1 ELSE 1
             /\ pc' = "ret"
             /\ UNCHANGED <<call, src1, src2, limit, tmp>>

Next == Less16 \/ Less8 \/ Less4 \/ Entry16 \/ Loop32 \/ Loop32Second
          \/ LastBytes \/ LoopAlign \/ Loop64 \/ Same64 \/ Different

Spec == Init /\ [][Next]_vars /\ WF_vars(Next)

-----------------------------------------------------------------------------
\* What decides the comparison is the first difference or the end.
Stop == FirstOf(LAMBDA i : i = call.n \/ ~SameAt(i))
Answer == IF Stop = call.n THEN Sign(0) ELSE Order(Stop)

\* The bytes known to be the same; when only the last 16 remain to be compared,
\* it is at least all the others.
Passed == CASE pc = "entry" -> 0
            [] pc \in {"loop_align", "loop32", "loop64"} -> (src1 + 16) - call.s1
            [] pc = "loop32_second" -> (src1 + 32) - call.s1
            [] pc = "last_bytes" -> Max({call.n - 16, (src1 + 16) - call.s1})
            [] pc = "after_loop64" -> IF tmp = {} THEN (src1 + 16) - call.s1 ELSE Stop
            [] pc = "ret" -> Stop

\* memcmp loads nothing but its buffers, though it loads up to 64 bytes at a time
\* and the last ones again.
Footprint == /\ rd1 \subseteq Chunk(call.s1, call.n)
             /\ rd2 \subseteq Chunk(call.s2, call.n)

-----------------------------------------------------------------------------
(* The inductive invariant.                                                *)

\* The buffers hold numbers.  (The memory has an address for each number up to the
\* size of the buffers: Comparing!FirstOf looks for an index among addresses.)
ValidCall(c) == /\ c.s1 \in Nat /\ c.s2 \in Nat /\ c.n \in Nat /\ c.big \in BOOLEAN
                /\ DOMAIN c.mem \subseteq Nat /\ 0 .. c.n \subseteq DOMAIN c.mem
                /\ \A i \in 0 .. (c.n - 1) : c.mem[c.s1 + i] \in Int /\ c.mem[c.s2 + i] \in Int

\* Are the first k bytes of the buffers the same?
SameBytes(c, k) == \A i \in 0 .. (k - 1) : c.mem[c.s1 + i] = c.mem[c.s2 + i]
Same(k) == SameBytes(call, k)

Labels == {"entry", "loop_align", "loop32", "loop32_second", "loop64", "after_loop64",
           "last_bytes", "ret"}

\* How far the pointers have advanced.
Progress == src1 - call.s1

\* What is left of the buffers is the limit, which each loop biases differently.
PlaceInv ==
    /\ src1 \in Int /\ src2 \in Int /\ limit \in Int
    /\ src2 - call.s2 = Progress /\ Progress >= 0
    /\ pc = "entry" => Progress = 0 /\ limit = call.n
    /\ pc = "loop_align" => Progress = 0 /\ limit = call.n /\ limit >= 160
    /\ pc \in {"loop32", "loop32_second"} => (Progress + 32) + limit = call.n /\ limit > 0
    /\ pc = "loop32_second" => limit > 16
    /\ pc = "loop64" => (Progress + 80) + limit = call.n /\ limit > 0
    /\ pc = "after_loop64" => Progress + limit = call.n /\ limit >= 17 /\ Progress >= 64
    /\ pc = "last_bytes" => call.n >= Progress + 16

\* The words of 64 bytes from k on in which there is a difference.
WordsDiffer(c, k) ==
    {w \in 0 .. 7 : \E i \in (8 * w) .. (8 * w + 7) :
                        c.mem[(c.s1 + k) + i] # c.mem[(c.s2 + k) + i]}

\* What has been compared is the same.  Of the last 64 bytes of the loop of 64 only the
\* words that differ are known.
SameInv ==
    /\ pc \in {"loop_align", "loop32", "loop64", "last_bytes"} => Same(Progress + 16)
    /\ pc = "loop32_second" => Same(Progress + 32)
    /\ pc = "last_bytes" => Same(call.n - 16)
    /\ pc = "after_loop64" =>
          /\ Same(Progress - 48) /\ tmp \subseteq 0 .. 7
          /\ (IF big THEN rev16(tmp) ELSE tmp) = WordsDiffer(call, Progress - 48)

\* The result has the sign that the C standard says.
ResultRight == pc = "ret" => Sign(result) = Answer

\* At each label of memcmp the limit fits the pointers, the bytes passed are the same
\* and the words marked are those that differ; it loads nothing but its buffers and
\* returns what the C standard says.
IInv == /\ ValidCall(call) /\ pc \in Labels
        /\ PlaceInv /\ SameInv /\ ResultRight /\ Footprint

=============================================================================
