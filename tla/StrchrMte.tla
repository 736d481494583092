------------------------------- MODULE StrchrMte -------------------------------
(***************************************************************************)
(* string/aarch64/strchr-mte.S and strchrnul-mte.S: the first chrin of a   *)
(* string, or NULL (strchr) or its NUL (strchrnul) if it has none, by      *)
(* aligned chunks of W bytes.  Two bits of a syndrome's four for a byte    *)
(* say it matches, the other two that it matches or is NUL; in strchrnul,  *)
(* all four.                                                               *)
(***************************************************************************)
EXTENDS Strings

CONSTANT Chars   \* the possible values of chrin

VARIABLES routine, chrin

vars == <<mem, srcin, big, pc, src, vdata, rd, result, routine, chrin>>

Init == routine \in {"strchr", "strchrnul"} /\ Called(Aligned(srcin, W)) /\ chrin \in Chars

strchr == routine = "strchr"

vrepmask == Repeated({0, 1, 4, 5})   \* 0x33
vhas_chr(v) == cmeq(v, chrin)

\* Matches set it too, in the loop of strchr and everywhere in strchrnul.
vhas_nul(v) == cmhs(vhas_chr(v), v)

\* The first bit at position k of the syndrome is at the start of a byte's
\* four if the byte matches; otherwise it is a NUL.
Always(at, k) == at + (k \div 4)
IfMatch(at, k) == IF (k \div 2) % 2 = 0 THEN at + (k \div 4) ELSE 0

\* The first chunk, less the bytes before the string.
Entry == /\ pc = "entry" /\ strchr
         /\ Ld1(src)
         /\ LET both == bit(cmeq(vdata', 0), vhas_chr(vdata'), vrepmask)
                tmp1 == lsr(shrn(both), 4 * srcin)
            IN  IF tmp1 = {}
                THEN pc' = "loop" /\ UNCHANGED result
                ELSE result' = IfMatch(srcin, clz(rbit(tmp1))) /\ pc' = "ret"
         /\ UNCHANGED <<given, src, chrin, routine>>

FirstChunk(X) == X
Masked(X) == lsr(X, 4 * srcin)
EntryNul == /\ pc = "entry" /\ ~strchr
            /\ Ld1(src)
            /\ LET tmp1 == Masked(shrn(vhas_nul(vdata')))
               IN  IF tmp1 = {}
                   THEN pc' = "loop" /\ UNCHANGED result
                   ELSE result' = srcin + (clz(rbit(tmp1)) \div 4) /\ pc' = "ret"
            /\ UNCHANGED <<given, src, chrin, routine>>

Found(v) == fmov(umaxp(vhas_nul(v), vhas_nul(v))) # {}

Loop == /\ pc = "loop"
        /\ LdrQ(src + W)
        /\ pc' = IF Found(vdata') THEN "end" ELSE "loop_half"
        /\ UNCHANGED <<given, src, result, chrin, routine>>

\* src is back one chunk from the one loaded if that has a match.
LoopHalf == /\ pc = "loop_half"
            /\ LdrQ(src + 2 * W)
            /\ IF Found(vdata')
               THEN pc' = "end" /\ src' = src + W
               ELSE pc' = "loop" /\ src' = src + 2 * W
            /\ UNCHANGED <<given, result, chrin, routine>>

\* In ldr's byte order the bits of a match come first again: they go to the
\* upper two bits of a big-endian syndrome.
SyndromeLittle(v) == shrn(bit(vhas_nul(v), vhas_chr(v), vrepmask))
Syndrome(v) == IF big THEN shrn(bif(vhas_nul(v), vhas_chr(v), vrepmask))
               ELSE shrn(bit(vhas_nul(v), vhas_chr(v), vrepmask))

End == /\ pc = "end" /\ strchr
       /\ src' = src + W
       /\ result' = IfMatch(src', FirstOf(Syndrome(vdata)))
       /\ pc' = "ret" /\ rd' = {}
       /\ UNCHANGED <<given, vdata, chrin, routine>>

EndNul == /\ pc = "end" /\ ~strchr
          /\ src' = src + W
          /\ result' = src' + (FirstOf(shrn(vhas_nul(vdata))) \div 4)
          /\ pc' = "ret" /\ rd' = {}
          /\ UNCHANGED <<given, vdata, chrin, routine>>

Next == Entry \/ EntryNul \/ Loop \/ LoopHalf \/ End \/ EndNul

Spec == Init /\ [][Next]_vars /\ WF_vars(Next)

-----------------------------------------------------------------------------
Match == First(srcin, {chrin, 0})

\* No byte is passed over.  strchr returns the first match, which may be the NUL
\* if that is what is looked for, and NULL for a string that has none; strchrnul
\* the first match or the NUL.
Stop == Match - srcin
Answer == IF ~strchr \/ mem[Match] = chrin THEN Match ELSE 0

\* The bytes of the string before the next chunk to load.
Passed == CASE pc = "entry" -> 0
            [] pc \in {"loop", "end"} -> (src + W) - srcin
            [] pc = "loop_half" -> (src + 2 * W) - srcin
            [] pc = "ret" -> Match - srcin

\* Every load is of a tag granule that holds a byte of the string, no further
\* than the match.
Footprint == rd \subseteq Granules(srcin, Match, W)

\* What holds before each step: no match or NUL precedes the next chunk to load,
\* and the one that the loop ends at, after src, has one.
IInv == /\ src \in Int /\ src % W = 0
        /\ pc \in {"entry", "loop", "loop_half", "end", "ret"}
        /\ pc = "entry" => src = Aligned(srcin, W) /\ result = 0
        /\ pc \in {"loop", "end"} => srcin < src + W /\ src + W <= Match
        /\ pc = "loop_half" => srcin < src + 2 * W /\ src + 2 * W <= Match
        /\ pc = "end" => /\ vdata = ldrq(mem, src + W, big)
                         /\ \E i \in Lanes : mem[src + W + i] \in {chrin, 0}
        /\ pc = "ret" => result = Answer
        /\ Footprint

=============================================================================
