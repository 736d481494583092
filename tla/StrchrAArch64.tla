----------------------------- MODULE StrchrAArch64 -----------------------------
(***************************************************************************)
(* string/aarch64/strchr.S and strchrnul.S: the first chrin of a string,   *)
(* or NULL (strchr) or its NUL (strchrnul) if it has none, by aligned      *)
(* hunks of 2W bytes.  The even bits of a syndrome of strchr say that a    *)
(* byte matches, the odd ones that it is NUL or, in the loop, that it      *)
(* matches or is NUL.                                                      *)
(***************************************************************************)
EXTENDS Hunks

VARIABLES routine,
          tmp1      \* the syndrome

vars == <<mem, srcin, big, pc, src, vdata, rd, result, chrin, vdata2, tmp1, routine>>

Init == routine \in {"strchr", "strchrnul"} /\ CalledWithChar /\ tmp1 = {}

strchr == routine = "strchr"

\* vrepmask_c twice, as words of four lanes: shifted left by one bit.
vrepmask_c == Stepped({0, 1})
vrepmask_0 == [i \in Lanes |-> {2 * (i % 4) + 1, 2 * (i % 4) + 2} \cap AllOnes]

vhas_chr(v) == cmeq(v, chrin)
vhas_nul(v) == cmhs(vhas_chr(v), v)

\* The syndrome of the hunk under the results nul1, nul2 of comparing with NUL.
HunkSyndrome(nul1, nul2) == Syndrome(bif(nul1, vhas_chr(vdata'), vrepmask_0),
                                     bif(nul2, vhas_chr(vdata2'), vrepmask_0),
                                     vrepmask_c)

Aligned0 == /\ pc = "entry" /\ soff = 0
            /\ pc' = "loop"
            /\ UNCHANGED <<given, src, vdata, rd, result, chrin, vdata2, tmp1, routine>>

\* The first hunk, less the bytes before the string.
Entry == /\ pc = "entry" /\ soff # 0 /\ strchr
         /\ LoadHunk
         /\ tmp1' = HunkSyndrome(cmeq(vdata', 0), cmeq(vdata2', 0)) \ Padding
         /\ pc' = IF tmp1' = {} THEN "loop" ELSE "tail"
         /\ UNCHANGED <<given, result, chrin, routine>>

NulSyndrome == Syndrome(vhas_nul(vdata'), vhas_nul(vdata2'), Stepped({0}))
EntryNul == /\ pc = "entry" /\ soff # 0 /\ ~strchr
            /\ LoadHunk
            /\ tmp1' = NulSyndrome \ Padding
            /\ pc' = IF tmp1' = {} THEN "loop" ELSE "tail"
            /\ UNCHANGED <<given, result, chrin, routine>>

Found(U, V) == LET v == orr(U, V) IN fmov(umaxp(v, v)) # {}

Loop == /\ pc = "loop"
        /\ LoadHunk
        /\ IF Found(vhas_nul(vdata'), vhas_nul(vdata2'))
           THEN /\ tmp1' = IF strchr THEN HunkSyndrome(vhas_nul(vdata'), vhas_nul(vdata2'))
                          ELSE NulSyndrome
                /\ pc' = "tail"
           ELSE UNCHANGED <<pc, tmp1>>
        /\ UNCHANGED <<given, result, chrin, routine>>

\* The first bit of the syndrome is even if its byte matches; otherwise it is
\* a NUL.
Always(at, k) == at + (k \div 2)
IfMatch(at, k) == IF k % 2 = 0 THEN at + (k \div 2) ELSE 0

Tail == /\ pc = "tail" /\ strchr
        /\ src' = src - 2 * W
        /\ result' = IfMatch(src', clz(rbit(tmp1)))
        /\ pc' = "ret" /\ rd' = {}
        /\ UNCHANGED <<given, vdata, chrin, vdata2, tmp1, routine>>

TailNul == /\ pc = "tail" /\ ~strchr
           /\ src' = src - 2 * W
           /\ result' = src' + (clz(rbit(tmp1)) \div 2)
           /\ pc' = "ret" /\ rd' = {}
           /\ UNCHANGED <<given, vdata, chrin, vdata2, tmp1, routine>>

Next == Aligned0 \/ Entry \/ EntryNul \/ Loop \/ Tail \/ TailNul

Spec == Init /\ [][Next]_vars /\ WF_vars(Next)

-----------------------------------------------------------------------------
Match == First(srcin, {chrin, 0})

\* No byte is passed over.  strchr returns the first match, which may be the NUL
\* if that is what is looked for, and NULL for a string that has none; strchrnul
\* the first match or the NUL.
Stop == Match - srcin
Answer == IF ~strchr \/ mem[Match] = chrin THEN Match ELSE 0

\* The bytes of the string before the next hunk to load.
Passed == CASE pc = "entry" -> 0
            [] pc = "loop" -> IF src < srcin THEN 0 ELSE src - srcin
            [] pc = "tail" -> IF src - 2 * W < srcin THEN 0 ELSE src - 2 * W - srcin
            [] pc = "ret" -> Match - srcin

\* Every load is of an aligned hunk, and so of a page, that holds a byte of the
\* string, no further than the match.
Footprint == rd \subseteq Granules(srcin, Match, 2 * W)

\* What holds before each step: no match or NUL precedes the next hunk to load, and
\* the first bit of the syndrome of the one that the loop ends at tells the first,
\* and which of the two it is.
IInv == /\ src \in Int /\ src % (2 * W) = 0
        /\ pc \in {"entry", "loop", "tail", "ret"}
        /\ pc = "entry" => src = Aligned(srcin, 2 * W) /\ result = 0
        /\ pc = "loop" => srcin <= src /\ src <= Match
        /\ pc = "tail" => /\ srcin < src /\ src - 2 * W <= Match /\ Match < src
                          /\ LET first == clz(rbit(tmp1))
                             IN  /\ (src - 2 * W) + (first \div 2) = Match
                                 /\ strchr => (first % 2 = 0 <=> mem[Match] = chrin)
        /\ pc = "ret" => result = Answer
        /\ Footprint

=============================================================================
