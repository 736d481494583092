------------------------------ MODULE StrrchrMte ------------------------------
(***************************************************************************)
(* string/aarch64/strrchr-mte.S: the last chrin of a string, or NULL if it *)
(* has none, by aligned chunks of W bytes.  Of a syndrome's bits for a     *)
(* byte the lower two say that it matches, the upper two that it is NUL.   *)
(***************************************************************************)
EXTENDS Strings

CONSTANT Chars   \* the possible values of chrin

VARIABLES chrin, synd,
          src_match, chr_match   \* the last match of the second loop: the
                                 \* chunk after it and its syndrome

vars == <<mem, srcin, big, pc, src, vdata, rd, result, chrin, synd, src_match, chr_match>>

Init == /\ Called(Aligned(srcin, W)) /\ chrin \in Chars
        /\ synd = {} /\ src_match = 0 /\ chr_match = {}

vrepmask == Repeated({0, 1, 4, 5})   \* 0x33

\* The mask of the second loop, which keeps only the lower half of an even lane.
vrepmask2 == [i \in Lanes |-> IF i % 2 = 0 THEN {0, 1} ELSE {0, 1, 4, 5}]

\* The bits of a syndrome for NULs and for matches: 0xcc.. and 0x33..
NulBits == {k \in XBits : k % 4 >= 2}
ChrBits == {k \in XBits : k % 4 < 2}

vhas_chr(v) == cmeq(v, chrin)
Both(v, mask) == bit(cmeq(v, 0), vhas_chr(v), mask)

\* The matches of syndrome X up to its first NUL.
AnyMatch(X) == X \cap ChrBits
BeforeNul(X) == X \cap ChrBits \cap MinusOne(X \cap NulBits)

\* The last match of the chunk at src with syndrome X.
Tail(X) == IF BeforeNul(X) = {} THEN 0
           ELSE (src' + W - 1) - (clz(BeforeNul(X)) \div 4)

\* A NUL in the chunk at src' settles the answer; a match leads to the loop that
\* keeps matches.
Continue(otherwise) ==
    /\ IF synd' \cap NulBits # {}
       THEN pc' = "ret" /\ result' = Tail(synd')
       ELSE pc' = otherwise /\ UNCHANGED result
    /\ UNCHANGED <<given, chrin, src_match, chr_match>>

\* The first chunk, less the bytes before the string.
Entry == /\ pc = "entry"
         /\ Ld1(src)
         /\ synd' = lsl(lsr(shrn(Both(vdata', vrepmask)), 4 * srcin), 4 * srcin)
         /\ UNCHANGED src
         /\ Continue(IF synd' = {} THEN "loop1" ELSE "loop2_start")

vhas_any(v) == cmhs(vhas_chr(v), v)

\* The loop until there is a match or a NUL, at [src, W] and then [src, 2W]!.
LoopLoad(at) == /\ LdrQ(at)
                /\ synd' = fmov(umaxp(vhas_any(vdata'), vhas_any(vdata')))
                /\ UNCHANGED <<given, result, chrin, src_match, chr_match>>

Loop1 == /\ pc = "loop1"
         /\ LoopLoad(src + W)
         /\ pc' = IF synd' = {} THEN "loop1_half" ELSE "loop1_end"
         /\ UNCHANGED src

Loop1Half == /\ pc = "loop1_half"
             /\ LoopLoad(src + 2 * W)
             /\ IF synd' = {}
                THEN pc' = "loop1" /\ src' = src + 2 * W
                ELSE pc' = "loop1_end" /\ src' = src + W

\* A big-endian chunk, in ldr's byte order, has its lanes and so the two pairs
\* of bits of each reversed.
Loop1End == /\ pc = "loop1_end"
            /\ src' = src + W
            /\ synd' = IF big
                       THEN rbit(shrn(bif(cmeq(vdata, 0), vhas_chr(vdata), vrepmask)))
                       ELSE shrn(Both(vdata, vrepmask))
            /\ rd' = {} /\ UNCHANGED vdata
            /\ Continue("loop2_start")

Loop2Start == /\ pc = "loop2_start"
              /\ src' = src + W
              /\ rd' = {} /\ pc' = "loop2"
              /\ UNCHANGED <<given, vdata, result, chrin, synd, src_match, chr_match>>

\* The loop that keeps the last match, for chunks in memory order.
Loop2 == /\ pc = "loop2"
         /\ src_match' = IF synd # {} THEN src ELSE src_match
         /\ chr_match' = IF synd # {} THEN synd ELSE chr_match
         /\ Ld1(src)
         /\ src' = src + W
         /\ LET both == Both(vdata', vrepmask2)
            IN  synd' = fmov(umaxp(both, both))
         /\ pc' = IF synd' \cap NulBits = {} THEN "loop2" ELSE "loop2_end"
         /\ UNCHANGED <<given, result, chrin>>

\* All but the lower bits of odd lanes.
NotLowerOdd == [i \in Lanes |-> IF i % 2 = 0 THEN AllOnes ELSE 4 .. 7]

\* The syndrome of the last chunk: an odd lane's lower bits make way for the
\* even lane's.
Loop2End ==
    /\ pc = "loop2_end"
    /\ LET both == and(Both(vdata, vrepmask2), NotLowerOdd)
           tmp == BeforeNul(fmov(addp(both, both)))
       IN  /\ chr_match' = IF tmp # {} THEN tmp ELSE chr_match
           /\ src_match' = (IF tmp # {} THEN src ELSE src_match) - 1
    /\ result' = src_match' - (clz(chr_match') \div 4)
    /\ pc' = "ret" /\ rd' = {}
    /\ UNCHANGED <<given, src, vdata, chrin, synd>>

Next == Entry \/ Loop1 \/ Loop1Half \/ Loop1End \/ Loop2Start \/ Loop2 \/ Loop2End

Spec == Init /\ [][Next]_vars /\ WF_vars(Next)

-----------------------------------------------------------------------------
Nul == First(srcin, {0})
Matches == {x \in srcin .. Nul : mem[x] = chrin}

\* strrchr passes over no byte before the NUL and returns the last match, which
\* is the NUL itself if that is what is looked for, or NULL.
Stop == Nul - srcin
Answer == IF Matches = {} THEN 0 ELSE Max(Matches)

\* The bytes of the string before the next chunk to load.
Passed == CASE pc = "entry" -> 0
            [] pc \in {"loop1", "loop1_end", "loop2_start"} -> (src + W) - srcin
            [] pc = "loop1_half" -> (src + 2 * W) - srcin
            [] pc = "loop2" -> src - srcin
            [] pc = "loop2_end" -> (src - W) - srcin
            [] pc = "ret" -> Nul - srcin

\* Every load is of a tag granule that holds a byte of the string or its NUL.
Footprint == rd \subseteq Granules(srcin, Nul, W)

\* What holds before each step: no NUL, nor in the first loop a match, precedes the
\* next chunk to load; and of the bytes before that chunk, less those of it that
\* the syndrome is about, the last match is the one kept.
Any == First(srcin, {chrin, 0})
LastMatch(x, top) == /\ x \in srcin .. (top - 1) /\ mem[x] = chrin
                     /\ \A y \in (x + 1) .. (top - 1) : mem[y] # chrin
Kept(after, X) == (after - 1) - (clz(X) \div 4)
IInv == /\ src \in Int /\ src % W = 0
        /\ pc \in {"entry", "loop1", "loop1_half", "loop1_end", "loop2_start", "loop2",
                   "loop2_end", "ret"}
        /\ pc = "entry" => src = Aligned(srcin, W) /\ result = 0 /\ synd = {}
        /\ pc \in {"loop1", "loop1_end"} => srcin < src + W /\ src + W <= Any
        /\ pc = "loop1_half" => srcin < src + 2 * W /\ src + 2 * W <= Any
        /\ pc = "loop1_end" => /\ vdata = ldrq(mem, src + W, big)
                               /\ \E i \in Lanes : mem[src + W + i] \in {chrin, 0}
        /\ pc = "loop2_start" => /\ synd # {} /\ src + W <= Nul
                                 /\ LastMatch(Kept(src + W, synd), src + W)
        /\ pc = "loop2" => /\ src <= Nul
                           /\ IF synd = {} THEN LastMatch(Kept(src_match, chr_match), src)
                              ELSE LastMatch(Kept(src, synd), src)
        /\ pc = "loop2_end" => /\ src - W <= Nul /\ Nul < src /\ vdata = ld1(mem, src - W)
                               /\ LastMatch(Kept(src_match, chr_match), src - W)
        /\ pc = "ret" => result = Answer
        /\ Footprint

=============================================================================
