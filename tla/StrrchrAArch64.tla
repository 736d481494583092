---------------------------- MODULE StrrchrAArch64 ----------------------------
(***************************************************************************)
(* string/aarch64/strrchr.S: the last chrin of a string, or NULL if it has *)
(* none, by aligned hunks of 2W bytes.  The even bits of one syndrome say  *)
(* that a byte matches, the odd ones of another that it is NUL.            *)
(***************************************************************************)
EXTENDS Hunks

VARIABLES nul_match, chr_match,    \* the syndromes of the last hunk
          src_match, src_offset    \* where the last hunk with a match ends,
                                   \* and its syndrome

vars == <<mem, srcin, big, pc, src, vdata, rd, result, chrin, vdata2,
          nul_match, chr_match, src_match, src_offset>>

Init == /\ CalledWithChar
        /\ nul_match = {} /\ chr_match = {} /\ src_match = 0 /\ src_offset = {}

Aligned0 == /\ pc = "entry" /\ soff = 0
            /\ pc' = "aligned"
            /\ UNCHANGED <<given, src, vdata, rd, result, chrin, vdata2, nul_match,
                           chr_match, src_match, src_offset>>

\* The hunk's bits that are set for the bytes equal to c.
Bits(c, P) == Syndrome(cmeq(vdata', c), cmeq(vdata2', c), Stepped(P))

\* The first hunk, less the bytes before the string.
Entry == /\ pc = "entry" /\ soff # 0
         /\ LoadHunk
         /\ nul_match' = Bits(0, {1}) \ Padding
         /\ chr_match' = Bits(chrin, {0}) \ Padding
         /\ pc' = IF nul_match' = {} THEN "loop" ELSE "tail"
         /\ UNCHANGED <<given, result, chrin, src_match, src_offset>>

\* A hunk with a match becomes the last with one.
KeepFirst(X) == /\ src_match' = IF X # {} /\ src_offset = {} THEN src ELSE src_match
                /\ src_offset' = IF X # {} /\ src_offset = {} THEN X ELSE src_offset
KeepMatch(X) == /\ src_match' = IF X # {} THEN src ELSE src_match
                /\ src_offset' = IF X # {} THEN X ELSE src_offset

LoopTop == /\ pc = "loop"
           /\ KeepMatch(chr_match)
           /\ pc' = "aligned" /\ rd' = {}
           /\ UNCHANGED <<given, src, vdata, result, chrin, vdata2, nul_match, chr_match>>

\* The minimum of each two bytes is NUL if one of them is; what that says of
\* each four bytes is only good for whether there is a NUL.
HasNul == LET v == cmeq(uminp(vdata', vdata2'), 0) IN fmov(addp(v, v)) # {}

AlignedHunk == /\ pc = "aligned"
               /\ LoadHunk
               /\ chr_match' = Bits(chrin, {0})
               /\ IF HasNul
                  THEN nul_match' = Bits(0, {1}) /\ pc' = "tail"
                  ELSE nul_match' = {} /\ pc' = "loop"
               /\ UNCHANGED <<given, result, chrin, src_match, src_offset>>

\* The matches no further than the first NUL.
InHunk == chr_match
UpToNul == chr_match \cap SymmetricDiff(MinusOne(nul_match), nul_match)

Tail == /\ pc = "tail"
        /\ KeepMatch(UpToNul)
        /\ result' = IF src_offset' = {} THEN 0
                     ELSE src_match' - ((clz(src_offset') + 2) \div 2)
        /\ pc' = "ret" /\ rd' = {}
        /\ UNCHANGED <<given, src, vdata, chrin, vdata2, nul_match, chr_match>>

Next == Aligned0 \/ Entry \/ LoopTop \/ AlignedHunk \/ Tail

Spec == Init /\ [][Next]_vars /\ WF_vars(Next)

-----------------------------------------------------------------------------
Nul == First(srcin, {0})
Matches == {x \in srcin .. Nul : mem[x] = chrin}

\* strrchr passes over no byte before the NUL and returns the last match, which
\* is the NUL itself if that is what is looked for, or NULL.
Stop == Nul - srcin
Answer == IF Matches = {} THEN 0 ELSE Max(Matches)

\* The bytes of the string before the next hunk to load.
Passed == CASE pc = "entry" -> 0
            [] pc \in {"loop", "aligned"} -> IF src < srcin THEN 0 ELSE src - srcin
            [] pc = "tail" -> IF src - 2 * W < srcin THEN 0 ELSE src - 2 * W - srcin
            [] pc = "ret" -> Nul - srcin

\* Every load is of an aligned hunk, and so of a page, that holds a byte of the
\* string or its NUL.
Footprint == rd \subseteq Granules(srcin, Nul, 2 * W)

\* What holds before each step: the match that is kept is the last one before the
\* next hunk to load, or, where the bits of a hunk's matches have not been looked
\* at, before that; and it is the one in which the first NUL is that ends the loop.
LatestBefore(p) ==
    IF src_offset = {} THEN \A x \in srcin .. (p - 1) : mem[x] # chrin
    ELSE LET latest == src_match - ((clz(src_offset) + 2) \div 2)
         IN  /\ latest \in srcin .. (p - 1) /\ mem[latest] = chrin
             /\ \A x \in (latest + 1) .. (p - 1) : mem[x] # chrin
MatchesOf(a) == {2 * i : i \in {j \in 0 .. (2 * W - 1) : a + j >= srcin /\ mem[a + j] = chrin}}
IInv == /\ src \in Int /\ src % (2 * W) = 0
        /\ src_match \in Int /\ src_offset \subseteq XBits
        /\ pc \in {"entry", "loop", "aligned", "tail", "ret"}
        /\ pc = "entry" => src = Aligned(srcin, 2 * W) /\ result = 0 /\ src_offset = {}
        /\ pc = "aligned" => srcin <= src /\ src <= Nul /\ LatestBefore(src)
        /\ pc = "loop" => src <= Nul
        /\ pc = "tail" => /\ src - 2 * W <= Nul /\ Nul < src
                          /\ nul_match # {} /\ nul_match \subseteq XBits
                          /\ (src - 2 * W) + (Min(nul_match) \div 2) = Nul /\ Min(nul_match) % 2 = 1
        /\ pc \in {"loop", "tail"} => /\ srcin < src
                                      /\ chr_match = MatchesOf(src - 2 * W)
                                      /\ LatestBefore(src - 2 * W)
        /\ pc = "ret" => result = Answer
        /\ Footprint

=============================================================================
