---------------------------- MODULE StrlenAArch64 ----------------------------
(***************************************************************************)
(* string/aarch64/strlen.S: strlen by two unaligned pairs of words, unless *)
(* they might cross a page, and by aligned hunks of 2W bytes after that.   *)
(***************************************************************************)
EXTENDS Strings

CONSTANT MinPageSize   \* 4096 in the code, 32 in a build that tests the pages

VARIABLE vdata2   \* the second register of a hunk; vdata is the first

vars == <<mem, srcin, big, pc, src, vdata, rd, result, vdata2>>

Init == /\ Called(0)
        /\ vdata2 = [i \in Lanes |-> 0]

\* May 2W bytes from the string cross into the next page?
Never == FALSE
MayCross == srcin % MinPageSize > MinPageSize - 2 * W

\* The first NUL of the W bytes at srcin + k; without one, on to next.
TwoWords(k, next) ==
    /\ rd' = Chunk(srcin + k, W)
    /\ LET has_nul1 == Zeros(LoadWord(srcin + k), N)
           has_nul2 == Zeros(LoadWord(srcin + k + N), N)
       IN  IF has_nul1 = {} /\ has_nul2 = {}
           THEN pc' = next /\ UNCHANGED result
           ELSE /\ pc' = "ret"
                /\ result' = IF has_nul1 # {} THEN k + FirstByte(has_nul1)
                             ELSE k + N + FirstByte(has_nul2)

Entry == /\ pc = "entry"
         /\ IF MayCross
            THEN pc' = "page_cross" /\ UNCHANGED <<rd, result>>
            ELSE TwoWords(0, "bytes16_31")
         /\ UNCHANGED <<given, src, vdata, vdata2>>

\* The next W bytes; the loop then starts from the hunk that srcin is in.
Bytes16_31 == /\ pc = "bytes16_31"
              /\ TwoWords(W, "loop")
              /\ src' = IF pc' = "loop" THEN Aligned(srcin, 2 * W) ELSE src
              /\ UNCHANGED <<given, vdata, vdata2>>

\* A quarter of the minima of four bytes each is 0 if one of the bytes is.
Minima(U, V) == LET v == uminp(U, V) IN cmeq(uminp(v, v), 0)

\* ldp of a hunk, [src, 2W]!, in ldr's byte order.
Loop == /\ pc = "loop"
        /\ src' = src + 2 * W
        /\ vdata' = ldrq(mem, src', big)
        /\ vdata2' = ldrq(mem, src' + W, big)
        /\ rd' = Chunk(src', 2 * W)
        /\ pc' = IF fmov(Minima(vdata', vdata2')) = {} THEN "loop" ELSE "found"
        /\ UNCHANGED <<given, result>>

\* The lower half of the minima is for the first register.
FirstAlways == TRUE
InFirst == fmov(Minima(vdata, vdata2)) \cap 0 .. (2 * W - 1) # {}

Found == /\ pc = "found"
         /\ result' = (src - srcin)
                        + IF InFirst THEN FirstOf(shrn(cmeq(vdata, 0))) \div 4
                          ELSE W + (FirstOf(shrn(cmeq(vdata2, 0))) \div 4)
         /\ pc' = "ret" /\ rd' = {}
         /\ UNCHANGED <<given, src, vdata, vdata2>>

\* The hunk that srcin is in, two bits a byte, less the bytes before srcin.
PageCross ==
    /\ pc = "page_cross"
    /\ src' = Aligned(srcin, 2 * W)
    /\ vdata' = ld1(mem, src')
    /\ vdata2' = ld1(mem, src' + W)
    /\ rd' = Chunk(src', 2 * W)
    /\ LET maskv == Stepped({0, 1})
           v == addp(and(cmeq(vdata', 0), maskv), and(cmeq(vdata2', 0), maskv))
           synd == lsr(fmov(addp(v, v)), 2 * srcin)
       IN  IF synd = {}
           THEN pc' = "loop" /\ UNCHANGED result
           ELSE pc' = "ret" /\ result' = clz(rbit(synd)) \div 2
    /\ UNCHANGED given

Next == Entry \/ Bytes16_31 \/ Loop \/ Found \/ PageCross

Spec == Init /\ [][Next]_vars /\ WF_vars(Next)

-----------------------------------------------------------------------------
Length == First(srcin, {0}) - srcin

\* strlen passes over no byte, stops at the first NUL and returns its index,
\* whatever the byte order and the path, and it does return.
Stop == Length
Answer == Length

\* The bytes of the string known not to be NUL: those before the hunk at a, and
\* 2W of them if the words have been searched.
Before(a) == IF srcin % MinPageSize > MinPageSize - 2 * W \/ a - srcin > 2 * W THEN a - srcin ELSE 2 * W
Passed == CASE pc \in {"entry", "page_cross"} -> 0
            [] pc = "bytes16_31" -> W
            [] pc = "loop" -> Before(src + 2 * W)
            [] pc = "found" -> Before(src)
            [] pc = "ret" -> Length

\* No load touches a page that holds no byte of the string or its NUL.
Footprint == rd \subseteq Granules(srcin, srcin + Length, MinPageSize)

\* What holds before each step: no NUL precedes the next word or hunk to load, and
\* the hunk that the loop ends at, at src, has one.
IInv == /\ pc \in {"entry", "bytes16_31", "page_cross", "loop", "found", "ret"}
        /\ pc = "entry" => result = 0
        /\ pc = "page_cross" => MayCross
        /\ pc = "bytes16_31" => ~MayCross /\ W <= Length
        /\ pc = "loop" => /\ src \in Int /\ src % (2 * W) = 0
                          /\ srcin < src + 2 * W /\ (src + 2 * W) - srcin <= Length
                          /\ MayCross \/ 2 * W <= Length
        /\ pc = "found" => /\ src \in Int /\ src % (2 * W) = 0
                           /\ srcin <= src /\ src - srcin <= Length
                           /\ MayCross \/ 2 * W <= Length
                           /\ vdata = ldrq(mem, src, big) /\ vdata2 = ldrq(mem, src + W, big)
                           /\ \E i \in 0 .. (2 * W - 1) : mem[src + i] = 0
        /\ pc = "ret" => result = Length
        /\ Footprint

=============================================================================
