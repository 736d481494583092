------------------------------ MODULE StrlenMte ------------------------------
(***************************************************************************)
(* string/aarch64/strlen-mte.S: strlen by aligned chunks of W bytes, none  *)
(* of which lacks a byte of the string.                                    *)
(***************************************************************************)
EXTENDS Strings

vars == <<mem, srcin, big, pc, src, vdata, rd, result>>

Init == Called(Aligned(srcin, W))

vhas_nul(v) == cmeq(v, 0)

\* The first chunk, less the bytes before the string.
Entry == /\ pc = "entry"
         /\ Ld1(src)
         /\ LET first == lsr(shrn(vhas_nul(vdata')), 4 * srcin)
            IN  IF first = {}
                THEN pc' = "next16" /\ UNCHANGED result
                ELSE pc' = "ret" /\ result' = clz(rbit(first)) \div 4
         /\ UNCHANGED <<given, src>>

Next16 == /\ pc = "next16"
          /\ LdrQ(src + W)
          /\ LET next == shrn(vhas_nul(vdata'))
             IN  IF next = {}
                 THEN pc' = "loop" /\ UNCHANGED <<src, result>>
                 ELSE /\ pc' = "ret"
                      /\ src' = src + W
                      /\ result' = (src' - srcin) + (FirstOf(next) \div 4)
          /\ UNCHANGED given

\* The loop's syndrome: one bit for an even lane, seven for an odd one.
synd(v) == addhn(vhas_nul(v))

Loop == /\ pc = "loop"
        /\ LdrQ(src + 2 * W)
        /\ src' = src + 2 * W
        /\ pc' = IF synd(vdata') = {} THEN "loop_half" ELSE "loop_end"
        /\ UNCHANGED <<given, result>>

LoopHalf == /\ pc = "loop_half"
            /\ LdrQ(src + W)
            /\ IF synd(vdata') = {}
               THEN pc' = "loop" /\ UNCHANGED src
               ELSE pc' = "loop_end" /\ src' = src + W
            /\ UNCHANGED <<given, result>>

\* (srcin - src) << 2, less what makes up for the bits of a little-endian
\* syndrome.
Unbiased == 4 * (srcin - src)
Biased == IF big THEN 4 * (srcin - src) ELSE 4 * (srcin - src) - 3

LoopEnd == /\ pc = "loop_end"
           /\ result' = (FirstOf(synd(vdata)) - Biased) \div 4
           /\ pc' = "ret" /\ rd' = {}
           /\ UNCHANGED <<given, src, vdata>>

Next == Entry \/ Next16 \/ Loop \/ LoopHalf \/ LoopEnd

Spec == Init /\ [][Next]_vars /\ WF_vars(Next)

-----------------------------------------------------------------------------
Length == First(srcin, {0}) - srcin

\* strlen passes over no byte, stops at the first NUL and returns its index,
\* whatever the byte order, and it does return.
Stop == Length
Answer == Length

\* The bytes of the string before the next chunk to load.
Passed == CASE pc = "entry" -> 0
            [] pc \in {"next16", "loop_half"} -> (src + W) - srcin
            [] pc = "loop" -> (src + 2 * W) - srcin
            [] pc = "loop_end" -> src - srcin
            [] pc = "ret" -> Length

\* MTE compatibility: every load is of a tag granule that holds a byte of the
\* string or its NUL.
Footprint == rd \subseteq Granules(srcin, srcin + Length, W)

\* What holds before each step: no NUL precedes the next chunk to load, and the
\* one that the loop ends at has one.
IInv == /\ src \in Nat /\ src % W = 0 /\ Aligned(srcin, W) <= src
        /\ pc \in {"entry", "next16", "loop", "loop_half", "loop_end", "ret"}
        /\ pc = "entry" => src = Aligned(srcin, W) /\ result = 0
        /\ pc \in {"next16", "loop_half"} => src + W <= srcin + Length
        /\ pc = "loop" => src + 2 * W <= srcin + Length
        /\ pc = "loop_end" => /\ srcin <= src /\ src <= srcin + Length
                              /\ vdata = ldrq(mem, src, big)
                              /\ \E i \in Lanes : mem[src + i] = 0
        /\ pc = "ret" => result = Length
        /\ Footprint

=============================================================================
