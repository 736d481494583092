-------------------------------- MODULE Memrchr --------------------------------
(***************************************************************************)
(* string/aarch64/memrchr.S: the last chrin of a buffer of cntin bytes, by *)
(* aligned chunks of W bytes from the end down.                            *)
(***************************************************************************)
EXTENDS Strings

CONSTANTS Counts,   \* the possible values of cntin
          Chars,    \* the possible values of chrin
          Size      \* the number of values of a size_t

VARIABLES chrin, cntin, cntrem

vars == <<mem, srcin, big, pc, src, vdata, rd, result, chrin, cntin, cntrem>>

end == srcin + cntin
endm1 == end - 1

Init == /\ chrin \in Chars /\ cntin \in Counts /\ cntrem = 0
        /\ Called(Aligned(endm1, W))
        /\ cntin = 0 \/ endm1 \in DOMAIN mem

vhas_chr(v) == cmeq(v, chrin)

NoMatch == result' = 0 /\ pc' = "ret"

ZeroLength == /\ pc = "entry" /\ cntin = 0
              /\ NoMatch
              /\ UNCHANGED <<given, src, vdata, rd, chrin, cntin, cntrem>>

\* The last chunk, less the bytes after the buffer; a match before the buffer
\* is none.
Entry == /\ pc = "entry" /\ cntin # 0
         /\ Ld1(src)
         /\ LET synd == lsl(shrn(vhas_chr(vdata')), -(4 * end))
                k == clz(synd) \div 4
            IN  IF synd = {}
                THEN pc' = "start_loop" /\ UNCHANGED result
                ELSE result' = (IF cntin > k THEN endm1 - k ELSE 0) /\ pc' = "ret"
         /\ UNCHANGED <<given, src, chrin, cntin, cntrem>>

\* Is nothing left of the buffer below the last chunk?
NothingLeft == src - srcin < 0
NothingBelow == src - srcin <= 0

\* An odd number of chunks left enters the loop at its second half.
StartLoop ==
    /\ pc = "start_loop"
    /\ IF NothingBelow
       THEN NoMatch /\ UNCHANGED <<src, cntrem>>
       ELSE /\ cntrem' = (src - srcin) - 1
            /\ IF (cntrem' \div W) % 2 = 0
               THEN pc' = "loop32_2" /\ UNCHANGED src
               ELSE pc' = "loop32" /\ src' = src + W
            /\ UNCHANGED result
    /\ rd' = {}
    /\ UNCHANGED <<given, vdata, chrin, cntin>>

Found(v) == fmov(umaxp(vhas_chr(v), vhas_chr(v))) # {}

Loop32 == /\ pc = "loop32"
          /\ LdrQ(src - 2 * W)
          /\ src' = src - 2 * W
          /\ pc' = IF Found(vdata') THEN "end" ELSE "loop32_2"
          /\ UNCHANGED <<given, result, chrin, cntin, cntrem>>

\* The first chunk of the buffer ends the loop whether or not it has a match.
Loop32_2 == /\ pc = "loop32_2"
            /\ LdrQ(src - W)
            /\ cntrem' = (cntrem - 2 * W) % Size
            /\ IF cntrem < 2 * W \/ Found(vdata')
               THEN pc' = "end" /\ src' = src - W
               ELSE pc' = "loop32" /\ UNCHANGED src
            /\ UNCHANGED <<given, result, chrin, cntin>>

\* The last byte's bits are at the top of a little-endian syndrome.
LastOfLittle(X) == clz(X)
LastOf(X) == clz(IF big THEN rbit(X) ELSE X)

\* The match at address tmp, if it is in the buffer.
Within(tmp) == IF tmp >= srcin THEN tmp ELSE 0

End == /\ pc = "end"
       /\ result' = Within((src + W - 1) - (LastOf(shrn(vhas_chr(vdata))) \div 4))
       /\ pc' = "ret" /\ rd' = {}
       /\ UNCHANGED <<given, src, vdata, chrin, cntin, cntrem>>

Next == ZeroLength \/ Entry \/ StartLoop \/ Loop32 \/ Loop32_2 \/ End

Spec == Init /\ [][Next]_vars /\ WF_vars(Next)

-----------------------------------------------------------------------------
\* The matches in the buffer, and how many bytes follow the last of them.
Matches == {x \in srcin .. endm1 : mem[x] = chrin}
After == IF Matches = {} THEN cntin ELSE endm1 - Max(Matches)

\* memrchr passes over no byte from the end down and returns the last match, or
\* NULL if there is none in the buffer.
Stop == After
Answer == IF Matches = {} THEN 0 ELSE Max(Matches)

\* The bytes of the buffer after the next chunk to load.
Passed == CASE pc = "entry" -> 0
            [] pc \in {"start_loop", "loop32_2"} -> AtMost(end - src, cntin)
            [] pc = "loop32" -> AtMost(end - (src - W), cntin)
            [] pc = "end" -> end - (src + W)
            [] pc = "ret" -> After

\* Every load is of a tag granule that holds a byte of the buffer, no lower
\* than the match.
Footprint == IF cntin = 0 THEN rd = {}
             ELSE rd \subseteq Granules(endm1 - AtMost(After, cntin - 1), endm1, W)

\* What holds before each step: no match follows the next chunk to load, of which
\* the buffer has a byte; an even number of chunks precedes the one at the loop's
\* second half, of the count of whose bytes cntrem is one short, or that and a
\* chunk; and the chunk the loop ends at has a match, or is the first.
LastMatch == endm1 - After
LeftUpTo(a) == (a + W - 1) - srcin
Halves(a) == /\ LeftUpTo(a) >= 0 /\ (LeftUpTo(a) \div W) % 2 = 0
             /\ cntrem \in {LeftUpTo(a), LeftUpTo(a) + W}
IInv == /\ src \in Int /\ src % W = 0
        /\ cntrem \in 0 .. (Size - 1)
        /\ pc \in {"entry", "start_loop", "loop32", "loop32_2", "end", "ret"}
        /\ pc \in {"entry", "start_loop"} => src = Aligned(endm1, W)
        /\ pc = "entry" => result = 0 /\ rd = {}
        /\ pc = "start_loop" => cntin > 0 /\ (LastMatch < src \/ LastMatch < srcin)
        /\ pc = "loop32_2" => /\ cntin > 0 /\ LastMatch < src /\ src <= endm1
                              /\ Halves(src - W)
        /\ pc = "loop32" => /\ cntin > 0 /\ LastMatch < src - W /\ src - W <= endm1
                            /\ Halves(src - 3 * W)
        /\ pc = "end" => /\ cntin > 0 /\ srcin < src + W
                         /\ LastMatch < src + W /\ src + W <= endm1
                         /\ vdata = ldrq(mem, src, big)
                         /\ src <= srcin \/ \E i \in Lanes : mem[src + i] = chrin
        /\ pc = "ret" => result = Answer
        /\ Footprint

=============================================================================
