------------------------------- MODULE MemchrMte -------------------------------
(***************************************************************************)
(* string/aarch64/memchr-mte.S: the first chrin of at most cntin bytes, by *)
(* aligned chunks of W bytes; and strnlen.S, which looks for a NUL and     *)
(* returns its index, or cntin if that is less.                            *)
(***************************************************************************)
EXTENDS Strings

CONSTANTS Counts,   \* the possible values of cntin
          Chars,    \* the possible values of chrin
          Size      \* the number of values of a size_t

VARIABLES routine, chrin, cntin, cntrem

vars == <<mem, srcin, big, pc, src, vdata, rd, result, chrin, cntin, cntrem, routine>>

args == <<chrin, cntin, routine>>

Init == /\ Called(Aligned(srcin, W))
        /\ \/ routine = "memchr" /\ chrin \in Chars
           \/ routine = "strnlen" /\ chrin = 0
        /\ cntin \in Counts /\ cntrem = 0

vhas_chr(v) == cmeq(v, chrin)

NoMatch == result' = (IF routine = "memchr" THEN 0 ELSE cntin) /\ pc' = "ret"

\* The result for a match at offset k of the buffer, if that is within it.
NotWithin(k) == IF cntin >= k THEN srcin + k ELSE 0
Within(k) == IF cntin > k THEN srcin + k ELSE 0
Unlimited(k) == k
Limited(k) == IF cntin <= k THEN cntin ELSE k
Result(k) == IF routine = "memchr" THEN Within(k) ELSE Limited(k)

ZeroLength == /\ pc = "entry" /\ cntin = 0
              /\ NoMatch
              /\ UNCHANGED <<given, src, vdata, rd, args, cntrem>>

\* The first chunk, less the bytes before the buffer; a match beyond the
\* buffer's end is none.
Entry == /\ pc = "entry" /\ cntin # 0
         /\ Ld1(src)
         /\ LET synd == lsr(shrn(vhas_chr(vdata')), 4 * srcin)
            IN  IF synd = {}
                THEN pc' = "start_loop" /\ UNCHANGED result
                ELSE result' = Result(clz(rbit(synd)) \div 4) /\ pc' = "ret"
         /\ UNCHANGED <<given, src, args, cntrem>>

\* The bytes left after the first chunk, less one; no branch back from here
\* for a buffer that ends in it.
LeftTooMany == cntin - ((src - srcin) + W)
Left == cntin - ((src - srcin) + W + 1)

\* An odd number of chunks left enters the loop at its second half.
StartLoop ==
    /\ pc = "start_loop"
    /\ IF Left < 0
       THEN NoMatch /\ UNCHANGED <<src, cntrem>>
       ELSE /\ cntrem' = Left
            /\ IF (Left \div W) % 2 = 0
               THEN pc' = "loop32_2" /\ UNCHANGED src
               ELSE pc' = "loop32" /\ src' = src - W
            /\ UNCHANGED result
    /\ rd' = {}
    /\ UNCHANGED <<given, vdata, args>>

Found(v) == fmov(umaxp(vhas_chr(v), vhas_chr(v))) # {}

Loop32 == /\ pc = "loop32"
          /\ LdrQ(src + 2 * W)
          /\ src' = src + 2 * W
          /\ pc' = IF Found(vdata') THEN "end" ELSE "loop32_2"
          /\ UNCHANGED <<given, result, args, cntrem>>

\* The last chunk of the buffer ends the loop whether or not it has a match.
Loop32_2 == /\ pc = "loop32_2"
            /\ LdrQ(src + W)
            /\ cntrem' = (cntrem - 2 * W) % Size
            /\ IF cntrem < 2 * W \/ Found(vdata')
               THEN pc' = "end" /\ src' = src + W
               ELSE pc' = "loop32" /\ UNCHANGED src
            /\ UNCHANGED <<given, result, args>>

End == /\ pc = "end"
       /\ result' = Result((src - srcin) + (FirstOf(shrn(vhas_chr(vdata))) \div 4))
       /\ pc' = "ret" /\ rd' = {}
       /\ UNCHANGED <<given, src, vdata, args, cntrem>>

Next == ZeroLength \/ Entry \/ StartLoop \/ Loop32 \/ Loop32_2 \/ End

Spec == Init /\ [][Next]_vars /\ WF_vars(Next)

-----------------------------------------------------------------------------
Match == First(srcin, {chrin})

\* No byte is passed over.  memchr returns the first match, or NULL if there is
\* none in the buffer, even when cntin exceeds the bytes that there are; strnlen
\* how many bytes precede the NUL or the limit, which may be SIZE_MAX.
Stop == AtMost(Match - srcin, cntin)
Answer == CASE routine = "strnlen" -> Stop
            [] routine = "memchr" -> IF Match < srcin + cntin THEN Match ELSE 0

\* The bytes of the buffer before the next chunk to load.
Passed == CASE pc = "entry" -> 0
            [] pc \in {"start_loop", "loop32_2"} -> AtMost((src + W) - srcin, cntin)
            [] pc = "loop32" -> AtMost((src + 2 * W) - srcin, cntin)
            [] pc = "end" -> src - srcin
            [] pc = "ret" -> AtMost(Match - srcin, cntin)

\* Every load is of a tag granule that holds a byte of the buffer, no further
\* than the match: as the C standard says, the bytes after it may not exist.
Footprint == IF cntin = 0 THEN rd = {}
             ELSE rd \subseteq Granules(srcin, AtMost(Match, srcin + cntin - 1), W)

\* What holds before each step: the next chunk to load is in the buffer, if that
\* has a byte, and no match precedes it; an even number of chunks follows the
\* one at the loop's second half, of the count of whose bytes cntrem is one short,
\* or that and a chunk; and the chunk the loop ends at has a match, or is the last.
ToLoad == IF pc = "loop32" THEN src + 2 * W ELSE src + W
LeftAfter(a) == (srcin + cntin - 1) - a
Halves(a) == /\ LeftAfter(a) >= 0 /\ (LeftAfter(a) \div W) % 2 = 0
             /\ cntrem \in {LeftAfter(a), LeftAfter(a) + W}
IInv == /\ src \in Int /\ src % W = 0
        /\ cntrem \in 0 .. (Size - 1)
        /\ pc \in {"entry", "start_loop", "loop32", "loop32_2", "end", "ret"}
        /\ pc \in {"entry", "start_loop"} => src = Aligned(srcin, W)
        /\ pc = "entry" => result = 0 /\ rd = {}
        /\ pc \in {"start_loop", "loop32", "loop32_2"} => /\ cntin > 0
                                                          /\ ToLoad <= Match /\ srcin < ToLoad
        /\ pc = "loop32_2" => Halves(src + W)
        /\ pc = "loop32" => Halves(src + 3 * W)
        /\ pc = "end" => /\ cntin > 0 /\ srcin <= src /\ src <= Match
                         /\ vdata = ldrq(mem, src, big)
                         /\ LeftAfter(src) >= 0
                         /\ LeftAfter(src) < W \/ \E i \in Lanes : mem[src + i] = chrin
        /\ pc = "ret" => result = Answer
        /\ Footprint

=============================================================================
