----------------------------- MODULE MemchrAArch64 -----------------------------
(***************************************************************************)
(* string/aarch64/memchr.S: the first chrin of at most cntin bytes, by     *)
(* aligned hunks of 2W bytes.                                              *)
(***************************************************************************)
EXTENDS Hunks

CONSTANTS Counts,   \* the possible values of cntin
          Size      \* the number of values of a size_t

VARIABLES cntin, cntrem, synd,
          left    \* what the register of cntin is counted down to

vars == <<mem, srcin, big, pc, src, vdata, rd, result, chrin, vdata2, cntin, cntrem, synd, left>>

n == 2 * W

Init == /\ CalledWithChar
        /\ cntin \in Counts
        /\ cntrem = cntin % n
        /\ synd = {} /\ left = cntin

vhas_chr(v) == cmeq(v, chrin)

ZeroLength == /\ pc = "entry" /\ cntin = 0
              /\ result' = 0 /\ pc' = "ret"
              /\ UNCHANGED <<given, src, vdata, rd, chrin, vdata2, cntin, cntrem, synd, left>>

Aligned0 == /\ pc = "entry" /\ cntin # 0 /\ soff = 0
            /\ pc' = "loop"
            /\ UNCHANGED <<given, src, vdata, rd, result, chrin, vdata2, cntin, cntrem, synd, left>>

\* The hunk's syndrome, two bits a byte of which one is used.
HunkSyndrome == Syndrome(vhas_chr(vdata'), vhas_chr(vdata2'), Stepped({0}))

\* The first hunk, less the bytes before the buffer.  It can be the last.
Entry == /\ pc = "entry" /\ cntin # 0 /\ soff # 0
         /\ LoadHunk
         /\ left' = (cntin + soff - n) % Size
         /\ synd' = lsl(lsr(HunkSyndrome, 2 * soff), 2 * soff)
         /\ pc' = CASE cntin + soff <= n -> "masklast"
                    [] cntin + soff > n /\ synd' # {} -> "tail"
                    [] cntin + soff > n /\ synd' = {} -> "loop"
         /\ UNCHANGED <<given, result, chrin, cntin, cntrem>>

\* Does the hunk have a match?  The halves of its comparison are added.
Found(U, V) == LET v == orr(U, V) IN Sum(fmov(v), High(v), 4 * W) # {}

\* A hunk at the end of the buffer ends the loop whether or not it has a match,
\* and is masked unless the buffer ends with it.
Loop == /\ pc = "loop"
        /\ LoadHunk
        /\ left' = (left - n) % Size
        /\ IF left > n /\ ~Found(vhas_chr(vdata'), vhas_chr(vdata2'))
           THEN pc' = "loop" /\ UNCHANGED synd
           ELSE /\ synd' = HunkSyndrome
                /\ pc' = IF left >= n THEN "tail" ELSE "masklast"
        /\ UNCHANGED <<given, result, chrin, cntin, cntrem>>

\* The upper bits, for the bytes after the buffer, are shifted out.
ShiftUnrotated == 2 * (n - cntrem)
Shift == 2 * (n - ((cntrem + soff) % n))

MaskLast == /\ pc = "masklast"
            /\ synd' = lsr(lsl(synd, Shift), Shift)
            /\ pc' = "tail" /\ rd' = {}
            /\ UNCHANGED <<given, src, vdata, result, chrin, vdata2, cntin, cntrem, left>>

Tail == /\ pc = "tail"
        /\ src' = src - n
        /\ result' = IF synd = {} THEN 0 ELSE src' + (clz(rbit(synd)) \div 2)
        /\ pc' = "ret" /\ rd' = {}
        /\ UNCHANGED <<given, vdata, chrin, vdata2, cntin, cntrem, synd, left>>

Next == ZeroLength \/ Aligned0 \/ Entry \/ Loop \/ MaskLast \/ Tail

Spec == Init /\ [][Next]_vars /\ WF_vars(Next)

-----------------------------------------------------------------------------
Match == First(srcin, {chrin})

\* memchr passes over no byte and returns the first match, or NULL if there is
\* none in the buffer, even when cntin exceeds the bytes that there are.
Stop == AtMost(Match - srcin, cntin)
Answer == IF Match < srcin + cntin THEN Match ELSE 0

\* The bytes of the buffer before the next hunk to load.
Passed == CASE pc = "entry" -> 0
            [] pc = "loop" -> AtMost(IF src < srcin THEN 0 ELSE src - srcin, cntin)
            [] pc \in {"masklast", "tail"} -> IF src - n < srcin THEN 0 ELSE src - n - srcin
            [] pc = "ret" -> AtMost(Match - srcin, cntin)

\* Every load is of an aligned hunk, and so of a page, that holds a byte of the
\* buffer, no further than the match.
Footprint == IF cntin = 0 THEN rd = {}
             ELSE rd \subseteq Granules(srcin, AtMost(Match, srcin + cntin - 1), n)

\* What holds before each step: no match precedes the next hunk to load, and left
\* is what remains of the buffer from it on; of the hunk that the loop ends at the
\* syndrome tells the first match, at the tail only if that is in the buffer.
Marked == (src - n) + (clz(rbit(synd)) \div 2)
IInv == /\ src \in Int /\ src % n = 0
        /\ cntrem = cntin % n
        /\ pc \in {"entry", "loop", "masklast", "tail", "ret"}
        /\ pc = "entry" => src = Aligned(srcin, n) /\ left = cntin /\ result = 0 /\ rd = {}
        /\ pc = "loop" => /\ srcin <= src /\ src <= Match
                          /\ left = (srcin + cntin) - src /\ left > 0
        /\ pc \in {"masklast", "tail"} => /\ cntin > 0 /\ srcin < src /\ src - n <= Match
                                          /\ src - n < srcin + cntin /\ synd \subseteq XBits
        /\ pc = "masklast" => /\ srcin + cntin <= src
                              /\ IF synd = {} THEN src <= Match ELSE Marked = Match
        /\ pc = "tail" => IF synd = {} THEN Match >= srcin + cntin
                          ELSE Marked = Match /\ Match < srcin + cntin
        /\ pc = "ret" => result = Answer
        /\ Footprint

=============================================================================
