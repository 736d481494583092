----------------------------- MODULE MemchrScalar -----------------------------
(***************************************************************************)
(* string/aarch64/memchr-scalar.S: the first chr_in of at most count_in    *)
(* bytes, by aligned words of N bytes.                                     *)
(***************************************************************************)
EXTENDS Strings

CONSTANTS Counts,   \* the possible values of count_in
          Chars,    \* the possible values of chr_in
          Size      \* the number of addresses and of values of a size_t

VARIABLES chr_in, count_in, src_end

vars == <<mem, srcin, big, pc, src, vdata, rd, result, chr_in, count_in, src_end>>

Init == /\ Called(Aligned(srcin, N))
        /\ chr_in \in Chars /\ count_in \in Counts /\ src_end = 0

\* Bytes combined by exclusive or.
eor(x, y) == Number(SymmetricDiff(BitsOf(x), BitsOf(y)), 0)

NoMatch == result' = 0 /\ pc' = "ret"

ZeroLength == /\ pc = "entry" /\ count_in = 0
              /\ NoMatch
              /\ UNCHANGED <<given, src, vdata, rd, chr_in, count_in, src_end>>

\* rbit and clz: the first byte whose top bit is set in X.
FirstFound(X) == clz(rbit(X)) \div 8

\* The first word, its bytes before src_in shifted out with as many of the ones,
\* so that those shifted in are not found.
Entry == /\ pc = "entry" /\ count_in # 0
         /\ rd' = Chunk(src, N)
         /\ src' = src + N
         /\ LET off == srcin % N
                x == LoadWord(src)
                data1 == [i \in 0 .. (N - 1) |->
                             eor(IF i + off < N THEN x[i + off] ELSE 0, chr_in)]
                found1 == Zeros(data1, N - off)
                k == FirstFound(found1)
            IN  IF found1 = {}
                THEN pc' = "loop_start" /\ UNCHANGED result
                ELSE result' = (IF count_in > k THEN srcin + k ELSE 0) /\ pc' = "ret"
         /\ UNCHANGED <<given, vdata, chr_in, count_in, src_end>>

\* A count so large that the end wraps around makes it the last address.
EndWrapped == (srcin + count_in) % Size
End == IF srcin + count_in >= Size THEN Size - 1 ELSE srcin + count_in

LoopStart == /\ pc = "loop_start"
             /\ src_end' = End
             /\ pc' = "loop" /\ rd' = {}
             /\ UNCHANGED <<given, src, vdata, result, chr_in, count_in>>

Past(a) == a > src_end
AtEnd(a) == a >= src_end

Loop == /\ pc = "loop"
        /\ IF AtEnd(src)
           THEN NoMatch /\ rd' = {} /\ UNCHANGED src
           ELSE LET x == LoadWord(src)
                    found1 == Zeros([i \in 0 .. (N - 1) |-> eor(x[i], chr_in)], N)
                    a == src + FirstFound(found1)
                IN  /\ rd' = Chunk(src, N)
                    /\ IF found1 = {}
                       THEN src' = src + N /\ UNCHANGED <<pc, result>>
                       ELSE /\ result' = IF src_end > a THEN a ELSE 0
                            /\ pc' = "ret" /\ UNCHANGED src
        /\ UNCHANGED <<given, vdata, chr_in, count_in, src_end>>

Next == ZeroLength \/ Entry \/ LoopStart \/ Loop

Spec == Init /\ [][Next]_vars /\ WF_vars(Next)

-----------------------------------------------------------------------------
Match == First(srcin, {chr_in})

\* memchr passes over no byte and returns the first match, or NULL if there is
\* none in the buffer, even when its end is beyond the last address.
Stop == AtMost(Match - srcin, count_in)
Answer == IF Match < srcin + count_in THEN Match ELSE 0

\* The bytes of the buffer before the next word to load.
Passed == CASE pc = "entry" -> 0
            [] pc \in {"loop_start", "loop"} -> AtMost(src - srcin, count_in)
            [] pc = "ret" -> AtMost(Match - srcin, count_in)

\* Every load is of an aligned word that holds a byte of the buffer, no further
\* than the match.
Footprint == IF count_in = 0 THEN rd = {}
             ELSE rd \subseteq Granules(srcin, AtMost(Match, srcin + count_in - 1), N)

\* What holds before each step: no match precedes the next word to load, and the
\* end is no further than the buffer's, but for one beyond all addresses.
IInv == /\ src \in Int /\ src % N = 0
        /\ pc \in {"entry", "loop_start", "loop", "ret"}
        /\ pc = "entry" => src = Aligned(srcin, N) /\ result = 0 /\ rd = {}
        /\ pc \in {"loop_start", "loop"} => count_in > 0 /\ srcin < src /\ src <= Match
        /\ pc = "loop" => src_end = End
        /\ pc = "ret" => result = Answer
        /\ Footprint

=============================================================================
