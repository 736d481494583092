----------------------------- MODULE SearchChunks -----------------------------
(***************************************************************************)
(* A call of one of the routines of string/aarch64 that search by aligned  *)
(* chunks of W bytes, the size of a tag granule, so that they may be used  *)
(* with memory tagging.  All of them implement Search.                     *)
(***************************************************************************)
EXTENDS Strings

CONSTANTS Counts, Chars,   \* the possible sizes and characters
          Size             \* the number of values of a size_t

\* However long the search, it ends: each byte that is looked for is somewhere
\* at or after the pointer.
ASSUME EndsAssumption ==
    \A m \in Memories, p \in Pointers, c \in Chars \cup {0} :
        \E x \in DOMAIN m : x >= p /\ m[x] = c
ASSUME CountsAssumption == Size \in Nat /\ Counts \subseteq 0 .. (Size - 1)

VARIABLES routine,         \* the one called
          chrin, cntin, cntrem, synd, src_match, chr_match

vars == <<mem, srcin, big, pc, src, vdata, rd, result, routine,
          chrin, cntin, cntrem, synd, src_match, chr_match>>

strlen == INSTANCE StrlenMte
Memchrs == {"memchr", "strnlen"}
memchr == INSTANCE MemchrMte
memrchr == INSTANCE Memrchr
Strchrs == {"strchr", "strchrnul"}
strchr == INSTANCE StrchrMte
strrchr == INSTANCE StrrchrMte

\* The registers that not all routines use.
counted == <<cntin, cntrem>>
matched == <<synd, src_match, chr_match>>
NoChar == chrin = 0
NoCount == cntin = 0 /\ cntrem = 0
NotMatched == synd = {} /\ src_match = 0 /\ chr_match = {}

Init == \/ routine = "strlen" /\ strlen!Init /\ NoChar /\ NoCount /\ NotMatched
        \/ memchr!Init /\ NotMatched
        \/ routine = "memrchr" /\ memrchr!Init /\ NotMatched
        \/ strchr!Init /\ NoCount /\ NotMatched
        \/ routine = "strrchr" /\ strrchr!Init /\ NoCount

Strlen == routine = "strlen" /\ strlen!Next /\ UNCHANGED <<routine, chrin, counted, matched>>
Memchr == routine \in Memchrs /\ memchr!Next /\ UNCHANGED matched
MemrchrStep == routine = "memrchr" /\ memrchr!Next /\ UNCHANGED <<routine, matched>>
Strchr == routine \in Strchrs /\ strchr!Next /\ UNCHANGED <<counted, matched>>
Strrchr == routine = "strrchr" /\ strrchr!Next /\ UNCHANGED <<routine, counted>>

Next == Strlen \/ Memchr \/ MemrchrStep \/ Strchr \/ Strrchr

\* A thread that has called a routine goes on executing it.
Spec == Init /\ [][Next]_vars /\ WF_vars(Next)

-----------------------------------------------------------------------------
Stop == CASE routine = "strlen" -> strlen!Stop
          [] routine \in Memchrs -> memchr!Stop
          [] routine = "memrchr" -> memrchr!Stop
          [] routine \in Strchrs -> strchr!Stop
          [] routine = "strrchr" -> strrchr!Stop
Answer == CASE routine = "strlen" -> strlen!Answer
            [] routine \in Memchrs -> memchr!Answer
            [] routine = "memrchr" -> memrchr!Answer
            [] routine \in Strchrs -> strchr!Answer
            [] routine = "strrchr" -> strrchr!Answer
Passed == CASE routine = "strlen" -> strlen!Passed
            [] routine \in Memchrs -> memchr!Passed
            [] routine = "memrchr" -> memrchr!Passed
            [] routine \in Strchrs -> strchr!Passed
            [] routine = "strrchr" -> strrchr!Passed

\* Every routine implements the search: it passes over no byte and gets no
\* further than the one that settles the answer, whatever the byte order, the
\* alignment, the size and the character, and returns what the C standard says.
S == INSTANCE Search WITH stop <- Stop, answer <- Answer, seen <- Passed,
                          result <- IF pc = "ret" THEN result ELSE 0,
                          done <- pc = "ret"
Implements == S!Spec

\* Every load is of a tag granule that holds a byte the C standard lets the
\* routine read.
Footprint == /\ routine = "strlen" => strlen!Footprint
             /\ routine \in Memchrs => memchr!Footprint
             /\ routine = "memrchr" => memrchr!Footprint
             /\ routine \in Strchrs => strchr!Footprint
             /\ routine = "strrchr" => strrchr!Footprint

\* What holds before each step, of which the rest follows.
IInv == \/ routine = "strlen" /\ strlen!IInv
        \/ routine \in Memchrs /\ memchr!IInv
        \/ routine = "memrchr" /\ memrchr!IInv
        \/ routine \in Strchrs /\ strchr!IInv
        \/ routine = "strrchr" /\ strrchr!IInv

=============================================================================
