------------------------------ MODULE SearchHunks ------------------------------
(***************************************************************************)
(* A call of one of the routines of string/aarch64 that search by hunks of *)
(* 2W bytes or by words, and are not for use with memory tagging.  All of  *)
(* them implement Search.                                                  *)
(***************************************************************************)
EXTENDS Hunks

CONSTANTS Counts,   \* the possible sizes
          Size,     \* the number of addresses and of values of a size_t
          MinPageSize   \* 4096 in the code, 32 in a build that tests the pages

ASSUME MinPageSizeAssumption ==
    MinPageSize \in Nat /\ MinPageSize > 0 /\ MinPageSize % (2 * W) = 0

\* Memories are of bytes, and the address after the last one is an address, as the
\* C standard has it.
ASSUME BytesAssumption ==
    \A m \in Memories : DOMAIN m \subseteq 0 .. (Size - 2) /\ \A a \in DOMAIN m : m[a] \in 0 .. 255

\* Memories are of whole hunks, as pages are.
ASSUME HunksAssumption ==
    \A m \in Memories : \E n \in DOMAIN m : DOMAIN m = 0 .. n /\ (n + 1) % (2 * W) = 0

\* However long the search, it ends: each byte that is looked for is somewhere
\* at or after the pointer.
ASSUME EndsAssumption ==
    \A m \in Memories, p \in Pointers, c \in Chars \cup {0} :
        \E x \in DOMAIN m : x >= p /\ m[x] = c
ASSUME CharsAssumption == Chars \subseteq 0 .. 255
ASSUME CountsAssumption == Size \in Nat /\ Counts \subseteq 0 .. (Size - 1)

VARIABLES routine,  \* the one called
          cntin, cntrem, left, src_end, synd,
          nul_match, chr_match, src_match, src_offset

vars == <<mem, srcin, big, pc, src, vdata, rd, result, chrin, vdata2, routine,
          cntin, cntrem, left, src_end, synd, nul_match, chr_match, src_match, src_offset>>

memchr == INSTANCE MemchrAArch64
Strchrs == {"strchr", "strchrnul"}
strchr == INSTANCE StrchrAArch64 WITH tmp1 <- synd
strrchr == INSTANCE StrrchrAArch64
strlen == INSTANCE StrlenAArch64
memchr_scalar == INSTANCE MemchrScalar WITH chr_in <- chrin, count_in <- cntin

\* The registers that not all routines use.
counted == <<cntin, cntrem, left>>
matched == <<nul_match, chr_match, src_match, src_offset>>
NoCount == cntin = 0 /\ cntrem = 0 /\ left = 0
NoEnd == src_end = 0
NoSyndrome == synd = {}
NotMatched == nul_match = {} /\ chr_match = {} /\ src_match = 0 /\ src_offset = {}
\* Loads in memory order do not depend on the byte order.
AnyOrder == big = FALSE
Unused2 == vdata2 = [i \in Lanes |-> 0]

Init == \/ routine = "memchr" /\ memchr!Init /\ AnyOrder /\ NoEnd /\ NotMatched
        \/ strchr!Init /\ AnyOrder /\ NoCount /\ NoEnd /\ NotMatched
        \/ routine = "strrchr" /\ strrchr!Init /\ AnyOrder /\ NoCount /\ NoEnd /\ NoSyndrome
        \/ /\ routine = "strlen" /\ strlen!Init
           /\ chrin = 0 /\ NoCount /\ NoEnd /\ NoSyndrome /\ NotMatched
        \/ /\ routine = "memchr_scalar" /\ memchr_scalar!Init
           /\ AnyOrder /\ Unused2 /\ cntrem = 0 /\ left = 0 /\ NoSyndrome /\ NotMatched

Memchr == routine = "memchr" /\ memchr!Next /\ UNCHANGED <<routine, src_end, matched>>
Strchr == routine \in Strchrs /\ strchr!Next /\ UNCHANGED <<counted, src_end, matched>>
Strrchr == routine = "strrchr" /\ strrchr!Next /\ UNCHANGED <<routine, counted, src_end, synd>>
Strlen == /\ routine = "strlen" /\ strlen!Next
          /\ UNCHANGED <<routine, chrin, counted, src_end, synd, matched>>
MemchrScalarStep == /\ routine = "memchr_scalar" /\ memchr_scalar!Next
                    /\ UNCHANGED <<routine, vdata2, cntrem, left, synd, matched>>

Next == Memchr \/ Strchr \/ Strrchr \/ Strlen \/ MemchrScalarStep

\* A thread that has called a routine goes on executing it.
Spec == Init /\ [][Next]_vars /\ WF_vars(Next)

-----------------------------------------------------------------------------
Stop == CASE routine = "memchr" -> memchr!Stop
          [] routine \in Strchrs -> strchr!Stop
          [] routine = "strrchr" -> strrchr!Stop
          [] routine = "strlen" -> strlen!Stop
          [] routine = "memchr_scalar" -> memchr_scalar!Stop
Answer == CASE routine = "memchr" -> memchr!Answer
            [] routine \in Strchrs -> strchr!Answer
            [] routine = "strrchr" -> strrchr!Answer
            [] routine = "strlen" -> strlen!Answer
            [] routine = "memchr_scalar" -> memchr_scalar!Answer
Passed == CASE routine = "memchr" -> memchr!Passed
            [] routine \in Strchrs -> strchr!Passed
            [] routine = "strrchr" -> strrchr!Passed
            [] routine = "strlen" -> strlen!Passed
            [] routine = "memchr_scalar" -> memchr_scalar!Passed

\* Every routine implements the search: it passes over no byte and gets no
\* further than the one that settles the answer, whatever the byte order, the
\* alignment, the size and the character, and returns what the C standard says.
S == INSTANCE Search WITH stop <- Stop, answer <- Answer, seen <- Passed,
                          result <- IF pc = "ret" THEN result ELSE 0,
                          done <- pc = "ret"
Implements == S!Spec

\* Every load is of a hunk, a word or, in the start of strlen, a page that holds
\* a byte the C standard lets the routine read.
Footprint == /\ routine = "memchr" => memchr!Footprint
             /\ routine \in Strchrs => strchr!Footprint
             /\ routine = "strrchr" => strrchr!Footprint
             /\ routine = "strlen" => strlen!Footprint
             /\ routine = "memchr_scalar" => memchr_scalar!Footprint

\* What holds before each step, of which the rest follows.
IInv == /\ routine = "memchr" => memchr!IInv
        /\ routine \in Strchrs => strchr!IInv
        /\ routine = "strrchr" => strrchr!IInv
        /\ routine = "strlen" => strlen!IInv
        /\ routine = "memchr_scalar" => memchr_scalar!IInv

=============================================================================
