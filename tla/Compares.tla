------------------------------- MODULE Compares -------------------------------
(***************************************************************************)
(* A call of memcmp, strcmp or strncmp of string/aarch64.  They implement  *)
(* Search: the byte they look for is the first at which the arguments      *)
(* differ or end.                                                          *)
(***************************************************************************)
EXTENDS Comparing

CONSTANT Size   \* the number of values of a size_t

ASSUME SizeAssumption == Size \in Nat

VARIABLES data3, has_nul,                     \* of strcmp
          limit,                              \* of strncmp and memcmp
          count, tmp1, tmp2,                  \* of strncmp
          tmp                                 \* of memcmp

vars == <<call, pc, src1, src2, rd1, rd2, result, data1, data2, syndrome,
          data3, has_nul, limit, count, tmp1, tmp2, tmp>>

memcmp == INSTANCE Memcmp
strcmp == INSTANCE Strcmp
strncmp == INSTANCE Strncmp

words == <<data1, data2, syndrome>>
ofStrcmp == <<data3, has_nul>>
ofStrncmp == <<count, tmp1, tmp2>>
NotStrcmp == data3 = {} /\ has_nul = {}
NotStrncmp == count = 0 /\ tmp1 = {} /\ tmp2 = {}

routine == call.routine

Init == \/ memcmp!Init /\ routine = "memcmp" /\ Cleared /\ NotStrcmp /\ NotStrncmp
        \/ strcmp!Init /\ routine = "strcmp" /\ NotStrncmp /\ limit = 0 /\ tmp = {}
        \/ strncmp!Init /\ routine = "strncmp" /\ NotStrcmp /\ tmp = {}

MemcmpStep == routine = "memcmp" /\ memcmp!Next /\ UNCHANGED <<words, ofStrcmp, ofStrncmp>>
Strcmp == routine = "strcmp" /\ strcmp!Next /\ UNCHANGED <<ofStrncmp, limit, tmp>>
Strncmp == routine = "strncmp" /\ strncmp!Next /\ UNCHANGED <<ofStrcmp, tmp>>

Next == MemcmpStep \/ Strcmp \/ Strncmp

\* A thread that has called a routine goes on executing it.
Spec == Init /\ [][Next]_vars /\ WF_vars(Next)

-----------------------------------------------------------------------------
Stop == CASE routine = "memcmp" -> memcmp!Stop
          [] routine = "strcmp" -> strcmp!Stop
          [] routine = "strncmp" -> strncmp!Stop
Answer == CASE routine = "memcmp" -> memcmp!Answer
          [] routine = "strcmp" -> strcmp!Answer
          [] routine = "strncmp" -> strncmp!Answer
Passed == CASE routine = "memcmp" -> memcmp!Passed
          [] routine = "strcmp" -> strcmp!Passed
          [] routine = "strncmp" -> strncmp!Passed

\* Every routine implements the search: it passes no difference and no end, gets
\* no further than the first of them and returns a result of the sign that the C
\* standard says, whatever the byte order, the alignment of the arguments and
\* the limit, up to SIZE_MAX.
S == INSTANCE Search WITH stop <- Stop, answer <- Answer, seen <- Passed,
                          result <- IF pc = "ret" THEN Sign(result) ELSE 0,
                          done <- pc = "ret"
Implements == S!Spec

\* memcmp loads nothing but its buffers, the others nothing but the tag granules
\* of their strings, though they load several words ahead and some bytes twice.
Footprint == /\ routine = "memcmp" => memcmp!Footprint
             /\ routine = "strcmp" => strcmp!Footprint
             /\ routine = "strncmp" => strncmp!Footprint

\* The inductive invariants of the routines: where the pointers and the limit, biased or
\* rewound, are, what is known to be the same there, what the words in registers are,
\* and that the right sign is returned.
IInv == /\ routine = "memcmp" => memcmp!IInv
        /\ routine = "strcmp" => strcmp!IInv
        /\ routine = "strncmp" => strncmp!IInv

\* What the test of strncmp (string/test/strncmp.c) fails a routine for: a
\* result that has not the sign of the difference of the strings.
ResultHasSign == pc = "ret" => Sign(result) = Answer

=============================================================================
