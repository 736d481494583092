------------------------------- MODULE MemMove -------------------------------
(***************************************************************************)
(* The contract of memmove (and of memcpy, on buffers that do not          *)
(* overlap): one step in which the destination takes the bytes the source  *)
(* had when the call was made.  The copy routines of string/ are shown to  *)
(* implement it.                                                           *)
(***************************************************************************)
EXTENDS Memory

CONSTANTS Mem0,   \* the memory when the call is made
          Calls   \* the possible arguments [d, s, n]

VARIABLES call, mem, done

vars == <<call, mem, done>>

Init == /\ call \in Calls
        /\ mem = Mem0
        /\ done = FALSE

Return == /\ ~done
          /\ mem' = Moved(mem, call.d, call.s, call.n)
          /\ done' = TRUE
          /\ UNCHANGED call

Next == Return

Spec == Init /\ [][Next]_vars /\ WF_vars(Return)

=============================================================================
