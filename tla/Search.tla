-------------------------------- MODULE Search --------------------------------
(***************************************************************************)
(* What every string search promises: it looks at the bytes in order, gets *)
(* no further than the byte that settles the answer, passes none over, and *)
(* replies once, with the answer.  The routines of string/ that look for a *)
(* byte are shown to implement it.                                         *)
(***************************************************************************)
EXTENDS Integers

VARIABLES stop,     \* how many bytes precede the one that settles the answer
          answer,   \* what the C standard says the call returns
          seen,     \* how many bytes are known not to settle it
          result, done

vars == <<stop, answer, seen, result, done>>

Init == /\ stop \in Nat /\ answer \in Nat
        /\ seen = 0 /\ result = 0 /\ done = FALSE

\* Some more bytes turn out not to settle the answer.
Look == /\ ~done
        /\ seen' > seen /\ seen' <= stop
        /\ UNCHANGED <<stop, answer, result, done>>

Reply == /\ ~done
         /\ result' = answer /\ done' = TRUE
         /\ seen' >= seen /\ seen' <= stop
         /\ UNCHANGED <<stop, answer>>

Next == Look \/ Reply

\* It does reply.
Spec == Init /\ [][Next]_vars /\ <>done

=============================================================================
