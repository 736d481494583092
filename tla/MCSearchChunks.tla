---------------------------- MODULE MCSearchChunks ----------------------------
(***************************************************************************)
(* An instance of SearchChunks: chunks of 4 bytes, a NUL or a match at any *)
(* two of the addresses before, in and after the first chunk and on to the *)
(* fifth, so that each loop goes round more than once, and limits around   *)
(* the ends of the chunks.                                                 *)
(***************************************************************************)
EXTENDS SearchChunks

MCW == 4

\* The last address a load may reach, and the first of those that hold a NUL
\* and a match in turn, which end every search.
LastAddress == 59
EndOfBytes == 40

\* Bytes of 0xff everywhere below the end but at the addresses of P, which have
\* each choice of bytes of C.
Sprinkled(P, C) ==
    { [a \in 0 .. LastAddress |->
          IF a \in P THEN f[a]
          ELSE IF a < EndOfBytes THEN 255
          ELSE IF a % 2 = 0 THEN 0 ELSE 7] : f \in [P -> C] }

MCPointers == {8, 9, 11}
MCChars == {0, 7}
MCSize == 128
MCCounts == {0, 1, 4, 5, 12, 16, MCSize - 1}
MCMemories == UNION {Sprinkled({a, b}, {0, 7}) : a \in 7 .. 11, b \in 11 .. 25}

=============================================================================
