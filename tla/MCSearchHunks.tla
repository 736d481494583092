----------------------------- MODULE MCSearchHunks -----------------------------
(***************************************************************************)
(* An instance of SearchHunks: hunks of 8 bytes and words of 2 in pages of *)
(* 16, with neighbouring bytes that are special to a search of words, and  *)
(* a NUL or a match at any other address of the first hunks.               *)
(***************************************************************************)
EXTENDS SearchHunks

MCW == 4

\* The last address a load may reach, and the first of those that hold a NUL
\* and a match in turn, which end every search.
LastAddress == 47
EndOfBytes == 40

\* Bytes of 0xff everywhere below the end but at the addresses of P, which have
\* each choice of bytes of C.
Sprinkled(P, C) ==
    { [a \in 0 .. LastAddress |->
          IF a \in P THEN f[a]
          ELSE IF a < EndOfBytes THEN 255
          ELSE IF a % 2 = 0 THEN 0 ELSE 7] : f \in [P -> C] }

MCMinPageSize == 16
MCPointers == {16, 17, 23, 24, 25, 31}
MCChars == {0, 7}
MCSize == 64
MCCounts == {0, 1, 8, 9, 16, MCSize - 1}
MCMemories == UNION {Sprinkled({a, a + 1}, {0, 1, 7}) : a \in 17 .. 31}
                \cup UNION {Sprinkled({a, b}, {0, 7}) : a \in {16, 22}, b \in 24 .. 39}

=============================================================================
