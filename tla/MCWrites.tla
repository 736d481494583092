------------------------------- MODULE MCWrites -------------------------------
(***************************************************************************)
(* An instance of Writes with vectors of 16 bytes, as in the architecture, *)
(* in 512 addresses.                                                       *)
(***************************************************************************)
EXTENDS Writes

MCW == 16
MCSize == 512

-----------------------------------------------------------------------------
(* Regions of every size near those at which the code branches.            *)

Ones == [a \in 0 .. 479 |-> 1]

FillSizes == 0 .. 18 \cup {31, 32, 33, 47, 48, 49, 63, 64, 65, 66, 95, 96, 97, 127, 128, 129, 130,
                           143, 144, 145, 159, 160, 161, 176, 191, 192, 193, 207, 208, 209,
                           224, 240, 254, 255, 256, 257, 258, 271, 272, 287, 304, 319, 320, 321}

\* Blocks of 64 bytes; of 64, but prohibited; and of 128.
Dczids == {4, 20, 5}

Alignments == {0, 1, 15, 16, 17, 31, 32, 48, 63}

MemsetCalls ==
    { [routine |-> r, d |-> 64 + a, n |-> n, val |-> v[1], dczid |-> v[2], mem |-> Ones] :
          r \in {"memset", "memset_scalar", "memset_sve"}, n \in FillSizes, a \in Alignments,
          v \in {<<7, 4>>, <<256, 4>>} \cup {<<0, z>> : z \in Dczids} }

TagCalls ==
    { [routine |-> r, d |-> 16 * d, n |-> 16 * n, val |-> 0, dczid |-> z, mem |-> Ones] :
          r \in {"tag_region", "tag_zero_region"}, n \in 0 .. 22, d \in 4 .. 7, z \in Dczids }

MCFillCalls == MemsetCalls \cup TagCalls

-----------------------------------------------------------------------------
(* Strings of every length about the sizes at which strcpy branches, and   *)
(* of 0 to 3 iterations of its loop, at every alignment.  Before one there *)
(* are NULs, after it NULs and others.                                     *)

Lengths == 0 .. 50 \cup {62, 63, 64, 65, 79, 80, 81}

StringAt(s, k) == [a \in 0 .. 271 |->
    CASE a < s -> 0
      [] a \in s .. (s + k - 1) -> 1 + (a - s)
      [] a = s + k -> 0
      [] a > s + k -> IF a % 3 = k % 2 THEN 0 ELSE 255]

MCStringCalls ==
    { [routine |-> r, big |-> b, d |-> 144 + ((s * 7) % 16), s |-> s, mem |-> StringAt(s, k)] :
          r \in {"strcpy", "stpcpy"}, b \in BOOLEAN, s \in 16 .. 31, k \in Lengths }

=============================================================================
