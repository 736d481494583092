--------------------------- MODULE MCMemcpyAArch64 ---------------------------
(***************************************************************************)
(* Instances of MemcpyAArch64 for TLC.  Every byte of the initial memory   *)
(* is distinct (byte a holds a), so a byte that ends up in a wrong place   *)
(* is always seen.                                                         *)
(***************************************************************************)
EXTENDS MemcpyAArch64

MCAddrSpace == 512
MCMem0 == [a \in 0 .. 511 |-> a]

\* Every size of the branches without a loop, with the buffers apart, shifted
\* by less than their size in both directions, and equal.
SmallCalls ==
    {[d |-> 160 + o, s |-> 160, n |-> n] :
        n \in 0 .. 128, o \in {-131, -16, -3, 0, 1, 15, 40, 130}}

\* Large copies: every kind of alignment of the destination, distances around
\* 0, the 16 bytes of a register pair, the 64 of an iteration and the size of
\* the copy, and sizes that take 0, 1 and 2 iterations, at their boundaries.
LargeSizes == {129, 130, 143, 144, 145, 159, 160, 192, 193, 207, 208, 209, 257}
Distances(n) == {-65, -64, -17, -16, -15, -1, 0, 1, 15, 16, 17, 63, 64, 65}
                    \cup (IF n <= 145 THEN {-n, 1 - n, n - 1, n} ELSE {})
LargeCalls ==
    UNION {{[d |-> 160 + al, s |-> 160 + al - o, n |-> n] :
            al \in {0, 1, 8, 15}, o \in Distances(n)} : n \in LargeSizes}

MCCalls == SmallCalls \cup LargeCalls

=============================================================================
