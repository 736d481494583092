------------------------------ MODULE MCCompares ------------------------------
(***************************************************************************)
(* Instances of Compares: words of 4 bytes in strcmp and strncmp, as wide  *)
(* as the code's in memcmp, and a size_t of 512 values.                    *)
(***************************************************************************)
EXTENDS Compares

MCW == 8
MCSize == 512

Byte == 0 .. 255
StringAddress == 0 .. 127
BufferTop(n) == CASE n <= 32 -> 127 [] n \in 33 .. 96 -> 255 [] n > 96 -> 545

MCCalls == [routine : {"strcmp", "strncmp"}, big : BOOLEAN, mem : [StringAddress -> Byte],
            s1 : StringAddress, s2 : StringAddress, n : 0 .. (MCSize - 1)]
               \cup [routine : {"memcmp"}, big : BOOLEAN, s1 : Nat, s2 : Nat, n : 0 .. 241,
                     mem : [0 .. 127 -> Byte] \cup [0 .. 255 -> Byte] \cup [0 .. 545 -> Byte]]

-----------------------------------------------------------------------------
(* Two strings of z bytes f that are the same but at d, where one has x;   *)
(* and what is before and after, which has to be ignored.  The byte 1 is   *)
(* special to the search for a NUL.                                        *)

Plain(i, z, f) == CASE i < 0 -> i % 2
                    [] i \in 0 .. (z - 1) -> f
                    [] i >= z -> IF (i - z) % 3 = 0 THEN 0 ELSE 1

Changed(i, z, f, d, x) == CASE i < 0 -> (i + 1) % 2
                            [] i >= 0 /\ i = d -> x
                            [] i \in (0 .. (z - 1)) \ {d} -> f
                            [] i >= z /\ i # d -> IF (i - z) % 5 = 0 THEN 0 ELSE 255

\* Is the string at s1, in the lower half of the memory, the changed one?
StringsOf(s1, s2, z, f, d, x, first) == [a \in StringAddress |->
    LET i == IF a < 64 THEN a - s1 ELSE a - s2
    IN  IF (a < 64) = first THEN Changed(i, z, f, d, x) ELSE Plain(i, z, f)]

\* In strings of top bytes the difference is anywhere, in shorter ones about the
\* end; d = z + 1 is no difference.
Places(z, top) == IF z = top THEN 0 .. (z + 1) ELSE 0 .. (z + 1) \ 0 .. (z - 2)

\* Every alignment and length.
StrcmpCall(top) ==
    \E big_, first \in BOOLEAN, s1 \in 16 .. 19, s2 \in 80 .. 83,
       x \in {0, 2, 255}, f \in {1, 128}, z \in 0 .. top : \E d \in Places(z, top) :
        call = [routine |-> "strcmp", big |-> big_, s1 |-> s1, s2 |-> s2, n |-> 0,
                mem |-> StringsOf(s1, s2, z, f, d, x, first)]

StrncmpCall(Builds, top, Limits(_, _)) ==
    \E big_ \in Builds, s1 \in 16 .. 19, s2 \in 80 .. 87, x \in {0, 255}, z \in 0 .. top :
        \E d \in Places(z, top) : \E n \in Limits(z, d) :
            call = [routine |-> "strncmp", big |-> big_, s1 |-> s1, s2 |-> s2, n |-> n,
                    mem |-> StringsOf(s1, s2, z, 1, d, x, FALSE)]

\* Limits at the decisive bytes, large ones, and the largest of a size_t; an
\* eighth of their number is the least limit of which 8 times wrap.
NearLimits(z, d) == {d, d + 1, z + 1, MCSize \div 8 - 1}
FarLimits(z, d) == {MCSize \div 8, MCSize - 9, MCSize - 1}
HugeLimits(z, d) == {MCSize - 1, MCSize \div 8}

-----------------------------------------------------------------------------
(* Two buffers of n bytes that are the same but at d, where the second has *)
(* x, and at some bytes after d, which point the other way.                *)

Buffers(s1, s2, n, d, x) == [a \in 0 .. BufferTop(n) |->
    LET i == a - s1
        j == a - s2
    IN  CASE i \in 0 .. (n - 1) -> 100
          [] j \in 0 .. (n - 1) /\ j = d -> x
          [] j \in (d + 1) .. (n - 1) /\ j % 7 = 0 -> 300 - x
          [] OTHER -> IF j \in 0 .. (n - 1) THEN 100 ELSE a % 5]

\* The first buffer is aligned, the second, after it, is o bytes from it.
MemcmpCall(Sizes, Offsets, D(_)) ==
    \E big_ \in BOOLEAN, n \in Sizes, o \in Offsets : \E d \in D(n) :
        LET s2 == 16 * ((n + 31) \div 16) + o
        IN  call = [routine |-> "memcmp", big |-> big_, s1 |-> 16, s2 |-> s2, n |-> n,
                    mem |-> Buffers(16, s2, n, d, IF d % 2 = 0 THEN 99 ELSE 200)]

\* The sizes at which memcmp branches; a difference at every place, or at both
\* ends of each half of a word, or none (d = n).
BufferSizes == 0 .. 17 \cup {31, 32, 33, 48, 49, 63, 64, 65, 80, 81, 96, 97, 128, 129, 159}
LargeSizes == {160, 161, 177, 225, 241}
Everywhere(n) == 0 .. n
InEachHalf(n) == {n} \cup {d \in 0 .. n : d % 4 \in {0, 3}}

-----------------------------------------------------------------------------
\* In the big-endian build strncmp is left to limits below an eighth of a size_t;
\* the others are those of HugeInit.
MCInit == /\ \/ MemcmpCall(BufferSizes, {0}, Everywhere)
             \/ MemcmpCall(LargeSizes, {0, 15}, InEachHalf)
             \/ StrcmpCall(9)
             \/ StrncmpCall(BOOLEAN, 12, NearLimits)
             \/ StrncmpCall({FALSE}, 9, FarLimits)
          /\ Init
MCSpec == MCInit /\ [][Next]_vars /\ WF_vars(Next)

HugeInit == StrncmpCall({TRUE}, 14, HugeLimits) /\ Init
HugeSpec == HugeInit /\ [][Next]_vars /\ WF_vars(Next)

=============================================================================
