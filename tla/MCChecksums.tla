----------------------------- MODULE MCChecksums -----------------------------
(***************************************************************************)
(* Instances of Checksums for TLC, with bytes of 8 values (so a uint16_t   *)
(* has 64 values and a uint64_t 2^24), and memories that carry a lot, a    *)
(* bit, never, and irregularly.                                            *)
(***************************************************************************)
EXTENDS Checksums

MCRadix == 8
MCMaxUnaligned == 300
MCMinAlignedAArch64 == 50
MCMinAlignedArm == 40

Address == 0 .. 359
MCMem == <<[a \in Address |-> 7],
           [a \in Address |-> 0],
           [a \in Address |-> IF a % 2 = 0 THEN 7 ELSE 0],
           [a \in Address |-> (a * a + 3 * (a \div 5)) % 8],
           [a \in Address |-> IF a = 47 THEN 1 ELSE 0],
           [a \in Address |-> IF a \in 40 .. 43 THEN (IF a = 40 THEN 1 ELSE 0) ELSE 7]>>

\* Every alignment; for __chksum the small sizes and those around its
\* threshold, for the SIMD versions both sides of theirs and 0, 1 and 2 groups
\* of 64 bytes with every remainder.
SimdRoutines == {"__chksum_aarch64_simd", "__chksum_arm_simd"}
MCCalls == [routine : {"__chksum"}, m : DOMAIN MCMem,
            p : 8 .. 11, n : 0 .. 37 \cup 298 .. 323]
               \cup [routine : SimdRoutines, m : DOMAIN MCMem, p : 16 .. 23, n : 0 .. 160]

=============================================================================
