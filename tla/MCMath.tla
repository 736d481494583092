------------------------------- MODULE MCMath --------------------------------
(***************************************************************************)
(* The operands at which the routines' paths meet, for TLC: the words on   *)
(* both sides of the bounds of exp and log; angles in every quarter, and   *)
(* large ones in every sixteenth of a turn; halves and whole numbers below *)
(* and above the sizes from which all numbers are whole and from which all *)
(* are even; the ends of the pieces of the inverses; for the angle of two  *)
(* operands the numbers whose quotients and order are extreme; and for a   *)
(* power the numbers around 1, the powers of 2 whose powers are at the     *)
(* ends of the formats, and the exponents from which all numbers are whole *)
(* or even and from which the power is 1 or none.                          *)
(***************************************************************************)
EXTENDS MathCalls

Both(f, hs) == {Operand(f, s, h) : s \in 0 .. 1, h \in hs}
Common(f) == {0, 1, 2^f.m - 1, 2^f.m, InfBits(f) - 1, InfBits(f), InfBits(f) + 1,
              InfBits(f) + 2^(f.m - 1)}
Large(bs) == {b + l : b \in bs, l \in {0, 1, 31, 32, 33, 64, 96, 100, 128, 130, 160, 192, 200, 250}}

ExpLog64 == {
    0, 1, \h000fffff, \h00100000, \h0abcdef0, \h3c8fffff, \h3c900000, \h3d000000,
    \h3e400000, \h3f000000, \h3f700000, \h3f700020, \h3fb2a9f2, \h3fba308a, \h3fc4cb5e,
    \h3fcf0000-1, \h3fd00000, \h3fd5bfff, \h3fe00000, \h3fe62e43, \h3fee0000-1,
    \h3fee0000, \h3feffff0, \h3fefffff, \h3ff00000, \h3ff00001, \h3ff108ff, \h3ff10900,
    \h3ff80000, \h40000000, \h40240000, \h40590000, \h4072c000, \h40732000, \h40733a6f,
    \h40733a70, \h40735000, \h40738000, \h407439b7, \h4075dfff, \h4075e000, \h4075e001,
    \h4076a000, \h407f0000, \h40800000, \h4086232b, \h4086232c, \h40862400, \h40863000,
    \h40870000, \h40874910, \h40874a00, \h4087ffff, \h408d0000, \h408d0001, \h408ff000,
    \h408ff810, \h408ff811, \h408fffff-2^10, \h40900000, \h4090c800, \h4090cc00,
    \h4090d008, \h40a00000, \h41000000, \h43300000, \h5fe00000, \h7fefffff, \h7ff00000,
    \h7ff80000}
ExpLog32 == {
    0, 1, \h7fffff, \h800000, \h30000000, \h3e000000, \h3f000000, \h3f317218,
    \h3f7ff000, \h3f7fffff, \h3f800000, \h3f800001, \h3fc00000, \h40000000, \h41200000,
    \h42080000, \h42185238, \h4219867a, \h421a7000, \h42346000, \h42347000, \h42400000,
    \h42a6c0a6, \h42aeaf15, \h42af5dc2, \h42b00000, \h42b10000, \h42b17300, \h42c80000,
    \h42ce8000, \h42cf0000, \h42cff000, \h42cff200, \h42fc0000, \h42fd0000, \h42ff0000,
    \h42ffc000, \h43000000, \h43100000, \h43150000, \h43150001, \h43160000, \h43160001,
    \h43400001, \h44000000, \h44000001, \h4b000000, \h50000000, \h7f7fffff, \h7f800000,
    \h7fc00000}
Angles64 == {
    \h3c900000, \h3e400000, \h3f700000, \h3f847ae1, \h3fb99999, \h3fd33333, \h3fe33333,
    \h3fe8f5c2, \h3feccccc, \h3ff33333, \h3ff80000, \h3ff921ff, \h3ffb3333, \h40000000,
    \h40026666, \h40033333, \h40080000, \h400921f9, \h40099999, \h400f3333, \h40100000,
    \h40120000, \h40133333, \h40140000, \h40160000, \h40180000, \h40193333, \h401c0000,
    \h40240000, \h4040a666, \h40590000, \h405de000, \h405e4000, \h408f4000, \h40dd4c00} \cup
    Large({\h415fff00, \h41600000, \h41700000, \h43300000, \h7fe00000})
Angles32 == {
    \h1c800000, \h38000000, \h397fffff, \h3a800000, \h3c23d70a, \h3dcccccd, \h3e99999a,
    \h3f19999a, \h3f47ae14, \h3f666666, \h3f99999a, \h3fc00000, \h3fc90ff9, \h3fd9999a,
    \h40000000, \h40133333, \h4019999a, \h40400000, \h40490fd0, \h404ccccd, \h4079999a,
    \h40800000, \h40900000, \h4099999a, \h40a00000, \h40b00000, \h40c00000, \h40c9999a,
    \h40e00000, \h41200000, \h42053333, \h42c80000, \h42ef0000, \h42f20000, \h447a0000,
    \h46ea6000} \cup
    Large({\h46ffff00, \h47000000, \h49800000, \h50000000, \h5f000000, \h7f000000})
HalfTurns64 == {
    \h3b900000, \h3d700000, \h3e100000, \h3f500000, \h3f800000, \h3fa00000, \h3fc00000,
    \h3fd00000, \h3fd80000, \h3fe00000, \h3fe40000, \h3fe80000, \h3fec0000, \h3ff00000,
    \h3ff20000, \h3ff40000, \h3ff80000, \h3ffc0000, \h40000000, \h40020000, \h40040000,
    \h40060000, \h40080000, \h400c0000, \h400e0000, \h40100000, \h401e0000, \h40220000,
    \h40591000, \h40596000, \h408f4800, \h41200001, \h412ffffe, \h412fffff, \h41300001,
    \h41400001, \h41d00000, \h41f00000, \h43100000, \h43200000, \h43300000, \h43400000,
    \h43d00000, \h43e00000, \h43f00000}
HalfTurns32 == {
    \h1c800000, \h2b800000, \h30800000, \h3a800000, \h3c000000, \h3d000000, \h3e000000,
    \h3e800000, \h3ec00000, \h3f000000, \h3f200000, \h3f400000, \h3f600000, \h3f800000,
    \h3f900000, \h3fa00000, \h3fc00000, \h3fe00000, \h40000000, \h40100000, \h40200000,
    \h40300000, \h40400000, \h40600000, \h40700000, \h40800000, \h40f00000, \h41100000,
    \h42c88000, \h42cb0000, \h447a4000, \h49000008, \h497ffff0, \h497ffff8, \h4a800000,
    \h4a800001, \h4a800002, \h4a800003, \h4b000000, \h4b000001, \h4b800000, \h4b800001,
    \h4e800000, \h4f000000, \h4f800000, \h5f000000}
Inverse64 == {
    \h3bf00000, \h3c800000, \h3d000000, \h3e100000, \h3e200000, \h3e600000, \h3f000000,
    \h3f800000, \h3fb00000, \h3fd00000, \h3fdff000, \h3fe00000, \h3fe01000, \h3fe80000,
    \h3fefff00, \h3ff00000, \h3ff00010, \h3ff80000, \h40000000, \h40240000, \h43300000,
    \h43500000, \h7f000000}
Inverse32 == {
    \h23000000, \h30000000, \h32000000, \h33000000, \h39000000, \h3a000000, \h3d800000,
    \h3e800000, \h3efff000, \h3f000000, \h3f001000, \h3f400000, \h3f7ff000, \h3f800000,
    \h3f801000, \h3fc00000, \h40000000, \h41200000, \h4b000000, \h4e000000, \h4f000000,
    \h7e000000}
Hyper64 == {
    \h3c8fffff, \h3cc00000, \h3cc00001, \h3d000000, \h3e3fffff, \h3e400000, \h3e500000,
    \h3f000000, \h3f800000, \h3fb80000, \h3fba56ef, \h3fba5700, \h3fc00000, \h3fca56ef,
    \h3fca5700, \h3fd00000, \h3fd2bec3, \h3fd2bec4, \h3fda8279, \h3fda827a, \h3fdfffff,
    \h3fe00000, \h3fe80000, \h3fefffff, \h3ff00000, \h3ff00001, \h3ff00100, \h3ff40000,
    \h3ff80000, \h3fffffff, \h40000000, \h40000001, \h40080000, \h40240000, \h403241bf,
    \h403241c0, \h4032cccc, \h4032cccd, \h40330fc1, \h40330fc2, \h40590000, \h40861da0,
    \h40861da1, \h40861dab, \h40861dac, \h4086232b, \h4086232c, \h4086232e, \h4086232f,
    \h408628b7, \h408628b8, \h40862e00, \h40862e37, \h40862e38, \h40862e43,
    \h40863000, \h40863108, \h40863109, \h40863300, \h40863400, \h40863401, \h408665ab,
    \h408665ac, \h40867637, \h40867638, \h40900000, \h40962e42, \h41000000, \h5fdfffff,
    \h5fe00000, \h7fdfffff}
Hyper32 == {
    \h1fffffff, \h20000000, \h20000001, \h33ffffff, \h34000000, \h34000001, \h397fffff,
    \h39800000, \h3dc00000, \h3e000000, \h3e800000, \h3e800001, \h3f000000, \h3f000001,
    \h3f400000, \h3f7fffff, \h3f800000, \h3f800001, \h3f800100, \h3fa00000, \h3fc00000,
    \h3fffffff, \h40000000, \h40000001, \h40400000, \h41102cb3, \h41102cb4, \h42a6c0a6,
    \h42ad496b, \h42ad496c, \h42aeac4f, \h42aeac50, \h42aeaf15, \h42aeaf16, \h42b0c0a4,
    \h42b0c0a5, \h42b16000, \h42b17218, \h42b2238a, \h42b2238b, \h42b2d000, \h42b2d4fd,
    \h42b2d4fe, \h42b2da00, \h42c0af14, \h42c0af15, \h42c2c0a4, \h42c2c0a5, \h43100000,
    \h43310000, \h43320000, \h44ba4f4b, \h44ba4f4c, \h5f7fffff, \h5f800000, \h7effffff}
Pair64 == {
    0, 1, \h00100000, \h1ff00000, \h3e000000, \h3fe00000, \h3ff00000, \h3ff80000,
    \h40000000, \h40900000, \h41e00000, \h7fe00000, \h7ff00000, \h7ff00001, \h7ff80000}
Pair32 == {
    0, 1, \h00400000, \h00800000, \h33000000, \h3e800000, \h3f800000, \h3fc00000,
    \h40000000, \h4b000000, \h4c000000, \h7f000000, \h7f800000, \h7f800001, \h7fc00000}
PowX64 == {
    0, 1, \h000fffff, \h00100000, \h3fe00000, \h3fef8000, \h3ff00000, \h3ff04000, \h40000000,
    \h40080000, \h7fe00000, \h7fefffff, \h7ff00000, \h7ff00001, \h7ff80000}
PowX32 == {
    0, 1, \h007fffff, \h00800000, \h3f000000, \h3f7c0000, \h3f800000, \h3f820000, \h40000000,
    \h40400000, \h7f000000, \h7f7fffff, \h7f800000, \h7f800001, \h7fc00000}
PowY64 == {
    0, 1, \h00100000, \h3bd00000, \h3be00000, \h3c700000, \h3fe00000, \h3ff00000, \h3ff80000,
    \h40000000, \h40080000, \h40100000, \h40140000, \h408ff800, \h40900000, \h4090c800,
    \h4090cc00, \h40f00000, \h413fffff, \h41400001, \h43300000, \h43400000, \h43d00000,
    \h43e00000, \h7fefffff, \h7ff00000, \h7ff00001, \h7ff80000}
PowY32 == {
    0, 1, \h00800000, \h1f000000, \h2b800000, \h3f000000, \h3f800000, \h3fc00000, \h40000000,
    \h40400000, \h40800000, \h40a00000, \h42fe0000, \h43000000, \h43150000, \h43160000,
    \h43168000, \h4affffff, \h4b000001, \h4b800000, \h4b800001, \h5f000000, \h7f7fffff,
    \h7f800000, \h7f800001, \h7fc00000}

Hypers == {"expm1", "log1p", "sinh", "cosh", "tanh", "asinh", "acosh", "atanh"}
Exps == {"exp", "exp2", "exp10"}
Logs == {"log", "log2", "log10"}
Less1s == {"exp2m1", "exp10m1", "log2p1", "log10p1"}
Trigs == {"sin", "cos", "tan", "sincos"}
TrigPis == {"sinpi", "cospi", "tanpi", "sincospi"}
Arcs == {"asin", "acos", "atan"}
ArcPis == {"asinpi", "acospi", "atanpi"}
Arcs2 == {"atan2", "atan2pi"}
Powers == {"pow", "powr"}

By(f, in64, in32) == IF f = F64 THEN in64 ELSE in32
Magnitudes(of, f) ==
    CASE of \in Hypers -> Common(f) \cup By(f, Hyper64 \cup ExpLog64, Hyper32 \cup ExpLog32)
      [] of \in Arcs \cup ArcPis -> Common(f) \cup By(f, Inverse64, Inverse32)
      [] of \in Arcs2 -> By(f, Pair64, Pair32)
      [] of \in Trigs \cup {"cexpi"} -> Common(f) \cup By(f, Angles64, Angles32)
      [] of \in TrigPis \cup {"cexpipi"} -> Common(f) \cup By(f, HalfTurns64, HalfTurns32)
      [] OTHER -> By(f, ExpLog64, ExpLog32)
Named(set, ofs) == {<<set, of, f>> : of \in ofs, f \in {F64, F32}}
SvePows == Named("sv", {"pow"})
MCOperands(r) ==
    LET xs == Both(r[3], Magnitudes(r[2], r[3]))
    IN  IF r[2] \in Powers THEN Both(r[3], By(r[3], PowX64, PowX32))
                                 \X Both(r[3], By(r[3], PowY64, PowY32))
        ELSE IF r[2] \in Arcs2 THEN xs \X xs ELSE {<<a>> : a \in xs}
\* Beside any lane there may be an ordinary one, a NaN, an infinity and a
\* subnormal, which the pow of SVE takes badly.
Any(f) == {Operand(f, 0, 1), Operand(f, 0, One(f)), Operand(f, 0, InfBits(f) + 1),
           Operand(f, 1, InfBits(f))}
MCBeside(r) == IF r \in SvePows THEN Any(r[3]) \ {Operand(r[3], 0, 1)} ELSE Any(r[3])
AnyBeside(r) == Any(r[3])

\* In one format only, or not at all.
NotScalar == {<<"", "exp10", F32>>} \cup {<<"", of, F64>> : of \in Trigs}
\* Those that leave errno alone on some paths.
MCQuiet == {<<"", "log1p", F32>>, <<"", "sinh", F64>>} \cup Named("", {"expm1", "cosh", "acosh"})
Acoshs == Named("", {"acosh"})
Sv_atan2pif == {<<"sv", "atan2pi", F32>>}
Vectors(set) == Named(set, Exps \cup Logs \cup Less1s \cup Trigs \cup TrigPis \cup Hypers \cup Arcs
                           \cup ArcPis \cup Arcs2 \cup Powers \cup {"cexpi", "cexpipi"})
MCRoutines ==
    (Named("", Exps \cup Logs \cup Trigs \cup TrigPis \cup Arcs \cup Hypers \cup {"atan2", "pow"})
     \ NotScalar)
    \cup {<<"v", "exp_1u", F32>>, <<"v", "exp2_1u", F32>>, <<"v", "cr_exp", F32>>}
    \cup Vectors("v") \cup (Vectors("sv") \ Sv_atan2pif)

=============================================================================
