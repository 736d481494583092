------------------------------ MODULE ExpLogMath ------------------------------
(***************************************************************************)
(* The numbers of the math routines, and exp, log and pow on them: scalar, *)
(* AdvSIMD (v_) and SVE (sv_).                                             *)
(*                                                                         *)
(* The code tests the bits of operands; the properties tell apart the      *)
(* kind, the sign and the binary exponent of values.  The magnitude of an  *)
(* operand is an integer of 31 bits: all the bits of a single, and the     *)
(* upper word of a double, whose lower word is zero.                       *)
(***************************************************************************)
EXTENDS Integers

\* A format: the bits of its exponent field, those of its mantissa that an
\* operand has, and all those of its mantissa.
F64 == [e |-> 11, m |-> 20, p |-> 52]
F32 == [e |-> 8, m |-> 23, p |-> 23]
Bias(f) == 2^(f.e - 1) - 1
InfBits(f) == (2^f.e - 1) * 2^f.m

Operand(f, s, h) == [f |-> f, s |-> s, h |-> h]
Top(x) == x.h \div 2^x.f.m                     \* the exponent field
IsNaN(x) == x.h > InfBits(x.f)
IsInf(x) == x.h = InfBits(x.f)
issignaling(x) == IsNaN(x) /\ (x.h \div 2^(x.f.m - 1)) % 2 = 0
IsZero(x) == x.h = 0
IsFinite(x) == x.h < InfBits(x.f)
IsNormal(x) == IsFinite(x) /\ Top(x) > 0
Positive(x) == x.s = 0 /\ ~IsZero(x) /\ ~IsNaN(x)
PosNormal(x) == x.s = 0 /\ IsNormal(x)
PosInf(x) == x.s = 0 /\ IsInf(x)
Neg(x) == [x EXCEPT !.s = 1 - @]
Abs(x) == [x EXCEPT !.s = 0]
One(f) == Bias(f) * 2^f.m                      \* the bits of 1
Is1(x) == x.h = One(x.f)

\* The most significant n bits of the word, the sign first, as unsigned.
Upper(x, n) == x.s * 2^(n - 1) + (x.h \div 2^(32 - n))
Wrap(i, n) == i % 2^n

\* facgt, facge, fcmgt, fcmlt: comparisons with the number of magnitude h,
\* which fail for a NaN.  The bits of a bound that an operand has not are
\* dropped: an operand whose bits equal what is left is below the bound.
cagt(x, h) == ~IsNaN(x) /\ x.h > h
cage(x, h) == ~IsNaN(x) /\ x.h >= h
gt(x, h) == ~IsNaN(x) /\ x.s = 0 /\ x.h > h
lt(x, h) == ~IsNaN(x) /\ (x.s = 1 \/ x.h < h)
ltNeg(x, h) == ~IsNaN(x) /\ x.s = 1 /\ x.h > h

-----------------------------------------------------------------------------
\* Values: NaN, an infinity, a zero, or a number of exponent k.
NaN == [c |-> "nan", s |-> 0, k |-> 0]
Inf(s) == [c |-> "inf", s |-> s, k |-> 0]
Zero(s) == [c |-> "zero", s |-> s, k |-> 0]
Num(s, k) == [c |-> "num", s |-> s, k |-> k]
One1 == Num(0, 0)

\* The number of exponent k as format f rounds it.
Rounded(f, s, k) == IF k > Bias(f) THEN Inf(s)
                    ELSE IF k < 1 - Bias(f) - f.p THEN Zero(s)
                    ELSE Num(s, k)

Log2(n) == CHOOSE k \in 0 .. 30 : 2^k <= n /\ (k = 30 \/ n < 2^(k + 1))

\* The exponent of a finite nonzero operand.
Exponent(x) == IF Top(x) > 0 THEN Top(x) - Bias(x.f)
               ELSE Log2(x.h) - x.f.m + 1 - Bias(x.f)

Val(x) == IF IsNaN(x) THEN NaN
          ELSE IF IsInf(x) THEN Inf(x.s)
          ELSE IF IsZero(x) THEN Zero(x.s)
          ELSE Num(x.s, Exponent(x))

Minus(v) == IF v.c = "nan" THEN v ELSE [v EXCEPT !.s = 1 - @]
Magnitude(v) == [v EXCEPT !.s = 0]
WithSign(v, s) == IF v.c = "nan" THEN v ELSE [v EXCEPT !.s = s]
Xor(s, t) == (s + t) % 2

Mul(f, a, b) ==
    LET s == Xor(a.s, b.s)
    IN  IF a.c = "nan" \/ b.c = "nan" \/ {a.c, b.c} = {"zero", "inf"} THEN NaN
        ELSE IF a.c = "inf" \/ b.c = "inf" THEN Inf(s)
        ELSE IF a.c = "zero" \/ b.c = "zero" THEN Zero(s)
        ELSE Rounded(f, s, a.k + b.k)

Inverse1(v) == CASE v.c = "inf" -> Zero(v.s) [] v.c = "zero" -> Inf(v.s)
                 [] v.c = "nan" -> NaN [] v.c = "num" -> Num(v.s, 0 - v.k)
Div(f, a, b) == Mul(f, a, Inverse1(b))

\* A sum has the sign and the exponent of the larger number, or one more when
\* the exponents are equal; the caller says what is left when such numbers of
\* opposite signs cancel.
AddOr(a, b, left) ==
    IF a.c = "nan" \/ b.c = "nan" THEN NaN
    ELSE IF a.c = "inf" /\ b.c = "inf" THEN (IF a.s = b.s THEN a ELSE NaN)
    ELSE IF a.c = "inf" \/ (b.c = "zero" /\ a.c = "num") THEN a
    ELSE IF b.c = "inf" \/ (a.c = "zero" /\ b.c = "num") THEN b
    ELSE IF a.c = "zero" THEN Zero(a.s * b.s)
    ELSE IF a.k > b.k THEN a ELSE IF b.k > a.k THEN b
    ELSE IF a.s = b.s THEN Num(a.s, a.k + 1) ELSE left
Add(a, b) == AddOr(a, b, NaN)

Sqrt(a) == IF a.s = 1 /\ a.c \in {"num", "inf"} THEN NaN
           ELSE IF a.c = "num" THEN Num(0, a.k \div 2) ELSE a

\* A polynomial in r with a constant term of exponent k and sign s: it keeps
\* them where r is below 1, and powers of a large r may overflow either way.
Poly(r, s, k) == IF r.c \in {"nan", "inf"} \/ (r.c = "num" /\ r.k > 60) THEN NaN
                 ELSE Num(s, k)

\* The number whose sign and exponent fields are the n bits of `bits', modulo
\* 2^n, and whose mantissa is not zero.
FromTop(f, bits) ==
    LET b == Wrap(bits, f.e + 1)
        k == b % 2^f.e
        s == b \div 2^f.e
    IN  IF k = 2^f.e - 1 THEN NaN
        ELSE IF k = 0 THEN Num(s, 0 - Bias(f)) ELSE Num(s, k - Bias(f))

Pow2(f, k) == FromTop(f, Bias(f) + k)          \* exponent field put together
Ldexp(f, v, k) == Mul(f, v, Num(0, k))         \* svscale: exact but for range

-----------------------------------------------------------------------------
\* A factor c / 2^r of at most 15 bits.
InvLn2 == [c |-> 23637, r |-> 14]              \* log2(e)
Log2Of10 == [c |-> 27213, r |-> 13]
Unit == [c |-> 16384, r |-> 14]

Signed(x, a) == IF x.s = 1 THEN 0 - a ELSE a

\* |x| * f * 2^u to the nearest integer, with the sign of x: the number of
\* steps of 2^-u.  Half a step goes to the even integer, as when a large
\* constant is added to the number, and away from zero for whole steps, as
\* FRINTA does.  From |x| = 2^15 on, some integer of more than 21 bits.
Significand(x) == IF Top(x) > 0 THEN 2^x.f.m + (x.h % 2^x.f.m) ELSE x.h
Leading16(x) == LET e == Log2(x.h)
                IN  IF Top(x) > 0 THEN Significand(x) \div 2^(x.f.m - 15)
                    ELSE IF e > 15 THEN x.h \div 2^(e - 15) ELSE x.h * 2^(15 - e)
ShiftedDown(p, n, u) ==
    LET q == p \div 2^n
        rest == p % 2^n
    IN  IF n < 1 THEN 2^22
        ELSE IF n > 30 THEN 0
        ELSE IF rest > 2^(n - 1) \/ (rest = 2^(n - 1) /\ (u = 0 \/ q % 2 = 1)) THEN q + 1
        ELSE q
Nearest(x, f, u) ==
    Signed(x, IF Top(x) >= Bias(x.f) + 15 THEN 2^22
              ELSE ShiftedDown((Significand(x) \div 2^(x.f.m - 15)) * f.c,
                               15 + f.r - u + Bias(x.f) - Top(x), u))

-----------------------------------------------------------------------------
\* Angles are numbers of steps, 256 to a turn.  Where |x| radians are in the
\* turn; where a large operand is does not matter, and follows its bits.
TwoOverPi == [c |-> 20861, r |-> 15]
Angle(x) == IF IsZero(x) THEN 0
            ELSE IF Exponent(x) < 15 THEN Nearest(Abs(x), TwoOverPi, 6) % 256
            ELSE x.h % 256
\* Where |x| half turns are: 128 |x| modulo 256.
ShiftedUp(n, up) ==
    IF up >= 8 \/ up < -24 THEN 0
    ELSE IF up >= 0 THEN (n * 2^up) % 256 ELSE (n \div 2^(0 - up)) % 256
AnglePi(x) == IF IsZero(x) THEN 0 ELSE ShiftedUp(Significand(x), Exponent(x) - x.f.m + 7)
Distance(a) == IF a < 0 THEN 0 - a ELSE a

-----------------------------------------------------------------------------
\* A lane of a vector call: whether its operand is special, whether it also is
\* when the lane is inactive, its result if no lane's is, its result otherwise
\* and what another build's may be, the entries of tables that it reads (the
\* index, the table's size, and whether it is the entry wanted), and errno.
Lane(special, fast, slow) ==
    [special |-> special, all |-> FALSE, fast |-> fast, slow |-> slow,
     other |-> slow, tab |-> {}, errno |-> "0"]
AllLanes(lane) == [lane EXCEPT !.all = TRUE]   \* tested with svptrue
Reading(lane, i, size, right) ==
    [lane EXCEPT !.tab = @ \cup {[index |-> i, size |-> size, right |-> right]}]
Plain(v) == Lane(FALSE, v, v)

\* What a scalar routine returns, and leaves in errno.
Ret(v) == Plain(v)
With(v, e) == [Plain(v) EXCEPT !.errno = e]
\* v_call and sv_call: the scalar routine for the special lanes.
Calling(special, fast, scalar) ==
    Lane(special, fast, IF special THEN scalar.fast ELSE fast)
\* bsl: a lane's result is replaced if it is special.
Select(c, a, b) == IF c THEN a ELSE b

-----------------------------------------------------------------------------
(* exp, exp2, exp10 and the same less 1.  A number 2^n (1 + p) is put      *)
(* together from n, rounded from the operand, and a polynomial p taken to  *)
(* be accurate: the exponent of 1 + p is 0, or -1 if n was rounded up.     *)

CONSTANT WANT_ERRNO_UFLOW                      \* BOOLEAN, a build option

\* 1 + p, for a number n of halves, quarters, ... of which p makes up the rest.
Rest(x, f, n) == IF ~IsFinite(x) THEN NaN
                 ELSE IF Nearest(x, f, 6) < 64 * n THEN Num(0, -1) ELSE One1
Near1(x) == IF IsFinite(x) THEN One1 ELSE NaN  \* with tables of 2^(i/N)

-----------------------------------------------------------------------------
\* Scalar: errors.
uflow(f, s) == With(Zero(s), "ERANGE")
oflow(f, s) == With(Inf(s), "ERANGE")
divzero(s) == With(Inf(s), "ERANGE")
invalid(x) == IF IsNaN(x) THEN Ret(NaN) ELSE With(NaN, "EDOM")
may_uflow(f, s) == With(Num(s, 1 - Bias(f) - f.p), "ERANGE")
check_uflow(v) == IF v.c = "zero" THEN With(v, "ERANGE") ELSE Ret(v)
quiet_oflow(v) == Ret(v)                       \* a mutant: errno forgotten
check_oflow(v) == IF v.c = "inf" THEN With(v, "ERANGE") ELSE Ret(v)

\* The exponent e, which a double has no room for, is reached in two steps.
SpecialCase(e, down) ==
    IF e >= 0 THEN check_oflow(Mul(F64, Num(0, down), Pow2(F64, e - down)))
    ELSE check_uflow(Mul(F64, Num(0, -1022), Pow2(F64, e + 1022)))
exp_one_step(e) == Ret(Pow2(F64, e))           \* a mutant: 1024 does not fit
exp_specialcase(e) == SpecialCase(e, 1009)
exp2_specialcase(e) == SpecialCase(e, 1)
exp10_special_case(e) == SpecialCase(e, 1)

exp(x) ==
    LET abstop == Top(x)
        e == Nearest(x, InvLn2, 7) \div 128
    IN  IF abstop \in 969 .. 1031 THEN Ret(Pow2(F64, e))
        ELSE IF abstop < 969 THEN Ret(One1)
        ELSE IF abstop < 1033 THEN exp_specialcase(e)
        ELSE IF x = Operand(F64, 1, InfBits(F64)) THEN Ret(Zero(0))
        ELSE IF abstop >= 2047 THEN Ret(Val(x))
        ELSE IF x.s = 1 THEN uflow(F64, 0) ELSE oflow(F64, 0)

exp2(x) ==
    LET abstop == Top(x)
        e == Nearest(x, Unit, 7) \div 128
    IN  IF abstop \in 969 .. 1031 THEN Ret(Pow2(F64, e))
        ELSE IF abstop < 969 THEN Ret(One1)
        ELSE IF x = Operand(F64, 1, InfBits(F64)) THEN Ret(Zero(0))
        ELSE IF abstop >= 2047 THEN Ret(Val(x))
        ELSE IF abstop >= 1033 /\ x.s = 0 THEN oflow(F64, 0)
        ELSE IF abstop >= 1033 /\ x.h >= \h4090cc00 THEN uflow(F64, 0)
        ELSE IF x.h > \h408d0000 THEN exp2_specialcase(e) ELSE Ret(Pow2(F64, e))

exp10(x) ==
    LET abstop == Top(x)
        e == Nearest(x, Log2Of10, 7) \div 128
    IN  IF abstop \in 966 .. 1030 THEN Ret(Pow2(F64, e))
        ELSE IF abstop < 966 THEN Ret(One1)
        ELSE IF x = Operand(F64, 1, InfBits(F64)) THEN Ret(Zero(0))
        ELSE IF abstop = 2047 THEN Ret(Val(x))
        ELSE IF gt(x, \h40734413) THEN oflow(F64, 0)
        ELSE IF ltNeg(x, \h4075e000) THEN uflow(F64, 0)
        ELSE exp10_special_case(e)

expf(x) ==
    LET e == Nearest(x, InvLn2, 5) \div 32
        fits == Rounded(F32, 0, e)
    IN  IF x.h < \h42b00000 THEN Ret(fits)
        ELSE IF x = Operand(F32, 1, InfBits(F32)) THEN Ret(Zero(0))
        ELSE IF x.h >= InfBits(F32) THEN Ret(Val(x))
        ELSE IF gt(x, \h42b17217) THEN oflow(F32, 0)
        ELSE IF ltNeg(x, \h42cff1b4) THEN uflow(F32, 0)
        ELSE IF WANT_ERRNO_UFLOW /\ ltNeg(x, \h42ce8ecf) THEN may_uflow(F32, 0)
        ELSE Ret(fits)

exp2f(x) ==
    LET fits == Rounded(F32, 0, Nearest(x, Unit, 5) \div 32)
    IN  IF x.h < \h43000000 THEN Ret(fits)
        ELSE IF x = Operand(F32, 1, InfBits(F32)) THEN Ret(Zero(0))
        ELSE IF x.h >= InfBits(F32) THEN Ret(Val(x))
        ELSE IF x.s = 0 THEN oflow(F32, 0)
        ELSE IF x.h >= \h43160000 THEN uflow(F32, 0)
        ELSE IF WANT_ERRNO_UFLOW /\ x.h > \h43150000 THEN may_uflow(F32, 0)
        ELSE Ret(fits)

-----------------------------------------------------------------------------
\* AdvSIMD: a vector with a special lane has every lane scaled in two steps,
\* s1 and s2; n is in steps of 2^-u, and past the threshold s1 is squared.
Beyond(x, n, thresh) == ~IsNaN(x) /\ (n > thresh \/ n < 0 - thresh)
AtMost0(x, n) == ~IsNaN(x) /\ n <= 0

exp_special(x, p, n, u, thresh) ==
    LET b == IF AtMost0(x, n) THEN \h600 ELSE 0
        s1 == FromTop(F64, \h700 - b)
        s2 == FromTop(F64, ((Bias(F64) + (n \div 2^u)) - \h301) + b)
    IN  IF Beyond(x, n, thresh * 2^u) THEN Mul(F64, s1, s1)
        ELSE Mul(F64, Mul(F64, s2, p), s1)

\* In singles, s1 and s2 for n <= 0 have their bias changed by off.
expf_special(x, p, n, cmp, off) ==
    LET b == IF AtMost0(x, n) THEN off ELSE 0
        s1 == FromTop(F32, b + \hfe)
        s2 == FromTop(F32, n - b)
    IN  IF Beyond(x, n, 192) THEN Mul(F32, s1, s1)
        ELSE IF cmp THEN Mul(F32, Mul(F32, s2, p), s1)
        ELSE Mul(F32, Pow2(F32, n), p)

\* The lane of exp, exp2 and exp10, whose special lanes are those of cmp.
ExpLane(x, f, cmp) ==
    LET n == Nearest(x, f, 7)
    IN  Lane(cmp, Mul(F64, Pow2(F64, n \div 128), Near1(x)),
             exp_special(x, Near1(x), n, 7, 1280))
v_exp(x) == ExpLane(x, InvLn2, cagt(x, \h4086232b))
v_exp2(x) == ExpLane(x, Unit, cagt(x, \h408ff000))
v_exp10(x) == ExpLane(x, Log2Of10, cagt(x, \h40733a6f))

ExpfLane(x, f, cmp) ==
    LET n == Nearest(x, f, 0)
        p == Rest(x, f, n)
    IN  Lane(cmp, Mul(F32, Pow2(F32, n), p), expf_special(x, p, n, cmp, \h104))
v_expf(x) == ExpfLane(x, InvLn2, cage(x, \h42af5dc2))
v_exp2f(x) == ExpfLane(x, Unit, cage(x, \h42fd0000))
v_exp10f(x) == ExpfLane(x, Log2Of10, cage(x, \h42185238))

\* Every lane is scaled in two steps, special or not.
expf_1u_specialcase(x, p, n) == expf_special(x, p, n, TRUE, \h106)
exp2f_1u_specialcase(x, p, n) == expf_special(x, p, n, TRUE, \h104)
v_expf_1u(x) ==
    LET n == Nearest(x, InvLn2, 0)
        p == Rest(x, InvLn2, n)
    IN  Lane(Beyond(x, n, 126), Mul(F32, Pow2(F32, n), p),
             expf_1u_specialcase(x, p, n))
v_exp2f_1u(x) ==
    LET n == Nearest(x, Unit, 0)
        p == Rest(x, Unit, n)
    IN  Lane(Beyond(x, n, 126), Mul(F32, Pow2(F32, n), p),
             exp2f_1u_specialcase(x, p, n))

\* Computed in doubles, of which the exponent is put in place of the table's.
v_cr_expf(x) ==
    LET e == Nearest(x, InvLn2, 6) \div 64
        y == Mul(F64, Pow2(F64, e), Near1(x))
        r == IF y.c = "num" THEN Rounded(F32, y.s, y.k) ELSE y
    IN  Lane(cagt(x, \h44000000), r,
             IF cagt(x, \h44000000) THEN (IF x.s = 0 THEN Inf(0) ELSE Zero(0)) ELSE r)

\* 2^n (1 + p) less 1.  From 1/2 to 2 what is left has the exponent of x, one
\* less or more for another base than e.
Less1(x, f, v) ==
    IF IsZero(x) THEN Zero(0)
    ELSE IF v.c = "num" /\ v.k \in {-1, 0}
    THEN Num(x.s, Exponent(x) + (IF f = InvLn2 THEN 0 ELSE IF f = Unit THEN -1 ELSE 1))
    ELSE IF v = Num(0, 1) THEN One1 ELSE Add(v, Num(1, 0))
expm1_inline(x) ==
    LET n == Nearest(x, InvLn2, 0)
    IN  Less1(x, InvLn2, Mul(F64, Pow2(F64, n), Rest(x, InvLn2, n)))
expm1f_inline(x) ==
    LET n == Nearest(x, InvLn2, 0)
    IN  Less1(x, InvLn2, Mul(F32, Pow2(F32, n), Rest(x, InvLn2, n)))

\* What exp_special gives, less 1, is for the special lanes alone.
EveryM1(cmp, special, y) == Add(special, Num(1, 0))
SpecialM1(cmp, special, y) == IF cmp THEN Add(special, Num(1, 0)) ELSE y

v_expm1(x) ==
    LET n == Nearest(x, InvLn2, 0)
        y == expm1_inline(x)
        cmp == cagt(x, \h40862b7d)
    IN  Lane(cmp, y, SpecialM1(cmp, exp_special(x, Rest(x, InvLn2, n), n, 0, 1280), y))

\* The table of 2^(i/128) - 1 for i in 0 .. 43, then -43 .. -1, read for every
\* lane if any operand is small.
sm1_entry(i) == IF i < 44 THEN i ELSE i - 88
lookup_sm1bits(n, neg) == (n % 64) + (IF neg THEN 24 ELSE 0)
TableM1(x, f, cmp, small, neg) ==
    LET n == Nearest(x, f, 7)
        y == Less1(x, f, Mul(F64, Pow2(F64, n \div 128), Near1(x)))
        i == lookup_sm1bits(n, neg)
    IN  Reading(Lane(cmp, y, SpecialM1(cmp, exp_special(x, Near1(x), n, 7, 1280), y)),
                i, 88, small => sm1_entry(i) = n)
v_exp2m1(x) == TableM1(x, Unit, cagt(x, \h408ff800),
                       ~IsNaN(x) /\ x.h <= \h3fd5bfff, ltNeg(x, \h3f700000))
v_exp10m1(x) == TableM1(x, Log2Of10, cagt(x, \h40733f42),
                        ~IsNaN(x) /\ x.h <= \h3fba308a, ltNeg(x, \h3f534413))

Expm1fLane(x, f, cmp) ==
    LET n == Nearest(x, f, 0)
        p == Rest(x, f, n)
        y == Less1(x, f, Mul(F32, Pow2(F32, n), p))
    IN  Lane(cmp, y, SpecialM1(cmp, expf_special(x, p, n, cmp, \h104), y))
v_expm1f(x) == Expm1fLane(x, InvLn2, cage(x, \h42a6c0a6))
v_exp2m1f(x) == Expm1fLane(x, Unit, cage(x, \h42ff0000))
v_exp10m1f(x) == Expm1fLane(x, Log2Of10, cage(x, \h4219867a))
v_expf_inline(x) ==
    LET n == Nearest(Abs(x), InvLn2, 0)
    IN  Mul(F32, Pow2(F32, n), Rest(Abs(x), InvLn2, n))

-----------------------------------------------------------------------------
\* SVE: FEXPA makes 2^(n/64) of the low bits of n and has no bit for a sign.
svexpa(f, e) == FromTop(f, (Bias(f) + e) % 2^f.e)
Clamped(x, zero, inf) == IF IsNaN(x) THEN x
                         ELSE IF x.s = 1 /\ x.h > zero THEN [x EXCEPT !.h = zero]
                         ELSE IF x.s = 0 /\ x.h > inf THEN [x EXCEPT !.h = inf]
                         ELSE x

\* A vector with a special lane has every operand kept between the bounds,
\* past which results are zero and infinite, every n brought to the middle of
\* the range of FEXPA, and every result scaled back.
FexpaLane(x, f, special, zero, inf, off) ==
    LET y(z, by) == LET e == Nearest(z, f, 6) \div 64
                    IN  Ldexp(z.f, Mul(z.f, svexpa(z.f, e - by), Near1(z)), by)
    IN  Lane(special, y(x, 0),
             y(Clamped(x, zero, inf), IF ltNeg(x, 0) THEN 0 - off ELSE off))
sv_exp(x) == AllLanes(FexpaLane(x, InvLn2, cagt(x, \h40862336),
                                \h40874910, \h40863000, 53))
sv_exp2(x) == AllLanes(FexpaLane(x, Unit, cage(x, \h408ff010),
                                 \h4090d008, \h40900000, 53))
sv_exp10(x) == FexpaLane(x, Log2Of10, cagt(x, \h40733a7a),
                         \h407439b7, \h40735000, 53)
sv_expf(x) == FexpaLane(x, InvLn2, cagt(x, \h42aeaf15),
                        \h42cff1b4, \h42b17218, 23)
sv_exp2f(x) == FexpaLane(x, Unit, cagt(x, \h42fc0000),
                         \h43160000, \h43000000, 23)
sv_exp10f(x) == FexpaLane(x, Log2Of10, cagt(x, \h4217b810),
                          \h42346666, \h421a6666, 23)
sv_expf_inline(x) == Mul(F32, svexpa(F32, Nearest(x, InvLn2, 6) \div 64), Near1(x))

\* The bit of n that FEXPA has no place for is the sign that exp_special wants.
special_m1(x, n, y, special) ==
    SpecialM1(special, exp_special(x, Near1(x), n, 6, 1280), y)
\* The table of 2^(i/64) - 1 for i in 0 .. 15, 0 and -15 .. -1, read for the
\* lanes whose operand is small.
FexpaEntry(i) == IF i <= 16 THEN i % 16 ELSE i - 32
FexpaIndexUnsigned(x, n) == n % 16
FexpaIndex(x, n) == (n % 16) + 16 * x.s
FexpaM1(x, f, bound, small) ==
    LET n == Nearest(x, f, 6)
        y == Less1(x, f, Mul(F64, svexpa(F64, n \div 64), Near1(x)))
        special == cagt(x, bound)
        lane == AllLanes(Lane(special, y, special_m1(x, n, y, special)))
        i == FexpaIndex(x, n)
    IN  IF small THEN Reading(lane, i, 32, FexpaEntry(i) = n) ELSE lane
sv_expm1(x) == FexpaM1(x, InvLn2, \h408628c2, ~IsNaN(x) /\ x.h <= \h3fc4cb5e)
sv_exp2m1(x) == FexpaM1(x, Unit, \h408ff810, lt(Abs(x), \h3fcf0000))
sv_exp10m1(x) == FexpaM1(x, Log2Of10, \h40733f4b, ~IsNaN(x) /\ x.h <= \h3fb2a9f2)

\* The scale is made by FSCALE, which overflows where a shift would wrap.
sv_Expm1f(x, f, cmp) ==
    LET n == Nearest(x, f, 0)
        p == Rest(x, f, n)
        y == Less1(x, f, Mul(F32, Ldexp(F32, One1, n), p))
    IN  AllLanes(Lane(cmp, y, SpecialM1(cmp, expf_special(x, p, n, cmp, \h104), y)))
sv_expm1f(x) == sv_Expm1f(x, InvLn2, cage(x, \h42b0c0a6))
sv_exp2m1f(x) == sv_Expm1f(x, Unit, cage(x, \h42ff0000))
sv_exp10m1f(x) == sv_Expm1f(x, Log2Of10, cage(x, \h4219867a))
sv_expm1f_inline(x) ==
    LET n == Nearest(x, InvLn2, 0)
    IN  Less1(x, InvLn2, Mul(F32, Ldexp(F32, One1, n), Rest(x, InvLn2, n)))

\* Scalar.
expm1_scalar(x) ==
    LET n == Nearest(x, InvLn2, 0)
    IN  Less1(x, InvLn2, Ldexp(x.f, Mul(x.f, Pow2(x.f, n - 1), Rest(x, InvLn2, n)), 1))
expm1(x) == IF x.h <= \h3cc00000 \/ PosInf(x) THEN Ret(Val(x))
            ELSE IF IsNaN(x) THEN invalid(x)
            ELSE IF gt(x, \h40863108) THEN oflow(F64, 0)
            ELSE IF ltNeg(x, \h4086232b) THEN Ret(Num(1, 0))
            ELSE Ret(expm1_scalar(x))
expm1f(x) == IF x.h <= \h34000000 \/ PosInf(x) THEN Ret(Val(x))
             ELSE IF IsNaN(x) THEN invalid(x)
             ELSE IF x.s = 0 /\ x.h >= \h42b2238b THEN oflow(F32, 0)
             ELSE IF x.s = 1 /\ x.h >= \h42aeac50 THEN Ret(Num(1, 0))
             ELSE Ret(expm1_scalar(x))

-----------------------------------------------------------------------------
(* log, log2, log10 and the same of 1 + x.  A result is followed as the    *)
(* logarithm of a number of exponent k, up to the factor of the base; that *)
(* of 1 + x, for a small x, as x.                                          *)

Logarithm(k) == [c |-> "log", s |-> IF k < 0 THEN 1 ELSE 0, k |-> k]

\* log(c) + k log(2) + log(z / c), where 2^k z has the bits h, which are those
\* of no double when the number was scaled up to be normal: h may be negative.
LogOf(f, h) == IF h = One(f) THEN Zero(0) ELSE Logarithm((h \div 2^f.m) - Bias(f))
\* The bits of x * 2^d, for a d that makes x normal.
ScaledUp(x, d) ==
    LET e == Log2(x.h)
    IN  IF Top(x) > 0 \/ IsZero(x) THEN x.h + d * 2^x.f.m
        ELSE (e - x.f.m + d) * 2^x.f.m + x.h * 2^(x.f.m - e)

-----------------------------------------------------------------------------
\* Scalar, the operand's upper bits compared as unsigned with those of the
\* least and the largest normal numbers.
LogSpecial(x, d) ==
    IF IsZero(x) THEN divzero(1)
    ELSE IF PosInf(x) THEN Ret(Val(x))
    ELSE IF x.s = 1 \/ ~IsFinite(x) THEN invalid(x)
    ELSE Ret(LogOf(x.f, ScaledUp(x, d) - d * 2^x.f.m))

log(x) == IF x.s = 0 /\ x.h \in \h3fee0000 .. \h3ff108ff THEN Ret(LogOf(F64, x.h))
          ELSE IF Upper(x, 16) \notin \h0010 .. \h7fef THEN LogSpecial(x, 52)
          ELSE Ret(LogOf(F64, x.h))
log2(x) == IF x.s = 0 /\ x.h \in \h3feea4af .. \h3ff0b558 THEN Ret(LogOf(F64, x.h))
           ELSE IF Upper(x, 16) \notin \h0010 .. \h7fef THEN LogSpecial(x, 52)
           ELSE Ret(LogOf(F64, x.h))
log10(x) == IF x.s = 0 /\ x.h \in \h3fee0000 .. \h3ff108ff THEN Ret(LogOf(F64, x.h))
            ELSE IF Upper(x, 16) \notin \h0010 .. \h7fef THEN LogSpecial(x, 52)
            ELSE Ret(LogOf(F64, x.h))
LogfLane(x) == IF x.s = 0 /\ Is1(x) THEN Ret(Zero(0))
               ELSE IF x.s = 1 \/ x.h \notin \h00800000 .. \h7f7fffff
               THEN LogSpecial(x, 23)
               ELSE Ret(LogOf(F32, x.h))
logf(x) == LogfLane(x)
log2f(x) == LogfLane(x)
log10f(x) == LogfLane(x)

-----------------------------------------------------------------------------
\* AdvSIMD: a vector with a lane that is not a positive normal number has the
\* logarithms of its subnormal lanes computed from their roots, and doubled.
Twice(v) == [v EXCEPT !.k = 2 * @]
\* A mutant: the root's logarithm not doubled.
LogOfRootOnce(x) == IF x.s = 0 /\ IsFinite(x) /\ ~IsZero(x)
                    THEN Logarithm(Exponent(x) \div 2) ELSE NaN
LogOfRoot(x) == IF x.s = 0 /\ IsFinite(x) /\ ~IsZero(x)
                THEN Twice(Logarithm(Exponent(x) \div 2)) ELSE NaN
v_special(x, y) == IF IsZero(x) THEN Inf(1)
                   ELSE IF PosInf(x) THEN Inf(0)
                   ELSE IF x.s = 1 \/ ~IsFinite(x) THEN NaN ELSE y
\* As unsigned words less the least normal, 7ffe... and above.
Rooted(x) == IF x.s = 0 THEN Top(x) = 0 ELSE x.h >= \h000e0000

v_log_inline(x) == LogOf(x.f, x.h)
v_LogLane(x, rooted) ==
    Lane(~PosNormal(x), v_log_inline(x),
         v_special(x, IF rooted THEN LogOfRoot(x) ELSE v_log_inline(x)))
v_log(x) == v_LogLane(x, Rooted(x))
v_log2(x) == v_LogLane(x, Rooted(x))
v_log10(x) == v_LogLane(x, Rooted(x))
v_logf(x) == v_LogLane(x, ~PosNormal(x))
v_log2f(x) == v_LogLane(x, ~PosNormal(x))
v_log10f(x) == v_LogLane(x, ~PosNormal(x))

\* The exponent of 1 + x.
Exponent1p(x) ==
    IF IsZero(x) \/ Exponent(x) < -15 THEN 0
    ELSE IF Exponent(x) > 5 THEN Exponent(x)
    ELSE LET m == 2^16 + Nearest(x, Unit, 16) IN IF m <= 0 THEN -17 ELSE Log2(m) - 16
\* (1 + x) - 1 as it is rounded and what was lost are put together again.
log1p_inline(x) ==
    IF IsNaN(x) \/ (x.s = 1 /\ x.h > One(x.f)) THEN NaN
    ELSE IF IsZero(x) THEN Zero(x.s)
    ELSE IF IsInf(x) THEN NaN
    ELSE IF Exponent1p(x) \in {-1, 0} THEN Num(x.s, Exponent(x))
    ELSE Logarithm(Exponent1p(x))
\* In singles the exponent is taken from the bits, a NaN's too.
log1pf_inline(x) == IF IsNaN(x) \/ PosInf(x) THEN Logarithm(Bias(F32) + 1)
                    ELSE log1p_inline(x)

MinusOne(x) == x.s = 1 /\ Is1(x)
GtMinus1(x) == ~IsNaN(x) /\ (x.s = 0 \/ x.h < One(x.f))
LeMinus1(x) == ~IsNaN(x) /\ x.s = 1 /\ x.h >= One(x.f)

Special1p(x, special, y) ==
    IF MinusOne(x) THEN Inf(1) ELSE IF PosInf(x) THEN Inf(0)
    ELSE IF special THEN NaN ELSE y
Lane1p(x, special, y) == Lane(special, y, Special1p(x, special, y))
Log1pLane(x, special) ==
    Lane1p(x, special, IF x.f = F64 THEN log1p_inline(x) ELSE log1pf_inline(x))
\* A word above that of the infinity, as signed, or not above -1.
Not1p(x) == (x.s = 0 /\ x.h >= InfBits(x.f)) \/ ~GtMinus1(x)
NotFinite1p(x) == ~IsFinite(x) \/ LeMinus1(x)
v_log1p(x) == Log1pLane(x, Not1p(x))
v_log1pf(x) == Log1pLane(x, Not1p(x))
\* A NaN is not special, and passes through.
v_log2p1(x) ==
    LET special == LeMinus1(x) \/ PosInf(x)
    IN  Lane(special, log1p_inline(x),
             IF ~special THEN log1p_inline(x)
             ELSE IF PosInf(x) THEN Inf(0) ELSE IF MinusOne(x) THEN Inf(1) ELSE NaN)
v_log10p1(x) == v_log2p1(x)
v_log2p1f(x) == Log1pLane(x, NotFinite1p(x))
v_log10p1f(x) == Log1pLane(x, NotFinite1p(x))

-----------------------------------------------------------------------------
\* SVE: special lanes are scaled up, and what is added to their results takes
\* the scaling away or is the infinity or the NaN that they should be.
sv_log_inline(x) == LogOf(x.f, x.h)
special_log(x, d) ==
    IF PosInf(x) THEN Inf(0) ELSE IF IsZero(x) THEN Inf(1)
    ELSE IF Positive(x)
    THEN LET y == LogOf(x.f, ScaledUp(x, d)) IN Logarithm(y.k - d)
    ELSE NaN
sv_LogLane(x, d) ==
    Lane(~PosNormal(x), sv_log_inline(x),
         IF PosNormal(x) THEN sv_log_inline(x) ELSE special_log(x, d))
sv_log(x) == sv_LogLane(x, 52)
sv_log2(x) == sv_LogLane(x, 52)
sv_log10(x) == sv_LogLane(x, 52)
sv_logf(x) == sv_LogLane(x, 23)
sv_log2f(x) == sv_LogLane(x, 23)
sv_log10f(x) == sv_LogLane(x, 23)

sv_log1p_inline(x) == log1p_inline(x)
\* Of -1 too: m_scale is -2^127, of which the polynomial is an infinity.
sv_log1pf_inline(x) == IF MinusOne(x) THEN Inf(1) ELSE log1pf_inline(x)

sv_log1p(x) == Log1pLane(x, ~IsFinite(x) \/ (x.s = 1 /\ x.h >= One(F64)))
\* -1 is not special.
sv_log1pf(x) ==
    LET special == PosInf(x) \/ ~(GtMinus1(x) \/ MinusOne(x))
        y == sv_log1pf_inline(x)
    IN  Lane(special, y, Special1p(x, special, y))
\* svorn: at most -1, or not below the infinity.
Orn1p(x) == LeMinus1(x) \/ IsNaN(x) \/ PosInf(x)
sv_log2p1(x) == Log1pLane(x, Orn1p(x))
sv_log10p1(x) == Log1pLane(x, Orn1p(x))
sv_log2p1f(x) == Log1pLane(x, Orn1p(x))
sv_log10p1f(x) == Log1pLane(x, Orn1p(x))

\* Scalar log1p.
log1p(x) ==
    IF (x.s = 1 /\ IsZero(x)) \/ PosInf(x) THEN Ret(Val(x))
    ELSE IF MinusOne(x) THEN divzero(1)
    ELSE IF ~IsFinite(x) THEN invalid(Abs(x))
    ELSE IF LeMinus1(x) THEN invalid(x)
    ELSE IF x.h <= \h3fd2bec3 \/ (x.s = 0 /\ x.h <= \h3fda8279) THEN Ret(Val(x))
    ELSE Ret(log1p_inline(x))
log1pf(x) ==
    IF x.s = 1 /\ IsInf(x) THEN Ret(NaN)
    ELSE IF PosInf(x) \/ Top(x) <= 103 THEN Ret(Val(x))
    ELSE IF MinusOne(x) THEN divzero(1)
    ELSE IF ~IsFinite(x) THEN invalid(Abs(x))
    ELSE IF LeMinus1(x) THEN invalid(x)
    ELSE IF x.h <= \h3e800000 \/ (x.s = 0 /\ x.h <= \h3f000000) THEN Ret(Val(x))
    ELSE Ret(log1p_inline(x))

-----------------------------------------------------------------------------
(* pow and powr.  y log2(x) is a number of steps of 1/128, rounded down:   *)
(* log2(x) has its seven bits after the point, and y its leading eleven.   *)
(* So small a y that the power is next to 1 gives no step.                 *)

\* The words that zeroinfnan of the code tells by twice the bits, less 1.
zeroinfnan(x) == IsZero(x) \/ ~IsFinite(x)
\* 0 for no integer, 1 for an odd one, 2 for an even one; the bits below those
\* of an operand are zero.
pow_checkint(y) ==
    LET units == 2^(y.f.m - (Top(y) - Bias(y.f)))
    IN  IF Top(y) < Bias(y.f) THEN 0
        ELSE IF Top(y) > Bias(y.f) + y.f.m THEN 2
        ELSE IF y.h % units # 0 THEN 0
        ELSE IF (y.h \div units) % 2 = 1 THEN 1 ELSE 2
\* A number that equals itself rounded to an integer.
isint(y) == IsZero(y) \/ IsInf(y) \/ (IsFinite(y) /\ pow_checkint(y) # 0)
OddSign(x, y) == IF x.s = 1 /\ pow_checkint(y) = 1 THEN 1 ELSE 0

\* The logarithm of the number whose word is h, which may be negative for one
\* brought to the exponent that it would have if it were normal.
LogSteps(f, h) ==
    LET bits[n \in 0 .. 7] ==
            IF n = 0 THEN <<2^14 + (h % 2^f.m) \div 2^(f.m - 14), 0>>
            ELSE LET last == bits[n - 1]
                     w == (last[1] * last[1]) \div 2^14
                 IN  <<w \div (IF w < 2^15 THEN 1 ELSE 2),
                       2 * last[2] + (IF w < 2^15 THEN 0 ELSE 1)>>
    IN  128 * ((h \div 2^f.m) - Bias(f)) + bits[7][2]
WordSteps(x) == LogSteps(x.f, x.h)
Steps(x) == IF Top(x) > 0 THEN WordSteps(x)
            ELSE LogSteps(x.f, ScaledUp(x, x.f.p) - x.f.p * 2^x.f.m)
\* Of a word with the sign bit, from which Off is taken away first: the sign is
\* the upper bit of what is left, or of a number that wrapped.
Off(f) == IF f = F64 THEN \h3fe69555 ELSE \h3f35d000
SignedSteps(x) == WordSteps(x) + (IF x.s = 0 THEN 0
                                  ELSE IF x.h < Off(x.f) THEN 128 * 2^x.f.e
                                  ELSE 0 - 128 * 2^x.f.e)
YLogX(y, l) ==
    LET k == Exponent(y)
        p == Signed(y, l) * (Leading16(y) \div 2^5)
    IN  IF IsZero(y) \/ l = 0 \/ k < -19 THEN 0
        ELSE IF k < 10 THEN p \div 2^(10 - k)
        ELSE IF k < 22 /\ Distance(p) < 2^(32 - k) THEN p * 2^(k - 10)
        ELSE IF p < 0 THEN -(2^22) ELSE 2^22

-----------------------------------------------------------------------------
\* y is 0, infinite or a NaN, whatever x is; x is, and y is not.
PowNaNFirst(x, y) ==                           \* a mutant: no 1^NaN, NaN^0
    IF IsNaN(x) \/ IsNaN(y) THEN NaN
    ELSE IF IsZero(y) \/ Is1(x) THEN One1
    ELSE IF (x.h < One(x.f)) = (y.s = 0) THEN Zero(0) ELSE Inf(0)
PowSpecialY(x, y) ==
    IF IsZero(y) THEN (IF issignaling(x) THEN NaN ELSE One1)
    ELSE IF x.s = 0 /\ Is1(x) THEN (IF issignaling(y) THEN NaN ELSE One1)
    ELSE IF IsNaN(x) \/ IsNaN(y) THEN NaN
    ELSE IF Is1(x) THEN One1
    ELSE IF (x.h < One(x.f)) = (y.s = 0) THEN Zero(0) ELSE Inf(0)
PowSpecialX(x, y) ==
    LET x2 == WithSign(Val(x), OddSign(x, y))
    IN  IF IsZero(x) /\ y.s = 1 THEN divzero(x2.s)
        ELSE Ret(IF y.s = 1 THEN Inverse1(x2) ELSE x2)

\* The sign goes above the exponent, which may need two steps.
PowExp(v, s) ==
    LET scale(by) == FromTop(F64, Bias(F64) + (v \div 128) + 2^11 * s - by)
    IN  IF Distance(v) < 94549 THEN Ret(scale(0))
        ELSE IF Distance(v) >= 189097 THEN (IF v < 0 THEN uflow(F64, s) ELSE oflow(F64, s))
        ELSE IF v >= 0 THEN check_oflow(Mul(F64, scale(1009), Num(0, 1009)))
        ELSE check_uflow(Mul(F64, scale(-1022), Num(0, -1022)))
FinitePow(x, y, s) ==
    IF Top(y) \in \h3be .. \h43d THEN PowExp(YLogX(y, Steps(x)), s)
    ELSE IF Is1(x) \/ Top(y) < \h3be THEN Ret(One1)
    ELSE IF (x.h > One(F64)) = (y.s = 0) THEN oflow(F64, 0) ELSE uflow(F64, 0)
pow(x, y) ==
    IF zeroinfnan(y) THEN Ret(PowSpecialY(x, y))
    ELSE IF zeroinfnan(x) THEN PowSpecialX(x, y)
    ELSE IF x.s = 1 /\ pow_checkint(y) = 0 THEN invalid(x)
    ELSE FinitePow(x, y, OddSign(x, y))

\* Above 2^-150, the least single.
PowfExp(v, s) == Rounded(F32, s, IF v < -149 * 128 THEN -149 ELSE v \div 128)
powf(x, y) ==
    LET s == OddSign(x, y)
        v == YLogX(y, Steps(x))
    IN  IF zeroinfnan(y) THEN Ret(PowSpecialY(x, y))
        ELSE IF zeroinfnan(x) THEN PowSpecialX(x, y)
        ELSE IF x.s = 1 /\ pow_checkint(y) = 0 THEN invalid(x)
        ELSE IF v <= -150 * 128 THEN uflow(F32, s)
        ELSE IF WANT_ERRNO_UFLOW /\ v < -149 * 128 THEN may_uflow(F32, s)
        ELSE IF v >= 128 * 128 THEN oflow(F32, s)
        ELSE Ret(PowfExp(v, s))

-----------------------------------------------------------------------------
\* AdvSIMD: all lanes of a vector with a special lane go to the scalar routine
\* for doubles, and to a routine that takes the sign and the subnormals of x
\* into account for singles, of which the special lanes are replaced after.
PowfCore(v, s) == IF v <= -150 * 128 THEN Zero(s)
                  ELSE IF v > 128 * 128 THEN Inf(s) ELSE PowfExp(v, s)
PowOf(f, v, s) == IF f = F64 THEN PowExp(v, s).fast ELSE PowfCore(v, s)
PowSpecial(x, y) == IF zeroinfnan(y) THEN PowSpecialY(x, y) ELSE PowSpecialX(x, y).fast
PowrSpecial(x, y) ==
    LET x2 == Magnitude(Val(x))
    IN  IF ltNeg(x, 0) \/ IsNaN(x) \/ IsNaN(y) THEN NaN
        ELSE IF IsZero(y) THEN (IF zeroinfnan(x) THEN NaN ELSE One1)
        ELSE IF IsInf(y) /\ Is1(x) THEN NaN
        ELSE IF IsInf(y) THEN (IF (x.h < One(x.f)) = (y.s = 0) THEN Zero(0) ELSE Inf(0))
        ELSE IF y.s = 1 THEN Inverse1(x2) ELSE x2
Special2(y, x) == zeroinfnan(x) \/ zeroinfnan(y)
Fixed(x, y, v) == IF Special2(y, x) THEN PowSpecial(x, y) ELSE v
FixedR(x, y, v) == IF Special2(y, x) THEN PowrSpecial(x, y) ELSE v

pow_scalar_special_case(x, y) == pow(x, y).fast
powr_scalar_special_case(x, y) ==
    IF ltNeg(x, 0) THEN NaN ELSE FixedR(x, y, FinitePow(x, y, 0).fast)
v_PowLane(x, y, scalar) ==
    Lane(x.s = 1 \/ IsZero(x) \/ ~IsFinite(x) \/ ~IsFinite(y),
         PowOf(F64, YLogX(y, Steps(x)), 0), scalar)
v_pow(x, y) == v_PowLane(x, y, pow_scalar_special_case(x, y))
v_powr(x, y) == v_PowLane(x, y, powr_scalar_special_case(x, y))

v_powf_x_is_neg_or_small(x, y) ==
    IF ltNeg(x, 0) /\ ~isint(y) THEN NaN
    ELSE PowOf(F32, YLogX(y, Steps(x)), OddSign(x, y))
v_powrf_x_is_neg_or_sub(x, y) ==
    IF ltNeg(x, 0) THEN NaN ELSE PowOf(F32, YLogX(y, Steps(x)), 0)
v_powf(x, y) == Lane(lt(x, 2^23), Fixed(x, y, PowOf(F32, YLogX(y, WordSteps(x)), 0)),
                     Fixed(x, y, v_powf_x_is_neg_or_small(x, y)))
v_powrf(x, y) == Lane(lt(x, 2^23), FixedR(x, y, PowOf(F32, YLogX(y, WordSteps(x)), 0)),
                      FixedR(x, y, v_powrf_x_is_neg_or_sub(x, y)))

\* SVE: if the x of a lane is subnormal or zero, svmul_m makes new words of all
\* lanes: of those that are not, the word of x, with its sign.
sv_PowLane(x, y) ==
    LET yint_or_xpos == ~ltNeg(x, 0) \/ isint(y)
        x_is_subnormal == yint_or_xpos /\ lt(Abs(x), 2^x.f.m)
        y_of(l) == Fixed(x, y, IF yint_or_xpos THEN PowOf(x.f, YLogX(y, l), OddSign(x, y))
                               ELSE NaN)
    IN  Lane(x_is_subnormal, y_of(WordSteps(x)),
             y_of(IF x_is_subnormal THEN Steps(x) ELSE SignedSteps(x)))
sv_pow(x, y) == sv_PowLane(x, y)
sv_powf(x, y) == sv_PowLane(x, y)
sv_PowrLane(x, y) ==
    LET xpos == ~IsNaN(x) /\ ~ltNeg(x, 0)
        x_is_subnormal == xpos /\ lt(Abs(x), 2^x.f.m)
        y_of(l) == IF xpos THEN FixedR(x, y, PowOf(x.f, YLogX(y, l), 0)) ELSE NaN
    IN  Lane(x_is_subnormal, y_of(WordSteps(x)),
             y_of(IF x_is_subnormal THEN Steps(x) ELSE SignedSteps(x)))
sv_powr(x, y) == sv_PowrLane(x, y)
sv_powrf(x, y) == sv_PowrLane(x, y)

=============================================================================
