------------------------------ MODULE MathCalls -------------------------------
(***************************************************************************)
(* First sin, cos, tan, the same of pi x, and their inverses; the          *)
(* hyperbolic functions and their inverses: scalar, AdvSIMD (v_) and SVE   *)
(* (sv_).  An angle is a number of steps, 256 to a turn; what is left of   *)
(* it after a reduction lies between -64 and 64.  The reductions           *)
(* themselves are taken to be exact: what follows them is which quarter    *)
(* they say, which polynomial is used and the sign it gets.                *)
(*                                                                         *)
(* Then a call of a math routine: a scalar one, or one of the vector       *)
(* routines, each lane of which has an operand.  A vector routine computes *)
(* all its lanes; if one is special, it goes through a special case for    *)
(* the whole vector, from which every lane must return what it would on    *)
(* its own.                                                                *)
(***************************************************************************)
EXTENDS ExpLogMath, Sequences

IsOdd(n) == n % 2 = 1
Bit(b) == IF b THEN 1 ELSE 0
Flip(v, b) == IF b THEN Minus(v) ELSE v

\* sin(r), where r steps are left of x: if none, it has the sign of x, and its
\* exponent if x was not reduced.
Sine(x, r) == IF r # 0 THEN Num(IF r < 0 THEN 1 ELSE 0, Log2(Distance(r)) - 6)
              ELSE IF IsZero(x) THEN Zero(x.s)
              ELSE Num(x.s, IF Exponent(x) < -6 THEN Exponent(x) ELSE -7)
SineOf(r) == Sine(Operand(F32, 0, One(F32)), r)
Cosine(r) == Num(0, Log2(64 - Distance(r)) - 6)
\* The nearest multiple of a number of steps, halves upwards.
NearestTo(a, step) == (a + step \div 2) \div step

-----------------------------------------------------------------------------
\* Scalar sinf and cosf: p->sign[k], and the polynomial of the table that
\* swaps the signs.
PSign(k) == k % 4 \in {1, 2}
sinf_poly(x, s, swapped, n, r) ==
    IF IsOdd(n) THEN Flip(Cosine(r), swapped) ELSE Flip(Sine(x, r), s)
sincosf_poly(x, k, n, r) ==
    LET s == PSign(k)
        swapped == (k \div 2) % 2 = 1
    IN  <<sinf_poly(x, s, swapped, n, r), sinf_poly(x, s, swapped, n + 1, r)>>
Reduced(a, step) == [n |-> NearestTo(a, step), r |-> a - step * NearestTo(a, step)]
reduce_fast(x) == Reduced(Signed(x, Angle(x)), 64)
\* The row of 4/pi is that of the exponent: the sign's bit is masked.
reduce_large(x) == Reduced(Angle(x), 64)
inv_pio4_signed(x) == Upper(x, 6) + 8          \* a mutant: the sign not masked
inv_pio4(x) == (Upper(x, 6) % 16) + 8

sincosf(y) ==
    LET abstop12 == y.h \div 2^20
        fast == reduce_fast(y)
        large == reduce_large(y)
    IN  IF abstop12 < \h398 THEN Ret(<<Val(y), One1>>)
        ELSE IF abstop12 < \h3f4 THEN Ret(sincosf_poly(y, 0, 0, Signed(y, Angle(y))))
        ELSE IF abstop12 < \h42f THEN Ret(sincosf_poly(y, fast.n, fast.n, fast.r))
        ELSE IF abstop12 < \h7f8
        THEN Reading(Ret(sincosf_poly(Abs(y), large.n + y.s, large.n, large.r)),
                     inv_pio4(y), 24, inv_pio4(y) = inv_pio4(Abs(y)))
        ELSE [invalid(y) EXCEPT !.fast = <<NaN, NaN>>, !.slow = <<NaN, NaN>>]
Part(lane, i) == [lane EXCEPT !.fast = @[i], !.slow = @[i]]
sinf(y) == Part(sincosf(y), 1)
cosf(y) == Part(sincosf(y), 2)

TanPart(x, r, reciprocal) ==
    IF reciprocal THEN Minus(Div(x.f, Num(0, -1), Sine(x, r))) ELSE Sine(x, r)
\* The sign of the operand is put on what is left of its magnitude.
tanf(x) ==
    LET fast == reduce_fast(x)
        large == reduce_large(x)
        ia12 == x.h \div 2^20
    IN  IF ia12 < \h398 THEN Ret(Val(x))
        ELSE IF ia12 < \h3f4 THEN Ret(Sine(x, Signed(x, Angle(x))))
        ELSE IF ia12 < \h480 THEN Ret(TanPart(x, fast.r, IsOdd(fast.n)))
        ELSE IF ia12 < \h7f8
        THEN Reading(Ret(TanPart(x, Signed(x, large.r), IsOdd(large.n))),
                     inv_pio4(Abs(x)), 24, TRUE)
        ELSE invalid(x)

\* arm_math_sinpi and its like.
IsInteger(x) == IF IsZero(x) THEN TRUE ELSE
                Exponent(x) >= x.f.m \/ (Exponent(x) >= 0
                    /\ Significand(x) % 2^(x.f.m - Exponent(x)) = 0)
\* The bit of the units.
IsOddWhole(x) == /\ ~IsZero(x)
                 /\ Exponent(x) \in 0 .. x.f.m
                 /\ IsOdd(Significand(x) \div 2^(x.f.m - Exponent(x)))
Exp2At(x, k) == IsFinite(x) /\ ~IsZero(x) /\ Exponent(x) >= k
PiTimes(x) == IF IsZero(x) THEN Val(x) ELSE Num(x.s, Exponent(x) + 1)
SinePi(x, r) == IF r = 0 /\ ~IsZero(x) /\ Exponent(x) < -7 THEN PiTimes(x)
                ELSE Sine(x, r)
\* By the nearest multiple of pi, whose parity is the sign.
ReducedPi(x) == Reduced(AnglePi(x), 128)
\* sin and cos of pi |x| with what is left between -1/2 and 1/2.
SinPi(x) == LET red == ReducedPi(x)
            IN  IF IsInteger(x) THEN Zero(0)
                ELSE Flip(SinePi(Abs(x), red.r), IsOdd(red.n))
CosPi(x) == LET red == ReducedPi(x)
                c == 64 - Distance(red.r)
            IN  IF c = 0 THEN Zero(0) ELSE Flip(SineOf(c), IsOdd(red.n))

sinpi(x) ==
    LET most == IF x.f = F64 THEN 53 ELSE 23
        half == IF x.f = F64 THEN 51 ELSE 22
    IN  IF ~IsFinite(x) THEN invalid(x)
        ELSE IF Exp2At(x, most) \/ IsInteger(x) THEN Ret(Zero(x.s))
        ELSE IF ~Exp2At(x, IF x.f = F64 THEN -63 ELSE -31) THEN Ret(PiTimes(x))
        ELSE IF Exp2At(x, half) THEN Ret(Num(Xor(x.s, Bit(IsOddWhole(x))), 0))
        ELSE Ret(Flip(SinPi(x), x.s = 1))
sinpif(x) == sinpi(x)
cospi(x) ==
    IF ~IsFinite(x) THEN invalid(x)
    ELSE IF Exp2At(x, IF x.f = F64 THEN 53 ELSE 24) THEN Ret(One1)
    ELSE IF IsInteger(x) THEN Ret(Num(Bit(IsOddWhole(x)), 0))
    ELSE IF ~Exp2At(x, IF x.f = F64 THEN -63 ELSE -31) THEN Ret(One1)
    ELSE IF Exp2At(x, IF x.f = F64 THEN 51 ELSE 22) THEN Ret(Zero(0))
    ELSE Ret(CosPi(x))
cospif(x) == cospi(x)

\* 2 or -2 for an even or odd integer, 1 or -1 for what is a half above one.
checkint(x) == IF Exponent(x) > x.f.p THEN 2
               ELSE IF ~IsInteger(x) THEN (IF IsOddWhole(x) THEN -1 ELSE 1)
               ELSE IF IsOddWhole(x) THEN -2 ELSE 2
sincospi(x) ==
    LET m == checkint(x)
        red == ReducedPi(x)
    IN  IF IsFinite(x) /\ ~Exp2At(x, IF x.f = F64 THEN 51 ELSE 22)
        THEN Ret(<<IF IsInteger(x) THEN Zero(x.s) ELSE Flip(SinPi(x), x.s = 1), CosPi(x)>>)
        ELSE IF ~IsFinite(x)
        THEN [invalid(x) EXCEPT !.fast = <<NaN, NaN>>, !.slow = <<NaN, NaN>>]
        ELSE IF IsOdd(m) THEN Ret(<<Num(Xor(x.s, Bit(m < 0)), 0), Zero(0)>>)
        ELSE Ret(<<Zero(x.s), Num(Bit(m \div 2 < 0), 0)>>)
sincospif(x) == sincospi(x)

\* What is left of x and of 2x, rounded away from zero; of the reciprocal of a
\* zero, the sign is that of the half before.
tanpi(x) ==
    LET a == AnglePi(x)
        r == Signed(x, a - 128 * NearestTo(a, 128))
        rounded_x2 == Signed(x, NearestTo(a, 64))
        left == 64 - Distance(r)
        keep_sign == left # 0 \/ ((rounded_x2 \div 2) % 2 = 1) # (x.s = 1)
        r_x == IF left = 0 THEN Zero(Bit(r < 0)) ELSE Num(Bit(r < 0), Log2(left) - 6)
        small == ~Exp2At(x, IF x.f = F64 THEN -63 ELSE -31)
    IN  IF ~IsFinite(x) THEN invalid(x)
        ELSE IF Exp2At(x, IF x.f = F64 THEN 53 ELSE 24) THEN Ret(Zero(x.s))
        ELSE IF x.f = F32 /\ small THEN Ret(PiTimes(x))
        ELSE IF IsZero(x) THEN Ret(Val(x))
        ELSE IF IsInteger(x) THEN Ret(Zero(Xor(x.s, Bit(IsOddWhole(x)))))
        ELSE IF small THEN Ret(PiTimes(x))
        ELSE IF IsOdd(rounded_x2)
        THEN Ret(Div(x.f, Num(0, -1), Flip(r_x, ~keep_sign)))
        ELSE Ret(SinePi(x, r))
tanpif(x) == tanpi(x)

-----------------------------------------------------------------------------
\* AdvSIMD: by the nearest multiple of pi, cos from halfway between two.
v_sin_fast(x) ==
    LET a == Signed(x, Angle(x))
        n == NearestTo(a, 128)
    IN  IF IsFinite(x) THEN Flip(Sine(x, a - 128 * n), IsOdd(n)) ELSE NaN
v_cos_fast(x) ==
    LET a == Angle(x) + 64
        n == NearestTo(a, 128)
    IN  IF IsFinite(x) THEN Flip(SineOf(a - 128 * n), IsOdd(n)) ELSE NaN

\* The reduction of large operands reads a row of 128/pi, or 4/pi in singles,
\* for the exponent: the sign above it adds a multiple of the rows.
Row(x) == IF x.f = F64 THEN (3 + ((Upper(x, 12) - 1085) \div 16)) % 64
          ELSE (3 + ((Upper(x, 9) - 159) \div 8)) % 16
load_datablock(lane, x, special) ==
    IF special
    THEN Reading(lane, Row(x), IF x.f = F64 THEN 64 ELSE 16,
                 Row(x) = 3 + (IF x.f = F64 THEN (Exponent(x) - 62) \div 16
                               ELSE (Exponent(x) - 32) \div 8))
    ELSE lane
\* sin(k + r) and cos(k + r) by the sines of the multiples k of a step.
SinAt(x, a) == IF a % 128 = 0 THEN Num(Xor(x.s, (a \div 128) % 2), -7)
               ELSE Flip(SineOf(IF a % 128 <= 64 THEN a % 128 ELSE 128 - (a % 128)),
                         IsOdd(a \div 128))
v_large_range_reduction(x) == Signed(x, Angle(x))
v_sincos_fallback(x) ==
    LET k == v_large_range_reduction(x) % 256     \* quadrant & 255
    IN  <<SinAt(x, k), SinAt(x, (k + 64) % 256)>>
\* octant & 7, and the rest.
sincosf_fallback(x) ==
    LET octant == NearestTo(v_large_range_reduction(x), 32)
        a == (32 * (octant % 8) + (v_large_range_reduction(x) - 32 * octant)) % 256
    IN  <<SinAt(x, a), SinAt(x, (a + 64) % 256)>>
Fallback(x) == IF x.f = F64 THEN v_sincos_fallback(x) ELSE sincosf_fallback(x)
LargeLane(x, special, fast, large) ==
    load_datablock(Lane(special, fast, IF special /\ IsFinite(x) THEN large ELSE fast),
                   x, special /\ IsFinite(x))
v_sin(x) == LargeLane(x, cage(x, \h41600000), v_sin_fast(x), v_sincos_fallback(x)[1])
v_cos(x) == LargeLane(x, cage(x, \h41600000), v_cos_fast(x), v_sincos_fallback(x)[2])
\* Infinities get a NaN of their own.
v_sinf(x) == LargeLane(x, cage(x, \h49800000), v_sin_fast(x), sincosf_fallback(x)[1])
v_cosf(x) == LargeLane(x, cage(x, \h49800000), v_cos_fast(x), sincosf_fallback(x)[2])

\* By the nearest eighth of a turn in doubles, quarter in singles.
v_sincos_inline(x) ==
    LET a == Signed(x, Angle(x))
        n == NearestTo(a, 32)
        k == (32 * (n % 8) + (a - 32 * n)) % 256
    IN  IF ~IsFinite(x) THEN <<NaN, NaN>>
        ELSE <<IF n = 0 THEN Sine(x, a) ELSE SinAt(x, k), SinAt(x, (k + 64) % 256)>>
v_sincosf_inline(x) ==
    LET a == Signed(x, Angle(x))
        n == NearestTo(a, 64)
        s == Sine(x, a - 64 * n)
        c == Cosine(a - 64 * n)
        swap == IsOdd(n)
    IN  IF ~IsFinite(x) THEN <<NaN, NaN>>
        ELSE <<Flip(IF swap THEN c ELSE s, (n \div 2) % 2 = 1),
               Flip(IF swap THEN s ELSE c, ((n + 1) \div 2) % 2 = 1)>>
v_sincos(x) == LargeLane(x, cagt(x, \h41600000), v_sincos_inline(x), v_sincos_fallback(x))
v_sincosf(x) == LargeLane(x, cagt(x, \h49800000), v_sincosf_inline(x), sincosf_fallback(x))
v_cexpi(x) == v_sincos(x)
v_cexpif(x) == v_sincosf(x)

\* The scalar tan of the C library.
libm_tan(x) == LET a == Signed(x, Angle(x))
                   n == NearestTo(a, 64)
               IN  IF IsFinite(x) THEN Ret(TanPart(x, a - 64 * n, IsOdd(n))) ELSE invalid(x)
\* n / d, or -d / n for an odd multiple of pi/2.
v_tan_fast(x) == libm_tan(x).fast
v_tan(x) == Calling(cage(x, \h41600000), v_tan_fast(x), libm_tan(x))
v_tanf(x) == Calling(cage(x, \h47000000), v_tan_fast(x), tanf(x))

\* FCVTAS, which a large operand saturates: 2^63 - 1, or 2^31 - 1, is odd.
Saturates(x) == IsInf(x) \/ Exp2At(x, IF x.f = F64 THEN 63 ELSE 31)
OddRounded(x) == IF Saturates(x) THEN x.s = 0
                 ELSE IsFinite(x) /\ IsOdd(ReducedPi(x).n)
SinPiLeft(x) == IF ~IsFinite(x) THEN NaN
                ELSE IF IsInteger(x) THEN Zero(0) ELSE SinePi(x, Signed(x, ReducedPi(x).r))
CosPiLeft(x) == IF ~IsFinite(x) THEN NaN
                ELSE IF IsInteger(x) THEN One1
                ELSE Flip(CosPi(x), IsOdd(ReducedPi(x).n))
v_sinpi(x) == Plain(Flip(SinPiLeft(x), OddRounded(x)))
v_sinpif(x) == v_sinpi(x)
v_cospi(x) == Calling(cage(x, IF x.f = F64 THEN \h43e00000 ELSE \h4f000000),
                      Flip(CosPiLeft(x), OddRounded(x)), cospi(x))
v_cospif(x) == v_cospi(x)
\* A result that saturated upwards is taken to be even.
v_sincospi_inline(x) ==
    LET odd == OddRounded(x) /\ ~(x.s = 0 /\ Saturates(x))
    IN  <<Flip(SinPiLeft(x), odd), Flip(CosPiLeft(x), odd)>>
v_sincospif_inline(x) == v_sincospi_inline(x)
v_sincospi(x) == Plain(v_sincospi_inline(x))
v_sincospif(x) == Plain(v_sincospif_inline(x))
v_cexpipi(x) == Plain(v_sincospi_inline(x))
v_cexpipif(x) == Plain(v_sincospif_inline(x))

\* By the nearest even integer, reflected from 1/4 on.
v_tanpi(x) ==
    LET a == AnglePi(x)
        left == a - 128 * (IF a = 64 THEN 0 ELSE IF a = 192 THEN 2 ELSE NearestTo(a, 128))
        ar == Distance(left)
        p == IF ar > 32 THEN (IF ar = 64 THEN Zero(0) ELSE Num(0, Log2(64 - ar) - 6))
             ELSE Magnitude(SinePi(Abs(x), ar))
        y == IF ar > 32 THEN Div(x.f, Num(0, -1), p) ELSE p
    IN  IF ~IsFinite(x) THEN Plain(NaN)
        ELSE IF IsInteger(x) THEN Plain(Zero(0))
        ELSE Plain(Flip(y, (left < 0) # (x.s = 1)))
v_tanpif(x) == v_tanpi(x)

-----------------------------------------------------------------------------
\* SVE: FTSSEL takes the sign and the polynomial from two bits of the number
\* of quarter turns, one more of them for cos.
svtssel(x, r, q) == Flip(IF IsOdd(q) THEN Cosine(r) ELSE Sine(x, r), (q \div 2) % 2 = 1)
sv_quarter(x, more) ==
    LET a == Signed(x, Angle(x))
        n == NearestTo(a, 64)
    IN  IF IsFinite(x) THEN svtssel(x, a - 64 * n, n + more) ELSE NaN
\* In doubles a reduction to 256 steps and tables; in singles to the quarters
\* that FTSSEL wants.
sv_sincos_fallback(x) == v_sincos_fallback(x)
sv_large(x, more) ==
    LET n == NearestTo(Signed(x, Angle(x)), 64)
    IN  svtssel(x, Signed(x, Angle(x)) - 64 * n, n + more)
sv_sin(x) == LargeLane(x, cage(x, \h41600000), sv_quarter(x, 0), sv_sincos_fallback(x)[1])
sv_cos(x) == LargeLane(x, cage(x, \h41600000), sv_quarter(x, 1), sv_sincos_fallback(x)[2])
sv_sinf(x) == LargeLane(x, cage(x, \h49800000), sv_quarter(x, 0), sv_large(x, 0))
sv_cosf(x) == LargeLane(x, cage(x, \h49800000), sv_quarter(x, 1), sv_large(x, 1))
sv_sincos(x) == LargeLane(x, cagt(x, \h41600000), v_sincos_inline(x), sv_sincos_fallback(x))
sv_sincosf_inline(x) == <<sv_quarter(x, 0), sv_quarter(x, 1)>>
sv_sincosf(x) == LargeLane(x, cage(x, \h49800000), sv_sincosf_inline(x),
                           <<sv_large(x, 0), sv_large(x, 1)>>)
sv_cexpi(x) == sv_sincos(x)
sv_cexpif(x) == sv_sincosf(x)
sv_tan(x) == Calling(~lt(Abs(x), \h41600000), v_tan_fast(x), libm_tan(x))
sv_tanf(x) == Calling(cage(x, \h47000000), v_tan_fast(x), tanf(x))

\* The parity counts below 2^63, 2^53 or 2^31 only.
sv_odd(x, bound) == IsFinite(x) /\ ~Exp2At(x, bound) /\ OddRounded(x)
sv_sinpi(x) == Plain(Flip(SinPiLeft(x), sv_odd(x, IF x.f = F64 THEN 63 ELSE 31)))
sv_sinpif(x) == sv_sinpi(x)
sv_cospi(x) == Plain(Flip(CosPiLeft(x), sv_odd(x, IF x.f = F64 THEN 53 ELSE 31)))
sv_cospif(x) == sv_cospi(x)
sv_sincospi_inline(x) ==
    LET odd == sv_odd(x, IF x.f = F64 THEN 63 ELSE 31)
    IN  <<Flip(SinPiLeft(x), odd), Flip(CosPiLeft(x), odd)>>
sv_sincospif_inline(x) == sv_sincospi_inline(x)
sv_sincospi(x) == Plain(sv_sincospi_inline(x))
sv_sincospif(x) == sv_sincospi(x)
sv_cexpipi(x) == Plain(sv_sincospi_inline(x))
sv_cexpipif(x) == sv_cexpipi(x)
sv_tanpi(x) == v_tanpi(x)
sv_tanpif(x) == sv_tanpi(x)

-----------------------------------------------------------------------------
\* The inverses give angles of steps too, 512 to a turn, or a number if that is
\* less than a step; those in half turns are of class "turns".
PiOver2 == 128
AngleOr(class, n, v) ==
    IF n = 0 THEN v
    ELSE [c |-> class, s |-> IF n < 0 THEN 1 ELSE 0, k |-> Distance(n)]
\* A product with 1/pi.
OverPi(v) == CASE v.c = "angle" -> [v EXCEPT !.c = "turns"]
               [] v.c = "num" -> [v EXCEPT !.k = @ - 2]
               [] v.c = "turns" -> [v EXCEPT !.c = "twice"]
               [] OTHER -> v
Half(f) == One(f) - 2^f.m
Beyond1(x) == x.h > One(x.f)

\* For the arcsine, an increasing function that is 0 and 1/4 turn at 0 and 1.
\* p is that of |x|, or of sqrt((1 - |x|) / 2): half of what |x|'s lacks to 1/4.
Arc(x) == Nearest(Abs(x), Unit, 7)
ArcOf(x, root) == IF root THEN (PiOver2 - Arc(x)) \div 2 ELSE Arc(x)
\* Of 1 - |x| below a step.
NearOne(x) == IF Is1(x) THEN Zero(0) ELSE Num(0, -8)

\* Scalar: the test for a NaN is of one of them, others are invalid and pass.
QuietNaN(x) == x.h \div 2^(IF x.f = F64 THEN 16 ELSE 20)
                 = (IF x.f = F64 THEN \h7ff8 ELSE \h7fc)
asin(x) ==
    LET root == x.h >= Half(x.f)
        p == ArcOf(x, root)
        y == IF root THEN PiOver2 - 2 * p ELSE p
    IN  IF QuietNaN(x) THEN Ret(NaN)
        ELSE IF Beyond1(x) THEN invalid(x)
        ELSE IF x.h < (IF x.f = F64 THEN \h3e500000 ELSE \h39800000) THEN Ret(Val(x))
        ELSE Ret(AngleOr("angle", Signed(x, y), Val(x)))
asinf(x) == asin(x)
acos(x) ==
    LET root == x.h >= Half(x.f)
        p == ArcOf(x, root)
    IN  IF QuietNaN(x) THEN Ret(NaN)
        ELSE IF Beyond1(x) THEN invalid(x)
        ELSE IF x.h < (IF x.f = F64 THEN \h3c900000 ELSE \h32800000)
        THEN Ret(AngleOr("angle", PiOver2, NaN))
        ELSE IF ~root THEN Ret(AngleOr("angle", PiOver2 - Signed(x, p), NaN))
        ELSE IF x.s = 1 THEN Ret(AngleOr("angle", 2 * PiOver2 - 2 * p, NaN))
        ELSE Ret(AngleOr("angle", 2 * p, NearOne(x)))
acosf(x) == acos(x)

\* A quotient n / d of at most 1, in steps of 1/64, which stands for its arc:
\* increasing, and 1/8 turn at 1.
Quotient(n, d) ==
    LET e == Exponent(d) - Exponent(n)
    IN  IF IsZero(n) \/ IsInf(d) \/ e > 7 THEN 0
        ELSE (64 * Leading16(n)) \div (Leading16(d) * 2^e)
OneOp(f) == Operand(f, 0, One(f))
\* eval_poly of z = x or -1 / x, with the sign taken off, from the shift.
ArcTangent(x, red) == IF red THEN PiOver2 - Quotient(OneOp(x.f), x) ELSE Quotient(x, OneOp(x.f))
atan(x) ==
    LET ia12 == x.h \div 2^20
    IN  IF ia12 < \h3e1 THEN Ret(Val(x))
        ELSE IF ia12 >= \h434 /\ x.h > InfBits(F64) THEN invalid(x)
        ELSE IF ia12 >= \h434 THEN Ret(AngleOr("angle", Signed(x, PiOver2), NaN))
        ELSE Ret(AngleOr("angle", Signed(x, ArcTangent(x, ia12 >= \h3ff)), Val(x)))
atanf(x) ==
    IF x.h < \h30800000 THEN Ret(Val(x))
    ELSE IF x.h > \h4e800000 /\ x.h > InfBits(F32) THEN invalid(x)
    ELSE IF x.h > \h4e800000 THEN Ret(AngleOr("angle", Signed(x, PiOver2), NaN))
    ELSE Ret(AngleOr("angle", Signed(x, ArcTangent(x, x.h > One(F32))), Val(x)))

\* The polynomial of z = y / x, or -x / y if |y| is above |x|, from a shift of
\* quarter turns, and its sign changed by those of both.
Polar(class, y, x, shift, z) ==
    LET above == y.h > x.h
        n == shift * PiOver2 + (IF above THEN 0 - Quotient(x, y) ELSE Quotient(y, x))
        v == AngleOr(class, n, z)
    IN  Flip(v, x.s # y.s)
Shift(y, x) == (IF x.s = 1 THEN -2 ELSE 0) + (IF y.h > x.h THEN 1 ELSE 0)
PolarOf(class, y, x) == Polar(class, y, x, Shift(y, x), Div(x.f, Magnitude(Val(y)), Magnitude(Val(x))))
Eighths(n) == AngleOr("angle", (n * PiOver2) \div 2, NaN)

\* A mutant: the sign of a zero y forgotten.
QuadrantOfX(a, b, c, d, m) == Ret(IF m < 2 THEN a ELSE c)
\* By 2 * (x is negative) + (y is).
Quadrant(a, b, c, d, m) == Ret(CASE m = 0 -> a [] m = 1 -> b [] m = 2 -> c [] m = 3 -> d)
QuarterTurn(y) == Ret(Eighths(IF y.s = 1 THEN -2 ELSE 2))
Infinite(y, m) == IF IsInf(y) THEN Quadrant(Eighths(1), Eighths(-1), Eighths(3), Eighths(-3), m)
                  ELSE Quadrant(Zero(0), Zero(1), Eighths(4), Eighths(-4), m)
atan2(y, x) ==
    LET m == 2 * x.s + y.s
        exp_diff == Top(x) - Top(y)
    IN  IF IsNaN(y) /\ ~IsNaN(x) THEN invalid(y)
        ELSE IF IsNaN(x) THEN invalid(x)
        ELSE IF IsZero(y) THEN Quadrant(Zero(0), Zero(1), Eighths(4), Eighths(-4), m)
        ELSE IF IsZero(x) \/ exp_diff <= -62 THEN QuarterTurn(y)
        ELSE IF IsInf(x) \/ (exp_diff >= 62 /\ m >= 2) THEN Infinite(y, m)
        ELSE IF IsInf(y) THEN QuarterTurn(y)
        ELSE IF m < 2 /\ exp_diff >= 62
        THEN Ret(Flip(Div(F64, Magnitude(Val(y)), Val(x)), x.s # y.s))
        ELSE Ret(PolarOf("angle", y, x))

\* A subnormal's exponent goes on below 0.
BiasedExponent(x) == IF IsZero(x) THEN -32
                     ELSE IF Top(x) = 0 THEN Log2(x.h) - 22 ELSE Top(x)
atan2f(y, x) ==
    LET m == 2 * x.s + y.s
        exp_diff == BiasedExponent(x) - BiasedExponent(y)
    IN  IF IsNaN(x) \/ IsNaN(y) THEN Ret(NaN)
        ELSE IF IsZero(y) \/ (exp_diff >= 24 /\ m >= 2)
        THEN Quadrant(Val(y), Val(y), Eighths(4), Eighths(-4), m)
        ELSE IF IsZero(x) \/ exp_diff <= -24 THEN QuarterTurn(y)
        ELSE IF IsInf(x) THEN Infinite(y, m)
        ELSE IF IsInf(y) THEN QuarterTurn(y)
        ELSE IF m < 2 /\ exp_diff >= 24
        THEN Ret(Flip(Div(F32, Magnitude(Val(y)), Val(x)), x.s # y.s))
        ELSE Ret(PolarOf("angle", y, x))

\* AdvSIMD, with masks in place of tests: of a number beyond 1 the root is a NaN.
Signless(x, v) == IF IsNaN(x) \/ Beyond1(x) THEN NaN ELSE v
v_asin(x) ==
    LET low == ~IsNaN(x) /\ x.h < Half(x.f)
        p == ArcOf(x, ~low)
        y == IF low THEN p ELSE PiOver2 - 2 * p
    IN  Plain(Signless(x, AngleOr("angle", Signed(x, y), Val(x))))
v_asinf(x) == v_asin(x)
v_asinpi(x) == Plain(OverPi(v_asin(x).fast))
v_asinpif(x) == v_asinpi(x)
\* add + mul * p; p has the sign of x.
ArcCosine(class, x, low, mul, add) ==
    Plain(Signless(x, AngleOr(class, add + mul * Signed(x, ArcOf(x, ~low)), NearOne(x))))
v_acos(x) ==
    LET low == ~IsNaN(x) /\ x.h <= Half(x.f)
        off == IF ltNeg(x, 0) THEN 2 * PiOver2 ELSE 0
    IN  ArcCosine("angle", x, low, IF low THEN -1 ELSE 2, IF low THEN PiOver2 ELSE off)
v_acosf(x) == v_acos(x)
v_acospi(x) ==
    LET low == ~IsNaN(x) /\ x.h < Half(x.f)
        off == IF ltNeg(x, 0) THEN 2 * PiOver2 ELSE 0
        mul == IF low THEN 1 ELSE -2
    IN  ArcCosine("turns", x, low, 0 - mul, IF low THEN PiOver2 ELSE off)
v_acospif(x) == v_acospi(x)

v_Atan(class, x) ==
    IF IsNaN(x) THEN Plain(NaN)
    ELSE LET v == AngleOr(class, Signed(x, ArcTangent(x, cagt(x, One(x.f)))), Val(x))
         IN  Plain(IF class = "turns" /\ v.c = "num" THEN OverPi(v) ELSE v)
v_atan(x) == v_Atan("angle", x)
v_atanf(x) == v_Atan("angle", x)
v_atanpi(x) == v_Atan("turns", x)
v_atanpif(x) == v_Atan("turns", x)

\* The angle of a lane that is not special; else of whatever the division gives.
v_Polar(class, y, x) ==
    IF Special2(y, x) THEN NaN
    ELSE LET v == PolarOf(class, y, x) IN IF class = "turns" /\ v.c = "num" THEN OverPi(v) ELSE v
v_atan2(y, x) == Calling(Special2(y, x), v_Polar("angle", y, x), atan2(y, x))
v_atan2f(y, x) == Calling(Special2(y, x), v_Polar("angle", y, x), atan2f(y, x))
\* What atan2 gives for the special lanes is brought to half turns after.
Atan2PiLane(y, x, scalar) ==
    LET special == Special2(y, x)
        ret == v_Polar("turns", y, x)
    IN  Lane(special, ret, IF special THEN OverPi(scalar.fast) ELSE ret)
v_atan2pi(y, x) == Atan2PiLane(y, x, atan2(y, x))
v_atan2pif(y, x) == Atan2PiLane(y, x, atan2f(y, x))

\* SVE.
sv_asin(x) ==
    LET root == cage(x, Half(x.f))
        p == ArcOf(x, root)
        y == IF root THEN -2 * p + PiOver2 ELSE p
    IN  Plain(Signless(x, AngleOr("angle", Signed(x, y), Val(x))))
sv_asinf(x) == sv_asin(x)
sv_asinpi(x) == Plain(OverPi(sv_asin(x).fast))
sv_asinpif(x) == sv_asinpi(x)
\* 1.0 shifted left by 10 is -2.0, whose sign that of x changes; a quarter turn
\* less its own with the sign of x is none or a half.
sv_ArcCosine(class, x) ==
    LET high == cagt(x, Half(x.f))
        mul == Signed(x, IF high THEN -2 ELSE 1)
        add == IF high THEN PiOver2 - Signed(x, PiOver2) ELSE PiOver2
    IN  Plain(Signless(x, AngleOr(class, add - mul * ArcOf(x, high), NearOne(x))))
sv_acos(x) == sv_ArcCosine("angle", x)
sv_acosf(x) ==
    LET high == cagt(x, Half(x.f))
    IN  ArcCosine("angle", x, ~high, IF high THEN 2 ELSE -1,
                  IF ~high THEN PiOver2 ELSE IF ltNeg(x, 0) THEN 2 * PiOver2 ELSE 0)
sv_acospi(x) == sv_ArcCosine("turns", x)
sv_acospif(x) ==
    LET high == cagt(x, Half(x.f))
    IN  ArcCosine("turns", x, ~high, IF high THEN 2 ELSE -1,
                  IF high THEN PiOver2 - Signed(x, PiOver2) ELSE PiOver2)
sv_atan(x) == v_Atan("angle", x)
sv_atanf(x) == v_Atan("angle", x)
sv_atanpi(x) == v_Atan("turns", x)
sv_atanpif(x) == v_Atan("turns", x)

\* The sign bit shifted right once is 2.0, the shift of a negative x.
sv_Polar(class, y, x) ==
    LET shift == IF y.h > x.h THEN 1 ELSE 2 * x.s
        v == Polar(class, y, x, Signed(x, shift), Div(x.f, Magnitude(Val(y)), Magnitude(Val(x))))
    IN  IF Special2(y, x) THEN NaN ELSE IF class = "turns" /\ v.c = "num" THEN OverPi(v) ELSE v
sv_atan2(y, x) == Calling(Special2(y, x), sv_Polar("angle", y, x), atan2(y, x))
sv_atan2f(y, x) == Calling(Special2(y, x), sv_Polar("angle", y, x), atan2f(y, x))
sv_atan2pi(y, x) ==
    LET special == Special2(y, x)
        ret == sv_Polar("turns", y, x)
    IN  Lane(special, ret, IF special THEN OverPi(atan2(y, x).fast) ELSE ret)
\* svmul_f32_x leaves to the build what the lanes that are not special become.
sv_atan2pif(y, x) ==
    LET special == Special2(y, x)
        ret == sv_Polar("turns", y, x)
        v == IF special THEN atan2f(y, x).fast ELSE ret
    IN  [Lane(special, ret, IF special THEN OverPi(v) ELSE v) EXCEPT !.other = OverPi(v)]

-----------------------------------------------------------------------------
\* Hyperbolic functions.  Of e^x - 1 = t, sinh is (t + t/(t + 1)) / 2; of e^x,
\* cosh is (e^x + e^-x) / 2; of e^2x - 1 = q, tanh is q / (q + 2).
SinhOf(f, t, s) == Mul(f, Add(t, Div(f, t, Add(t, One1))), Num(s, -1))
CoshOf(f, e) == Add(Mul(f, e, Num(0, -1)), Div(f, Num(0, -1), e))
TanhOf(f, q) == Div(f, q, Add(q, Num(0, 1)))
Halved(x) == IF IsFinite(x) THEN [x EXCEPT !.h = @ - 2^x.f.m] ELSE x
\* (e^(|x|/2) / 2) e^(|x|/2), of which the product decides if it overflows.
HalfSquare(x, e, s) ==
    IF e.c = "num" THEN Rounded(x.f, s, (Nearest(Abs(x), InvLn2, 7) - 128) \div 128)
    ELSE Mul(x.f, Mul(x.f, e, Num(s, -1)), e)

\* Scalar.
sinh(x) ==
    LET e == exp(Halved(Abs(x)))
        t == expm1(Abs(x))
    IN  IF x.h <= \h40862e42 THEN With(SinhOf(F64, t.fast, x.s), t.errno)
        ELSE IF IsNaN(x) THEN invalid(x)
        ELSE With(HalfSquare(x, e.fast, x.s), e.errno)
sinhf(x) ==
    LET e == expf(Halved(Abs(x)))
        t == expm1f(Abs(x))
    IN  IF x.h < \h42b17218 THEN With(SinhOf(F32, t.fast, x.s), t.errno)
        ELSE IF ~IsFinite(x) THEN Ret(Val(x))
        ELSE IF x.h >= \h42b2d4fd THEN oflow(F32, x.s)
        ELSE With(HalfSquare(x, e.fast, x.s), e.errno)
cosh(x) ==
    LET e == exp(Halved(Abs(x)))
    IN  IF x.h <= \h40861da0 THEN Ret(CoshOf(F64, exp(Abs(x)).fast))
        ELSE IF IsInf(x) THEN Ret(Inf(0))
        ELSE IF IsNaN(x) THEN invalid(x)
        ELSE With(HalfSquare(x, e.fast, 0), e.errno)
coshf(x) ==
    LET e == expf(Halved(Abs(x)))
    IN  IF x.h \in \h20000001 .. \h42ad496b THEN Ret(CoshOf(F32, expf(Abs(x)).fast))
        ELSE IF IsInf(x) THEN Ret(Inf(0))
        ELSE IF IsNaN(x) THEN invalid(x)
        ELSE IF x.h <= \h20000000 THEN Ret(One1)
        ELSE With(HalfSquare(x, e.fast, 0), e.errno)

TwoInvLn2 == [c |-> 23637, r |-> 13]
e2xm1_inline(x) == LET n == Nearest(x, TwoInvLn2, 0)
                   IN  Less1(x, TwoInvLn2, Mul(x.f, Pow2(x.f, n), Rest(x, TwoInvLn2, n)))
TanhScalar(x, tiny, boring) ==
    IF x.h > boring THEN (IF IsNaN(x) THEN invalid(x) ELSE Ret(Num(x.s, 0)))
    ELSE IF x.h < tiny THEN Ret(Val(x))
    ELSE Ret(TanhOf(x.f, e2xm1_inline(x)))
tanh(x) == TanhScalar(x, \h3e400000, \h403241bf)
tanhf(x) == TanhScalar(x, \h34000000, \h41102cb3)

\* AdvSIMD and SVE: where e^|x| does not fit, e^(|x| - 9) is scaled by cosh(9),
\* or the result is infinite.
ExponentLess9(x) == (Nearest(Abs(x), InvLn2, 7) - 1662) \div 128
ByCosh9(x, s, infinite, scale) ==
    IF IsNaN(x) THEN NaN
    ELSE IF infinite THEN Inf(s)
    ELSE IF ExponentLess9(x) > Bias(x.f) THEN WithSign(scale, s)
    ELSE Rounded(x.f, s, (Nearest(Abs(x), InvLn2, 7) - 128) \div 128)
v_ByCosh9(special, x, y, s, infinite) ==
    Lane(special, y, IF special
                     THEN ByCosh9(x, s, infinite, Pow2(x.f, ExponentLess9(x))) ELSE y)
v_sinh(x) == v_ByCosh9(cagt(x, \h408628b7), x, SinhOf(F64, expm1_inline(Abs(x)), x.s),
                       x.s, cagt(x, \h40863400))
v_sinhf(x) == v_ByCosh9(cage(x, \h42b0c0a5), x, SinhOf(F32, expm1f_inline(Abs(x)), x.s),
                        x.s, cagt(x, \h42b2d4fd))
v_cosh(x) ==
    LET e == Mul(F64, Pow2(F64, Nearest(x, InvLn2, 8) \div 256), Near1(x))
    IN  v_ByCosh9(cagt(x, \h4086232e), x, CoshOf(F64, e), 0, cagt(x, \h40863400))
v_coshf(x) == v_ByCosh9(cage(x, \h42ad496c), x, CoshOf(F32, v_expf_inline(x)),
                        0, cagt(x, \h42b2d4fd))
TanhLane(x, bound, q) ==
    LET y == TanhOf(x.f, q)
        special == cagt(x, bound)
    IN  Lane(special, y, IF special THEN Num(x.s, 0) ELSE y)
v_tanh(x) == TanhLane(x, \h4032cccc, e2xm1_inline(x))
v_tanhf(x) == TanhLane(x, \h41102cb3, e2xm1_inline(x))

\* The table of 2^(i/64) - 1 for i in 0 .. 19, read for small operands.
TableLess1(x, f) == LET n == Nearest(Abs(x), f, 6)
                    IN  Less1(Abs(x), f, Mul(F64, svexpa(F64, n \div 64), Near1(x)))
ReadingLess1(lane, x, f, small) ==
    LET n == Nearest(Abs(x), f, 6)
    IN  IF small THEN Reading(lane, n % 32, 20, n % 32 = n) ELSE lane
sv_ByCosh9(special, x, y, s, infinite) ==
    Lane(special, y, IF special
                     THEN ByCosh9(x, s, infinite, svexpa(x.f, ExponentLess9(x))) ELSE y)
sv_sinh(x) ==
    ReadingLess1(sv_ByCosh9(cagt(x, \h40862e37), x, SinhOf(F64, TableLess1(x, InvLn2), x.s),
                            x.s, cagt(x, \h40867637)),
                 x, InvLn2, x.h <= \h3fca56ef)
sv_sinhf(x) == sv_ByCosh9(cage(x, \h42b0c0a5), x, SinhOf(F32, sv_expm1f_inline(Abs(x)), x.s),
                          x.s, cage(x, \h42c2c0a5))
\* e^x / 2 at once.
sv_cosh(x) ==
    LET e == Mul(F64, svexpa(F64, (Nearest(x, InvLn2, 6) \div 64) - 1), Near1(x))
    IN  sv_ByCosh9(cagt(x, \h40861dab), x, Add(e, Div(F64, Num(0, -2), e)),
                   0, cagt(x, \h408665ab))
sv_coshf(x) == sv_ByCosh9(cagt(x, \h42aeaf15), x, CoshOf(F32, sv_expf_inline(x)),
                          0, cage(x, \h42c0af15))
sv_tanh(x) ==
    LET y == IF cagt(x, \h40330fc1) THEN One1 ELSE TanhOf(F64, TableLess1(x, TwoInvLn2))
    IN  ReadingLess1(Plain(WithSign(y, x.s)), x, TwoInvLn2, x.h <= \h3fba56ef)
sv_tanhf(x) ==
    LET n == Nearest(x, TwoInvLn2, 0)
    IN  TanhLane(x, \h41102cb3,
                 Less1(x, TwoInvLn2, Mul(F32, Ldexp(F32, One1, n), Rest(x, TwoInvLn2, n))))

\* Inverses.  The logarithm of a number computed before, taken from its bits.
AddLn2(v) == IF v.c = "log" THEN Logarithm(v.k + 1) ELSE v
LogOfValue(f, v) == Logarithm(IF v.c = "num" THEN v.k ELSE Bias(f) + 1)
\* log(1 + v) for a computed v that is not negative.
Log1pOf(f, v) ==
    CASE v.c \in {"nan", "inf"} -> IF f = F64 THEN NaN ELSE Logarithm(Bias(f) + 1)
      [] v.c = "zero" -> v
      [] v.c = "num" -> IF v.s = 1 THEN NaN
                        ELSE IF v.k < 0 THEN v
                        ELSE Logarithm(IF v.k = 0 THEN 1 ELSE v.k)
\* |x| + sqrt(x^2 + 1), and |x| + x^2 / (1 + sqrt(x^2 + 1)), which is less by 1.
Root(x) == Sqrt(Add(Mul(x.f, Val(x), Val(x)), One1))
AsinhSum(x) == Add(Val(Abs(x)), Root(x))
AsinhSum1(x) == Add(Val(Abs(x)), Div(x.f, Mul(x.f, Val(x), Val(x)), Add(One1, Root(x))))
\* x - 1, negative below 1.
Less1Of(x) ==
    IF ~IsFinite(x) THEN Val(x)
    ELSE IF x.s = 1 \/ x.h < One(x.f) THEN Num(1, -1)
    ELSE IF Is1(x) THEN Zero(0)
    ELSE IF Exponent(x) = 0 THEN Num(0, Log2(x.h % 2^x.f.m) - x.f.m)
    ELSE IF x.h <= One(x.f) + 2^x.f.m THEN One1 ELSE Val(x)
\* x - 1 + sqrt((x - 1) (x + 1)).
AcoshSum1(x) == Add(Less1Of(x), Sqrt(Mul(x.f, Less1Of(x), Add(Val(x), One1))))
\* 1 - |x|, for |x| up to 1.
OneLess(x) ==
    IF IsNaN(x) \/ x.h > One(x.f) THEN NaN
    ELSE IF Is1(x) THEN Zero(0)
    ELSE IF IsZero(x) \/ Exponent(x) < 0 - x.f.p THEN One1
    ELSE IF Exponent(x) < -1 THEN Num(0, -1)
    ELSE Num(0, Log2(2^(x.f.m + 1) - Significand(x)) - (x.f.m + 1))
\* Half of log(1 + 2|x| / (1 - |x|)).
HalfOf(v, s) == IF v.c = "num" THEN Num(s, v.k - 1) ELSE WithSign(v, s)
AtanhOf(x) ==
    LET a == Val(Abs(x))
    IN  HalfOf(Log1pOf(x.f, Div(x.f, Add(a, a), OneLess(x))), x.s)

\* Scalar.
SignedRet(lane, v, s) == With(WithSign(v, s), lane.errno)
asinh(x) == IF x.h < One(F64) THEN Ret(Val(x))
            ELSE IF x.h >= \h5fe00000
            THEN LET y == log(Abs(x)) IN SignedRet(y, AddLn2(y.fast), x.s)
            ELSE Ret(WithSign(LogOfValue(F64, AsinhSum(x)), x.s))
asinhf(x) == IF x.h < One(F32) \/ IsInf(x) THEN Ret(Val(x))
             ELSE IF IsNaN(x) THEN invalid(x)
             ELSE IF x.h > \h44ba4f4b
             THEN LET y == logf(Abs(x)) IN SignedRet(y, AddLn2(y.fast), x.s)
             ELSE Ret(WithSign(LogOfValue(F32, AsinhSum(x)), x.s))
\* Below 1 the root is of a negative number, a NaN that leaves errno alone.
AcoshScalar(x, far, two, y) ==
    LET m == Less1Of(x)
        m2 == Add(Mul(x.f, m, Num(0, 1)), Mul(x.f, m, m))
        x2 == Add(Mul(x.f, Val(x), Val(x)), Num(1, 0))
        v == Add(m, Sqrt(m2))
    IN  IF x.s = 1 THEN invalid(x)
        ELSE IF x.h >= far THEN With(AddLn2(y.fast), y.errno)
        ELSE IF x.h >= two THEN Ret(LogOfValue(x.f, Add(Val(x), Sqrt(x2))))
        ELSE Ret(IF v.c = "nan" THEN NaN ELSE Log1pOf(x.f, v))
acosh(x) == AcoshScalar(x, \h5fe00000, \h40000000, log(x))
acoshf(x) == AcoshScalar(x, \h5f800000, \h40000001, logf(x))
atanh(x) == IF Is1(x) THEN divzero(x.s)
            ELSE IF x.h > One(F64) THEN invalid(x)
            ELSE Ret(AtanhOf(x))
atanhf(x) == IF x.h < \h39800000 THEN Ret(Val(x))
             ELSE IF Is1(x) THEN divzero(x.s)
             ELSE IF x.h > One(F32) THEN invalid(x)
             ELSE Ret(AtanhOf(x))

\* AdvSIMD.
v_asinh(x) ==
    LET special == cage(x, \h5fe00000)
        y == IF cage(x, One(F64)) THEN LogOfValue(F64, AsinhSum(x)) ELSE Val(x)
        far == IF IsInf(x) THEN Inf(0) ELSE AddLn2(LogOf(F64, x.h))
    IN  Lane(special, WithSign(y, x.s), WithSign(IF special THEN far ELSE y, x.s))
\* A NaN or an infinity is added to what is taken from its bits.
AsinhfLane(x, far) ==
    LET special == x.h >= \h5f800000
        y == Log1pOf(F32, AsinhSum1(x))
    IN  Lane(special, WithSign(y, x.s), WithSign(IF special THEN far ELSE y, x.s))
v_asinhf(x) ==
    AsinhfLane(x, IF IsFinite(x) THEN AddLn2(log1pf_inline(Abs(x))) ELSE Val(Abs(x)))
\* As an unsigned word less that of 1, which wraps around.
Far1(x, bound) == x.s = 1 \/ x.h \notin One(x.f) .. (bound - 1)
AcoshLane(x, special, far) ==
    LET y == Log1pOf(x.f, AcoshSum1(x))
    IN  Lane(special, y, IF special THEN far ELSE y)
v_acosh(x) ==
    AcoshLane(x, Far1(x, \h5fe00000),
              IF lt(x, One(F64)) THEN NaN
              ELSE IF PosInf(x) THEN Inf(0) ELSE AddLn2(log1p_inline(x)))
v_acoshf(x) ==
    AcoshLane(x, Far1(x, \h5f800000),
              IF lt(x, One(F32)) THEN NaN
              ELSE IF IsFinite(x) THEN AddLn2(log1pf_inline(x)) ELSE Val(x))
AtanhLane(x, special, nan) ==
    LET y == AtanhOf(x)
    IN  Lane(special, y, IF Is1(x) THEN Inf(x.s) ELSE IF nan THEN NaN ELSE y)
v_atanh(x) == AtanhLane(x, cage(x, One(F64)), cage(x, One(F64)))
v_atanhf(x) == AtanhLane(x, x.h >= One(F32), ~lt(Abs(x), One(F32)))

\* SVE.
sv_asinh(x) ==
    LET special == x.h >= \h5fe00000
        y == IF x.h >= One(F64) THEN LogOfValue(F64, AsinhSum(x)) ELSE Val(x)
        far == IF ~IsFinite(x) THEN Val(Abs(x)) ELSE AddLn2(LogOf(F64, x.h))
    IN  Lane(special, WithSign(y, x.s), WithSign(IF special THEN far ELSE y, x.s))
sv_asinhf(x) ==
    AsinhfLane(x, IF IsFinite(x) THEN AddLn2(sv_log1pf_inline(Abs(x))) ELSE Val(Abs(x)))
sv_acosh(x) ==
    AcoshLane(x, Far1(x, \h5fe00000),
              IF lt(x, One(F64)) THEN NaN
              ELSE IF PosInf(x) THEN Inf(0) ELSE AddLn2(Log1pOf(F64, Less1Of(x))))
sv_acoshf(x) ==
    AcoshLane(x, Far1(x, \h5f800000),
              IF PosInf(x) THEN Inf(0)
              ELSE IF IsNaN(x) \/ lt(x, One(F32)) THEN NaN
              ELSE AddLn2(Log1pOf(F32, Less1Of(x))))
sv_atanh(x) == AtanhLane(x, cage(x, One(F64)), cage(x, One(F64)))
sv_atanhf(x) == AtanhLane(x, x.h >= One(F32), x.h >= One(F32))

-----------------------------------------------------------------------------
\* Calls.
CONSTANTS Routines,        \* <<"", "v" or "sv", function, format>>
          Quiet,           \* the scalar ones whose errno is not looked at
          Operands(_),     \* the tuples of operands of a routine
          Beside(_)        \* the operands of its lane beside another

VARIABLES fn,      \* the routine
          args,    \* the lanes' tuples of operands
          pg,      \* the active lanes
          pc,
          lanes,   \* what the routine knows of its lanes
          res      \* the lanes' results

vars == <<fn, args, pg, pc, lanes, res>>

Scalar(of, d, a) ==
    CASE of = "exp" -> IF d THEN exp(a[1]) ELSE expf(a[1])
      [] of = "exp2" -> IF d THEN exp2(a[1]) ELSE exp2f(a[1])
      [] of = "exp10" -> exp10(a[1])
      [] of = "log" -> IF d THEN log(a[1]) ELSE logf(a[1])
      [] of = "log2" -> IF d THEN log2(a[1]) ELSE log2f(a[1])
      [] of = "log10" -> IF d THEN log10(a[1]) ELSE log10f(a[1])
      [] of = "expm1" -> IF d THEN expm1(a[1]) ELSE expm1f(a[1])
      [] of = "log1p" -> IF d THEN log1p(a[1]) ELSE log1pf(a[1])
      [] of = "sinh" -> IF d THEN sinh(a[1]) ELSE sinhf(a[1])
      [] of = "cosh" -> IF d THEN cosh(a[1]) ELSE coshf(a[1])
      [] of = "tanh" -> IF d THEN tanh(a[1]) ELSE tanhf(a[1])
      [] of = "asinh" -> IF d THEN asinh(a[1]) ELSE asinhf(a[1])
      [] of = "acosh" -> IF d THEN acosh(a[1]) ELSE acoshf(a[1])
      [] of = "atanh" -> IF d THEN atanh(a[1]) ELSE atanhf(a[1])
      [] of = "sin" -> sinf(a[1])
      [] of = "cos" -> cosf(a[1])
      [] of = "sincos" -> sincosf(a[1])
      [] of = "tan" -> tanf(a[1])
      [] of = "sinpi" -> IF d THEN sinpi(a[1]) ELSE sinpif(a[1])
      [] of = "cospi" -> IF d THEN cospi(a[1]) ELSE cospif(a[1])
      [] of = "sincospi" -> IF d THEN sincospi(a[1]) ELSE sincospif(a[1])
      [] of = "tanpi" -> IF d THEN tanpi(a[1]) ELSE tanpif(a[1])
      [] of = "asin" -> IF d THEN asin(a[1]) ELSE asinf(a[1])
      [] of = "acos" -> IF d THEN acos(a[1]) ELSE acosf(a[1])
      [] of = "atan" -> IF d THEN atan(a[1]) ELSE atanf(a[1])
      [] of = "atan2" -> IF d THEN atan2(a[1], a[2]) ELSE atan2f(a[1], a[2])
      [] of = "pow" -> IF d THEN pow(a[1], a[2]) ELSE powf(a[1], a[2])

AdvSimd(of, d, a) ==
    CASE of = "exp" -> IF d THEN v_exp(a[1]) ELSE v_expf(a[1])
      [] of = "exp2" -> IF d THEN v_exp2(a[1]) ELSE v_exp2f(a[1])
      [] of = "exp10" -> IF d THEN v_exp10(a[1]) ELSE v_exp10f(a[1])
      [] of = "exp_1u" -> v_expf_1u(a[1])
      [] of = "exp2_1u" -> v_exp2f_1u(a[1])
      [] of = "cr_exp" -> v_cr_expf(a[1])
      [] of = "expm1" -> IF d THEN v_expm1(a[1]) ELSE v_expm1f(a[1])
      [] of = "exp2m1" -> IF d THEN v_exp2m1(a[1]) ELSE v_exp2m1f(a[1])
      [] of = "exp10m1" -> IF d THEN v_exp10m1(a[1]) ELSE v_exp10m1f(a[1])
      [] of = "log" -> IF d THEN v_log(a[1]) ELSE v_logf(a[1])
      [] of = "log2" -> IF d THEN v_log2(a[1]) ELSE v_log2f(a[1])
      [] of = "log10" -> IF d THEN v_log10(a[1]) ELSE v_log10f(a[1])
      [] of = "log1p" -> IF d THEN v_log1p(a[1]) ELSE v_log1pf(a[1])
      [] of = "log2p1" -> IF d THEN v_log2p1(a[1]) ELSE v_log2p1f(a[1])
      [] of = "log10p1" -> IF d THEN v_log10p1(a[1]) ELSE v_log10p1f(a[1])
      [] of = "sinh" -> IF d THEN v_sinh(a[1]) ELSE v_sinhf(a[1])
      [] of = "cosh" -> IF d THEN v_cosh(a[1]) ELSE v_coshf(a[1])
      [] of = "tanh" -> IF d THEN v_tanh(a[1]) ELSE v_tanhf(a[1])
      [] of = "asinh" -> IF d THEN v_asinh(a[1]) ELSE v_asinhf(a[1])
      [] of = "acosh" -> IF d THEN v_acosh(a[1]) ELSE v_acoshf(a[1])
      [] of = "atanh" -> IF d THEN v_atanh(a[1]) ELSE v_atanhf(a[1])
      [] of = "sin" -> IF d THEN v_sin(a[1]) ELSE v_sinf(a[1])
      [] of = "cos" -> IF d THEN v_cos(a[1]) ELSE v_cosf(a[1])
      [] of = "tan" -> IF d THEN v_tan(a[1]) ELSE v_tanf(a[1])
      [] of = "sincos" -> IF d THEN v_sincos(a[1]) ELSE v_sincosf(a[1])
      [] of = "cexpi" -> IF d THEN v_cexpi(a[1]) ELSE v_cexpif(a[1])
      [] of = "sinpi" -> IF d THEN v_sinpi(a[1]) ELSE v_sinpif(a[1])
      [] of = "cospi" -> IF d THEN v_cospi(a[1]) ELSE v_cospif(a[1])
      [] of = "tanpi" -> IF d THEN v_tanpi(a[1]) ELSE v_tanpif(a[1])
      [] of = "sincospi" -> IF d THEN v_sincospi(a[1]) ELSE v_sincospif(a[1])
      [] of = "cexpipi" -> IF d THEN v_cexpipi(a[1]) ELSE v_cexpipif(a[1])
      [] of = "asin" -> IF d THEN v_asin(a[1]) ELSE v_asinf(a[1])
      [] of = "acos" -> IF d THEN v_acos(a[1]) ELSE v_acosf(a[1])
      [] of = "atan" -> IF d THEN v_atan(a[1]) ELSE v_atanf(a[1])
      [] of = "asinpi" -> IF d THEN v_asinpi(a[1]) ELSE v_asinpif(a[1])
      [] of = "acospi" -> IF d THEN v_acospi(a[1]) ELSE v_acospif(a[1])
      [] of = "atanpi" -> IF d THEN v_atanpi(a[1]) ELSE v_atanpif(a[1])
      [] of = "atan2" -> IF d THEN v_atan2(a[1], a[2]) ELSE v_atan2f(a[1], a[2])
      [] of = "atan2pi" -> IF d THEN v_atan2pi(a[1], a[2]) ELSE v_atan2pif(a[1], a[2])
      [] of = "pow" -> IF d THEN v_pow(a[1], a[2]) ELSE v_powf(a[1], a[2])
      [] of = "powr" -> IF d THEN v_powr(a[1], a[2]) ELSE v_powrf(a[1], a[2])

Sve(of, d, a) ==
    CASE of = "exp" -> IF d THEN sv_exp(a[1]) ELSE sv_expf(a[1])
      [] of = "exp2" -> IF d THEN sv_exp2(a[1]) ELSE sv_exp2f(a[1])
      [] of = "exp10" -> IF d THEN sv_exp10(a[1]) ELSE sv_exp10f(a[1])
      [] of = "expm1" -> IF d THEN sv_expm1(a[1]) ELSE sv_expm1f(a[1])
      [] of = "exp2m1" -> IF d THEN sv_exp2m1(a[1]) ELSE sv_exp2m1f(a[1])
      [] of = "exp10m1" -> IF d THEN sv_exp10m1(a[1]) ELSE sv_exp10m1f(a[1])
      [] of = "log" -> IF d THEN sv_log(a[1]) ELSE sv_logf(a[1])
      [] of = "log2" -> IF d THEN sv_log2(a[1]) ELSE sv_log2f(a[1])
      [] of = "log10" -> IF d THEN sv_log10(a[1]) ELSE sv_log10f(a[1])
      [] of = "log1p" -> IF d THEN sv_log1p(a[1]) ELSE sv_log1pf(a[1])
      [] of = "log2p1" -> IF d THEN sv_log2p1(a[1]) ELSE sv_log2p1f(a[1])
      [] of = "log10p1" -> IF d THEN sv_log10p1(a[1]) ELSE sv_log10p1f(a[1])
      [] of = "sinh" -> IF d THEN sv_sinh(a[1]) ELSE sv_sinhf(a[1])
      [] of = "cosh" -> IF d THEN sv_cosh(a[1]) ELSE sv_coshf(a[1])
      [] of = "tanh" -> IF d THEN sv_tanh(a[1]) ELSE sv_tanhf(a[1])
      [] of = "asinh" -> IF d THEN sv_asinh(a[1]) ELSE sv_asinhf(a[1])
      [] of = "acosh" -> IF d THEN sv_acosh(a[1]) ELSE sv_acoshf(a[1])
      [] of = "atanh" -> IF d THEN sv_atanh(a[1]) ELSE sv_atanhf(a[1])
      [] of = "sin" -> IF d THEN sv_sin(a[1]) ELSE sv_sinf(a[1])
      [] of = "cos" -> IF d THEN sv_cos(a[1]) ELSE sv_cosf(a[1])
      [] of = "tan" -> IF d THEN sv_tan(a[1]) ELSE sv_tanf(a[1])
      [] of = "sincos" -> IF d THEN sv_sincos(a[1]) ELSE sv_sincosf(a[1])
      [] of = "cexpi" -> IF d THEN sv_cexpi(a[1]) ELSE sv_cexpif(a[1])
      [] of = "sinpi" -> IF d THEN sv_sinpi(a[1]) ELSE sv_sinpif(a[1])
      [] of = "cospi" -> IF d THEN sv_cospi(a[1]) ELSE sv_cospif(a[1])
      [] of = "tanpi" -> IF d THEN sv_tanpi(a[1]) ELSE sv_tanpif(a[1])
      [] of = "sincospi" -> IF d THEN sv_sincospi(a[1]) ELSE sv_sincospif(a[1])
      [] of = "cexpipi" -> IF d THEN sv_cexpipi(a[1]) ELSE sv_cexpipif(a[1])
      [] of = "asin" -> IF d THEN sv_asin(a[1]) ELSE sv_asinf(a[1])
      [] of = "acos" -> IF d THEN sv_acos(a[1]) ELSE sv_acosf(a[1])
      [] of = "atan" -> IF d THEN sv_atan(a[1]) ELSE sv_atanf(a[1])
      [] of = "asinpi" -> IF d THEN sv_asinpi(a[1]) ELSE sv_asinpif(a[1])
      [] of = "acospi" -> IF d THEN sv_acospi(a[1]) ELSE sv_acospif(a[1])
      [] of = "atanpi" -> IF d THEN sv_atanpi(a[1]) ELSE sv_atanpif(a[1])
      [] of = "atan2" -> IF d THEN sv_atan2(a[1], a[2]) ELSE sv_atan2f(a[1], a[2])
      [] of = "atan2pi" -> IF d THEN sv_atan2pi(a[1], a[2]) ELSE sv_atan2pif(a[1], a[2])
      [] of = "pow" -> IF d THEN sv_pow(a[1], a[2]) ELSE sv_powf(a[1], a[2])
      [] of = "powr" -> IF d THEN sv_powr(a[1], a[2]) ELSE sv_powrf(a[1], a[2])

Evaluate(r, a) == CASE r[1] = "" -> Scalar(r[2], r[3] = F64, a)
                    [] r[1] = "v" -> AdvSimd(r[2], r[3] = F64, a)
                    [] r[1] = "sv" -> Sve(r[2], r[3] = F64, a)

-----------------------------------------------------------------------------
\* Lanes are inactive in SVE only.
Init == /\ fn \in Routines
        /\ \E a \in Operands(fn) :
              IF fn[1] = "" THEN args = <<a>>
              ELSE \E b \in Beside(fn) : args = <<a, [i \in DOMAIN a |-> b]>>
        /\ pg \in [DOMAIN args -> IF fn[1] = "sv" THEN BOOLEAN ELSE {TRUE}]
        /\ pc = "main"
        /\ lanes = <<>> /\ res = <<>>

\* v_any, svptest: is a lane special, of those that the test looks at?
AnySpecial == \E i \in DOMAIN args : lanes'[i].special /\ (pg[i] \/ lanes'[i].all)
Main ==
    /\ pc = "main"
    /\ lanes' = [i \in DOMAIN args |-> Evaluate(fn, args[i])]
    /\ res' = [i \in DOMAIN args |-> lanes'[i].fast]
    /\ pc' = IF AnySpecial THEN "special" ELSE "done"
    /\ UNCHANGED <<fn, args, pg>>

\* A mutant: the other lanes' results lost.
SpecialOnly ==
    /\ pc = "special"
    /\ res' = [i \in {j \in DOMAIN args : lanes[j].special} |-> lanes[i].slow]
    /\ pc' = "done"
    /\ UNCHANGED <<fn, args, pg, lanes>>
\* The special case, of which a build may leave what code does not say.
Special ==
    /\ pc = "special"
    /\ \E build \in {"slow", "other"} : res' = [i \in DOMAIN args |-> lanes[i][build]]
    /\ pc' = "done"
    /\ UNCHANGED <<fn, args, pg, lanes>>

Next == Main \/ Special
Spec == Init /\ [][Next]_vars

-----------------------------------------------------------------------------
(* What the math routines promise: the kind, the sign and the exponent of  *)
(* the function's value, from the operand alone and in one formula for     *)
(* every path of the code.                                                 *)

\* Two numbers an exponent apart at most, of one sign.
Near(v, w) == v.c = w.c /\ v.s = w.s /\ v.k - w.k \in -1 .. 1

\* Within an eighth of a power of two, base^x.
Power(x, f) ==
    LET q == Nearest(x, f, 7)
        least == 1 - Bias(x.f) - x.f.p
    IN  IF IsNaN(x) THEN {NaN}
        ELSE {Rounded(x.f, 0, (q + d) \div 128) : d \in {-16, 16}}
             \cup {Num(0, least) : d \in {e \in {-16, 16} : (q + e) \div 128 = least - 1}}
Less(x, f, v) ==
    LET p == Power(x, f)
        q == Nearest(x, f, 7)
    IN  IF IsNaN(x) THEN v = NaN
        ELSE IF IsZero(x) THEN v.c = "zero"
        ELSE IF q < -128 THEN Near(v, Num(1, 0))
        ELSE IF q > 128 THEN \E w \in p : v = w \/ Near(v, w)
        ELSE Near(v, Num(x.s, Exponent(x)))
             \/ Near(v, Num(x.s, Exponent(x) + (IF f = Unit THEN -1 ELSE 1)))

Below0(x) == x.s = 1 /\ ~IsZero(x)
IsLog(v, s, k) == v.c = "log" /\ v.s = s /\ v.k \in {k - 1, k}
LogRight(x, v) ==
    IF IsZero(x) THEN v = Inf(1)
    ELSE IF IsNaN(x) \/ x.s = 1 THEN v = NaN
    ELSE IF IsInf(x) THEN v = Inf(0)
    ELSE IF Is1(x) THEN v = Zero(0)
    ELSE IsLog(v, IF x.h < One(x.f) THEN 1 ELSE 0, Exponent(x))
Log1pRight(x, v) ==
    IF IsNaN(x) \/ (x.s = 1 /\ x.h > One(x.f)) THEN v = NaN
    ELSE IF x.s = 1 /\ Is1(x) THEN v = Inf(1)
    ELSE IF IsInf(x) THEN v = Inf(0)
    ELSE IF IsZero(x) THEN v.c = "zero"
    ELSE IF Exponent(x) > 0 THEN IsLog(v, 0, Exponent(x)) \/ IsLog(v, 0, Exponent(x) + 1)
    ELSE \/ Near(v, Num(x.s, Exponent(x)))
         \/ /\ v.c = "log" /\ v.s = x.s
            /\ IF x.s = 0 THEN Exponent(x) = 0 /\ v.k \in {0, 1}
               ELSE Exponent(x) = -1 /\ v.k < 0

\* Of an angle of d steps from a multiple of half a turn, in a direction s; x
\* is the operand if it is small enough for its sine to be itself, if any is.
Crossing(x, near0, d, s, v) ==
    IF d > 0 THEN Near(v, Num(s, Log2(d) - 6))
    ELSE IF IsZero(x) /\ near0 THEN v.c = "zero"
    ELSE IF Exponent(x) < -6 /\ near0 THEN Near(v, Num(x.s, Exponent(x)))
    ELSE v.c = "zero" \/ (v.c = "num" /\ v.k < -5)
SinAngle(x, near0, a, v) ==
    Crossing(x, near0, IF a % 128 > 64 THEN 128 - (a % 128) ELSE a % 128,
             (a \div 128) % 2, v)
TanAngle(x, a, v) ==
    LET m == a % 128
        d == IF m > 64 THEN 128 - m ELSE m
        s == m \div 64
    IN  IF d = 64 THEN v.c = "inf" \/ (v.c = "num" /\ v.k > 4)
        ELSE IF d > 32 THEN Near(v, Num(s, 5 - Log2(64 - d)))
        ELSE Crossing(x, TRUE, d, s, v)
SinRight(x, v) == IF IsFinite(x) THEN SinAngle(x, TRUE, Signed(x, Angle(x)), v) ELSE v = NaN
CosRight(x, v) == IF IsFinite(x) THEN SinAngle(x, FALSE, Angle(x) + 64, v) ELSE v = NaN
TanRight(x, v) == IF IsFinite(x) THEN TanAngle(x, Signed(x, Angle(x)), v) ELSE v = NaN

\* Of half turns: zero at every whole number, and infinite at the halves of tan.
WholePi(x) == AnglePi(x) % 128 = 0 /\ (IsZero(x) \/ Exponent(x) >= 0)
SinPiRight(x, v) == IF ~IsFinite(x) THEN v = NaN
                    ELSE IF WholePi(x) THEN v.c = "zero"
                    ELSE SinAngle(x, TRUE, Signed(x, AnglePi(x)), v)
CosPiRight(x, v) == IF ~IsFinite(x) THEN v = NaN
                    ELSE IF AnglePi(x) % 128 = 64 THEN v.c = "zero"
                    ELSE SinAngle(x, FALSE, AnglePi(x) + 64, v)
TanPiRight(x, v) == IF ~IsFinite(x) THEN v = NaN
                    ELSE IF WholePi(x) THEN v.c = "zero"
                    ELSE IF AnglePi(x) % 128 = 64 THEN v.c = "inf"
                    ELSE TanAngle(x, Signed(x, AnglePi(x)), v)

\* An angle of n steps, 512 to a turn, or so small a one as a number.
AngleRight(class, s, n, small, v) ==
    IF v.c = class THEN v.s = s /\ Distance(v.k - n) <= 2
    ELSE n <= 2 /\ (v = small \/ Near(v, small))
Fraction(class, s, k) == Num(s, IF class = "angle" THEN k ELSE k - 2)
\* |n| / |d| in steps, d not the smaller.
Ratio(n, d) ==
    IF IsInf(d) \/ IsZero(n) \/ Exponent(d) - Exponent(n) > 7 THEN 0
    ELSE (64 * Leading16(n)) \div (Leading16(d) * 2^(Exponent(d) - Exponent(n)))
ArcSine(class, x, v) ==
    IF IsNaN(x) \/ x.h > One(x.f) THEN v = NaN
    ELSE IF IsZero(x) THEN v.c = "zero"
    ELSE AngleRight(class, x.s, Nearest(Abs(x), Unit, 7), Fraction(class, x.s, Exponent(x)), v)
ArcCos(class, x, v) ==
    LET n == Nearest(Abs(x), Unit, 7)
    IN  IF IsNaN(x) \/ x.h > One(x.f) THEN v = NaN
        ELSE IF Is1(x) /\ x.s = 0 THEN v = Zero(0)
        ELSE \/ v.c = class /\ v.s = 0 /\ Distance(v.k - (128 - Signed(x, n))) <= 2
             \/ x.s = 0 /\ n >= 126 /\ v.c = "num" /\ v.s = 0 /\ v.k < -1
ArcTan(class, x, v) ==
    LET one == Operand(x.f, 0, One(x.f))
    IN  IF IsNaN(x) THEN v = NaN
        ELSE IF IsZero(x) THEN v.c = "zero"
        ELSE AngleRight(class, x.s, IF x.h <= One(x.f) THEN Ratio(x, one) ELSE 128 - Ratio(one, x),
                        Fraction(class, x.s, Exponent(x)), v)
\* The angle of (x, y): with the sign of y, and more than a quarter turn, signed
\* zeros included, if x is negative.
Atan2Right(class, y, x, v) ==
    LET t == IF IsZero(y) THEN 0
             ELSE IF IsInf(y) /\ IsInf(x) THEN 64
             ELSE IF y.h <= x.h THEN Ratio(y, x) ELSE 128 - Ratio(x, y)
        q == Div(x.f, Val(y), Val(Abs(x)))
        small == IF q.c = "num" THEN Fraction(class, q.s, q.k) ELSE q
    IN  IF IsNaN(x) \/ IsNaN(y) THEN v = NaN
        ELSE IF x.s = 1 THEN v.c = class /\ v.s = y.s /\ Distance(v.k - (256 - t)) <= 2
        ELSE IF IsZero(y) \/ (IsInf(x) /\ ~IsInf(y)) THEN v = Zero(y.s)
        ELSE AngleRight(class, y.s, t, small, v)

\* A power's sign is that of x for an odd y.  A result below the least number
\* may be rounded to it.
Odd(y) == IsFinite(y) /\ IsInteger(y) /\ IsOddWhole(y)
MagnitudeRight(x, y, s, v) ==
    LET e == YLogX(y, Steps(x)) \div 128
        least == 1 - Bias(x.f) - x.f.p
        grows == (x.h > One(x.f)) = (y.s = 0)
    IN  IF IsZero(x) \/ IsInf(x) \/ IsInf(y) THEN v = IF grows THEN Inf(s) ELSE Zero(s)
        ELSE v = Rounded(x.f, s, e) \/ (e = least - 1 /\ v = Num(s, least))
PowRight(x, y, v) ==
    IF issignaling(x) \/ issignaling(y) THEN v = NaN
    ELSE IF IsZero(y) \/ (Is1(x) /\ x.s = 0) THEN v = One1
    ELSE IF IsNaN(x) \/ IsNaN(y) THEN v = NaN
    ELSE IF Is1(x) /\ IsInf(y) THEN v = One1
    ELSE IF Below0(x) /\ IsFinite(x) /\ IsFinite(y) /\ ~IsInteger(y) THEN v = NaN
    ELSE MagnitudeRight(x, y, IF x.s = 1 /\ Odd(y) THEN 1 ELSE 0, v)
\* powr is e^(y log x), of its domain.
PowrRight(x, y, v) ==
    IF \/ IsNaN(x) \/ IsNaN(y) \/ Below0(x)
       \/ IsZero(y) /\ (IsZero(x) \/ IsInf(x))
       \/ IsInf(y) /\ Is1(x)
    THEN v = NaN
    ELSE IF IsZero(y) THEN v = One1
    ELSE MagnitudeRight(x, y, 0, v)

\* e^|x| / 2, where e^-|x| is a small part of sinh and cosh.
HalfPower(x, s, v) ==
    LET q == Nearest(Abs(x), InvLn2, 7)
    IN  \E d \in {-16, 16} : LET w == Rounded(x.f, s, ((q + d) - 128) \div 128)
                             IN  v = w \/ Near(v, w)
SinhRight(x, v) == IF IsNaN(x) THEN v = NaN
                   ELSE IF IsInf(x) THEN v = Inf(x.s)
                   ELSE IF IsZero(x) THEN v.c = "zero"
                   ELSE IF x.h < One(x.f) THEN Near(v, Num(x.s, Exponent(x)))
                   ELSE HalfPower(x, x.s, v)
CoshRight(x, v) == IF IsNaN(x) THEN v = NaN
                   ELSE IF IsInf(x) THEN v = Inf(0)
                   ELSE IF x.h < One(x.f) THEN Near(v, One1)
                   ELSE HalfPower(x, 0, v)
TanhRight(x, v) == IF IsNaN(x) THEN v = NaN
                   ELSE IF IsZero(x) THEN v.c = "zero"
                   ELSE Near(v, Num(x.s, IF x.h < One(x.f) THEN Exponent(x) ELSE 0))
\* log(|x| + sqrt(x^2 + 1)), log(x + sqrt(x^2 - 1)), log((1 + |x|)/(1 - |x|)) / 2.
LogAmong(v, s, ks) == v.c = "log" /\ v.s = s /\ v.k \in ks
AsinhRight(x, v) == IF IsNaN(x) THEN v = NaN
                    ELSE IF IsInf(x) THEN v = Inf(x.s)
                    ELSE IF IsZero(x) THEN v.c = "zero"
                    ELSE \/ x.h < One(x.f) /\ Near(v, Num(x.s, Exponent(x)))
                         \/ Exponent(x) >= -1 /\ LogAmong(v, x.s, {Exponent(x) + 1, Exponent(x) + 2})
AcoshRight(x, v) ==
    LET E == Exponent(x)
        k == Log2(x.h % 2^x.f.m) - x.f.m
    IN  IF IsNaN(x) \/ Below0(x) \/ x.h < One(x.f) THEN v = NaN
        ELSE IF IsInf(x) THEN v = Inf(0)
        ELSE IF Is1(x) THEN v = Zero(0)
        ELSE IF E > 0 THEN LogAmong(v, 0, {E, E + 1})
        ELSE \/ Near(v, Num(0, (k + 1) \div 2))
             \/ k >= -2 /\ LogAmong(v, 0, {0, 1})
AtanhRight(x, v) ==
    LET away == 2^(x.f.m + 1) - Significand(x)
        K == x.f.m + 1 - Log2(away)
    IN  IF IsNaN(x) \/ x.h > One(x.f) THEN v = NaN
        ELSE IF Is1(x) THEN v = Inf(x.s)
        ELSE IF IsZero(x) THEN v.c = "zero"
        ELSE IF Exponent(x) = -1 THEN LogAmong(v, x.s, {K, K + 1})
        ELSE \/ Near(v, Num(x.s, Exponent(x)))
             \/ Exponent(x) >= -3 /\ LogAmong(v, x.s, {0, 1})

Right(of, x, v) ==
    CASE of \in {"exp", "exp_1u", "cr_exp"} -> v \in Power(x[1], InvLn2)
      [] of \in {"exp2", "exp2_1u"} -> v \in Power(x[1], Unit)
      [] of = "exp10" -> v \in Power(x[1], Log2Of10)
      [] of = "expm1" -> Less(x[1], InvLn2, v)
      [] of = "exp2m1" -> Less(x[1], Unit, v)
      [] of = "exp10m1" -> Less(x[1], Log2Of10, v)
      [] of \in {"log", "log2", "log10"} -> LogRight(x[1], v)
      [] of = "sin" -> SinRight(x[1], v)
      [] of = "cos" -> CosRight(x[1], v)
      [] of \in {"sincos", "cexpi"} -> SinRight(x[1], v[1]) /\ CosRight(x[1], v[2])
      [] of = "tan" -> TanRight(x[1], v)
      [] of = "sinpi" -> SinPiRight(x[1], v)
      [] of = "cospi" -> CosPiRight(x[1], v)
      [] of \in {"sincospi", "cexpipi"} -> SinPiRight(x[1], v[1]) /\ CosPiRight(x[1], v[2])
      [] of = "tanpi" -> TanPiRight(x[1], v)
      [] of = "asin" -> ArcSine("angle", x[1], v)
      [] of = "acos" -> ArcCos("angle", x[1], v)
      [] of = "atan" -> ArcTan("angle", x[1], v)
      [] of = "asinpi" -> ArcSine("turns", x[1], v)
      [] of = "acospi" -> ArcCos("turns", x[1], v)
      [] of = "atanpi" -> ArcTan("turns", x[1], v)
      [] of = "atan2" -> Atan2Right("angle", x[1], x[2], v)
      [] of = "sinh" -> SinhRight(x[1], v)
      [] of = "cosh" -> CoshRight(x[1], v)
      [] of = "tanh" -> TanhRight(x[1], v)
      [] of = "asinh" -> AsinhRight(x[1], v)
      [] of = "acosh" -> AcoshRight(x[1], v)
      [] of = "atanh" -> AtanhRight(x[1], v)
      [] of = "atan2pi" -> Atan2Right("turns", x[1], x[2], v)
      [] of \in {"log1p", "log2p1", "log10p1"} -> Log1pRight(x[1], v)
      [] of = "pow" -> PowRight(x[1], x[2], v)
      [] of = "powr" -> PowrRight(x[1], x[2], v)
-----------------------------------------------------------------------------
\* What ISO C lets errno be after a call: EDOM for a NaN made of numbers, ERANGE
\* for an infinity or a zero made of numbers that have none; and either way
\* where a result is subnormal, or where a pole of tanpi is.

Pairs == {"sincos", "cexpi", "sincospi", "cexpipi"}
Underflows(of, x) == of \in {"exp", "exp2", "exp10"} \/ (of = "pow" /\ ~IsZero(x))
Errnos(of, x, result) ==
    LET v == IF of \in Pairs THEN result[1] ELSE result
    IN  IF v.c = "nan" THEN (IF \E i \in DOMAIN x : IsNaN(x[i]) THEN {"0"} ELSE {"EDOM"})
        ELSE IF \E i \in DOMAIN x : ~IsFinite(x[i]) THEN {"0"}
        ELSE IF v.c = "inf" THEN (IF of = "tanpi" THEN {"0", "ERANGE"} ELSE {"ERANGE"})
        ELSE IF v.c = "zero" /\ Underflows(of, x[1]) THEN {"ERANGE"}
        ELSE IF v.c = "num" /\ v.k < 1 - Bias(x[1].f) THEN {"0", "ERANGE"}
        ELSE {"0"}

\* The sign of a zero or a pole: that of the operand for an odd function at
\* zero; sin of whole half turns keeps the operand's, tan changes it at every
\* other one; and cos has no negative zero, nor has a logarithm at 1.
OddFunctions == {"sin", "tan", "sinpi", "tanpi", "asin", "atan", "sinh", "tanh", "asinh", "atanh"}
                \cup {"expm1", "log1p"}
OddTurn(x) == AnglePi(x) >= 128
SignAt(of, x, v) ==
    CASE IsZero(x[1]) /\ of \in OddFunctions -> v = Zero(x[1].s)
      [] of = "sinpi" /\ v.c = "zero" -> v.s = x[1].s
      [] of = "tanpi" /\ v.c \in {"zero", "inf"} -> v.s = Xor(x[1].s, IF OddTurn(x[1]) THEN 1 ELSE 0)
      [] of = "atan2" -> v.c = "zero" => v.s = x[1].s
      [] of = "sincos" -> IsZero(x[1]) => v[1] = Zero(x[1].s)
      [] of = "sincospi" -> /\ v[1].c = "zero" => v[1].s = x[1].s
                            /\ v[2].c = "zero" => v[2].s = 0
      [] of = "pow" -> v.c \in {"zero", "inf"} => v.s = IF x[1].s = 1 /\ Odd(x[2]) THEN 1 ELSE 0
      [] OTHER -> v.c = "zero" => v.s = 0

-----------------------------------------------------------------------------
TypeOK == /\ fn[1] \in {"", "v", "sv"}
          /\ DOMAIN pg = DOMAIN args
          /\ pc \in {"main", "special", "done"}
          /\ pc # "main" => DOMAIN lanes = DOMAIN args /\ DOMAIN res = DOMAIN args

Active == {i \in DOMAIN args : pg[i]}

\* Whatever path a lane takes, its result is of the kind, sign and size of the
\* function's value there.
ResultRight == pc = "done" => \A i \in Active : Right(fn[2], args[i], res[i])

\* An active lane's result is that of a vector of its own: an ordinary lane is
\* not disturbed by a special case that its neighbours need, nor a special one
\* left without by inactive neighbours.
LaneIndependent ==
    pc = "done" => \A i \in Active :
        res[i] = IF lanes[i].special THEN lanes[i].slow ELSE lanes[i].fast

\* A lane that needs a table's entry reads within the table, and that entry,
\* for special operands too.
TablesInBounds ==
    pc = "done" => \A i \in Active : \A t \in lanes[i].tab :
        t.index \in 0 .. t.size - 1 /\ t.right

\* errno after a scalar routine is what ISO C says.
ErrnoRight ==
    pc = "done" /\ fn[1] = "" /\ fn \notin Quiet =>
        lanes[1].errno \in Errnos(fn[2], args[1], res[1])

\* Where the value is a zero, or a pole, of the function, its sign is right.
SignRight == pc = "done" /\ fn[1] = "" => SignAt(fn[2], args[1], res[1])

=============================================================================
