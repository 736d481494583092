----------------------------------- MODULE Fp -----------------------------------
(***************************************************************************)
(* fp/: the comparisons of at32/ and armv6-m/, the addition, subtraction,  *)
(* multiplication and conversions of single precision of at32/ (in the Arm *)
(* state), and the helpers of common/ for underflow, NaNs and subnormals.  *)
(* The format is a call's: E bits of exponent and M of mantissa that, with *)
(* the sign, take up a register; 8 and 23 for a single, 11 and 20 for the  *)
(* high word of a double.  Two numbers are held against exact arithmetic,  *)
(* rounded once.                                                           *)
(***************************************************************************)
EXTENDS Integers, Bitwise, FiniteSetsExt

CONSTANT Calls   \* [fn, E, M, x, y] with, for the comparisons, xl, yl, double, v6m
                 \* and, for the underflow handler, e and s

VARIABLES call, pc,
          r0, r1, r2, r3, r12,
          flags   \* N, Z and C

vars == <<call, pc, r0, r1, r2, r3, r12, flags>>

fn == call.fn
E == call.E
M == call.M
w == 1 + E + M
Word == 0 .. 2 ^ w - 1
Top == 2 ^ (w - 1)
Lsb == 2 ^ M                       \* of the exponent
Ones == 2 ^ E - 1                  \* the exponent of infinities and NaNs
Infinity == Ones * Lsb
Quiet == 2 ^ (M - 1)

Mi(x) == x >= Top
Sign(x) == x - (x % Top)
Exponent(x) == (x % Top) \div Lsb
Opposite(x) == (x + Top) % 2 ^ w
Bit(b) == IF b THEN 1 ELSE 0

\* Shifts by a register, which may be by any number of bits, or by a negative
\* one, of which the processor sees a large byte.
Lsl(x, n) == IF n \in 0 .. w THEN (x * 2 ^ n) % 2 ^ w ELSE 0
Lsr(x, n) == IF n \in 0 .. w THEN x \div 2 ^ n ELSE 0
Clz(x) == Min({n \in 0 .. w : Lsl(x, n) >= Top \/ n = w})

\* Instructions that set the flags, and conditions on them.
Cmp(x, y) == [n |-> Mi((x - y) % 2 ^ w), z |-> x = y, c |-> x >= y]
Cmn(x, y) == [n |-> Mi((x + y) % 2 ^ w), z |-> (x + y) % 2 ^ w = 0, c |-> x + y >= 2 ^ w]
Hi(f) == f.c /\ ~f.z

Zero == [n |-> FALSE, z |-> FALSE, c |-> FALSE]
Init == /\ call \in Calls
        /\ pc = fn
        /\ r0 = call.x /\ r1 = call.y
        /\ r2 = 0 /\ r3 = 0 /\ r12 = 0
        /\ flags = Zero

Goto(label) == pc' = label /\ UNCHANGED call
Ret(x) == r0' = x /\ Goto("ret") /\ UNCHANGED <<r1, r2, r3, r12, flags>>

\* A word without its sign above an infinity's.
NaNByShift(x) == Lsl(x, 1) > 2 * Infinity

-----------------------------------------------------------------------------
(* The comparisons.  r0 and r1 are op0 and op1, or their high words.       *)

FlagFns == {"flags", "flags_eq", "flags_rev"}
BoolFns == {"bool_eq", "bool_ge", "bool_gt", "bool_le", "bool_lt"}
GnuFns == {"gnu_cmp", "gnu_rcmp"}
Comparisons == FlagFns \cup BoolFns \cup GnuFns \cup {"bool_un"}

\* flags_rev names its operands the other way round.
op0l == IF fn = "flags_rev" THEN call.yl ELSE call.xl
op1l == IF fn = "flags_rev" THEN call.xl ELSE call.yl

\* adc: the high word of a double shifted left and, in place of a bit, is the low
\* one nonzero?
Shifted(x, xl) == (2 * x + Bit(xl # 0)) % 2 ^ w
NaNByCarry(x, xl) == Hi(Cmn(Shifted(x, xl), 2 * Lsb))
IsNaN(x, xl) == IF call.double THEN NaNByCarry(x, xl) ELSE NaNByShift(x)

Unordered == /\ pc = "bool_un"
             /\ Ret(Bit(IsNaN(r0, op0l) \/ IsNaN(r1, op1l)))

\* Are all bits of the exponent set in one operand or the other?
Entry ==
    /\ pc \in FlagFns \cup BoolFns \cup GnuFns
    /\ LET any == r0 | r1
           full == Cmn(any, Lsb).n # Mi(any)
       IN  Goto(CASE ~Mi(any) /\ ~full -> "positive"
                  [] ~Mi(any) /\ full -> "NaNInf_check_positive"
                  [] Mi(any) /\ ~full -> "negative"
                  [] Mi(any) /\ full -> "NaNInf_check_negative")
    /\ IF fn = "flags_rev" THEN r0' = r1 /\ r1' = r0 ELSE UNCHANGED <<r0, r1>>
    /\ UNCHANGED <<r2, r3, r12, flags>>

Return(f, label) == /\ flags' = f
                    /\ Goto(label)
                    /\ UNCHANGED <<r0, r1, r2, r3, r12>>

\* If the high words of doubles differ at32 has a macro that relies on it.
ReturnWords(x, y, xl, yl) ==
    IF call.double
    THEN IF x # y
         THEN Return(Cmp(x, y), IF call.v6m THEN "return" ELSE "returnNE")
         ELSE Return(Cmp(xl, yl), "return")
    ELSE Return(Cmp(x, y), "return")

Positive == pc = "positive" /\ ReturnWords(r0, r1, op0l, op1l)

\* Each exponent by itself.  If neither is all ones they are not the same.
NaNInf_check_positive ==
    /\ pc = "NaNInf_check_positive"
    /\ IF Cmn(r0, Lsb).n \/ Cmn(r1, Lsb).n
       THEN Return(flags, "NaN_check_positive")
       ELSE Return(Cmp(r0, r1), "return")

\* Doubles are left shifted, which does not change their order: one is infinite.
NaN_check_positive ==
    /\ pc = "NaN_check_positive"
    /\ IF IsNaN(r0, op0l) \/ IsNaN(r1, op1l)
       THEN Return(flags, "NaN")
       ELSE IF call.double
       THEN Return(Cmp(Shifted(r0, op0l), Shifted(r1, op1l)), "return")
       ELSE Return(Cmp(r0, r1), "return")

\* Zeros are the same; other words of which one is negative compare backwards.
NeverZero == FALSE
BothZero == (2 * (r0 | r1)) % 2 ^ w = 0 /\ op0l = 0 /\ op1l = 0
Negative ==
    /\ pc = "negative"
    /\ IF BothZero
       THEN Return(Cmp(0, 0), "return")
       ELSE ReturnWords(r1, r0, op1l, op0l)

NaNInf_check_negative ==
    /\ pc = "NaNInf_check_negative"
    /\ IF IsNaN(r0, op0l) \/ IsNaN(r1, op1l)
       THEN Return(flags, "NaN")
       ELSE Return(Cmp(r1, r0), "return")

bool_eq(f) == Bit(f.z)
bool_ge(f) == Bit(f.c)
bool_gt(f) == Bit(Hi(f))
bool_le(f) == Bit(~Hi(f))
bool_lt(f) == Bit(~f.c)
gnu_cmp(f) == Bit(Hi(f)) - Bit(~f.c)
SetReturnRegister ==
    /\ pc = "return"
    /\ Ret(CASE fn = "bool_eq" -> bool_eq(flags)
             [] fn = "bool_ge" -> bool_ge(flags)
             [] fn = "bool_gt" -> bool_gt(flags)
             [] fn = "bool_le" -> bool_le(flags)
             [] fn = "bool_lt" -> bool_lt(flags)
             [] fn \in GnuFns -> gnu_cmp(flags)
             [] fn \in FlagFns -> r0)

\* NE is known: what is not HI is LO.
greaterNE(f) == Bit(Hi(f))
lessNE(f) == Bit(~Hi(f))
gnuNE(f) == IF Hi(f) THEN 1 ELSE -1
SetReturnRegisterNE ==
    /\ pc = "returnNE"
    /\ Ret(CASE fn = "bool_eq" -> 0
             [] fn \in {"bool_ge", "bool_gt"} -> greaterNE(flags)
             [] fn \in {"bool_le", "bool_lt"} -> lessNE(flags)
             [] fn \in GnuFns -> gnuNE(flags)
             [] fn \in FlagFns -> r0)

\* Flags are HI, or just not EQ.
NaN == /\ pc = "NaN"
       /\ r0' = CASE fn \in FlagFns \cup {"gnu_cmp"} -> 1
                  [] fn = "gnu_rcmp" -> -1
                  [] fn \in BoolFns -> 0
       /\ flags' = CASE fn = "flags_eq" -> [flags EXCEPT !.z = FALSE]
                     [] fn \in {"flags", "flags_rev"} -> Cmp(1, 0)
                     [] OTHER -> flags
       /\ Goto("ret")
       /\ UNCHANGED <<r1, r2, r3, r12>>

-----------------------------------------------------------------------------
(* The helpers.                                                            *)

\* Round to even what was rounded up: clear the low bit.
Even(x) == x - (x % 2)

\* The exponent bias of a result that underflowed, of which the handler is also
\* told the sign, in r1, of the exact result less r0.
Bias == 3 * 2 ^ (E - 2)
Shifting(exponent) == Bias + 1 - exponent

\* The mantissa with its leading 1, at the top of the register.
Mantissa(x) == Top + (x % Lsb) * 2 ^ E

\* To be rounded as the exact result would be.
Unadjusted(x, errsign) == Mantissa(x)
Adjusted(x, errsign) == Mantissa(x) + errsign

Underflow ==
    /\ pc \in {"__funder", "__dunder"}
    /\ LET bits_lost == Shifting(Exponent(r0))
           mantissa == Adjusted(r0, r1)
           outmant == IF bits_lost = M + 1 THEN 0 ELSE Lsr(mantissa, E + bits_lost)
           shifted_off == IF bits_lost = M + 1 THEN mantissa
                          ELSE Lsl(mantissa, w - (E + bits_lost))
       IN  Ret(IF Exponent(r0) > Bias
               THEN (r0 - Bias * Lsb) % 2 ^ w
               ELSE Sign(r0) + IF bits_lost > M + 1 THEN 0
                               ELSE IF shifted_off < Top THEN outmant
                               ELSE IF shifted_off > Top THEN outmant + 1
                               ELSE Even(outmant + 1))

\* Signalling NaNs come to the top, and quiet ones to the bottom, of the words
\* with their quiet bit inverted.
Adj(x) == (2 * x + Lsb) % 2 ^ w
SignallingFirst(x) == Adj(x) > 2 ^ w - Lsb
Fnan2 == /\ pc = "__fnan2"
         /\ Ret(IF SignallingFirst(r0) THEN r0 | Quiet
                ELSE IF SignallingFirst(r1) THEN r1 | Quiet
                ELSE IF Adj(r0) < Lsb THEN r0 ELSE r1)

\* A mantissa without a leading 1 is shifted until it has one, and its exponent
\* goes below 1.
Normal(x) == IF Exponent(x) = 0 THEN Lsl(x, E + Clz(Lsl(x, E))) ELSE Mantissa(x)
NormalExponent(x) == IF Exponent(x) = 0 THEN 1 - Clz(Lsl(x, E)) ELSE Exponent(x)
-----------------------------------------------------------------------------
(* Multiplication.  The exponent in r2 may be out of range.                *)

Uncommon(x) == Exponent(x) \in {0, Ones}

Multiply(exponents, m0, m1) ==
    /\ r0' = m0 /\ r1' = m1 /\ r2' = exponents
    /\ r12' = Sign(r0 ^^ r1)
    /\ Goto("fmul_mul") /\ UNCHANGED <<r3, flags>>

Fmul == /\ pc = "fmul" /\ ~Uncommon(r0) /\ ~Uncommon(r1)
        /\ Multiply(Exponent(r0) + Exponent(r1), Mantissa(r0), Mantissa(r1))

FmulUncommon ==
    /\ pc = "fmul" /\ (Uncommon(r0) \/ Uncommon(r1))
    /\ Ones \notin {Exponent(r0), Exponent(r1)}
    /\ IF Lsl(r0, 1) = 0 \/ Lsl(r1, 1) = 0
       THEN Ret(Sign(r0 ^^ r1))
       ELSE Multiply(NormalExponent(r0) + NormalExponent(r1), Normal(r0), Normal(r1))

FmulInfNaN ==
    /\ pc = "fmul" /\ Ones \in {Exponent(r0), Exponent(r1)}
    /\ IF NaNByShift(r0) \/ NaNByShift(r1)
       THEN Goto("__fnan2") /\ UNCHANGED <<r0, r1, r2, r3, r12, flags>>
       ELSE Ret(IF Lsl(r0 ^^ r1, 1) = 2 * Infinity
                THEN Infinity + Quiet
                ELSE Sign(r0 ^^ r1) + Infinity)

\* The upper word of the product, with a bit for what is below, and its leading
\* bit at the top.  The leading bit also adds to the exponent; so may the round bit.
NotSticky(p) == p \div 2 ^ w
Sticky(p) == (p \div 2 ^ w) | Bit(p % 2 ^ w # 0)
RoundBit(x) == (x \div 2 ^ (E - 1)) % 2
Rounded(x, exponent) == ((x \div 2 ^ E) + RoundBit(x) + exponent * Lsb) % 2 ^ w
Tie(x) == x % 2 ^ E = 2 ^ (E - 1)

FmulMul ==
    /\ pc = "fmul_mul"
    /\ LET high == Sticky(r0 * r1)
           exponent == r2 - 2 ^ (E - 1)
       IN  /\ r3' = IF Mi(high) THEN high ELSE 2 * high
           /\ r2' = exponent
           /\ r0' = LET x == Rounded(r3', exponent + Bit(Mi(high)) + (r12 \div Lsb))
                    IN  IF Tie(r3') THEN Even(x) ELSE x
           /\ Goto(IF exponent \in 0 .. Ones - 4 THEN "ret"
                   ELSE IF exponent < 0 THEN "underflow" ELSE "fmul_overflow")
    /\ UNCHANGED <<r1, r12, flags>>

\* What the mantissa was rounded to is compared with what it was.
Compared(x, y) == LET d == (x - y) % 2 ^ w
                  IN  IF d = 0 THEN 0 ELSE IF Mi(d) THEN -1 ELSE 1
FmulUnderflow == /\ pc = "underflow"
                 /\ r0' = (r0 + Bias * Lsb) % 2 ^ w
                 /\ r1' = Compared(Lsl(r3, 1), Lsl(r0', E + 1))
                 /\ Goto("__funder")
                 /\ UNCHANGED <<r2, r3, r12, flags>>

\* It may still be in range.
FmulOverflow == /\ pc = "fmul_overflow"
                /\ Ret(IF Mi(Lsl((r0 + Lsb) % 2 ^ w, 1)) THEN r0
                       ELSE Sign((r0 - Bias * Lsb) % 2 ^ w) + Infinity)

-----------------------------------------------------------------------------
(* Addition and subtraction of magnitudes.  r0 is the larger operand, r2   *)
(* its sign and exponent, r3 the distance of the exponents.                *)

Go(x, y, label) == /\ r0' = x /\ r1' = y
                   /\ Goto(label) /\ UNCHANGED <<r2, r3, r12, flags>>

\* Each function jumps into another if the signs differ, or are the same.
Differ(x, y) == Sign(x) # Sign(y)
Addsub ==
    /\ pc \in {"fadd", "fsub", "frsub"}
    /\ LET common == ~Uncommon(r0) /\ ~Uncommon(r1)
           finite == Ones \notin {Exponent(r0), Exponent(r1)}
           way == IF common THEN "magnitude" ELSE "zerodenorm"
           add == [magnitude |-> "fadd_magnitude", zerodenorm |-> "fadd_zerodenorm"][way]
           sub == [magnitude |-> "fsub_magnitude", zerodenorm |-> "fsub_zerodenorm"][way]
           Fadd(x, y) == IF Differ(x, y) THEN Go(x, Opposite(y), sub) ELSE Go(x, y, add)
           Fsub(x, y) == IF Differ(x, y) THEN Go(x, Opposite(y), add) ELSE Go(x, y, sub)
       IN  CASE ~finite /\ pc = "frsub" -> Go(r1, r0, "fsub_naninf")
             [] ~finite /\ pc = "fsub" -> Go(r0, r1, "fsub_naninf")
             [] ~finite /\ pc = "fadd" -> Go(r0, r1, "fadd_naninf")
             [] finite /\ pc = "fadd" -> Fadd(r0, r1)
             [] finite /\ pc = "fsub" -> Fsub(r0, r1)
             [] finite /\ pc = "frsub" -> IF common THEN Fadd(Opposite(r0), r1) ELSE Fsub(r1, r0)

NanInf == /\ pc \in {"fadd_naninf", "fsub_naninf"}
          /\ IF NaNByShift(r0) \/ NaNByShift(r1) THEN Go(r0, r1, "__fnan2")
             ELSE Go(r0, IF pc = "fsub_naninf" THEN Opposite(r1) ELSE r1, "fadd_inf")

FaddInf == /\ pc = "fadd_inf"
           /\ Ret(IF r0 ^^ r1 = Top THEN Top - Quiet
                  ELSE IF Lsl(r0, 1) = 2 * Infinity THEN r0 ELSE r1)

\* The larger operand first; in a subtraction both change sign when they swap.
Subtracting == pc \in {"fsub_magnitude", "fsub_zerodenorm"}
Larger == IF r0 >= r1 THEN r0 ELSE IF Subtracting THEN Opposite(r1) ELSE r1
Smaller == IF r0 >= r1 THEN r1 ELSE IF Subtracting THEN Opposite(r0) ELSE r0

Operands(m0, m1, distance) ==
    /\ r0' = m0 /\ r1' = m1
    /\ r2' = Larger \div Lsb
    /\ r3' = distance
    /\ Goto(IF Subtracting THEN "fsub_dosub" ELSE "fadd_doadd")
    /\ UNCHANGED <<r12, flags>>

Magnitude == /\ pc \in {"fadd_magnitude", "fsub_magnitude"}
             /\ Operands(Mantissa(Larger), Mantissa(Smaller), Exponent(Larger) - Exponent(Smaller))

\* The smaller operand is zero or subnormal, of which the exponent is really 1.
UnequalDistance(x) == Exponent(x)
DenormDistance(x) == IF Exponent(x) = 0 THEN 0 ELSE Exponent(x) - 1
ZeroDenorm ==
    /\ pc \in {"fadd_zerodenorm", "fsub_zerodenorm"}
    /\ CASE Lsl(Smaller, E) = 0 ->
              Ret(IF Subtracting /\ Lsl(Larger, 1) = 0 THEN 0 ELSE Larger)
         [] Lsl(Smaller, E) # 0 /\ Exponent(Larger) = 0 /\ ~Subtracting ->
              Ret((Lsl(Larger, E) + Lsl(Smaller, E)) \div 2 ^ E + Sign(Larger))
         [] OTHER ->
              Operands(IF Exponent(Larger) = 0 THEN Lsl(Larger, E) ELSE Mantissa(Larger),
                       Lsl(Smaller, E), DenormDistance(Larger))

\* Of the bits of the smaller operand that were shifted out, is none set?
AllShifted == Lsl(r1, w - r3) = 0

\* On the way a result may seem to be a tie that the bits shifted out decide: an
\* addition has then rounded rightly, a subtraction up what was below the tie.
FaddDoadd ==
    /\ pc = "fadd_doadd"
    /\ LET sum == r0 + Lsr(r1, r3)
           x == Rounded(sum, r2 - 1)
       IN  IF sum >= 2 ^ w
           THEN r12' = sum - 2 ^ w /\ Goto("fadd_carry") /\ UNCHANGED <<r0, r1, r2, r3, flags>>
           ELSE Ret(IF Tie(sum) /\ AllShifted THEN Even(x) ELSE x)

FaddCarry ==
    /\ pc = "fadd_carry"
    /\ LET half == Top + (r12 \div 2)
           x == Rounded(half, r2)
           even == IF RoundBit(half) = 1 /\ r12 % 2 ^ E = 0 /\ AllShifted THEN Even(x) ELSE x
       IN  Ret(IF Lsl(x, 1) >= 2 * Infinity THEN x - (x % Lsb) ELSE even)

FsubNoRoundeven(x, tie) == IF tie THEN Even(x) ELSE x
FsubRoundeven(x, tie) == IF ~tie THEN x ELSE IF AllShifted THEN Even(x) ELSE x - 1

\* asr: -1 from the exponent, for a mantissa shifted up by 1.
Asr(x) == x - 2 ^ w

FsubDosub ==
    /\ pc = "fsub_dosub"
    /\ r12' = r0 - Lsr(r1, r3)
    /\ Goto(IF Mi(r12') THEN "fsub_renorm_0"
            ELSE IF r2 % 2 ^ E > 1 /\ Mi(Lsl(r12', 1)) THEN "fsub_renorm_1"
            ELSE IF r2 % 2 ^ E > 1 /\ r12' # 0 THEN "fsub_renorm_orunder"
            ELSE "fsub_underflow")
    /\ UNCHANGED <<r0, r1, r2, r3, flags>>

FsubRenorm0 == /\ pc = "fsub_renorm_0"
               /\ Ret(FsubRoundeven(Rounded(r12, r2 - 1), Tie(r12)))

FsubRenorm1 ==
    /\ pc = "fsub_renorm_1"
    /\ LET m == Lsl(r12, 1)
       IN  Ret(FsubRoundeven(Rounded(Asr(m), r2), RoundBit(m) = 1 /\ r12 % 2 ^ (E - 2) = 0))

\* No bit of the mantissa, already shifted up by 1, is lost; lsr by 2 makes the
\* count of its zeros what the exponent has to lose.
RenormAll(x) == Clz(x)
Renorm(x) == Clz(Lsr(x, 2))
FsubRenormOrunder ==
    /\ pc = "fsub_renorm_orunder"
    /\ LET m == Lsr(Lsl(r12, 1), 2)
           norm == Lsr(Lsl(m, Clz(m)), E)
           exponent == r2 - Renorm(Lsl(r12, 1))
           sign == r2 \div 2 ^ E
       IN  Ret(IF m = 0 THEN 0
               ELSE IF exponent \div 2 ^ E = sign THEN (norm + exponent * Lsb) % 2 ^ w
               ELSE Lsr(norm, (-exponent) % 2 ^ E) + sign * Top)

\* Zero is +0.
FsubUnderflow ==
    /\ pc = "fsub_underflow"
    /\ Ret(IF Lsr(r12, E) = 0 THEN 0 ELSE Lsr(r12, E) + (r2 \div 2 ^ E) * Top)

-----------------------------------------------------------------------------
(* Conversions from and to integers of w bits.                             *)

\* The exponent of an integer whose top bit is set.
Exponent0 == (2 ^ (E - 1) - 1) + (w - 1)

FromInteger(n, sign) ==
    LET m == Lsl(n, Clz(n))
        x == Rounded(m, (Exponent0 - 1) - Clz(n)) + sign
    IN  IF n = 0 THEN 0 ELSE IF Tie(m) THEN Even(x) ELSE x

I2f == pc = "i2f" /\ Ret(FromInteger(IF Mi(r0) THEN (-r0) % 2 ^ w ELSE r0, Sign(r0)))
Ui2f == pc = "ui2f" /\ Ret(FromInteger(r0, 0))

F2iz ==
    /\ pc = "f2iz"
    /\ LET shift == Exponent0 - Exponent(r0)
           n == Lsr(Mantissa(r0), shift)
       IN  Ret(IF shift > 0 THEN (IF Mi(r0) THEN (-n) % 2 ^ w ELSE n)
               ELSE IF NaNByShift(r0) THEN 0
               ELSE IF Mi(r0) THEN Top ELSE Top - 1)

\* The sign makes the exponent too large.
F2uiz ==
    /\ pc = "f2uiz"
    /\ LET shift == Exponent0 - (r0 \div Lsb)
       IN  Ret(IF shift >= 0 THEN Lsr(Mantissa(r0), shift)
               ELSE IF Mi(r0) \/ NaNByShift(r0) THEN 0
               ELSE 2 ^ w - 1)

Next == \/ Unordered \/ Entry \/ Positive \/ NaNInf_check_positive \/ NaN_check_positive
        \/ Negative \/ NaNInf_check_negative
        \/ SetReturnRegister \/ SetReturnRegisterNE \/ NaN
        \/ Underflow \/ Fnan2
        \/ Fmul \/ FmulUncommon \/ FmulInfNaN \/ FmulMul \/ FmulUnderflow \/ FmulOverflow
        \/ Addsub \/ NanInf \/ FaddInf \/ Magnitude \/ ZeroDenorm
        \/ FaddDoadd \/ FaddCarry
        \/ FsubDosub \/ FsubRenorm0 \/ FsubRenorm1 \/ FsubRenormOrunder \/ FsubUnderflow
        \/ I2f \/ Ui2f \/ F2iz \/ F2uiz

Spec == Init /\ [][Next]_vars

-----------------------------------------------------------------------------
(* What IEEE 754 says, of numbers as significands s by powers of 2, in     *)
(* units of the smallest subnormal.                                        *)

AnyNaN(x, xl) == x % Top > Infinity \/ (x % Top = Infinity /\ xl # 0)
Significand(x) == IF Exponent(x) = 0 THEN x % Lsb ELSE Lsb + (x % Lsb)
Power(x) == IF Exponent(x) = 0 THEN 0 ELSE Exponent(x) - 1

HalfEven(s, d) == LET q == s \div d
                      r == 2 * (s % d)
                  IN  IF r > d \/ (r = d /\ q % 2 = 1) THEN q + 1 ELSE q

\* The nearest number to s * 2^k, by the even one if two are, or infinity.
BitLength(s) == Min({n \in 0 .. 30 : s < 2 ^ n})
Nearest(s, k) ==
    LET u == Max({0, (k + BitLength(s)) - (M + 1)})
        q == IF k >= u THEN s * 2 ^ (k - u)
             ELSE IF u - k > BitLength(s) + 1 THEN 0
             ELSE HalfEven(s, 2 ^ (u - k))
    IN  IF s = 0 THEN 0 ELSE Min({u * Lsb + q, Infinity})

\* The NaN that two operands give: a signalling one, made quiet, before a quiet one.
Signalling(x) == AnyNaN(x, 0) /\ x % Lsb < Quiet
NaNOf(x, y) == LET chosen == CASE Signalling(x) -> x
                               [] ~Signalling(x) /\ Signalling(y) -> y
                               [] OTHER -> IF AnyNaN(x, 0) THEN x ELSE y
               IN  chosen | Quiet
DefaultNaN == Infinity + Quiet

One == 2 ^ (E - 1) - 2 + M         \* the power of 1 in those units, as an integer's
Product(x, y) ==
    LET sign == Sign(x ^^ y)
    IN  IF AnyNaN(x, 0) \/ AnyNaN(y, 0) THEN NaNOf(x, y)
        ELSE IF Infinity \in {x % Top, y % Top}
        THEN IF 0 \in {x % Top, y % Top} THEN DefaultNaN ELSE sign + Infinity
        ELSE sign + Nearest(Significand(x) * Significand(y), (Power(x) + Power(y)) - One)

\* Distances of exponents further than Far leave the smaller operand far below a tie.
Far == M + 4
SumOf(x, y, by) ==
    LET d == Min({Power(x) - Power(y), Far})
        sx == Significand(x) * 2 ^ d
        s == IF Differ(x, by) THEN sx - Significand(y) ELSE sx + Significand(y)
    IN  IF s = 0 THEN (IF Mi(x) /\ Mi(by) THEN Top ELSE 0)
        ELSE (IF s < 0 THEN Opposite(Sign(x)) ELSE Sign(x))
                + Nearest(IF s < 0 THEN -s ELSE s, Power(x) - d)
Sum(x, y) ==
    IF AnyNaN(x, 0) \/ AnyNaN(y, 0) THEN NaNOf(x, y)
    ELSE IF x % Top = Infinity
    THEN IF y = Opposite(x) THEN DefaultNaN ELSE x
    ELSE IF y % Top = Infinity THEN y
    ELSE IF Power(x) >= Power(y) THEN SumOf(x, y, y) ELSE SumOf(y, x, x)
Difference(x, y) == IF AnyNaN(x, 0) \/ AnyNaN(y, 0) THEN NaNOf(x, y) ELSE Sum(x, Opposite(y))

\* Towards zero, and the largest or smallest integer if it is out of range.
Truncated(x) == LET k == Power(x) - One
                IN  IF k >= 0 THEN Significand(x) * 2 ^ Min({k, w})
                    ELSE Significand(x) \div 2 ^ Min({-k, w})
ToInteger(x, lo, hi) ==
    IF AnyNaN(x, 0) THEN 0
    ELSE IF Mi(x) THEN Max({-Truncated(x), lo}) % 2 ^ w
    ELSE Min({Truncated(x), hi})

Arithmetic == CASE fn = "fmul" -> Product(call.x, call.y)
                [] fn = "fadd" -> Sum(call.x, call.y)
                [] fn = "fsub" -> Difference(call.x, call.y)
                [] fn = "frsub" -> Difference(call.y, call.x)
                [] fn = "i2f" -> Sign(call.x) + Nearest(IF Mi(call.x) THEN 2 ^ w - call.x ELSE call.x, One)
                [] fn = "ui2f" -> Nearest(call.x, One)
                [] fn = "f2iz" -> ToInteger(call.x, -Top, Top - 1)
                [] fn = "f2uiz" -> ToInteger(call.x, 0, 2 ^ w - 1)
                [] fn \in {"__funder", "__dunder"} -> Sign(call.x) + Nearest(call.s, call.e)

\* At ret arithmetic has given the exact result rounded once, though the code
\* rounds before it knows whether it has lost bits, overflowed or underflowed;
\* zeros have the right sign, and NaNs come through as the quiet NaN of an operand.
ArithmeticRight == (pc = "ret" /\ fn \notin Comparisons) => r0 = Arithmetic

-----------------------------------------------------------------------------
\* The order of two numbers, which is not that of their words.
Value(x, xl) == LET magnitude == (x % Top) * 16 + xl IN IF Mi(x) THEN -magnitude ELSE magnitude
Vx == Value(call.x, call.xl)
Vy == Value(call.y, call.yl)
AreUnordered == AnyNaN(call.x, call.xl) \/ AnyNaN(call.y, call.yl)

\* At ret a comparison has found the order of the operands, whatever their signs,
\* with the zeros equal, and whichever of the three tiers of tests for NaNs they
\* passed: in r0, or in the flags, which are those of a comparison of the words
\* of ordered operands, HI or NE if there is a NaN.
ComparesRight ==
    (pc = "ret" /\ fn \in Comparisons) =>
        CASE fn = "bool_un" -> r0 = Bit(AreUnordered)
          [] fn = "bool_eq" -> r0 = Bit(~AreUnordered /\ Vx = Vy)
          [] fn = "bool_ge" -> r0 = Bit(~AreUnordered /\ Vx >= Vy)
          [] fn = "bool_gt" -> r0 = Bit(~AreUnordered /\ Vx > Vy)
          [] fn = "bool_le" -> r0 = Bit(~AreUnordered /\ Vx <= Vy)
          [] fn = "bool_lt" -> r0 = Bit(~AreUnordered /\ Vx < Vy)
          [] fn \in GnuFns ->
               r0 = IF AreUnordered THEN (IF fn = "gnu_cmp" THEN 1 ELSE -1)
                    ELSE Bit(Vx > Vy) - Bit(Vx < Vy)
          [] fn = "flags_eq" -> flags.z = (~AreUnordered /\ Vx = Vy)
          [] fn = "flags" -> /\ Hi(flags) = (AreUnordered \/ Vx > Vy)
                             /\ flags.c = (AreUnordered \/ Vx >= Vy)
          [] fn = "flags_rev" -> /\ Hi(flags) = (AreUnordered \/ Vy > Vx)
                                 /\ flags.c = (AreUnordered \/ Vy >= Vx)

=============================================================================
