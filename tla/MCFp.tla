---------------------------------- MODULE MCFp ----------------------------------
(***************************************************************************)
(* Calls of Fp for TLC: comparisons of all words of a small format, with   *)
(* low words of zero and not; all mantissas of a format large enough for   *)
(* the product of subnormals to stay in the range of __funder, and for a   *)
(* mantissa to be longer than the bits below it in a register, and the     *)
(* exponents at which the code branches; every result that underflows, to  *)
(* 3 bits more than the format has; and all integers.                      *)
(***************************************************************************)
EXTENDS Fp

MCCalls == [fn : STRING, E : Nat, M : Nat, x : Nat, y : Int]
             \cup [fn : STRING, E : Nat, M : Nat, x : Nat, y : Int, e : Int, s : Nat]
             \cup [fn : STRING, E : Nat, M : Nat, x : Nat, y : Nat, xl : Nat, yl : Nat,
                   double : BOOLEAN, v6m : BOOLEAN]

CompareCall ==
    \E f \in Comparisons, x \in 0 .. 63, y \in 0 .. 63,
       k \in {<<FALSE, FALSE, 0, 0>>}
               \cup {<<TRUE, v, xl, yl>> : v \in BOOLEAN, xl \in 0 .. 1, yl \in 0 .. 1} :
        call = [fn |-> f, E |-> 3, M |-> 2, x |-> x, y |-> y, double |-> k[1], v6m |-> k[2],
                xl |-> k[3], yl |-> k[4]]

-----------------------------------------------------------------------------
Words(exponents) == {e * 32 + m : e \in exponents, m \in 0 .. 31}

\* Products that underflow, by each number of bits; that do not; that overflow.
MultiplyExponents ==
    {<<0, 0>>, <<0, 1>>, <<0, 14>>, <<0, 20>>, <<19, 0>>, <<0, 30>>, <<0, 31>>, <<1, 9>>, <<5, 6>>,
     <<12, 1>>, <<7, 7>>, <<14, 1>>, <<8, 8>>, <<15, 15>>, <<20, 22>>, <<28, 16>>, <<15, 30>>,
     <<23, 23>>, <<30, 30>>, <<31, 0>>, <<31, 15>>, <<31, 31>>}

MultiplyCall ==
    \E p \in MultiplyExponents, m \in 0 .. 31, n \in 0 .. 31, s \in {0, 1024} :
        call = [fn |-> "fmul", E |-> 5, M |-> 5, x |-> p[1] * 32 + m, y |-> s + p[2] * 32 + n]

\* Distances of the exponents up to where no bit is left of the smaller operand.
AddExponents ==
    {<<e, d>> \in (0 .. 31) \X (0 .. 31) : e \in {0, 1, 2, 7, 30, 31} /\ e >= d
                                             /\ (e - d <= 8 \/ d \in {0, 1})}
      \cup {<<3, 5>>, <<0, 4>>, <<14, 31>>}

AddCall ==
    \E f \in {"fadd", "fsub", "frsub"}, p \in AddExponents, m \in 0 .. 31, n \in 0 .. 31,
       s \in {<<0, 0>>, <<0, 1024>>, <<1024, 0>>} :
        call = [fn |-> f, E |-> 5, M |-> 5, x |-> s[1] + p[1] * 32 + m, y |-> s[2] + p[2] * 32 + n]

ConvertCall ==
    \E f \in {"i2f", "ui2f", "f2iz", "f2uiz"}, x \in 0 .. 2047 :
        call = [fn |-> f, E |-> 5, M |-> 5, x |-> x, y |-> 0]

-----------------------------------------------------------------------------
(* Results s * 2^e of 3 bits more than the format, first rounded to it with *)
(* the exponent bias for underflow, 12 in this format.                      *)
UnderflowCall ==
    \E f \in {"__funder", "__dunder"}, e \in 1 .. 14, s \in 128 .. 255, sign \in {0, 256} :
        LET q == HalfEven(s, 8)
        IN  call = [fn |-> f, E |-> 4, M |-> 4, x |-> sign + (e - 1) * 16 + q,
                    y |-> IF 8 * q = s THEN 0 ELSE IF 8 * q > s THEN -1 ELSE 1,
                    e |-> (e - 13) - 3, s |-> s]

MCInit == (CompareCall \/ MultiplyCall \/ AddCall \/ ConvertCall \/ UnderflowCall) /\ Init
MCSpec == MCInit /\ [][Next]_vars

=============================================================================
