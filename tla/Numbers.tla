------------------------------ MODULE Numbers ------------------------------
(***************************************************************************)
(* The three element types of an Array (enum DType of src/src/array.hpp)   *)
(* and the arithmetic the machine does on them: int64 in two's complement, *)
(* float64 and float32 with rounding to nearest even. Only the widths are  *)
(* smaller. Every number is an integer count of 2^-Frac; the sign of a     *)
(* zero is left out.                                                       *)
(***************************************************************************)
EXTENDS Integers, FiniteSetsExt

CONSTANTS
    Bits,       \* width of int64
    Frac,       \* 2^-Frac is the smallest positive number of each float type
    Precision,  \* bits of the significand, per float type
    TopUnit     \* exponent of the largest unit in the last place, per float type

\* int64 has 2.
ASSUME WidthAssumption == Bits \in Nat \ (0 .. 2) /\ Frac \in Nat
ASSUME FormatAssumption ==
    /\ Precision \in [{"f64", "f32"} -> Nat \ {0}] /\ TopUnit \in [{"f64", "f32"} -> Nat]
    /\ Precision["f32"] <= Precision["f64"] /\ TopUnit["f32"] <= TopUnit["f64"]

\* The largest numbers of each float type are integers.
ASSUME IntegersAssumption == \A f \in {"f64", "f32"} : Frac < TopUnit[f]

DTypes == {"f64", "f32", "i64"}
One == 2 ^ Frac
Inf == 2 ^ 28               \* above every finite number
NaN == Inf + 1              \* compared only through the operators below

ASSUME InfAssumption ==
    /\ \A f \in {"f64", "f32"} : 2 ^ (Precision[f] + TopUnit[f]) <= Inf
    /\ 2 ^ (Bits - 1) * One < Inf

Abs(v) == IF v < 0 THEN -v ELSE v
Sign(v) == IF v < 0 THEN -1 ELSE IF v > 0 THEN 1 ELSE 0
IsFinite(v) == Abs(v) < Inf
Less(a, b) == NaN \notin {a, b} /\ a < b

IntMin == -(2 ^ (Bits - 1)) * One
IntMax == (2 ^ (Bits - 1) - 1) * One

\* int64 arithmetic wraps around.
Wrap(v) == ((v - IntMin) % (2 ^ Bits * One)) + IntMin

\* The number of float type f nearest to num/den (den > 0), ties to even.
Nearest(f, num, den) ==
    LET mag  == Abs(num)
        fits == {e \in 0 .. TopUnit[f] : mag < 2 ^ (Precision[f] + e) * den}
        unit == 2 ^ (IF fits = {} THEN TopUnit[f] ELSE Min(fits))
        low  == mag \div (den * unit)
        rest == 2 * (mag % (den * unit)) - den * unit
        near == unit * (IF rest > 0 \/ (rest = 0 /\ low % 2 = 1) THEN low + 1 ELSE low)
    IN  Sign(num) * (IF near < 2 ^ (Precision[f] + TopUnit[f]) THEN near ELSE Inf)

\* Is v a value of type t?
Representable(t, v) ==
    IF t = "i64" THEN v % One = 0 /\ IntMin <= v /\ v <= IntMax
                 ELSE ~IsFinite(v) \/ v = Nearest(t, v, 1)

FAdd(f, a, b) ==
    IF NaN \in {a, b} \/ (~IsFinite(a) /\ a = -b) THEN NaN
    ELSE IF ~IsFinite(a) THEN a
    ELSE IF ~IsFinite(b) THEN b
    ELSE Nearest(f, a + b, 1)

FNeg(a) == IF a = NaN THEN NaN ELSE -a

FMul(f, a, b) ==
    CASE NaN \in {a, b} \/ (0 \in {a, b} /\ ~(IsFinite(a) /\ IsFinite(b))) -> NaN
      [] IsFinite(a) /\ IsFinite(b) -> Nearest(f, a * b, One)
      [] OTHER -> Sign(a) * Sign(b) * Inf

FDiv(f, a, b) ==
    IF NaN \in {a, b} \/ (a = 0 /\ b = 0) \/ ~(IsFinite(a) \/ IsFinite(b)) THEN NaN
    ELSE IF b = 0 THEN Sign(a) * Inf
    ELSE IF ~IsFinite(b) THEN 0
    ELSE IF ~IsFinite(a) THEN Sign(a) * Sign(b) * Inf
    ELSE Nearest(f, Sign(b) * a * One, Abs(b))

\* std::fmod: exact, with the sign of a.
FMod(a, b) ==
    IF NaN \in {a, b} \/ ~IsFinite(a) \/ b = 0 THEN NaN
    ELSE IF ~IsFinite(b) THEN a
    ELSE Sign(a) * (Abs(a) % Abs(b))

\* std::pow, for the exponents -1, 0, 1 and 2.
FPow(f, a, n) ==
    CASE n = 0 -> One [] n = One -> a [] n = 2 * One -> FMul(f, a, a)
      [] n = -One -> FDiv(f, One, a)

\* std::floor, ceil, trunc and rint.
FFloor(a) == IF IsFinite(a) THEN a - (a % One) ELSE a
FCeil(a)  == IF IsFinite(a) THEN -FFloor(-a) ELSE a
FTrunc(a) == IF a < 0 THEN FCeil(a) ELSE FFloor(a)
FRint(a)  ==
    LET low == FFloor(a)
    IN  CASE ~IsFinite(a) -> a
          [] IsFinite(a) /\ 2 * (a - low) < One -> low
          [] IsFinite(a) /\ 2 * (a - low) > One -> low + One
          [] OTHER -> IF low % (2 * One) = 0 THEN low ELSE low + One

\* static_cast to type t; a double outside int64 becomes the smallest integer, as
\* the conversion of x86-64 has it.
Cast(t, v) ==
    IF t = "i64"
    THEN LET n == FTrunc(v) IN IF IntMin <= n /\ n <= IntMax THEN n ELSE IntMin
    ELSE IF IsFinite(v) THEN Nearest(t, v, 1) ELSE v
=============================================================================
