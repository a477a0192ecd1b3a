----------------------------- MODULE IntegerOps -----------------------------
(***************************************************************************)
(* The integral branches of Array::floor_divide, mod and power             *)
(* (src/src/array.hpp), on integers; C++'s / and % truncate.               *)
(***************************************************************************)
EXTENDS Integers

\* C++ a / b and a % b, b # 0.
Quotient(a, b) ==
    LET q == (IF a < 0 THEN -a ELSE a) \div (IF b < 0 THEN -b ELSE b)
    IN  IF (a < 0) = (b < 0) THEN q ELSE -q

Remainder(a, b) == a - b * Quotient(a, b)

\* Floor towards minus infinity; a zero divisor gives 0.
FloorDivide(a, b) ==
    IF b = 0 THEN 0
    ELSE IF Remainder(a, b) # 0 /\ (Remainder(a, b) < 0) # (b < 0)
    THEN Quotient(a, b) - 1
    ELSE Quotient(a, b)

\* The remainder takes the divisor's sign; a zero divisor gives 0.
Mod(a, b) ==
    IF b = 0 THEN 0
    ELSE IF Remainder(a, b) # 0 /\ (Remainder(a, b) < 0) # (b < 0)
    THEN Remainder(a, b) + b
    ELSE Remainder(a, b)

\* for (i = 0; i < b; ++i) result *= a: no turn for a negative b.
Power(a, b) ==
    LET turn[i \in 0 .. b] == IF i = 0 THEN 1 ELSE turn[i - 1] * a
    IN  IF b <= 0 THEN 1 ELSE turn[b]

\* Python's // and %: b times the quotient, plus a remainder between 0 and b, is a.
IsFloorDivision(a, b, q, r) ==
    /\ q * b + r = a
    /\ IF b > 0 THEN 0 <= r /\ r < b ELSE b < r /\ r <= 0
=============================================================================
