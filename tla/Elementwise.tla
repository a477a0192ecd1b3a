---------------------------- MODULE Elementwise ----------------------------
(***************************************************************************)
(* One element of an Array through a program of constructors and           *)
(* element-wise calls: arange and linspace (src/hpxpy/__init__.py), the    *)
(* overloads of the bindings (src/src/_core.cpp) and the kernels they      *)
(* reach (src/src/array.hpp), dtype promotion and errors included. The     *)
(* program goes on with each call's result.                                *)
(*                                                                         *)
(* HPX applies a kernel to each element independently, so one element is   *)
(* enough. sqrt, exp, log, sin, cos and tan take the same path as floor    *)
(* and are left out with their values.                                     *)
(***************************************************************************)
EXTENDS Numbers

CONSTANTS
    Elements,   \* the elements [dt, v] a program starts from or combines with
    Scalars,    \* Python numbers [float, v]
    Exponents,  \* the numbers used as exponents
    Ends,       \* the numbers an arange starts and stops at
    Steps,      \* the steps of an arange
    Counts      \* the lengths of a linspace

VARIABLES
    x,          \* the element of the program's array: [dt, v]
    last        \* the latest call: its operation, arguments and result

vars == <<x, last>>

Ints == INSTANCE IntegerOps

Element(t, v) == [dt |-> t, v |-> v]
Raised  == Element("raised", 0)     \* a Python exception
Trapped == Element("trapped", 0)    \* SIGFPE: the process is gone
Empty   == Element("empty", 0)      \* an array without elements
Trap == NaN + 1                     \* what a kernel yields for that

\* A program is given values of the element types, numbers (a Python float is a
\* double; the bindings read an int beyond int64 as one), exponents FPow knows,
\* and lengths a double holds.
ASSUME ArgumentsAssumption ==
    /\ \A e \in Elements :
          e = Element(e.dt, e.v) /\ e.dt \in DTypes /\ e.v \in -Inf .. NaN /\ Representable(e.dt, e.v)
    /\ \A s \in Scalars \cup Ends \cup Steps :
          /\ s.float \in BOOLEAN /\ s.v \in -Inf .. NaN
          /\ Representable(IF s.float THEN "f64" ELSE "i64", s.v)
    /\ Exponents \subseteq {-One, 0, One, 2 * One}
    /\ \A n \in Counts : n \in Nat /\ n * One < Inf

ArrayOps   == {"add", "sub", "mul", "div", "maximum", "minimum", "power", "mod", "floor_divide"}
ScalarOps  == {"add", "sub", "rsub", "mul", "div", "rdiv", "power", "mod", "floor_divide"}
UnaryOps   == {"negative", "abs", "sign", "floor", "ceil", "trunc", "round"}

Init == x = Empty /\ last = [op |-> "none", res |-> x]

\* A call yields a new array (or an exception) and leaves x alone.
Call(call) == last' = call /\ UNCHANGED x

\* The program goes on with the result: x = x.op(...). After an exception, or
\* with an array without elements, it goes on with x.
Assign ==
    /\ last.op # "none" /\ last.res # Trapped
    /\ x' = IF last.res \in {Raised, Empty} THEN x ELSE last.res
    /\ last' = [op |-> "none", res |-> x']

-----------------------------------------------------------------------------
(* The kernels, at element type t *)

\* The integer of an int64 element, and the element of an integer result.
ToInt(v) == v \div One
OfInt(n) == Wrap(n * One)

\* Division of INT_MIN by -1 traps; so would a division by zero.
Divides(a, b) == b # 0 /\ ~(a = IntMin /\ b = -One)

\* Mutant: the zero divisor is not tested.
FloorDivideUntested(t, a, b) ==
    CASE t = "i64" -> IF Divides(a, b) THEN OfInt(Ints!FloorDivide(ToInt(a), ToInt(b))) ELSE Trap
      [] t # "i64" -> FFloor(FDiv(t, a, b))

FloorDivide(t, a, b) ==
    CASE t = "i64" -> IF b = 0 \/ Divides(a, b) THEN OfInt(Ints!FloorDivide(ToInt(a), ToInt(b))) ELSE Trap
      [] t # "i64" -> FFloor(FDiv(t, a, b))

Mod(t, a, b) ==
    IF t = "i64"
    THEN IF b = 0 \/ Divides(a, b) THEN OfInt(Ints!Mod(ToInt(a), ToInt(b))) ELSE Trap
    ELSE LET r == FMod(a, b)
         IN  IF r # 0 /\ Less(r, 0) # Less(b, 0) THEN FAdd(t, r, b) ELSE r

Power(t, a, b) == IF t = "i64" THEN OfInt(Ints!Power(ToInt(a), ToInt(b))) ELSE FPow(t, a, b)

Add(t, a, b) == IF t = "i64" THEN Wrap(a + b) ELSE FAdd(t, a, b)
Sub(t, a, b) == IF t = "i64" THEN Wrap(a - b) ELSE FAdd(t, a, FNeg(b))
Mul(t, a, b) == IF t = "i64" THEN Wrap((a \div One) * b) ELSE FMul(t, a, b)

\* The functor of operation op; the division is of floats only.
Kernel(op, t, a, b) ==
    CASE op = "add"  -> Add(t, a, b)
      [] op = "sub"  -> Sub(t, a, b)
      [] op = "rsub" -> Sub(t, b, a)
      [] op = "mul"  -> Mul(t, a, b)
      [] op = "div"  -> FDiv(t, a, b)
      [] op = "rdiv" -> FDiv(t, b, a)
      [] op = "maximum" -> IF Less(b, a) THEN a ELSE b
      [] op = "minimum" -> IF Less(a, b) THEN a ELSE b
      [] op = "power" -> Power(t, a, b)
      [] op = "mod" -> Mod(t, a, b)
      [] op = "floor_divide" -> FloorDivide(t, a, b)

Result(op, t, a, b) ==
    LET v == Kernel(op, t, Cast(t, a), Cast(t, b))
    IN  IF v = Trap THEN Trapped ELSE Element(t, v)

-----------------------------------------------------------------------------
(* Array with array *)

\* Mutant: a float32 operand makes the result float32.
PromoteNarrow(a, b) == IF a = b THEN a ELSE IF "f32" \in {a, b} THEN "f32" ELSE "f64"

promote(a, b) == IF "f64" \notin {a, b} /\ a = b THEN a ELSE "f64"

div_result_dtype(a, b) == IF promote(a, b) = "i64" THEN "f64" ELSE promote(a, b)

\* binary(): both operands are cast to the promoted type; div() to its own.
Binary(op, b) ==
    /\ op = "power" => b.v \in Exponents
    /\ LET t == IF op = "div" THEN div_result_dtype(x.dt, b.dt) ELSE promote(x.dt, b.dt)
       IN  Call([op |-> op, a |-> x, b |-> b, res |-> Result(op, t, x.v, b.v)])

-----------------------------------------------------------------------------
(* Array with a Python number *)

\* Arithmetic keeps the dtype for an int, and promotes int64 for a float;
\* division is of floats, and reads an int as a double first.
ScalarArith(op, s) ==
    LET t == IF x.dt = "i64" /\ (s.float \/ op \in {"div", "rdiv"}) THEN "f64" ELSE x.dt
        v == IF op \in {"div", "rdiv"} THEN Cast("f64", s.v) ELSE s.v
    IN  Result(op, t, x.v, v)

\* Mutant: a fraction is cut off.
ScalarUnaryCuts(op, s) == Result(op, x.dt, x.v, Cast("f64", s.v))

\* Power, mod and floor division take every number as a double, keep the dtype,
\* and refuse a fraction (or a NaN) on int64.
ScalarUnary(op, s) ==
    LET v == Cast("f64", s.v)
    IN  IF x.dt = "i64" /\ (v = NaN \/ v # FFloor(v)) THEN Raised
        ELSE Result(op, x.dt, x.v, v)

Scalar(op, s) ==
    /\ op = "power" => s.v \in Exponents
    /\ Call([op |-> op, a |-> x, s |-> s,
              res |-> IF op \in {"power", "mod", "floor_divide"}
                      THEN ScalarUnary(op, s) ELSE ScalarArith(op, s)])

\* clip(lo, hi): the bounds are read as doubles and become elements first.
Clip(lo, hi) ==
    LET l == Cast(x.dt, Cast("f64", lo))
        h == Cast(x.dt, Cast("f64", hi))
        v == IF Less(x.v, l) THEN l ELSE x.v
    IN  Call([op |-> "clip", a |-> x, lo |-> lo, hi |-> hi,
               res |-> Element(x.dt, IF Less(h, v) THEN h ELSE v)])

\* a[i] = s: every number goes through a double.
SetItem(s) ==
    Call([op |-> "setitem", a |-> x, s |-> s,
           res |-> Element(x.dt, Cast(x.dt, Cast("f64", s.v)))])

-----------------------------------------------------------------------------
(* One array *)

\* Mutant: std::round, which rounds halves away from zero.
RoundAway(v) == IF IsFinite(v) THEN Sign(v) * FFloor(Abs(v) + One \div 2) ELSE v
RoundHalfEven(v) == FRint(v)

\* negative, abs and sign keep the dtype; the others make a float of an int.
UnaryValue(op, t, v) ==
    CASE op = "negative" -> IF t = "i64" THEN Wrap(-v) ELSE FNeg(v)
      [] op = "abs"   -> IF t = "i64" THEN Wrap(Abs(v)) ELSE Abs(v)
      [] op = "sign"  -> IF Less(0, v) THEN One ELSE IF Less(v, 0) THEN -One ELSE 0
      [] op = "floor" -> FFloor(v)
      [] op = "ceil"  -> FCeil(v)
      [] op = "trunc" -> FTrunc(v)
      [] op = "round" -> RoundHalfEven(v)

Unary(op) ==
    LET t == IF x.dt = "i64" /\ op \notin {"negative", "abs", "sign"} THEN "f64" ELSE x.dt
    IN  Call([op |-> op, a |-> x, res |-> Element(t, UnaryValue(op, t, Cast(t, x.v)))])

\* Mutant: the dtype changes and the data does not.
AsTypeRelabels(t) ==
    Call([op |-> "astype", a |-> x, res |-> Element(t, x.v)])

AsType(t) ==
    Call([op |-> "astype", a |-> x, res |-> Element(t, Cast(t, x.v))])

-----------------------------------------------------------------------------
(* Constructors: element i of a new array *)

\* Two doubles' ramp, cast to t: start + i * step.
RampElement(t, start, step, i) ==
    Element(t, Cast(t, FAdd("f64", start, FMul("f64", Cast("f64", i * One), step))))

\* from_numpy and full: any element.
FromNumpy(e) == Call([op |-> "from_numpy", res |-> e])

\* Mutant: the quotient is cut off.
ArangeLengthCuts(count) == Max({0, FTrunc(count) \div One})

ArangeLength(count) == Max({0, FCeil(count) \div One})

\* arange(start, stop, step, dtype): integers are subtracted as Python integers
\* and their exact quotient is rounded to a double; beside a float they become
\* doubles first. math.ceil refuses what is not finite.
Arange(start, stop, step, dtype) ==
    LET float == start.float \/ stop.float \/ step.float
        t     == IF dtype # "none" THEN dtype ELSE IF float THEN "f64" ELSE "i64"
        Double(s) == Cast("f64", s.v)
        span  == IF start.float \/ stop.float
                 THEN FAdd("f64", Double(stop), FNeg(Double(start))) ELSE stop.v - start.v
        count == IF float THEN FDiv("f64", Cast("f64", span), Double(step))
                          ELSE FDiv("f64", span, step.v)
        n     == ArangeLength(count)
        Made(k, i, res) == Call([op |-> "arange", start |-> start, stop |-> stop, step |-> step,
                                 dtype |-> dtype, n |-> k, i |-> i, res |-> res])
    IN  IF step.v = 0 \/ ~IsFinite(count) THEN Made(0, 0, Raised)
        ELSE IF n = 0 THEN Made(0, 0, Empty)
        ELSE \E i \in 0 .. n - 1 :
             Made(n, i, RampElement(t, Double(start), Double(step), i))

\* The spacing of a linspace, a rounded quotient.
LinspaceStep(start, stop, num, endpoint) ==
    LET div == IF endpoint THEN num - 1 ELSE num
    IN  IF div > 0 THEN FDiv("f64", FAdd("f64", stop, FNeg(start)), div * One) ELSE 0

\* Mutant: the last point is left to rounding.
LinspaceLastUnset(t, start, stop, num, endpoint) ==
    /\ num > 0
    /\ LET step == LinspaceStep(start, stop, num, endpoint)
       IN  \E i \in 0 .. num - 1 :
           Call([op |-> "linspace", start |-> start, stop |-> stop, num |-> num,
                 endpoint |-> endpoint, i |-> i, res |-> RampElement(t, start, step, i)])

\* linspace(start, stop, num, endpoint): the ramp, and the last point is set
\* afterwards.
Linspace(t, start, stop, num, endpoint) ==
    /\ num > 0
    /\ LET step == LinspaceStep(start, stop, num, endpoint)
       IN  \E i \in 0 .. num - 1 :
           Call([op |-> "linspace", start |-> start, stop |-> stop, num |-> num,
                 endpoint |-> endpoint, i |-> i,
                 res |-> IF endpoint /\ num > 1 /\ i = num - 1
                         THEN Element(t, Cast(t, stop))
                         ELSE RampElement(t, start, step, i)])

-----------------------------------------------------------------------------
Constructors ==
    \/ \E e \in Elements : FromNumpy(e)
    \/ \E start, stop \in Ends, step \in Steps, dtype \in DTypes \cup {"none"} :
           Arange(start, stop, step, dtype)
    \/ \E t \in {"f64", "f32"}, start, stop \in {s.v : s \in {s \in Scalars : s.float}},
           num \in Counts, endpoint \in BOOLEAN : Linspace(t, start, stop, num, endpoint)

Calls ==
    \/ \E op \in ArrayOps, b \in Elements : Binary(op, b)
    \/ \E op \in ScalarOps, s \in Scalars : Scalar(op, s)
    \/ \E s \in Scalars : SetItem(s)
    \/ \E lo, hi \in {s.v : s \in Scalars} : Clip(lo, hi)
    \/ \E op \in UnaryOps : Unary(op)
    \/ \E t \in DTypes : AsType(t)

Next ==
    \/ last.op = "none" /\ x = Empty /\ Constructors
    \/ last.op = "none" /\ x # Empty /\ Calls
    \/ Assign

Spec == Init /\ [][Next]_vars

-----------------------------------------------------------------------------
(* NumPy's results *)

\* The types each type casts to without loss, and the least one two have in
\* common (np.result_type); true division is of floats.
Safely == [i64 |-> {"i64", "f64"}, f32 |-> {"f32", "f64"}, f64 |-> {"f64"}]

Least(common) == CHOOSE t \in common : common \subseteq Safely[t]

ResultType(op, a, b) ==
    Least(Safely[a] \cap Safely[b] \cap (IF op \in {"div", "rdiv"} THEN {"f64", "f32"} ELSE DTypes))

\* Python's //, rounded to the result type, and its %.
FloorQuotient(a, b) == (IF b > 0 THEN a \div b ELSE (-a) \div (-b)) * One

NumPyInt(op, a, b) ==
    LET m == a \div One
        n == b \div One
        v == CASE op = "add" -> m + n [] op = "sub" -> m - n [] op = "rsub" -> n - m
               [] op = "mul" -> m * n
               [] op = "power" -> (CASE n = 0 -> 1 [] n = 1 -> m [] n = 2 -> m * m)
               [] op = "maximum" -> Max({m, n}) [] op = "minimum" -> Min({m, n})
               [] op = "floor_divide" -> IF n = 0 THEN 0 ELSE FloorQuotient(m, n) \div One
               [] op = "mod" -> IF n = 0 THEN 0 ELSE m - n * (FloorQuotient(m, n) \div One)
    IN  Wrap(v * One)

NumPyFloat(t, op, a, b) ==
    CASE op = "add" -> FAdd(t, a, b)   [] op = "sub" -> FAdd(t, a, FNeg(b))
      [] op = "mul" -> FMul(t, a, b)   [] op = "rsub" -> FAdd(t, b, FNeg(a))
      [] op = "div" -> FDiv(t, a, b)   [] op = "rdiv" -> FDiv(t, b, a)
      [] op = "power" -> FPow(t, a, b)
      [] op = "maximum" -> IF NaN \in {a, b} THEN NaN ELSE Max({a, b})
      [] op = "minimum" -> IF NaN \in {a, b} THEN NaN ELSE Min({a, b})
      [] op = "floor_divide" ->
           (CASE IsFinite(a) /\ IsFinite(b) /\ b # 0 -> Nearest(t, FloorQuotient(a, b), 1)
              [] b = 0 \/ NaN \in {a, b} -> FDiv(t, a, b)
              [] Abs(a) = Inf /\ b # 0 -> NaN
              [] IsFinite(a) /\ Abs(b) = Inf -> IF Sign(a) * Sign(b) < 0 THEN -One ELSE 0)
      [] op = "mod" ->
            IF IsFinite(a) /\ IsFinite(b) /\ b # 0
            THEN Nearest(t, IF b > 0 THEN a % b ELSE -((-a) % (-b)), 1)
            ELSE Mod(t, a, b)

NumPy(op, t, a, b) ==
    Element(t, IF t = "i64" THEN NumPyInt(op, Cast(t, a), Cast(t, b))
                            ELSE NumPyFloat(t, op, Cast(t, a), Cast(t, b)))

\* Where the kernels are known to differ from NumPy: a negative integer exponent
\* (1 here, ValueError there), INT_MIN // -1 and % -1 (a trap), a NaN first
\* operand of maximum and minimum (lost), and in a float floor division an
\* infinite dividend, an infinite divisor of the other sign, and a quotient that
\* rounds up to an integer. Of the last the formula leaves out a little more:
\* every inexact quotient whose rounding is an integer.
KnownDifference(op, t, a, b) ==
    CASE op = "power" -> t = "i64" /\ b < 0
      [] op \in {"mod", "floor_divide"} /\ t = "i64" -> a = IntMin /\ b = -One
      [] op \in {"maximum", "minimum"} -> a = NaN
      [] op = "floor_divide" /\ t # "i64" ->
            \/ Abs(a) = Inf /\ IsFinite(b) /\ b # 0
            \/ IsFinite(a) /\ Abs(b) = Inf /\ Sign(a) * Sign(b) < 0
            \/ IsFinite(a) /\ IsFinite(b) /\ b # 0
               /\ (a * One) % Abs(b) # 0 /\ FDiv(t, a, b) % One = 0
      [] OTHER -> FALSE

-----------------------------------------------------------------------------
(* Properties *)

\* However long the program, its element is a value of its dtype: nothing
\* keeps more digits or a wider range than the type has.
TypeOK ==
    /\ x = Empty \/ (x.dt \in DTypes /\ Representable(x.dt, x.v))
    /\ last.res \in {Raised, Trapped, Empty} \/ Representable(last.res.dt, last.res.v)

\* An operation of two arrays has NumPy's result dtype, and NumPy's value
\* computed in that dtype.
ArrayCallsAsNumPy ==
    last.op \in ArrayOps /\ "b" \in DOMAIN last =>
        LET t == ResultType(last.op, last.a.dt, last.b.dt)
            a == Cast(t, last.a.v)
            b == Cast(t, last.b.v)
        IN  KnownDifference(last.op, t, a, b) \/ last.res = NumPy(last.op, t, a, b)

\* An operation with a Python number has the dtype NumPy gives it (a number has
\* the kind of its type and the precision of the array), and the value; power,
\* mod and // of int64 with a float raise or keep int64 instead, and they read
\* an int through a double.
ScalarCallsAsNumPy ==
    last.op \in ScalarOps /\ "s" \in DOMAIN last =>
        LET exact == last.op \in {"power", "mod", "floor_divide"}
            t == IF last.a.dt = "i64" /\ ~exact /\ (last.s.float \/ last.op \in {"div", "rdiv"})
                 THEN "f64" ELSE last.a.dt
            a == Cast(t, last.a.v)
            b == Cast(t, last.s.v)
        IN  IF exact /\ t = "i64" /\ last.s.float
            THEN last.res = Raised <=> last.s.v % One # 0 \/ last.s.v = NaN
            ELSE \/ KnownDifference(last.op, t, a, b) \/ ~Representable("f64", last.s.v)
                 \/ last.res = NumPy(last.op, t, a, b)

\* The process is killed by an integer division only for INT_MIN by -1; a zero
\* divisor, as element or as number, never does it.
TrapsOnlyOnOverflow ==
    last.res = Trapped =>
        /\ last.op \in {"mod", "floor_divide"} /\ last.a = Element("i64", IntMin)
        /\ "b" \in DOMAIN last => last.b = Element("i64", -One)

\* Does a conversion to t keep the integer part? (C++ leaves the others undefined.)
InRange(t, v) == t = "i64" => IntMin - One < v /\ v < IntMax + One

\* round() goes to the nearest integer and from a half to the even one; clip to
\* the nearest number between its bounds when they are in order; a number stored
\* into int64 loses only its fraction. Each for numbers that are in range and
\* that a double holds.
RoundsAndClips ==
    /\ last.op = "round" /\ IsFinite(last.a.v) =>
        LET exact == Cast(last.res.dt, last.a.v)
            error == Abs(last.res.v - exact)
        IN  /\ last.res.dt # "i64" /\ last.res.v % One = 0
            /\ 2 * error < One \/ (2 * error = One /\ last.res.v % (2 * One) = 0)
    /\ last.op = "clip" /\ last.lo <= last.hi /\ NaN \notin {last.lo, last.hi, last.a.v}
       /\ (\A v \in {last.lo, last.hi} : InRange(last.a.dt, v) /\ Representable("f64", v)) =>
        /\ last.res.dt = last.a.dt
        /\ last.res.v = Max({Cast(last.a.dt, last.lo), Min({last.a.v, Cast(last.a.dt, last.hi)})})
    /\ last.op = "setitem" /\ last.a.dt = "i64" /\ Representable("f64", last.s.v)
       /\ InRange("i64", last.s.v) =>
        /\ last.res.dt = "i64" /\ last.res.v % One = 0
        /\ Abs(last.res.v) <= Abs(last.s.v) /\ Abs(last.s.v) < Abs(last.res.v) + One
        /\ last.res.v * last.s.v >= 0

\* An arange of integers has exactly the points from start up to stop in steps,
\* though its length is a double's ceiling: with start, stop and their distance up
\* to 2^53 in magnitude, a quotient rounds across no integer. (Its step must be
\* below the number whose reciprocal underflows.) A linspace reaches its ends
\* exactly, and stays between them unless its step is below the normal numbers.
RampsAsNumPy ==
    /\ last.op = "arange" /\ ~(last.start.float \/ last.stop.float \/ last.step.float)
       /\ last.step.v # 0 /\ Abs(last.step.v) < 2 * One * One
       /\ (\A v \in {last.start.v, last.stop.v, last.stop.v - last.start.v} :
                Abs(v) <= 2 ^ Precision["f64"] * One) =>
        LET t == IF last.dtype = "none" THEN "i64" ELSE last.dtype
            Point(i) == last.start.v + i * last.step.v
            Before(v) == IF last.step.v > 0 THEN v < last.stop.v ELSE v > last.stop.v
        IN  /\ \A i \in 0 .. last.n : Before(Point(i)) <=> i < last.n
            /\ last.n > 0 => last.res = Element(t, Cast(t, Point(last.i)))
    /\ last.op = "linspace" /\ IsFinite(last.start) /\ IsFinite(last.stop) =>
        LET t == last.res.dt
            lo == Cast(t, Min({last.start, last.stop}))
            hi == Cast(t, Max({last.start, last.stop}))
        IN  /\ 2 ^ (Precision["f64"] - 1) * last.num <= Abs(last.stop - last.start) =>
                    lo <= last.res.v /\ last.res.v <= hi
            /\ last.i = 0 => last.res.v = Cast(t, last.start)
            /\ last.endpoint /\ last.num > 1 /\ last.i = last.num - 1 =>
                    last.res.v = Cast(t, last.stop)
=============================================================================
