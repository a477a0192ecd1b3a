--------------------------- MODULE MC_Elementwise ---------------------------
(* Six-bit integers against float64 of four and float32 of three significant *)
(* bits: the larger integers are not doubles, nor all doubles float32.       *)
EXTENDS Elementwise

MCPrecision == [f64 |-> 4, f32 |-> 3]
MCTopUnit   == [f64 |-> 6, f32 |-> 5]

Whole(n) == n * One

MCElements ==
    {Element("i64", Whole(n)) : n \in {-32, -17, -3, -1, 0, 1, 2, 3, 7, 31}}
    \cup {Element("f64", v) : v \in {NaN, Inf, -Inf, 0, 1, -3, 6, Whole(-1), Whole(3), Whole(18)}}
    \cup {Element("f32", v) : v \in {NaN, 0, -2, 5, Whole(-3), Whole(1), Whole(20)}}

MCScalars ==
    {[float |-> FALSE, v |-> Whole(n)] : n \in {-17, -3, -1, 0, 2, 19}}
    \cup {[float |-> TRUE, v |-> v] : v \in {NaN, -Inf, -2, 0, 6, Whole(2), Whole(-5), Whole(13), Whole(40)}}

MCExponents == {Whole(n) : n \in -1 .. 2}

\* Most differences of these divided by the steps round: 16 / 7 down, 13 / 3 up.
\* 28 / 3 rounds to the integer below it; it is beyond 2^4, the largest span that
\* RampsAsNumPy admits.
MCEnds ==
    {[float |-> FALSE, v |-> Whole(n)] : n \in {-12, -3, 0, 4, 8, 13, 16, 28}}
    \cup {[float |-> TRUE, v |-> v] : v \in {NaN, -Inf, -2, 6, Whole(5)}}

MCSteps ==
    {[float |-> FALSE, v |-> Whole(n)] : n \in {-7, -3, 0, 1, 3, 5, 7}}
    \cup {[float |-> TRUE, v |-> v] : v \in {3, -6}}
=============================================================================
