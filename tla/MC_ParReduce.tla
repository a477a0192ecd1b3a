---------------------------- MODULE MC_ParReduce ----------------------------
(* Small arrays of four-bit integers, and of floats with infinities and NaN. *)
EXTENDS ParReduce

CONSTANTS w1, w2

Calls(float, arrays, ops) == [floating : {float}, elems : arrays, other : {<<>>}, op : ops]

\* Empty, one element, zeros, negatives only, sums and products that wrap, and
\* the extreme values.
IntArrays ==
    {<<>>, <<-8>>, <<0, 0, 0>>, <<-3, -1, -5, -2>>, <<7, 7, 7, 5>>, <<-8, 0, 7>>,
     <<0, 5, 0, 3>>, <<-8, -8, -1, 3>>}

IntOps == {"sum", "prod", "min", "max", "any", "all", "count_nonzero"}

\* No element, and arrays whose sum an int64 holds: a mean divides it.
MeanArrays == {<<>>, <<-8>>, <<0, 5, 0, 2>>, <<7, -8, 7>>}

\* Arrays with an element the identity of min and of max does not exceed.
FloatArrays == {<<>>, <<Inf, 3, -Inf>>, <<Finite, Inf, Finite>>, <<-Inf, -Finite>>, <<0, -2, 5, -2>>}

FloatOps == {"min", "max", "any", "all", "count_nonzero", "is_sorted"}

\* Only the Boolean reductions have an answer for them.
NaNArrays == {<<NaN>>, <<0, NaN, 0>>}

\* Second operands: of the same size, of another, and with products that wrap.
Dots == [floating : {FALSE}, elems : {<<>>, <<-8, 7, 3>>, <<7, 7, 7, 5>>},
         other : {<<>>, <<-8, 1, 2>>, <<2, -3, 7, 1>>}, op : {"dot"}]

SortedArrays == {<<>>, <<3>>, <<-8, -8, 0, 7>>, <<-8, 0, 7, 6>>, <<1, 0, 1>>}

SmallCases ==
    Calls(FALSE, IntArrays, IntOps) \cup Calls(FALSE, MeanArrays, {"mean"})
        \cup Calls(TRUE, FloatArrays, FloatOps)
        \cup Calls(TRUE, NaNArrays, FloatOps)
        \cup Dots \cup Calls(FALSE, SortedArrays, {"is_sorted"})
=============================================================================
