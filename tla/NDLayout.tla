------------------------------ MODULE NDLayout ------------------------------
(***************************************************************************)
(* The layout arithmetic of hpxpy::Array (src/src/array.hpp): shapes,      *)
(* strides and offsets, the zero-copy view operations, broadcasting and    *)
(* the index spaces of the axis reductions. Axes are numbered from 1 here  *)
(* and from 0 in the code; indices and offsets count from 0 in both.       *)
(*                                                                         *)
(* A layout is the part of an Array that these operations compute on: its  *)
(* shape_, strides_, size_ and the offset of base_ in its buffer. Element  *)
(* counts are std::size_t and wrap at WordSize.                            *)
(***************************************************************************)
EXTENDS Integers, SequencesExt, FiniteSetsExt

CONSTANTS
    WordSize,   \* 2^w for the w bits of std::size_t
    NoBound     \* an omitted bound of a Python slice (None)

ASSUME WordSizeAssumption == WordSize \in Nat \ {0}

Mul(x, y) == (x * y) % WordSize

\* `total = 1; for (auto d : shape) total *= d`.
Product(shape) == FoldLeft(Mul, 1, shape)

SumOf(seq) == FoldLeft(LAMBDA x, y : x + y, 0, seq)

\* The same product, in arithmetic that does not wrap.
Count(shape) == FoldLeft(LAMBDA x, y : x * y, 1, shape)

\* The volume below each axis: 1 for the last, and for axis k the extent of
\* axis k + 1 times its volume.
InnerVolumes(shape) ==
    [k \in DOMAIN shape |-> Product(SubSeq(shape, k + 1, Len(shape)))]

\* Mutant: every stride steps over its own axis too.
RowMajorOwnExtent(shape) ==
    [k \in DOMAIN shape |->
        IF k = Len(shape) THEN 1
        ELSE Count(SubSeq(shape, k, Len(shape) - 1))]

\* Row-major strides are the same products, in signed arithmetic.
RowMajor(shape) ==
    [k \in DOMAIN shape |-> Count(SubSeq(shape, k + 1, Len(shape)))]

\* Element offset of flat row-major index i: each axis takes its coordinate
\* from what the outer axes left.
FlatToOffset(i, strides, aux) ==
    LET rem[k \in DOMAIN aux] == IF k = 1 THEN i ELSE rem[k - 1] % aux[k - 1]
    IN  SumOf([k \in DOMAIN aux |-> (rem[k] \div aux[k]) * strides[k]])

LinearOffset(idx, strides) == SumOf([k \in DOMAIN idx |-> idx[k] * strides[k]])

Layout(base, shape, strides, size) ==
    [base |-> base, shape |-> shape, strides |-> strides, size |-> size]

\* A freshly allocated array (alloc_nd_), and a borrowed C-contiguous buffer.
Fresh(shape) == Layout(0, shape, RowMajor(shape), Product(shape))

\* Mutant: the strides other than the last are not compared.
IsContiguousLastOnly(a) == a.strides = <<>> \/ Last(a.strides) = 1

IsContiguous(a) ==
    \/ a.strides = <<>>
    \/ /\ Last(a.strides) = 1
       /\ \A k \in 1 .. Len(a.strides) - 1 :
             a.strides[k] = a.shape[k + 1] * a.strides[k + 1]

\* Offset a[i] reads or writes, for any rank (offset_1d), with i >= 0.
ItemOffset(a, i) == a.base + i * a.strides[1]

\* Offset in the buffer of the i-th element in row-major order.
Offset(a, i) == a.base + FlatToOffset(i, a.strides, InnerVolumes(a.shape))

\* The axes of a that are in `axes`, in order.
AxesOf(a, axes) ==
    FoldLeft(LAMBDA seq, k : IF k \in axes THEN Append(seq, k) ELSE seq, <<>>,
             [k \in DOMAIN a.shape |-> k])

Pick(f, axes) == [j \in DOMAIN axes |-> f[axes[j]]]

-----------------------------------------------------------------------------
(* Zero-copy view operations. X and CanX: the result, and the code's checks *)

Reversed(n) == [k \in 1 .. n |-> n + 1 - k]

CanTranspose(a, axes) ==
    Len(axes) = Len(a.shape) /\ ToSet(axes) = DOMAIN a.shape

\* Mutant: axis k goes to axes[k], instead of coming from there.
TransposeInverse(a, axes) ==
    LET to(k) == CHOOSE j \in DOMAIN axes : axes[j] = k
    IN  Layout(a.base, [k \in DOMAIN axes |-> a.shape[to(k)]],
               [k \in DOMAIN axes |-> a.strides[to(k)]], a.size)

Transpose(a, axes) ==
    Layout(a.base, [k \in DOMAIN axes |-> a.shape[axes[k]]],
           [k \in DOMAIN axes |-> a.strides[axes[k]]], a.size)

\* A request's extents but for its -1 (if any), and their product.
Given(request) == [k \in DOMAIN request |-> IF request[k] = -1 THEN 1 ELSE request[k]]
Known(request) == Product(Given(request))

\* The extents of a reshape request, with its -1 inferred.
Inferred(a, request) ==
    LET known == Known(request)
    IN  [k \in DOMAIN request |->
            IF request[k] = -1 THEN a.size \div known ELSE request[k]]

\* Mutant: the product of the new shape is not compared with size_.
CanReshapeAnyProduct(a, request) ==
    LET infer == {k \in DOMAIN request : request[k] = -1}
        known == Known(request)
    IN  /\ Cardinality(infer) <= 1
        /\ \A k \in DOMAIN request : request[k] >= -1
        /\ infer # {} => known # 0 /\ a.size % known = 0

\* The checks of reshape, in order: at most one -1, no other negative extent,
\* an inferable extent, and the same number of elements.
CanReshape(a, request) ==
    LET infer == {k \in DOMAIN request : request[k] = -1}
        known == Known(request)
    IN  /\ Cardinality(infer) <= 1
        /\ \A k \in DOMAIN request : request[k] >= -1
        /\ infer # {} => known # 0 /\ a.size % known = 0
        /\ Product(Inferred(a, request)) = a.size

\* The view of a contiguous array; a copy of any other has the same layout at
\* the start of its own buffer.
Reshaped(base, a, request) ==
    LET shape == Inferred(a, request)
    IN  Layout(base, shape, RowMajor(shape), a.size)

\* Squeezing every axis leaves the one-element 1-D array.
Squeeze(a, drop) ==
    LET kept == AxesOf(a, DOMAIN a.shape \ drop)
        pick(f) == IF kept = <<>> THEN <<1>> ELSE Pick(f, kept)
    IN  Layout(a.base, pick(a.shape), pick(a.strides), a.size)

UnitAxes(a) == {k \in DOMAIN a.shape : a.shape[k] = 1}

\* axis 1 .. ndim + 1 is where the new unit axis goes.
ExpandDims(a, axis) ==
    LET stride == IF axis <= Len(a.shape) THEN a.strides[axis] ELSE 1
    IN  Layout(a.base, InsertAt(a.shape, axis, 1), InsertAt(a.strides, axis, stride), a.size)

\* Mutant: a negative step keeps the sign of the parent's stride.
ViewStridedUnsigned(a, start, n, step) ==
    Layout(a.base + start * a.strides[1], <<n>>,
           <<a.strides[1] * (IF step < 0 THEN -step ELSE step)>>, n)

\* a[i:j:k] of a 1-D array; step 1 is view(start, n).
ViewStrided(a, start, n, step) ==
    Layout(a.base + start * a.strides[1], <<n>>, <<a.strides[1] * step>>, n)

-----------------------------------------------------------------------------
(* Multi-axis slicing *)

\* Python's slice with None bounds, and what CPython's PySlice_AdjustIndices
\* makes of it for an axis of n elements: start, step and number of elements.
Clip(v, n, low, high) ==
    LET w == IF v < 0 THEN v + n ELSE v
    IN  IF w < 0 THEN low ELSE IF w >= n THEN high ELSE w

AdjustSlice(s, n) ==
    LET up == s.step > 0
        bound(v) == Clip(v, n, IF up THEN 0 ELSE -1, IF up THEN n ELSE n - 1)
        start == IF s.start # NoBound THEN bound(s.start) ELSE IF up THEN 0 ELSE n - 1
        stop  == IF s.stop # NoBound THEN bound(s.stop) ELSE IF up THEN n ELSE -1
        count == IF up THEN (IF start < stop THEN (stop - start - 1) \div s.step + 1 ELSE 0)
                       ELSE (IF stop < start THEN (start - stop - 1) \div (-s.step) + 1 ELSE 0)
    IN  [kind |-> "slice", start |-> start, step |-> s.step, len |-> count]

At(i)                == [kind |-> "int", index |-> i]
Slice(i, j, step)    == [kind |-> "slice", start |-> i, stop |-> j, step |-> step]
Ellipsis             == [kind |-> "ellipsis"]
FullAxis             == Slice(NoBound, NoBound, 1)

\* The items a key may have: Python refuses a slice whose step is 0.
Steps      == Int \ {0}
Bounds     == {NoBound} \cup Int
SliceItems == [kind : {"slice"}, start : Bounds, stop : Bounds, step : Steps]
IndexItems == [kind : {"int"}, index : Int]
KeyItems   == IndexItems \cup SliceItems \cup {Ellipsis}

\* How many axes a key names.
Named(key) == Cardinality({k \in DOMAIN key : key[k] # Ellipsis})

\* The items of a tuple key, one per axis: an Ellipsis, or else the end of the
\* key, stands for as many full slices as are missing.
Items(a, key) ==
    LET fill == [k \in 1 .. Len(a.shape) - Named(key) |-> FullAxis]
        where == SelectInSeq(key, LAMBDA it : it = Ellipsis)
    IN  IF where = 0 THEN key \o fill
        ELSE SubSeq(key, 1, where - 1) \o fill \o SubSeq(key, where + 1, Len(key))

\* The checks of a tuple key: one Ellipsis, not too many items, and every
\* integer in range for its axis.
CanIndex(a, key) ==
    /\ Cardinality({k \in DOMAIN key : key[k] = Ellipsis}) <= 1
    /\ Named(key) <= Len(a.shape)
    /\ \A k \in DOMAIN a.shape :
          LET it == Items(a, key)[k]
          IN  it.kind = "int" => it.index \in -a.shape[k] .. a.shape[k] - 1

\* The normalised specifier of each axis (AxisSpec).
Specs(a, key) ==
    [k \in DOMAIN a.shape |->
        LET it == Items(a, key)[k]
        IN  IF it.kind = "int"
            THEN At(IF it.index < 0 THEN it.index + a.shape[k] ELSE it.index)
            ELSE AdjustSlice(it, a.shape[k])]

\* Mutant: the start of a slice is not scaled by the axis' stride.
SliceBaseUnscaled(a, specs) ==
    SumOf([k \in DOMAIN specs |-> IF specs[k].kind = "int" THEN specs[k].index * a.strides[k]
                                                           ELSE specs[k].start])

\* Every axis contributes the position it starts at.
SliceBase(a, specs) ==
    SumOf([k \in DOMAIN specs |->
             (IF specs[k].kind = "int" THEN specs[k].index ELSE specs[k].start) * a.strides[k]])

\* Integers drop their axis; without a slice a one-element array is left.
SliceNd(a, specs) ==
    LET kept == AxesOf(a, {k \in DOMAIN specs : specs[k].kind = "slice"})
        shape == IF kept = <<>> THEN <<1>> ELSE [j \in DOMAIN kept |-> specs[kept[j]].len]
        strides == IF kept = <<>> THEN <<1>>
                   ELSE [j \in DOMAIN kept |-> a.strides[kept[j]] * specs[kept[j]].step]
    IN  Layout(a.base + SliceBase(a, specs), shape, strides, Product(shape))

-----------------------------------------------------------------------------
(* Broadcasting *)

\* Extent and stride of axis k of x, right-aligned in rank rr.
Aligned(x, k, rr) == k - (rr - Len(x.shape))
ExtentAt(x, k, rr) == IF Aligned(x, k, rr) < 1 THEN 1 ELSE x.shape[Aligned(x, k, rr)]

MaxRank(a, b) == IF Len(a.shape) > Len(b.shape) THEN Len(a.shape) ELSE Len(b.shape)

CanBroadcast(a, b) ==
    LET rr == MaxRank(a, b)
    IN  \A k \in 1 .. rr : \/ ExtentAt(a, k, rr) = ExtentAt(b, k, rr)
                           \/ 1 \in {ExtentAt(a, k, rr), ExtentAt(b, k, rr)}

BroadcastShapes(a, b) ==
    LET rr == MaxRank(a, b)
    IN  [k \in 1 .. rr |-> IF ExtentAt(a, k, rr) = 1 THEN ExtentAt(b, k, rr)
                                                     ELSE ExtentAt(a, k, rr)]

\* Mutant: a unit axis keeps its stride when it is stretched.
MakeBcastViewNoZero(x, rshape) ==
    [k \in DOMAIN rshape |->
        IF Aligned(x, k, Len(rshape)) < 1 THEN 0 ELSE x.strides[Aligned(x, k, Len(rshape))]]

\* The strides of x over rshape: 0 for padded and for stretched axes.
MakeBcastView(x, rshape) ==
    [k \in DOMAIN rshape |->
        LET xk == Aligned(x, k, Len(rshape))
        IN  IF xk < 1 THEN 0
            ELSE IF x.shape[xk] = 1 /\ rshape[k] > 1 THEN 0 ELSE x.strides[xk]]

\* The offset iteration i of binary() reads of operand x, on either path: the
\* flat one when both operands are contiguous and of one shape, else strided.
BinaryRead(x, other, i) ==
    IF x.shape = other.shape /\ IsContiguous(x) /\ IsContiguous(other)
    THEN x.base + i
    ELSE LET rshape == IF x.shape = other.shape THEN x.shape ELSE BroadcastShapes(x, other)
         IN  x.base + FlatToOffset(i, MakeBcastView(x, rshape), InnerVolumes(rshape))

-----------------------------------------------------------------------------
(* Axis reductions: red is the set of reduced axes *)

\* The axis argument of a reduction, negative axes counted from the end; and its
\* checks: every axis in range, none twice.
ParseAxes(axes, ndim) == {IF axes[j] < 0 THEN axes[j] + ndim + 1 ELSE axes[j] + 1 : j \in DOMAIN axes}

CanReduce(axes, ndim) ==
    /\ \A j \in DOMAIN axes : axes[j] \in -ndim .. ndim - 1
    /\ Cardinality(ParseAxes(axes, ndim)) = Len(axes)

OutShape(a, red, keepdims) ==
    IF keepdims THEN [k \in DOMAIN a.shape |-> IF k \in red THEN 1 ELSE a.shape[k]]
    ELSE Pick(a.shape, AxesOf(a, DOMAIN a.shape \ red))

\* The number of output cells, and of elements folded into each.
OutSize(a, red) == Product(Pick(a.shape, AxesOf(a, DOMAIN a.shape \ red)))
RedSize(a, red) == Product(Pick(a.shape, AxesOf(a, red)))

\* Mutant: the two index spaces are unravelled with the array's own volumes.
ReduceReadOwnVolumes(a, red, o, r) ==
    LET part(i, axes) == FlatToOffset(i, Pick(a.strides, axes), Pick(InnerVolumes(a.shape), axes))
    IN  a.base + part(o, AxesOf(a, DOMAIN a.shape \ red)) + part(r, AxesOf(a, red))

\* The offset read for output cell o and inner iteration r: the two index
\* spaces are unravelled over their own axes.
ReduceRead(a, red, o, r) ==
    LET part(i, axes) == FlatToOffset(i, Pick(a.strides, axes),
                                      InnerVolumes(Pick(a.shape, axes)))
    IN  a.base + part(o, AxesOf(a, DOMAIN a.shape \ red)) + part(r, AxesOf(a, red))

-----------------------------------------------------------------------------
(* Matrix products *)

CanMatmul(x, y) == Len(x.shape) = 2 /\ Len(y.shape) = 2 /\ x.shape[2] = y.shape[1]

\* Mutant: the second operand is read in row-major order.
MatmulReadFlat(x, y, out, p) ==
    LET n == y.shape[2]
    IN  <<x.base + (out \div n) * x.strides[1] + p * x.strides[2], y.base + p * n + (out % n)>>

\* The offsets matmul() multiplies for cell `out` of the result and term p.
MatmulRead(x, y, out, p) ==
    LET n == y.shape[2]
    IN  <<x.base + (out \div n) * x.strides[1] + p * x.strides[2],
          y.base + p * y.strides[1] + (out % n) * y.strides[2]>>
=============================================================================
