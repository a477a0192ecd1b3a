------------------------------ MODULE ArrayView ------------------------------
(***************************************************************************)
(* One hpxpy Array taken through any chain of the operations that derive   *)
(* an Array from an Array without computing on its elements: indexing,     *)
(* transpose, reshape, ravel, squeeze, expand_dims and copy. The state is  *)
(* what the C++ object holds (NDLayout) and the memory it points into.     *)
(***************************************************************************)
EXTENDS NDLayout, IndexOrder

CONSTANTS
    Shapes,     \* shapes of the first array
    Requests,   \* arguments of reshape (extents, with at most one -1)
    Keys,       \* keys of a[...]
    RankBound,  \* bound on the number of axes a chain adds up to
    MaxStride,  \* bound on strides, which unit and empty axes let grow
                \* without end
    MaxDrift,   \* bound on how far the base_ of an empty view, which nothing
                \* reads, wanders from the buffer
    MaxCopied   \* bound on the elements of an array that is copied, which a
                \* chain does once

ASSUME ArgumentsAssumption ==
    /\ Shapes \subseteq Seq(Nat)
    /\ Requests \subseteq Seq(Int)
    /\ Keys \subseteq Seq(KeyItems)

\* No shape or request has 2^w elements. The code does not check that.
NoWrap ==
    /\ \A s \in Shapes : Count(s) < WordSize
    /\ \A r \in Requests : Count(Given(r)) < WordSize

VARIABLES
    arr,        \* the layout of the current Array
    mem,        \* the buffer it points into
    copies      \* how many times the chain has moved to a buffer of its own

vars == <<arr, mem, copies>>

Init ==
    /\ \E s \in Shapes : arr = Fresh(s)
    /\ mem = [o \in 0 .. arr.size - 1 |-> o]
    /\ copies = 0

\* The bounds. They are the model's: nothing in the code limits a chain.
Small(a) ==
    /\ Len(a.shape) <= RankBound \/ Len(a.shape) <= Len(arr.shape)
    /\ a.size = 0 => a.base \in -MaxDrift .. Cardinality(DOMAIN mem) + MaxDrift
    /\ \A k \in DOMAIN a.strides : a.strides[k] \in -MaxStride .. MaxStride

\* A zero-copy result: base_ moves, owner_ and the buffer are shared. The base_
\* of an empty buffer is null and stays null (byte_offset_).
View(a) ==
    /\ Small(a)
    /\ arr' = IF DOMAIN mem = {} THEN [a EXCEPT !.base = 0] ELSE a
    /\ UNCHANGED <<mem, copies>>

\* What is read outside the buffer.
Outside == -1

Cell(o) == IF o \in DOMAIN mem THEN mem[o] ELSE Outside

\* copy(): a new contiguous buffer, filled element by element in row-major
\* order (the flat loop of a contiguous array reads the same elements).
Gathered(a) ==
    [i \in 0 .. a.size - 1 |-> IF IsContiguous(a) THEN Cell(a.base + i) ELSE Cell(Offset(a, i))]

Copied(a) ==
    /\ copies = 0 /\ arr.size <= MaxCopied
    /\ copies' = copies + 1
    /\ mem' = Gathered(arr)
    /\ arr' = a

DoCopy == Copied(Fresh(arr.shape))

\* No axes (None, or an empty sequence) reverse them all.
DoTranspose(axes) ==
    LET order == IF axes = <<>> THEN Reversed(Len(arr.shape)) ELSE axes
    IN  CanTranspose(arr, order) /\ View(Transpose(arr, order))

DoReshape(request) ==
    /\ CanReshape(arr, request)
    /\ IF IsContiguous(arr) THEN View(Reshaped(arr.base, arr, request))
                            ELSE Copied(Reshaped(0, arr, request))

DoRavel == DoReshape(<<arr.size>>)

\* No axes (None, or an empty sequence) drop every unit axis.
DoSqueeze(axes) ==
    /\ axes \subseteq UnitAxes(arr)
    /\ View(Squeeze(arr, IF axes = {} THEN UnitAxes(arr) ELSE axes))

DoExpandDims(axis) == View(ExpandDims(arr, axis))

\* A plain slice of a 1-D array: view or view_strided.
DoSlice(key) ==
    /\ Len(arr.shape) = 1 /\ Len(key) = 1 /\ key[1].kind = "slice"
    /\ LET s == AdjustSlice(key[1], arr.size)
       IN  View(ViewStrided(arr, s.start, s.len, s.step))

\* A tuple key, a plain slice of an N-D array, or `...`. A key of integers
\* only reads an element and derives no Array.
DoSliceNd(key) ==
    /\ CanIndex(arr, key)
    /\ \E k \in DOMAIN arr.shape : Items(arr, key)[k].kind = "slice"
    /\ View(SliceNd(arr, Specs(arr, key)))

\* The axes arguments of transpose, of squeeze and of expand_dims.
Orders == {<<>>} \cup [DOMAIN arr.shape -> DOMAIN arr.shape]
Drops  == SUBSET UnitAxes(arr)
Slots == 1 .. Len(arr.shape) + 1

Next ==
    \/ DoCopy
    \/ \E axes \in Orders : DoTranspose(axes)
    \/ DoRavel \/ \E request \in Requests : DoReshape(request)
    \/ \E axes \in Drops : DoSqueeze(axes)
    \/ \E axis \in Slots : DoExpandDims(axis)
    \/ \E key \in Keys : DoSlice(key) \/ DoSliceNd(key)

Spec == Init /\ [][Next]_vars

-----------------------------------------------------------------------------
(* Properties *)

Elements == 0 .. arr.size - 1

\* size_ counts the elements of shape_. It does not when their number reaches
\* WordSize.
SizeIsCount == arr.size = Count(arr.shape)

\* Every axis has a stride, and size_, which every kernel loops over, counts
\* the elements.
LayoutOK == Len(arr.strides) = Len(arr.shape) /\ SizeIsCount

\* Every element of the view lies in the buffer it shares, however long the
\* chain of views that led to it.
InBounds == \A i \in Elements : Offset(arr, i) \in DOMAIN mem

\* No two elements of a view are the same memory: workers that write to
\* different indices (sort's scatter, a kernel's output) never collide.
NoSelfAlias == \A i, j \in Elements : Offset(arr, i) = Offset(arr, j) => i = j

\* The fast paths take [base_, base_ + size_) for the elements in row-major
\* order whenever is_contiguous says so.
ContiguousMeansFlat ==
    IsContiguous(arr) => \A i \in Elements : Offset(arr, i) = arr.base + i

\* a[i] with an integer, 0 <= i < len(a), addresses the array's own memory.
ItemInBounds == \A i \in Elements : ItemOffset(arr, i) \in DOMAIN mem

\* What binary() and matmul() combine it with: a fresh array of each shape, and the
\* array's own transpose (a + a.T, a @ a.T).
Operands == {Fresh(s) : s \in Shapes} \cup {Transpose(arr, Reversed(Len(arr.shape)))}

\* NumPy's rule: the operand is repeated along padded and unit axes.
ReadsBroadcast(x, y) ==
    LET rshape == BroadcastShapes(x, y)
        pad    == Len(rshape) - Len(x.shape)
        own(ix) == [k \in DOMAIN x.shape |-> IF x.shape[k] = 1 THEN 0 ELSE ix[k + pad]]
        order  == RowMajorOrder(rshape)
    IN  \A i \in DOMAIN order :
            BinaryRead(x, y, i - 1) = x.base + LinearOffset(own(order[i]), x.strides)

\* An elementwise operation combines the elements that NumPy's broadcasting
\* pairs, whichever path its kernel takes and whatever views it is given.
BroadcastReads ==
    \A b \in Operands :
        CanBroadcast(arr, b) => ReadsBroadcast(arr, b) /\ ReadsBroadcast(b, arr)

\* Axis arguments that name each set of axes from the front, and from the end.
AxisArguments(nd) ==
    UNION {{SetToSeq(axes), SetToSeq({k - nd : k \in axes})} : axes \in SUBSET (0 .. nd - 1)}

\* A reduction over any axes folds each element of the array once, into the cell
\* of the result that its kept coordinates name.
AxisReduceReads ==
    \A axes \in AxisArguments(Len(arr.shape)), keepdims \in BOOLEAN :
        LET nd == Len(arr.shape)
            red == ParseAxes(axes, nd)
            cells == RowMajorOrder(OutShape(arr, red, keepdims))
            named == {k \in 1 .. nd : {k - 1, k - 1 - nd} \cap ToSet(axes) # {}}
            kept(ix) == IF keepdims THEN [k \in DOMAIN ix |-> IF k \in named THEN 0 ELSE ix[k]]
                                    ELSE Pick(ix, AxesOf(arr, DOMAIN arr.shape \ named))
        IN  /\ CanReduce(axes, nd)
            /\ Len(cells) = OutSize(arr, red)
            /\ \A o \in DOMAIN cells :
                LET own == {ix \in Indices(arr.shape) : kept(ix) = cells[o]}
                IN  /\ Cardinality(own) = RedSize(arr, red)
                    /\ {ReduceRead(arr, red, o - 1, r) : r \in 0 .. RedSize(arr, red) - 1}
                         = {arr.base + LinearOffset(ix, arr.strides) : ix \in own}

\* Cell (i, j) of a product folds the elements (i, p) and (p, j), whatever views
\* the operands are, and the cells of the result are all computed.
MatmulReads ==
    \A b \in Operands :
        CanMatmul(arr, b) =>
            LET cells == RowMajorOrder(<<arr.shape[1], b.shape[2]>>)
                at(a, i, j) == a.base + LinearOffset(<<i, j>>, a.strides)
            IN  \A o \in DOMAIN cells, p \in 0 .. b.shape[1] - 1 :
                    MatmulRead(arr, b, o - 1, p)
                      = <<at(arr, cells[o][1], p), at(b, p, cells[o][2])>>
=============================================================================
