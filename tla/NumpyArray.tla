----------------------------- MODULE NumpyArray -----------------------------
(***************************************************************************)
(* What a chain of view operations promises, in NumPy's terms and without  *)
(* strides, offsets or buffers: an array is a function from multi-indices  *)
(* to elements. `shared` says whether it still is a window on the memory   *)
(* the chain began with, or on memory of its own. `asked` is the call that *)
(* made it, with its arguments, until the caller takes the result. Axes    *)
(* are numbered from 1.                                                    *)
(***************************************************************************)
EXTENDS IndexOrder, FiniteSetsExt

CONSTANTS
    Shapes,     \* the shapes a first array may have
    Requests,   \* the arguments reshape may be given
    Keys,       \* the keys a[...] may be given
    NoBound     \* an omitted bound of a slice (None)

VARIABLES shape, elem, shared, asked

vars == <<shape, elem, shared, asked>>

\* The members of a finite set of numbers, from the least to the greatest.
Ascending(S) ==
    [i \in 1 .. Cardinality(S) |-> CHOOSE p \in S : Cardinality({q \in S : q < p}) = i - 1]

\* The positions range(n)[start:stop:step] of an axis of n elements, in order.
Positions(it, n) ==
    LET at(v) == IF v < 0 THEN v + n ELSE v
        up == it.step > 0
        from == IF it.start = NoBound THEN (IF up THEN 0 ELSE n - 1)
                ELSE IF up THEN Max({at(it.start), 0}) ELSE Min({at(it.start), n - 1})
        before(p) == \/ it.stop = NoBound
                     \/ IF up THEN p < at(it.stop) ELSE p > at(it.stop)
        taken == {p \in 0 .. n - 1 : /\ IF up THEN p >= from ELSE p <= from
                                     /\ before(p)
                                     /\ (p - from) % (IF up THEN it.step ELSE -it.step) = 0}
    IN  IF up THEN Ascending(taken) ELSE Reverse(Ascending(taken))

\* What a key says of axis k of nd: its own item, counted from the front up to
\* an Ellipsis and from the back after it, or else the full axis.
AxisItem(key, k, nd) ==
    LET full == [kind |-> "slice", start |-> NoBound, stop |-> NoBound, step |-> 1]
        dots == {j \in DOMAIN key : key[j].kind = "ellipsis"}
    IN  IF dots = {} THEN IF k <= Len(key) THEN key[k] ELSE full
        ELSE LET e == CHOOSE j \in dots : TRUE
             IN  IF k < e THEN key[k]
                 ELSE IF k > nd - (Len(key) - e) THEN key[Len(key) - (nd - k)]
                 ELSE full

Init ==
    \E s \in Shapes :
        /\ shape = s
        /\ elem = [ix \in Indices(s) |-> SelectInSeq(RowMajorOrder(s), LAMBDA jx : jx = ix) - 1]
        /\ shared = TRUE
        /\ asked = <<>>

Answer(call) == asked = <<>> /\ asked' = call

Taken == asked # <<>> /\ asked' = <<>> /\ UNCHANGED <<shape, elem, shared>>

\* The same elements in the same row-major order, under the new shape.
SameOrder ==
    LET old == RowMajorOrder(shape)
        new == RowMajorOrder(shape')
        was == elem
        now == elem'
    IN  /\ Len(new) = Len(old)
        /\ DOMAIN now = ToSet(new)
        /\ \A i \in DOMAIN new : now[new[i]] = was[old[i]]

\* transpose: axis k of the result is axis axes[k] of the array; without axes
\* their order is reversed. Always a view.
Transpose(axes) ==
    LET was == elem
        order == IF axes = <<>> THEN [k \in DOMAIN shape |-> Len(shape) + 1 - k] ELSE axes
        from(k) == CHOOSE j \in DOMAIN order : order[j] = k
    IN  /\ Answer(<<"transpose", axes>>)
        /\ ToSet(order) = DOMAIN shape
        /\ shape' = [k \in DOMAIN shape |-> shape[order[k]]]
        /\ elem' = [ix \in Indices(shape') |-> was[[k \in DOMAIN shape |-> ix[from(k)]]]]
        /\ shared' = shared

\* squeeze: the named unit axes go, or all of them when none is named. Always
\* a view. The exception: with no axis left, NumPy's array is 0-D, and this
\* one has the shape (1,).
Squeeze(axes) ==
    LET units == {k \in DOMAIN shape : shape[k] = 1}
        kept  == Ascending(DOMAIN shape \ (IF axes = {} THEN units ELSE axes))
    IN  /\ Answer(<<"squeeze", axes>>)
        /\ shape' = IF kept = <<>> THEN <<1>> ELSE [j \in DOMAIN kept |-> shape[kept[j]]]
        /\ SameOrder
        /\ shared' = shared

\* expand_dims: a new unit axis at that place. Always a view.
ExpandDims(axis) ==
    /\ Answer(<<"expand_dims", axis>>)
    /\ shape' = InsertAt(shape, axis, 1)
    /\ SameOrder
    /\ shared' = shared

\* reshape: the extents asked for, the one left open (-1) being what the number
\* of elements makes it. A view, or a copy.
Reshape(request) ==
    /\ Answer(<<"reshape", request>>)
    /\ Len(shape') = Len(request)
    /\ \A k \in DOMAIN request : request[k] # -1 => shape'[k] = request[k]
    /\ SameOrder
    /\ shared' \in {shared, FALSE}

Ravel ==
    /\ Answer(<<"ravel">>)
    /\ Len(shape') = 1
    /\ SameOrder
    /\ shared' \in {shared, FALSE}

\* copy: the same array in memory of its own.
Copy == Answer(<<"copy">>) /\ UNCHANGED <<shape, elem>> /\ shared' = FALSE

\* a[key]: an integer fixes its axis and drops it, a slice keeps the axis at
\* the positions it selects. Always a view.
Index(key) ==
    LET nd == Len(shape)
        was == elem
        item(k) == AxisItem(key, k, nd)
        kept == Ascending({k \in 1 .. nd : item(k).kind = "slice"})
        chosen(k) == IF item(k).kind = "slice" THEN Positions(item(k), shape[k])
                     ELSE <<item(k).index % shape[k]>>
        source(ix) == [k \in 1 .. nd |->
                         IF item(k).kind = "slice"
                         THEN chosen(k)[1 + ix[CHOOSE j \in DOMAIN kept : kept[j] = k]]
                         ELSE chosen(k)[1]]
    IN  /\ Answer(<<"getitem", key>>)
        /\ Cardinality({j \in DOMAIN key : key[j].kind # "ellipsis"}) <= nd
        /\ \A k \in 1 .. nd : item(k).kind = "int" => item(k).index \in -shape[k] .. shape[k] - 1
        /\ shape' = [j \in DOMAIN kept |-> Len(chosen(kept[j]))]
        /\ elem' = [ix \in Indices(shape') |-> was[source(ix)]]
        /\ shared' = shared

Next ==
    \/ Copy \/ Ravel \/ Taken
    \/ \E axes \in {<<>>} \cup [DOMAIN shape -> DOMAIN shape] : Transpose(axes)
    \/ \E axes \in SUBSET {k \in DOMAIN shape : shape[k] = 1} : Squeeze(axes)
    \/ \E axis \in 1 .. Len(shape) + 1 : ExpandDims(axis)
    \/ \E request \in Requests : Reshape(request)
    \/ \E key \in Keys : Index(key)

Spec == Init /\ [][Next]_vars
=============================================================================
