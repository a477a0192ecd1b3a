---------------------------- MODULE MC_ArrayView ----------------------------
(* Shapes, reshape requests and keys for the reads of views.               *)
EXTENDS ArrayView

\* Unequal extents, and operands that are stretched along some of them.
Solids == {<<3, 2, 2>>, <<4>>, <<2, 1>>}

SolidRequests == {<<2, -1>>, <<2, 2, 3>>}

SolidKeys == {
    <<Slice(NoBound, NoBound, -1)>>,                      \* a[::-1]
    <<At(1), Ellipsis, Slice(1, NoBound, -1)>>,           \* a[1, ..., 1::-1]
    <<FullAxis, At(-1), FullAxis>> }                      \* a[:, -1, :]
=============================================================================
