--------------------------- MODULE MC_ArrayCalls ---------------------------
(* Shapes, reshape requests and keys for the calls of an array.            *)
EXTENDS ArrayCalls

\* 1-D, 2-D, empty and 0-D, with unit axes in either position; and three axes,
\* whose orders are not all their own inverses.
Planes == {<<4>>, <<2, 3>>, <<1, 3>>, <<0, 2>>, <<>>, <<1, 2, 1>>}

PlaneRequests == {<<2, -1>>, <<3, 2>>, <<0, -1>>, <<>>}

PlaneKeys == {
    <<Slice(NoBound, NoBound, -1)>>,                      \* a[::-1]
    <<Ellipsis, Slice(1, NoBound, 2)>>,                   \* a[..., 1::2]
    <<At(-1)>>,                                           \* a[-1,]
    <<FullAxis, Slice(-1, -4, -2)>> }                     \* a[:, -1:-4:-2]
=============================================================================
