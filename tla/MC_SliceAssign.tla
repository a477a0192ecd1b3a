--------------------------- MODULE MC_SliceAssign ---------------------------
(* A buffer of four elements and the slices that meet in it.               *)
EXTENDS SliceAssign

CONSTANTS t1, t2

ThreadSymmetry == Permutations(Threads)

Vector == {<<4>>}
VectorAndMatrix == {<<4>>, <<2, 2>>}

\* a[0, :] and a[:, 1]
RowAndColumn == {<<At(0), FullAxis>>, <<FullAxis, At(1)>>}

FourElements == {0 :> 2 @@ 1 :> 0 @@ 2 :> 1 @@ 3 :> 0}

\* a[1:], a[:2], a[2:], a[::2] and a[1::-1]
SomeSlices ==
    {Slice(1, NoBound, 1), Slice(NoBound, 2, 1), Slice(2, NoBound, 1),
     Slice(NoBound, NoBound, 2), Slice(1, NoBound, -1)}
=============================================================================
