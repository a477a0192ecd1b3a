----------------------------- MODULE ArrayCalls -----------------------------
(***************************************************************************)
(* ArrayView with the call that each step answers on record, so that what  *)
(* a call returns can be held against what NumPy returns for the same call *)
(* with the same arguments. `asked` is a history variable: no step of the  *)
(* program reads it.                                                       *)
(***************************************************************************)
EXTENDS ArrayView

VARIABLE asked      \* the call that made arr, until its caller takes the result

callVars == <<vars, asked>>

CInit == Init /\ asked = <<>>

Answers(call, Step) == asked = <<>> /\ asked' = call /\ Step

Taken == asked # <<>> /\ asked' = <<>> /\ UNCHANGED vars

CNext ==
    \/ Answers(<<"copy">>, DoCopy)
    \/ \E axes \in Orders : Answers(<<"transpose", axes>>, DoTranspose(axes))
    \/ Answers(<<"ravel">>, DoRavel)
    \/ \E request \in Requests : Answers(<<"reshape", request>>, DoReshape(request))
    \/ \E axes \in Drops : Answers(<<"squeeze", axes>>, DoSqueeze(axes))
    \/ \E axis \in Slots : Answers(<<"expand_dims", axis>>, DoExpandDims(axis))
    \/ \E key \in Keys : Answers(<<"getitem", key>>, DoSlice(key) \/ DoSliceNd(key))
    \/ Taken

CSpec == CInit /\ [][CNext]_callVars

-----------------------------------------------------------------------------
(* Property *)

\* The array that getitem and to_numpy show: strides applied to multi-indices.
Numpy == INSTANCE NumpyArray WITH
    shape  <- arr.shape,
    elem   <- [ix \in Indices(arr.shape) |->
                 Cell(arr.base + LinearOffset(ix, arr.strides))],
    shared <- copies = 0

\* Every call makes of the array what NumPy makes of it for the same arguments -
\* the same axes in the same places, the extents asked for, the elements the key
\* selects - and copies only where NumPy may. NumpyArray names the one exception.
NumpySpec == Numpy!Spec
=============================================================================
