----------------------------- MODULE IndexOrder -----------------------------
(* Multi-indices and their row-major order, as nested loops visit them.    *)
EXTENDS Integers, SequencesExt

\* The multi-indices of a shape: the last axis innermost. A shape without axes
\* has the one empty index.
RowMajorOrder(shape) ==
    FoldRight(LAMBDA n, inner :
                FlattenSeq([i \in 1 .. n |-> [j \in DOMAIN inner |-> <<i - 1>> \o inner[j]]]),
              shape, << <<>> >>)

Indices(shape) == ToSet(RowMajorOrder(shape))
=============================================================================
