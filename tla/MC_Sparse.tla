------------------------------ MODULE MC_Sparse ------------------------------
(* Small matrices: with an empty row, unsorted and repeated columns, without *)
(* rows, of the wrong lengths, and malformed; and vectors that are plain,    *)
(* strided, reversed or not of doubles.                                      *)
EXTENDS Benchmark

CONSTANTS w1, w2

Csr(r, c, rp, ci, vp) == [rows |-> r, cols |-> c, rp |-> rp, ci |-> ci, vp |-> vp]

MCCsrInputs ==
    {Csr(3, 2, <<0, 2, 2, 3>>, <<1, 0, 1>>, <<2, 3, 5>>),
     Csr(2, 2, <<0, 3, 4>>, <<1, 0, 1>>, <<1, 2, 4>>),
     Csr(2, 2, <<0, 3, 4>>, <<1, 0, 1, 0>>, <<1, 2, 4, 7>>),
     Csr(0, 2, <<0>>, <<>>, <<>>),
     Csr(2, 2, <<0, 1>>, <<0>>, <<1>>),
     Csr(2, 2, <<0, 1, 3>>, <<0, 1>>, <<1, 2>>),
     Csr(2, 2, <<0, 1, 2>>, <<0, 2>>, <<1, 2>>)}

Vec(words, b, s, n, dt) == [words |-> words, base |-> b, stride |-> s, size |-> n, dt |-> dt]

MCVectors ==
    {Vec(<<3, 10>>, 0, 1, 2, "f64"), Vec(<<9, 3, 10, 4>>, 1, 1, 3, "f64"),
     Vec(<<3, 8, 10>>, 0, 2, 2, "f64"), Vec(<<3, 10>>, 1, -1, 2, "f64"),
     Vec(<<77>>, 0, 1, 2, "f32")}

MCDenses ==
    {[rows |-> 2, cols |-> 2, flat |-> <<1, 20, 3, 40>>],
     [rows |-> 2, cols |-> 0, flat |-> <<>>],
     [rows |-> 3, cols |-> 1, flat |-> <<1, 20, 300>>],
     [rows |-> 2, cols |-> 1, flat |-> <<1, 20, 3>>]}

\* A budget to be spent, a number of runs to be made, a cap below both.
MCParams ==
    {[budget |-> 3, min_reps |-> 1, max_reps |-> 3],
     [budget |-> 0, min_reps |-> 2, max_reps |-> 4],
     [budget |-> 9, min_reps |-> 3, max_reps |-> 0]}
=============================================================================
