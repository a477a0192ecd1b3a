------------------------------- MODULE Sparse -------------------------------
(***************************************************************************)
(* The sparse matrices of hpxpy (class CsrMatrix, src/src/sparse.hpp) and  *)
(* their products with an Array and with a DenseMatrix                     *)
(* (src/src/matrix.hpp): a program builds a matrix and multiplies it. HPX's *)
(* workers take the rows in any order. The bindings release the GIL, so    *)
(* another Python thread may set an entry of the dense operand meanwhile.  *)
(* Benchmark adds the repeated runs of a kernel.                           *)
(*                                                                         *)
(* Numbers are exact. The operand's memory is what its base pointer can    *)
(* reach, in words of a double.                                            *)
(***************************************************************************)
EXTENDS Integers, SequencesExt, FiniteSetsExt

CONSTANTS
    Workers,
    CsrInputs,  \* arguments of csr_from: [rows, cols, rp, ci, vp]
    Sizes,      \* arguments of laplacian_1d
    Vectors,    \* Array operands: [words, base, stride, size, dt]
    Denses,     \* arguments of dense_from: [rows, cols, flat]
    NewValue    \* what the other thread sets

Matrices == [rows : Nat, cols : Nat, rp : Seq(Int), ci : Seq(Int), vp : Seq(Int)]

\* The bindings convert the arguments to these types.
ASSUME ArgumentsAssumption ==
    /\ CsrInputs \subseteq Matrices
    /\ Sizes \subseteq Nat
    /\ Denses \subseteq [rows : Nat, cols : Nat, flat : Seq(Int)]
    /\ NewValue \in Int

\* An Array's elements are in its buffer (InBounds of ArrayView). Those of
\* another type have another size than the words here.
ASSUME VectorsAssumption ==
    /\ Vectors \subseteq [words : Seq(Int), base : Nat, stride : Int, size : Nat, dt : STRING]
    /\ \A x \in Vectors : x.dt = "f64" =>
            \A i \in 0 .. x.size - 1 : x.base + i * x.stride \in 0 .. Len(x.words) - 1

VARIABLES
    pc,         \* "build", "laplacian", "call", "rows", "done", "raised" or "wild"
    a,          \* the CsrMatrix
    operand,    \* the operand: a Vectors or a Denses record
    mem, base,  \* its words, and where its base pointer is
    width,      \* K: columns of the operand
    before,     \* mem when the kernel started
    out,        \* the result's cells
    todo,       \* rows no worker has taken
    at,         \* per worker: its row, its k and its column, or no row
    writes      \* the sets still to come

opVars == <<operand, mem, base, width, before>>
vars == <<pc, a, operand, mem, base, width, before, out, todo, at, writes>>

NoRow == [row |-> -1, k |-> 0, col |-> 0]
NoOperand == [rows |-> 0]

\* Entry k of an array that starts at 0.
Entry(s, k) == s[k + 1]
Nnz(m) == Len(m.vp)

Init ==
    /\ pc = "build"
    /\ a = [rows |-> 0, cols |-> 0, rp |-> <<0>>, ci |-> <<>>, vp |-> <<>>]
    /\ operand = NoOperand /\ mem = <<>> /\ base = 0 /\ width = 0 /\ before = <<>>
    /\ out = <<>> /\ todo = {}
    /\ at = [w \in Workers |-> NoRow]
    /\ writes = 1

-----------------------------------------------------------------------------
(* Building the matrix *)

Raise ==
    /\ pc' = "raised"
    /\ UNCHANGED <<a, opVars, out, todo, at, writes>>

\* from_csr looks at the lengths, and at no entry.
FromCsr(in) ==
    /\ pc = "build"
    /\ IF Len(in.rp) # in.rows + 1 \/ Len(in.ci) # Len(in.vp) THEN Raise
       ELSE /\ a' = in /\ pc' = "call"
            /\ UNCHANGED <<opVars, out, todo, at, writes>>

\* laplacian_1d begins without an entry. rp holds the row pointers set so far.
Laplacian(n) ==
    /\ pc = "build"
    /\ a' = [rows |-> n, cols |-> n, rp |-> <<0>>, ci |-> <<>>, vp |-> <<>>]
    /\ pc' = IF n = 0 THEN "call" ELSE "laplacian"
    /\ UNCHANGED <<opVars, out, todo, at, writes>>

\* Row i of the Laplacian: its columns, left to right.
Neighbours(n, i) ==
    (IF i > 0 THEN <<i - 1>> ELSE <<>>) \o <<i>> \o (IF i + 1 < n THEN <<i + 1>> ELSE <<>>)

\* One turn of its loop: -1, 2, -1, and the row pointer at the row's end.
LaplacianRow ==
    LET i   == Len(a.rp) - 1
        row == Neighbours(a.rows, i)
    IN  /\ pc = "laplacian"
        /\ a' = [a EXCEPT !.ci = @ \o row,
                          !.vp = @ \o [c \in DOMAIN row |-> IF row[c] = i THEN 2 ELSE -1],
                          !.rp = Append(@, Len(a.ci) + Len(row))]
        /\ pc' = IF i + 1 = a.rows THEN "call" ELSE "laplacian"
        /\ UNCHANGED <<opVars, out, todo, at, writes>>

-----------------------------------------------------------------------------
(* Starting a product *)

\* The result is allocated with zeros and the kernel started on every row.
Launch(o, words, from, k) ==
    /\ operand' = o /\ mem' = words /\ base' = from /\ width' = k /\ before' = words
    /\ out' = [c \in 1 .. a.rows * k |-> 0]
    /\ todo' = 0 .. a.rows - 1
    /\ pc' = IF a.rows * k = 0 THEN "done" ELSE "rows"
    /\ UNCHANGED <<a, at, writes>>

\* spmv: the kernel takes x.data(), whatever the strides and the dtype of x are.
Spmv(x) ==
    /\ pc = "call"
    /\ IF x.size # a.cols THEN Raise ELSE Launch(x, x.words, x.base, 1)

\* dense_from and spmm.
Spmm(d) ==
    /\ pc = "call"
    /\ IF Len(d.flat) # d.rows * d.cols \/ d.rows # a.cols THEN Raise
       ELSE Launch(d, d.flat, 0, d.cols)

\* The kernel once more, into the same result.
Again ==
    /\ pc = "done"
    /\ pc' = IF out = <<>> THEN "done" ELSE "rows"
    /\ todo' = 0 .. a.rows - 1 /\ before' = mem
    /\ UNCHANGED <<a, operand, mem, base, width, out, at, writes>>

-----------------------------------------------------------------------------
(* The kernel: spmv_into (one column) and spmm_into *)

\* Mutant: the row of the result is not cleared.
TakeRowUncleared(w, i) ==
    /\ pc = "rows" /\ at[w] = NoRow /\ i \in todo
    /\ todo' = todo \ {i}
    /\ at' = [at EXCEPT ![w] = [row |-> i, k |-> Entry(a.rp, i), col |-> 0]]
    /\ UNCHANGED <<pc, a, opVars, out, writes>>

\* A worker starts row i: spmm clears its cells; spmv keeps the sum in a local
\* and stores it at the row's end, which no other row can tell.
TakeRow(w, i) ==
    /\ pc = "rows" /\ at[w] = NoRow /\ i \in todo
    /\ todo' = todo \ {i}
    /\ at' = [at EXCEPT ![w] = [row |-> i, k |-> Entry(a.rp, i), col |-> 0]]
    /\ out' = [c \in DOMAIN out |-> IF (c - 1) \div width = i THEN 0 ELSE out[c]]
    /\ UNCHANGED <<pc, a, opVars, writes>>

\* Mutant: k <= rp[i + 1].
InRowOneMore(p) == p.k <= Entry(a.rp, p.row + 1)

InRow(p) == p.k < Entry(a.rp, p.row + 1)

\* The cell of the operand read at p, and whether all reads at p are of memory.
Cell(p) == base + Entry(a.ci, p.k) * width + p.col
Reads(p) == p.k \in 0 .. Nnz(a) - 1 /\ Cell(p) \in 0 .. Len(mem) - 1

\* One multiplication and addition; a read of anything else is undefined.
Multiply(w) ==
    LET p == at[w]
    IN  /\ pc = "rows" /\ p # NoRow /\ InRow(p)
        /\ IF Reads(p)
           THEN /\ out' = [out EXCEPT ![p.row * width + p.col + 1] =
                            @ + Entry(a.vp, p.k) * Entry(mem, Cell(p))]
                /\ at' = [at EXCEPT ![w] =
                            IF p.col + 1 < width THEN [p EXCEPT !.col = @ + 1]
                            ELSE [p EXCEPT !.k = @ + 1, !.col = 0]]
                /\ UNCHANGED pc
           ELSE pc' = "wild" /\ UNCHANGED <<out, at>>
        /\ UNCHANGED <<a, opVars, todo, writes>>

EndRow(w) ==
    /\ pc = "rows" /\ at[w] # NoRow /\ ~InRow(at[w])
    /\ at' = [at EXCEPT ![w] = NoRow]
    /\ UNCHANGED <<pc, a, opVars, out, todo, writes>>

\* for_loop returns when all rows are done.
Finish ==
    /\ pc = "rows" /\ todo = {} /\ \A w \in Workers : at[w] = NoRow
    /\ pc' = "done"
    /\ UNCHANGED <<a, opVars, out, todo, at, writes>>

\* Another thread: B.set(i, j, v), with i and j in range.
SetEntry(c) ==
    /\ pc = "rows" /\ operand \in Denses /\ writes > 0
    /\ mem' = [mem EXCEPT ![c] = NewValue]
    /\ writes' = writes - 1
    /\ UNCHANGED <<pc, a, operand, base, width, before, out, todo, at>>

Next ==
    \/ \E in \in CsrInputs : FromCsr(in)
    \/ \E n \in Sizes : Laplacian(n)
    \/ LaplacianRow
    \/ \E x \in Vectors : Spmv(x)
    \/ \E d \in Denses : Spmm(d)
    \/ Finish
    \/ \E w \in Workers :
        \/ \E i \in todo : TakeRow(w, i)
        \/ Multiply(w) \/ EndRow(w)
    \/ \E c \in DOMAIN mem : SetEntry(c)

Spec == Init /\ [][Next]_vars

-----------------------------------------------------------------------------
(* Properties *)

\* A CSR matrix as the format defines it, and an operand laid out as the kernel
\* takes it: neither is checked.
WellFormed(m) ==
    /\ Entry(m.rp, 0) = 0 /\ Entry(m.rp, m.rows) = Nnz(m)
    /\ \A i \in 0 .. m.rows - 1 : Entry(m.rp, i) <= Entry(m.rp, i + 1)
    /\ \A k \in DOMAIN m.ci : m.ci[k] \in 0 .. m.cols - 1

Plain(o) == o \in Denses \/ (o.dt = "f64" /\ (o.stride = 1 \/ o.size <= 1))

\* The rows the operand has; only spmv and spmm compare them with the matrix.
Length(o) == IF o \in Denses THEN o.rows ELSE o.size

Sound == (a \in CsrInputs => WellFormed(a)) /\ Plain(operand) /\ Length(operand) >= a.cols

\* No kernel reads outside the arrays, unless the caller gave csr_from a
\* malformed matrix, spmv a strided view or another dtype, or a benchmark too
\* short an operand.
ReadsInside == pc = "wild" => ~Sound

\* Sum of a row's products in one column, the operand's words being old before
\* entry `cut` and new from there on.
RowSum(i, col, cut, old, new) ==
    MapThenSumSet(LAMBDA k : Entry(a.vp, k) *
                    Entry(IF k < cut THEN old ELSE new, base + Entry(a.ci, k) * width + col),
                  Entry(a.rp, i) .. Entry(a.rp, i + 1) - 1)

\* Element (i, j) of the matrix the program asked for: the sum of the entries it
\* gave for it, or the tridiagonal -1, 2, -1.
Dense(i, j) ==
    IF a \in CsrInputs
    THEN MapThenSumSet(LAMBDA k : IF Entry(a.ci, k) = j THEN Entry(a.vp, k) ELSE 0,
                       Entry(a.rp, i) .. Entry(a.rp, i + 1) - 1)
    ELSE IF i = j THEN 2 ELSE IF i - j \in {-1, 1} THEN -1 ELSE 0

\* A finished product is the product of the matrices that the program asked for,
\* whatever the result held before. When another thread set an entry meanwhile,
\* every cell is what the row gives with the old entry up to some point and the
\* new one after it.
ProductIsDense ==
    pc = "done" /\ out # <<>> /\ Sound =>
        \A i \in 0 .. a.rows - 1, col \in 0 .. width - 1 :
            LET cell == Entry(out, i * width + col)
            IN  IF mem = before
                THEN cell = MapThenSumSet(LAMBDA j : Dense(i, j) * Entry(mem, base + j * width + col),
                                          0 .. a.cols - 1)
                ELSE \E cut \in Entry(a.rp, i) .. Entry(a.rp, i + 1) :
                        cell = RowSum(i, col, cut, before, mem)
=============================================================================
