---------------------------- MODULE Sparse_proofs ----------------------------
(***************************************************************************)
(* Theorems about Sparse and Benchmark: whatever the matrices, the         *)
(* operands, the number of workers and the order in which they take rows,  *)
(* a kernel reads inside the arrays of sound arguments and writes inside   *)
(* its result, once or under the timing loop, and a finished result is the *)
(* product of the matrices that the program asked for; and the loop runs   *)
(* as often as it is asked to and returns the median.                      *)
(***************************************************************************)
EXTENDS Benchmark, FoldTheorems, SequenceTheorems, TLAPS

Spots == [row : Int, k : Int, col : Int]

TypeOK ==
    /\ pc \in {"build", "laplacian", "call", "rows", "done", "raised", "wild"}
    /\ a \in Matrices
    /\ mem \in Seq(Int) /\ base \in Nat /\ width \in Nat
    /\ out \in Seq(Int)
    /\ at \in [Workers -> Spots]

Ascending(s) == \A i, j \in DOMAIN s : i <= j => s[i] <= s[j]

\* The columns are columns, and the row pointers made so far ascend from 0 to
\* the number of entries.
Sorted(m) ==
    /\ m.rp # <<>>
    /\ m.rp[1] = 0 /\ m.rp[Len(m.rp)] = Len(m.vp)
    /\ Ascending(m.rp)
    /\ \A k \in DOMAIN m.ci : m.ci[k] \in 0 .. m.cols - 1

\* The Laplacian is a sound matrix after every turn of its loop, and has as many
\* row pointers as rows at its end. What from_csr takes is only known to be of
\* the lengths that it compares.
MatrixBuilt ==
    /\ pc = "laplacian" =>
            /\ Sorted(a) /\ Len(a.rp) \in 1 .. a.rows
            /\ a.cols = a.rows /\ Len(a.ci) = Len(a.vp)
    /\ pc \in {"call", "rows", "done", "wild"} =>
            /\ Len(a.rp) = a.rows + 1 /\ Len(a.ci) = Len(a.vp)
            /\ a \in CsrInputs \/ Sorted(a)

\* The words a kernel can reach are the operand's, whatever was set in them.
OperandTaken ==
    pc \in {"rows", "done", "wild"} =>
        \/ /\ operand \in Vectors
           /\ Len(mem) = Len(operand.words) /\ base = operand.base /\ width = 1
        \/ /\ operand \in Denses
           /\ Len(mem) = operand.rows * operand.cols /\ base = 0 /\ width = operand.cols

\* A worker at spot p is in a row of the matrix m and of the result, which has n
\* columns, and not before the row's first entry.
InPlace(p, m, n) ==
    /\ p.row \in 0 .. m.rows - 1
    /\ Entry(m.rp, p.row) <= p.k
    /\ p.col \in 0 .. n - 1

SpotsInPlace ==
    /\ pc \notin {"rows", "wild"} => \A w \in Workers : at[w] = NoRow
    /\ pc \in {"rows", "done", "wild"} => Len(out) = a.rows * width
    /\ pc \in {"rows", "wild"} => width > 0 /\ todo \subseteq 0 .. a.rows - 1
    /\ pc \in {"rows", "wild"} => \A w \in Workers : at[w] = NoRow \/ InPlace(at[w], a, width)

IInv == TypeOK /\ MatrixBuilt /\ OperandTaken /\ SpotsInPlace /\ ReadsInside

\* The cell of the result that a worker at p adds to is in the result.
WritesInside ==
    \A w \in Workers : pc = "rows" /\ at[w] # NoRow =>
        at[w].row * width + at[w].col + 1 \in DOMAIN out

-----------------------------------------------------------------------------
(* Facts about numbers and sequences *)

\* A sequence that no step takes down ascends.
LEMMA StepsAscend ==
    ASSUME NEW s \in Seq(Int), \A i \in 1 .. Len(s) - 1 : s[i] <= s[i + 1]
    PROVE  Ascending(s)
<1> SUFFICES ASSUME NEW i \in DOMAIN s, NEW j \in DOMAIN s, i <= j, ~(s[i] <= s[j])
             PROVE  FALSE
  BY DEF Ascending
<1> DEFINE Bad == {n \in i .. Len(s) : ~(s[i] <= s[n])}
<1>1. j \in Bad /\ Bad \subseteq Nat
  OBVIOUS
<1>2. PICK n \in Bad : \A m \in Bad : n <= m
  BY <1>1, LeastMember
<1>3. n # i /\ n - 1 \in i .. Len(s) /\ n - 1 \in 1 .. Len(s) - 1
  OBVIOUS
<1>4. s[i] <= s[n - 1]
  BY <1>2, <1>3
<1>5. s[n - 1] <= s[n]
  BY <1>3
<1> QED
  BY <1>3, <1>4, <1>5

LEMMA FromOne == ASSUME NEW n \in Nat, NEW i \in 0 .. n - 1 PROVE i + 1 \in 1 .. n
OBVIOUS

\* Cell (i, c) of a matrix with n rows of k cells, stored row by row.
LEMMA RowCells ==
    ASSUME NEW n \in Nat, NEW k \in Nat, NEW i \in 0 .. n - 1, NEW c \in 0 .. k - 1
    PROVE  i * k + c \in 0 .. n * k - 1
<1>1. i * k \in Nat /\ (n - 1 - i) * k \in Nat
  OBVIOUS
<1>2. n * k = i * k + (n - 1 - i) * k + k
  OBVIOUS
<1> QED
  BY <1>1, <1>2

\* A longer sequence, and when it ascends.
LEMMA Longer ==
    ASSUME NEW s \in Seq(Int), NEW x \in Int
    PROVE  /\ Append(s, x) \in Seq(Int) /\ Append(s, x) # <<>>
           /\ Len(Append(s, x)) = Len(s) + 1
           /\ DOMAIN Append(s, x) = 1 .. Len(s) + 1
           /\ \A j \in 1 .. Len(s) : Append(s, x)[j] = s[j]
           /\ Append(s, x)[Len(s) + 1] = x
BY AppendProperties

LEMMA LongerAscends ==
    ASSUME NEW s \in Seq(Int), Len(s) > 0, Ascending(s), NEW x \in Int, s[Len(s)] <= x
    PROVE  Ascending(Append(s, x))
<1> DEFINE r == Append(s, x)
<1>1. /\ r \in Seq(Int) /\ Len(s) \in Nat /\ DOMAIN s = 1 .. Len(s)
      /\ DOMAIN r = 1 .. Len(s) + 1 /\ r[Len(s) + 1] = x
      /\ \A j \in 1 .. Len(s) : r[j] = s[j]
  BY Longer
<1> HIDE DEF r
<1> SUFFICES ASSUME NEW j \in DOMAIN r, NEW l \in DOMAIN r, j <= l
             PROVE  r[j] <= r[l]
  BY DEF Ascending, r
<1>2. CASE l \in 1 .. Len(s)
  <2>1. j \in 1 .. Len(s)
    BY <1>1, <1>2
  <2>2. s[j] <= s[l]
    BY <1>1, <1>2, <2>1 DEF Ascending
  <2> QED
    BY <1>1, <1>2, <2>1, <2>2
<1>3. CASE l = Len(s) + 1 /\ j \in 1 .. Len(s)
  <2>1. s[j] <= s[Len(s)] /\ s[j] \in Int /\ s[Len(s)] \in Int
    BY <1>1, <1>3 DEF Ascending
  <2> QED
    BY <1>1, <1>3, <2>1
<1>4. CASE l = Len(s) + 1 /\ j = Len(s) + 1
  BY <1>1, <1>4
<1> QED
  BY <1>1, <1>2, <1>3, <1>4

\* What two sequences joined consist of.
LEMMA Joined ==
    ASSUME NEW s \in Seq(Int), NEW t \in Seq(Int), NEW S,
           \A j \in 1 .. Len(s) : s[j] \in S, \A j \in 1 .. Len(t) : t[j] \in S
    PROVE  /\ s \o t \in Seq(Int) /\ Len(s \o t) = Len(s) + Len(t)
           /\ \A j \in 1 .. Len(s) + Len(t) : (s \o t)[j] \in S
<1>1. /\ s \o t \in Seq(Int) /\ Len(s \o t) = Len(s) + Len(t)
      /\ \A j \in 1 .. Len(s) + Len(t) :
            (s \o t)[j] = IF j <= Len(s) THEN s[j] ELSE t[j - Len(s)]
  BY ConcatProperties
<1>2. ASSUME NEW j \in 1 .. Len(s) + Len(t) PROVE (s \o t)[j] \in S
  <2>1. CASE j <= Len(s)
    BY <1>1, <2>1
  <2>2. CASE ~(j <= Len(s))
    <3>1. j - Len(s) \in 1 .. Len(t)
      BY <2>2
    <3> QED
      BY <1>1, <2>2, <3>1
  <2> QED
    BY <2>1, <2>2
<1> QED
  BY <1>1, <1>2

\* r is s with its elements replaced by numbers.
Rewrites(r, s) == r = [c \in DOMAIN s |-> r[c]] /\ \A c \in DOMAIN s : r[c] \in Int

\* Elements replaced by numbers leave a sequence of the same length.
LEMMA SameLength ==
    ASSUME NEW s \in Seq(Int), NEW r, Rewrites(r, s)
    PROVE  r \in Seq(Int) /\ Len(r) = Len(s)
<1>1. DOMAIN s = 1 .. Len(s) /\ Len(s) \in Nat
  BY LenProperties
<1>2. r \in [1 .. Len(s) -> Int]
  BY <1>1 DEF Rewrites
<1> QED
  BY <1>1, <1>2, LenProperties

LEMMA WellFormedSorted ==
    ASSUME NEW m \in Matrices, Len(m.rp) = m.rows + 1, WellFormed(m)
    PROVE  Sorted(m)
<1>1. m.rp \in Seq(Int) /\ m.rows \in Nat
  BY DEF Matrices
<1>2. \A i \in 1 .. Len(m.rp) - 1 : m.rp[i] <= m.rp[i + 1]
  <2> SUFFICES ASSUME NEW i \in 1 .. Len(m.rp) - 1
               PROVE  m.rp[i] <= m.rp[i + 1]
    OBVIOUS
  <2>1. i - 1 \in 0 .. m.rows - 1
    BY <1>1
  <2>2. Entry(m.rp, i - 1) <= Entry(m.rp, (i - 1) + 1)
    BY <2>1 DEF WellFormed
  <2> QED
    BY <1>1, <2>2 DEF Entry
<1>3. Ascending(m.rp)
  BY <1>1, <1>2, StepsAscend
<1> QED
  BY <1>1, <1>3 DEF WellFormed, Sorted, Entry, Nnz

LEMMA EntryType ==
    ASSUME NEW s \in Seq(Int), NEW k \in 0 .. Len(s) - 1
    PROVE  Entry(s, k) \in Int
<1>1. k + 1 \in 1 .. Len(s)
  BY LenProperties
<1> QED
  BY <1>1, ElementOfSeq DEF Entry

LEMMA RowInside ==
    ASSUME NEW m \in Matrices, Sorted(m), Len(m.rp) = m.rows + 1, NEW i \in 0 .. m.rows - 1
    PROVE  /\ Entry(m.rp, i) \in Nat /\ Entry(m.rp, i + 1) \in Nat
           /\ Entry(m.rp, i) <= Entry(m.rp, i + 1) /\ Entry(m.rp, i + 1) <= Nnz(m)
           /\ Nnz(m) \in Nat
<1>1. m.rp \in Seq(Int) /\ m.vp \in Seq(Int) /\ m.rows \in Nat
  BY DEF Matrices
<1> DEFINE n == m.rows + 1
<1>2. DOMAIN m.rp = 1 .. n /\ Len(m.vp) \in Nat /\ n \in Nat
  BY <1>1, LenProperties
<1>3. 1 \in 1 .. n /\ n \in 1 .. n /\ i + 1 \in 1 .. n /\ (i + 1) + 1 \in 1 .. n
  BY <1>1, SMTT(30)
<1> HIDE DEF n
<1>4. \A j \in 1 .. n : m.rp[j] \in Int
  BY <1>1, <1>2, ElementOfSeq
<1>5. \A j, l \in 1 .. n : j <= l => m.rp[j] <= m.rp[l]
  BY <1>2 DEF Sorted, Ascending
<1>6. m.rp[1] = 0 /\ m.rp[n] = Len(m.vp)
  BY DEF Sorted, n
<1>7. 1 <= i + 1 /\ i + 1 <= (i + 1) + 1 /\ (i + 1) + 1 <= n
  BY <1>1 DEF n
<1>8. m.rp[1] <= m.rp[i + 1] /\ m.rp[i + 1] <= m.rp[(i + 1) + 1] /\ m.rp[(i + 1) + 1] <= m.rp[n]
  BY <1>3, <1>5, <1>7
<1>9. m.rp[i + 1] \in Int /\ m.rp[(i + 1) + 1] \in Int
  BY <1>3, <1>4
<1>10. /\ m.rp[i + 1] \in Nat /\ m.rp[(i + 1) + 1] \in Nat
       /\ m.rp[i + 1] <= m.rp[(i + 1) + 1] /\ m.rp[(i + 1) + 1] <= Len(m.vp)
  BY <1>2, <1>6, <1>8, <1>9
<1> QED
  BY <1>2, <1>10 DEF Entry, Nnz

\* No operand is both an Array and a DenseMatrix.
LEMMA Apart == \A x \in Vectors : x \notin Denses
<1> SUFFICES ASSUME NEW x \in Vectors, x \in Denses PROVE FALSE
  OBVIOUS
<1>1. DOMAIN x = {"words", "base", "stride", "size", "dt"}
  BY VectorsAssumption
<1>2. DOMAIN x = {"rows", "cols", "flat"}
  BY ArgumentsAssumption
<1> QED
  BY <1>1, <1>2

-----------------------------------------------------------------------------
(* The Laplacian *)

LEMMA NeighboursType ==
    ASSUME NEW n \in Nat, NEW i \in 0 .. n - 1
    PROVE  /\ Neighbours(n, i) \in Seq(Int)
           /\ \A c \in 1 .. Len(Neighbours(n, i)) : Neighbours(n, i)[c] \in 0 .. n - 1
<1> DEFINE left == IF i > 0 THEN <<i - 1>> ELSE <<>>
           right == IF i + 1 < n THEN <<i + 1>> ELSE <<>>
<1>1. left \in Seq(Int) /\ \A c \in 1 .. Len(left) : left[c] \in 0 .. n - 1
  BY DEF left
<1>2. <<i>> \in Seq(Int) /\ \A c \in 1 .. Len(<<i>>) : <<i>>[c] \in 0 .. n - 1
  OBVIOUS
<1>3. right \in Seq(Int) /\ \A c \in 1 .. Len(right) : right[c] \in 0 .. n - 1
  BY DEF right
<1> HIDE DEF left, right
<1>4. /\ left \o <<i>> \in Seq(Int)
      /\ \A c \in 1 .. Len(left \o <<i>>) : (left \o <<i>>)[c] \in 0 .. n - 1
  BY <1>1, <1>2, Joined
<1>5. /\ (left \o <<i>>) \o right \in Seq(Int)
      /\ \A c \in 1 .. Len((left \o <<i>>) \o right) :
            ((left \o <<i>>) \o right)[c] \in 0 .. n - 1
  BY <1>3, <1>4, Joined
<1>6. Neighbours(n, i) = (left \o <<i>>) \o right
  BY DEF Neighbours, left, right
<1> QED
  BY <1>5, <1>6

\* One turn of the loop keeps the matrix sound.
LEMMA RowKeepsSorted ==
    ASSUME TypeOK, MatrixBuilt, LaplacianRow
    PROVE  /\ a' \in Matrices /\ Sorted(a')
           /\ Len(a'.rp) = Len(a.rp) + 1 /\ a'.rows = a.rows /\ a'.cols = a.rows
           /\ Len(a'.ci) = Len(a'.vp)
<1> DEFINE i == Len(a.rp) - 1
           row == Neighbours(a.rows, i)
           values == [c \in DOMAIN row |-> IF row[c] = i THEN 2 ELSE -1]
<1>1. /\ a.rows \in Nat /\ a.cols \in Nat
      /\ a.rp \in Seq(Int) /\ a.ci \in Seq(Int) /\ a.vp \in Seq(Int)
  BY DEF TypeOK, Matrices
<1>2. /\ Sorted(a) /\ Len(a.rp) \in 1 .. a.rows
      /\ a.cols = a.rows /\ Len(a.ci) = Len(a.vp)
  BY DEF LaplacianRow, MatrixBuilt
<1>3. row \in Seq(Int) /\ \A c \in 1 .. Len(row) : row[c] \in 0 .. a.rows - 1
  <2>1. i \in 0 .. a.rows - 1
    BY <1>1, <1>2
  <2> QED
    BY <1>1, <2>1, NeighboursType
<1>5. /\ a'.rows = a.rows /\ a'.cols = a.cols
      /\ a'.ci = a.ci \o row /\ a'.vp = a.vp \o values
      /\ a'.rp = Append(a.rp, Len(a.ci) + Len(row))
      /\ a' = [rows |-> a'.rows, cols |-> a'.cols, rp |-> a'.rp, ci |-> a'.ci, vp |-> a'.vp]
  BY DEF LaplacianRow, TypeOK, Matrices
<1> HIDE DEF row
<1>4. values \in Seq(Int) /\ Len(values) = Len(row)
  <2>1. \A c \in DOMAIN row : values[c] \in Int
    OBVIOUS
  <2>2. values = [c \in DOMAIN row |-> values[c]]
    OBVIOUS
  <2> HIDE DEF values
  <2>3. Rewrites(values, row)
    BY <2>1, <2>2 DEF Rewrites
  <2> QED
    BY <1>3, <2>3, SameLength
<1> HIDE DEF values, i
<1>6. /\ a'.ci \in Seq(Int) /\ Len(a'.ci) = Len(a.ci) + Len(row)
      /\ \A k \in 1 .. Len(a'.ci) : a'.ci[k] \in 0 .. a.rows - 1
  <2>1. \A k \in 1 .. Len(a.ci) : a.ci[k] \in 0 .. a.rows - 1
    BY <1>1, <1>2 DEF Sorted
  <2>2. /\ a.ci \o row \in Seq(Int) /\ Len(a.ci \o row) = Len(a.ci) + Len(row)
        /\ \A k \in 1 .. Len(a.ci) + Len(row) : (a.ci \o row)[k] \in 0 .. a.rows - 1
    BY <1>1, <1>3, <2>1, Joined
  <2> QED
    BY <1>5, <2>2
<1>7. a'.vp \in Seq(Int) /\ Len(a'.vp) = Len(a.vp) + Len(row)
  BY <1>1, <1>4, <1>5, ConcatProperties
<1>8. Len(a.ci) \in Nat /\ Len(row) \in Nat /\ Len(a.rp) \in Nat
  BY <1>1, <1>3
<1>9. /\ a'.rp \in Seq(Int) /\ Len(a'.rp) = Len(a.rp) + 1
      /\ \A j \in 1 .. Len(a.rp) : a'.rp[j] = a.rp[j]
      /\ a'.rp[Len(a.rp) + 1] = Len(a.ci) + Len(row)
  BY <1>1, <1>5, <1>8, Longer
<1>10. a' \in Matrices
  BY <1>1, <1>5, <1>6, <1>7, <1>9 DEF Matrices
<1>11. Ascending(a'.rp)
  <2>1. Ascending(a.rp) /\ a.rp[Len(a.rp)] <= Len(a.ci) + Len(row)
    BY <1>2, <1>8 DEF Sorted
  <2>2. Len(a.rp) > 0 /\ Len(a.ci) + Len(row) \in Int
    BY <1>2, <1>8
  <2>3. Ascending(Append(a.rp, Len(a.ci) + Len(row)))
    BY <1>1, <2>1, <2>2, LongerAscends
  <2> QED
    BY <1>5, <2>3
<1>12. a'.rp # <<>> /\ a'.rp[1] = 0 /\ a'.rp[Len(a'.rp)] = Len(a'.vp)
  <2>1. a.rp[1] = 0 /\ 1 \in 1 .. Len(a.rp)
    BY <1>2, <1>8 DEF Sorted
  <2>2. a'.rp # <<>>
    <3>1. Len(a.ci) + Len(row) \in Int
      BY <1>8
    <3>2. Append(a.rp, Len(a.ci) + Len(row)) # <<>>
      BY <1>1, <3>1, Longer
    <3> QED
      BY <1>5, <3>2, Zenon
  <2>3. a'.rp[1] = 0
    BY <1>9, <2>1
  <2>4. a'.rp[Len(a'.rp)] = Len(a'.vp)
    <3>1. Len(a'.vp) = Len(a.ci) + Len(row)
      BY <1>2, <1>7
    <3> QED
      BY <1>9, <3>1
  <2> QED
    BY <2>2, <2>3, <2>4
<1>13. Sorted(a')
  BY <1>2, <1>5, <1>6, <1>11, <1>12 DEF Sorted
<1> QED
  BY <1>2, <1>5, <1>6, <1>7, <1>9, <1>10, <1>13

-----------------------------------------------------------------------------
(* The invariant *)

LEMMA InitInv == ASSUME Init PROVE IInv
<1>1. TypeOK
  <2>1. a = [rows |-> 0, cols |-> 0, rp |-> <<0>>, ci |-> <<>>, vp |-> <<>>]
    BY DEF Init
  <2>2. a \in Matrices
    BY <2>1 DEF Matrices
  <2>3. at \in [Workers -> Spots]
    BY DEF Init, NoRow, Spots
  <2> QED
    BY <2>2, <2>3 DEF Init, TypeOK
<1>2. MatrixBuilt /\ OperandTaken /\ SpotsInPlace /\ ReadsInside
  BY DEF Init, MatrixBuilt, OperandTaken, SpotsInPlace, ReadsInside
<1> QED
  BY <1>1, <1>2 DEF IInv

\* With sound arguments, the operand has a word for every column of the matrix
\* in every column of the result.
LEMMA SoundCells ==
    ASSUME IInv, pc \in {"rows", "done"}, Sound, NEW c \in 0 .. a.cols - 1, NEW col \in 0 .. width - 1
    PROVE  base + c * width + col \in 0 .. Len(mem) - 1
<1>1. a.cols \in Nat /\ base \in Nat /\ width \in Nat /\ mem \in Seq(Int)
  BY DEF IInv, TypeOK, Matrices
<1>2. Plain(operand) /\ Length(operand) >= a.cols
  BY DEF Sound
<1>3. CASE /\ operand \in Vectors
           /\ Len(mem) = Len(operand.words) /\ base = operand.base /\ width = 1
  <2>1. /\ operand \notin Denses /\ operand.size \in Nat /\ operand.stride \in Int
    BY <1>3, Apart, VectorsAssumption
  <2>2. /\ operand.dt = "f64" /\ operand.size >= a.cols
        /\ operand.stride = 1 \/ operand.size <= 1
    BY <1>2, <2>1 DEF Plain, Length
  <2>3. c \in 0 .. operand.size - 1 /\ c * operand.stride = c
    BY <1>1, <2>1, <2>2
  <2>4. operand.base + c * operand.stride \in 0 .. Len(operand.words) - 1
    BY <1>3, <2>2, <2>3, VectorsAssumption
  <2> QED
    BY <1>1, <1>3, <2>3, <2>4
<1>4. CASE /\ operand \in Denses
           /\ Len(mem) = operand.rows * operand.cols /\ base = 0 /\ width = operand.cols
  <2>1. operand.rows \in Nat /\ operand.cols \in Nat
    BY <1>4, ArgumentsAssumption
  <2>2. c \in 0 .. operand.rows - 1
    BY <1>1, <1>2, <1>4, <2>1 DEF Length
  <2>3. c * operand.cols + col \in 0 .. operand.rows * operand.cols - 1
    BY <1>4, <2>1, <2>2, RowCells
  <2>4. c * operand.cols \in Int /\ col \in Int
    BY <1>1, <2>1, <2>2
  <2> QED
    BY <1>4, <2>3, <2>4
<1> QED
  BY <1>3, <1>4 DEF IInv, OperandTaken

\* The columns of the matrix are columns.
LEMMA SoundMatrix ==
    ASSUME IInv, pc \in {"rows", "done"}, Sound
    PROVE  /\ a \in Matrices /\ Sorted(a) /\ Len(a.rp) = a.rows + 1 /\ Len(a.ci) = Len(a.vp)
           /\ Nnz(a) \in Nat
           /\ \A k \in 0 .. Nnz(a) - 1 : Entry(a.ci, k) \in 0 .. a.cols - 1
<1>1. /\ a \in Matrices /\ Len(a.rp) = a.rows + 1 /\ Len(a.ci) = Len(a.vp)
      /\ a.ci \in Seq(Int) /\ a.vp \in Seq(Int)
  BY DEF IInv, TypeOK, MatrixBuilt, Matrices
<1>2. Sorted(a)
  BY <1>1, WellFormedSorted DEF IInv, MatrixBuilt, Sound
<1>3. Nnz(a) \in Nat /\ Nnz(a) = Len(a.ci) /\ DOMAIN a.ci = 1 .. Len(a.ci)
  BY <1>1, LenProperties DEF Nnz
<1>4. ASSUME NEW k \in 0 .. Nnz(a) - 1 PROVE Entry(a.ci, k) \in 0 .. a.cols - 1
  <2>1. k + 1 \in DOMAIN a.ci
    BY <1>3
  <2> QED
    BY <1>2, <2>1 DEF Sorted, Entry
<1> QED
  BY <1>1, <1>2, <1>3, <1>4

\* With sound arguments, what a worker is about to read is there.
LEMMA SoundReads ==
    ASSUME IInv, pc = "rows", NEW w \in Workers, at[w] # NoRow, InRow(at[w]), Sound
    PROVE  Reads(at[w])
<1> DEFINE p == at[w]
<1>1. p.row \in 0 .. a.rows - 1 /\ Entry(a.rp, p.row) <= p.k /\ p.col \in 0 .. width - 1
  BY DEF IInv, SpotsInPlace, InPlace
<1>2. p.k \in Int /\ p.k < Entry(a.rp, p.row + 1)
  BY DEF IInv, TypeOK, Spots, InRow
<1>3. a \in Matrices /\ Sorted(a) /\ Len(a.rp) = a.rows + 1
  BY SoundMatrix
<1> HIDE DEF p
<1>4. p.k \in 0 .. Nnz(a) - 1
  <2>1. /\ Entry(a.rp, p.row) \in Nat /\ Entry(a.rp, p.row + 1) \in Nat
        /\ Entry(a.rp, p.row + 1) <= Nnz(a) /\ Nnz(a) \in Nat
    BY <1>1, <1>3, RowInside
  <2> QED
    BY <1>1, <1>2, <2>1
<1>5. Entry(a.ci, p.k) \in 0 .. a.cols - 1
  BY <1>4, SoundMatrix
<1>6. Cell(p) \in 0 .. Len(mem) - 1
  BY <1>1, <1>5, SoundCells DEF Cell
<1> QED
  BY <1>4, <1>6 DEF Reads, p

LEMMA Stutter == ASSUME IInv, UNCHANGED vars PROVE IInv'
BY DEF IInv, TypeOK, MatrixBuilt, OperandTaken, SpotsInPlace, InPlace, ReadsInside, Sound, vars, opVars

LEMMA RaiseStep == ASSUME IInv, pc \in {"build", "call"}, Raise PROVE IInv'
<1>1. TypeOK'
  BY DEF IInv, TypeOK, Raise, opVars
<1>2. MatrixBuilt' /\ OperandTaken' /\ SpotsInPlace' /\ ReadsInside'
  BY DEF IInv, MatrixBuilt, OperandTaken, SpotsInPlace, ReadsInside, Raise
<1> QED
  BY <1>1, <1>2 DEF IInv

LEMMA FromCsrStep == ASSUME IInv, NEW in \in CsrInputs, FromCsr(in) PROVE IInv'
<1>1. CASE Raise
  BY <1>1, RaiseStep DEF FromCsr
<1>2. CASE /\ Len(in.rp) = in.rows + 1 /\ Len(in.ci) = Len(in.vp)
           /\ a' = in /\ pc' = "call"
           /\ UNCHANGED <<opVars, out, todo, at, writes>>
  <2>1. TypeOK'
    BY <1>2, ArgumentsAssumption DEF IInv, TypeOK, opVars
  <2>2. MatrixBuilt' /\ OperandTaken' /\ ReadsInside'
    BY <1>2 DEF MatrixBuilt, OperandTaken, ReadsInside
  <2>3. SpotsInPlace'
    BY <1>2 DEF IInv, SpotsInPlace, FromCsr
  <2> QED
    BY <2>1, <2>2, <2>3 DEF IInv
<1> QED
  BY <1>1, <1>2 DEF FromCsr

LEMMA LaplacianStep == ASSUME IInv, NEW n \in Sizes, Laplacian(n) PROVE IInv'
<1> DEFINE m == [rows |-> n, cols |-> n, rp |-> <<0>>, ci |-> <<>>, vp |-> <<>>]
<1>1. a' = m /\ n \in Nat
  BY ArgumentsAssumption DEF Laplacian
<1>2. m \in Matrices
  BY <1>1 DEF Matrices
<1>3. Sorted(m)
  BY <1>1 DEF Sorted, Ascending
<1>4. Len(m.rp) = 1 /\ m.rows = n /\ m.cols = n /\ Len(m.ci) = Len(m.vp)
  OBVIOUS
<1> HIDE DEF m
<1>5. TypeOK'
  BY <1>1, <1>2 DEF IInv, TypeOK, Laplacian, opVars
<1>6. MatrixBuilt'
  BY <1>1, <1>3, <1>4 DEF MatrixBuilt, Laplacian
<1>7. OperandTaken' /\ SpotsInPlace' /\ ReadsInside'
  BY DEF IInv, OperandTaken, SpotsInPlace, ReadsInside, Laplacian
<1> QED
  BY <1>5, <1>6, <1>7 DEF IInv

LEMMA LaplacianRowStep == ASSUME IInv, LaplacianRow PROVE IInv'
<1>1. /\ a' \in Matrices /\ Sorted(a')
      /\ Len(a'.rp) = Len(a.rp) + 1 /\ a'.rows = a.rows /\ a'.cols = a.rows
      /\ Len(a'.ci) = Len(a'.vp)
  BY RowKeepsSorted DEF IInv
<1>2. Len(a.rp) \in 1 .. a.rows /\ a.rows \in Nat
  BY DEF IInv, TypeOK, Matrices, MatrixBuilt, LaplacianRow
<1>3. /\ pc' = IF Len(a.rp) = a.rows THEN "call" ELSE "laplacian"
      /\ pc = "laplacian" /\ UNCHANGED <<opVars, out, todo, at, writes>>
  BY <1>2 DEF LaplacianRow
<1>4. TypeOK'
  BY <1>1, <1>3 DEF IInv, TypeOK, opVars
<1>5. MatrixBuilt'
  BY <1>1, <1>2, <1>3 DEF MatrixBuilt
<1>6. OperandTaken' /\ SpotsInPlace' /\ ReadsInside'
  BY <1>3 DEF IInv, OperandTaken, SpotsInPlace, ReadsInside
<1> QED
  BY <1>4, <1>5, <1>6 DEF IInv

LEMMA LaunchStep ==
    ASSUME IInv, pc = "call", NEW o, NEW words \in Seq(Int), NEW from \in Nat, NEW k \in Nat,
           Launch(o, words, from, k),
           \/ o \in Vectors /\ words = o.words /\ from = o.base /\ k = 1
           \/ o \in Denses /\ Len(words) = o.rows * o.cols /\ from = 0 /\ k = o.cols
    PROVE  IInv'
<1>1. a.rows \in Nat
  BY DEF IInv, TypeOK, Matrices
<1>2. a.rows * k \in Nat
  BY <1>1
<1>3. /\ operand' = o /\ mem' = words /\ base' = from /\ width' = k
      /\ out' = [c \in 1 .. a.rows * k |-> 0] /\ todo' = 0 .. a.rows - 1
      /\ pc' = IF a.rows * k = 0 THEN "done" ELSE "rows"
      /\ UNCHANGED <<a, at, writes>>
  BY DEF Launch
<1>4. out' \in Seq(Int) /\ Len(out') = a.rows * k
  BY <1>2, <1>3
<1>5. TypeOK'
  BY <1>3, <1>4 DEF IInv, TypeOK
<1>6. MatrixBuilt' /\ OperandTaken' /\ ReadsInside'
  BY <1>3 DEF IInv, MatrixBuilt, OperandTaken, ReadsInside
<1>7. pc' = "rows" => k > 0
  BY <1>1, <1>3
<1>8. SpotsInPlace'
  BY <1>3, <1>4, <1>7 DEF IInv, SpotsInPlace
<1> QED
  BY <1>5, <1>6, <1>8 DEF IInv

LEMMA AgainStep == ASSUME IInv, Again PROVE IInv'
<1>1. /\ pc = "done" /\ pc' = (IF out = <<>> THEN "done" ELSE "rows")
      /\ todo' = 0 .. a.rows - 1
      /\ UNCHANGED <<a, operand, mem, base, width, out, at, writes>>
  BY DEF Again
<1>2. TypeOK'
  BY <1>1 DEF IInv, TypeOK
<1>3. MatrixBuilt' /\ OperandTaken' /\ ReadsInside'
  BY <1>1 DEF IInv, MatrixBuilt, OperandTaken, ReadsInside
<1>4. pc' = "rows" => width > 0
  <2>1. Len(out) = a.rows * width /\ a.rows \in Nat /\ width \in Nat /\ out \in Seq(Int)
    BY <1>1 DEF IInv, TypeOK, Matrices, SpotsInPlace
  <2>2. width = 0 => out = <<>>
    BY <2>1, EmptySeq
  <2> QED
    BY <1>1, <2>1, <2>2
<1>5. SpotsInPlace'
  BY <1>1, <1>4 DEF IInv, SpotsInPlace
<1> QED
  BY <1>2, <1>3, <1>5 DEF IInv

LEMMA SpmvStep == ASSUME IInv, NEW x \in Vectors, Spmv(x) PROVE IInv'
<1>1. x.words \in Seq(Int) /\ x.base \in Nat
  BY VectorsAssumption
<1>2. CASE Launch(x, x.words, x.base, 1)
  BY <1>1, <1>2, LaunchStep DEF Spmv
<1> QED
  BY <1>2, RaiseStep DEF Spmv

LEMMA SpmmStep == ASSUME IInv, NEW d \in Denses, Spmm(d) PROVE IInv'
<1>1. d.flat \in Seq(Int) /\ d.cols \in Nat
  BY ArgumentsAssumption
<1>2. CASE Len(d.flat) = d.rows * d.cols /\ Launch(d, d.flat, 0, d.cols)
  BY <1>1, <1>2, LaunchStep DEF Spmm
<1> QED
  BY <1>2, RaiseStep DEF Spmm

LEMMA TakeRowStep ==
    ASSUME IInv, NEW w \in Workers, NEW i \in todo, TakeRow(w, i)
    PROVE  IInv'
<1>1. /\ pc = "rows" /\ todo' = todo \ {i}
      /\ at' = [at EXCEPT ![w] = [row |-> i, k |-> Entry(a.rp, i), col |-> 0]]
      /\ out' = [c \in DOMAIN out |-> IF (c - 1) \div width = i THEN 0 ELSE out[c]]
      /\ pc' = pc /\ a' = a /\ UNCHANGED opVars
  BY DEF TakeRow
<1>2. i \in 0 .. a.rows - 1 /\ a.rows \in Nat /\ width \in Nat /\ width > 0
  BY <1>1 DEF IInv, TypeOK, Matrices, SpotsInPlace
<1>3. Entry(a.rp, i) \in Int
  <2>1. a.rp \in Seq(Int) /\ Len(a.rp) = a.rows + 1
    BY <1>1 DEF IInv, TypeOK, Matrices, MatrixBuilt
  <2>2. i + 1 \in 1 .. Len(a.rp)
    BY <1>2, <2>1
  <2> QED
    BY <2>1, <2>2, ElementOfSeq DEF Entry
<1>4. out' \in Seq(Int) /\ Len(out') = Len(out)
  <2>1. out \in Seq(Int)
    BY DEF IInv, TypeOK
  <2>2. DOMAIN out = 1 .. Len(out) /\ \A c \in 1 .. Len(out) : out[c] \in Int
    BY <2>1, LenProperties, ElementOfSeq
  <2>3. \A c \in DOMAIN out : out'[c] \in Int
    BY <1>1, <2>2
  <2>4. out' = [c \in DOMAIN out |-> out'[c]]
    BY <1>1
  <2>5. Rewrites(out', out)
    BY <2>3, <2>4 DEF Rewrites
  <2> QED
    BY <2>1, <2>5, SameLength
<1>5. at' \in [Workers -> Spots]
  BY <1>1, <1>2, <1>3 DEF IInv, TypeOK, Spots
<1>6. TypeOK'
  BY <1>1, <1>4, <1>5 DEF IInv, TypeOK, opVars
<1>7. MatrixBuilt' /\ OperandTaken' /\ ReadsInside'
  BY <1>1 DEF IInv, MatrixBuilt, OperandTaken, ReadsInside, opVars
<1>8. InPlace(at'[w], a, width)
  BY <1>1, <1>2, <1>3 DEF IInv, TypeOK, InPlace
<1>9. SpotsInPlace'
  <2>1. \A v \in Workers : at'[v] = NoRow \/ InPlace(at'[v], a', width')
    BY <1>1, <1>8 DEF IInv, TypeOK, SpotsInPlace, opVars
  <2> QED
    BY <1>1, <1>4, <2>1 DEF IInv, SpotsInPlace, opVars
<1> QED
  BY <1>6, <1>7, <1>9 DEF IInv

\* Where a multiplication takes a worker is in its row again.
LEMMA MultiplyStep ==
    ASSUME IInv, NEW w \in Workers, Multiply(w)
    PROVE  IInv'
<1> DEFINE p == at[w]
           next == IF p.col + 1 < width THEN [p EXCEPT !.col = @ + 1]
                   ELSE [p EXCEPT !.k = @ + 1, !.col = 0]
           cell == p.row * width + p.col + 1
<1>1. pc = "rows" /\ p # NoRow /\ InRow(p) /\ a' = a /\ UNCHANGED <<opVars, todo, writes>>
  BY DEF Multiply
<1>2. CASE Reads(p)
  <2>1. /\ out' = [out EXCEPT ![cell] = @ + Entry(a.vp, p.k) * Entry(mem, Cell(p))]
        /\ at' = [at EXCEPT ![w] = next] /\ pc' = pc
    BY <1>2 DEF Multiply
  <2>2. p \in Spots /\ InPlace(p, a, width) /\ width \in Nat /\ width > 0 /\ at \in [Workers -> Spots]
    BY <1>1 DEF IInv, TypeOK, SpotsInPlace
  <2>3. next \in Spots
    <3>1. p \in [row : Int, k : Int, col : Int]
      BY <2>2 DEF Spots
    <3>2. /\ [p EXCEPT !.col = @ + 1] = [row |-> p.row, k |-> p.k, col |-> p.col + 1]
          /\ [p EXCEPT !.k = @ + 1, !.col = 0] = [row |-> p.row, k |-> p.k + 1, col |-> 0]
          /\ p.row \in Int /\ p.k \in Int /\ p.col \in Int
      <4> DEFINE q == [p EXCEPT !.k = @ + 1]
      <4>1. q = [row |-> p.row, k |-> p.k + 1, col |-> p.col]
        BY <3>1
      <4>2. [p EXCEPT !.k = @ + 1, !.col = 0] = [q EXCEPT !.col = 0]
        OBVIOUS
      <4> HIDE DEF q
      <4>3. [q EXCEPT !.col = 0] = [row |-> p.row, k |-> p.k + 1, col |-> 0]
        BY <4>1
      <4> QED
        BY <3>1, <4>2, <4>3
    <3> HIDE DEF p
    <3>3. /\ [row |-> p.row, k |-> p.k, col |-> p.col + 1] \in Spots
          /\ [row |-> p.row, k |-> p.k + 1, col |-> 0] \in Spots
      BY <3>2 DEF Spots
    <3> QED
      BY <3>2, <3>3 DEF next
  <2>4. /\ next.row = p.row
        /\ \/ next.k = p.k /\ next.col = p.col + 1 /\ p.col + 1 < width
           \/ next.k = p.k + 1 /\ next.col = 0
    BY <2>2 DEF Spots
  <2>5. InPlace(next, a, width)
    <3>1. p.k \in Int /\ p.col \in Int /\ Entry(a.rp, p.row) <= p.k /\ p.col \in 0 .. width - 1
      BY <2>2 DEF Spots, InPlace
    <3>2. Entry(a.rp, p.row) \in Int
      <4>1. a.rp \in Seq(Int) /\ Len(a.rp) = a.rows + 1 /\ a.rows \in Nat
        BY <1>1 DEF IInv, TypeOK, Matrices, MatrixBuilt
      <4>2. p.row + 1 \in 1 .. Len(a.rp)
        BY <2>2, <4>1 DEF InPlace
      <4> QED
        BY <4>1, <4>2, ElementOfSeq DEF Entry
    <3> HIDE DEF next, p
    <3>3. /\ next.row \in 0 .. a.rows - 1 /\ Entry(a.rp, next.row) <= next.k
          /\ next.col \in 0 .. width - 1
      BY <2>2, <2>4, <3>1, <3>2 DEF InPlace
    <3> QED
      BY <3>3 DEF InPlace
  <2>6. Entry(a.vp, p.k) \in Int /\ Entry(mem, Cell(p)) \in Int
    <3>1. /\ p.k \in 0 .. Len(a.vp) - 1 /\ Cell(p) \in 0 .. Len(mem) - 1
          /\ a.vp \in Seq(Int) /\ mem \in Seq(Int)
      BY <1>2 DEF Reads, Nnz, IInv, TypeOK, Matrices
    <3>2. p.k + 1 \in 1 .. Len(a.vp) /\ Cell(p) + 1 \in 1 .. Len(mem)
      <4>1. Len(a.vp) \in Nat /\ Len(mem) \in Nat
        BY <3>1, LenProperties
      <4> QED
        BY <3>1, <4>1, FromOne
    <3> QED
      BY <3>1, <3>2, ElementOfSeq DEF Entry
  <2>7. out' \in Seq(Int) /\ Len(out') = Len(out)
    <3> DEFINE sum == Entry(a.vp, p.k) * Entry(mem, Cell(p))
    <3>1. sum \in Int /\ out' = [out EXCEPT ![cell] = @ + sum] /\ out \in Seq(Int)
      BY <2>1, <2>6 DEF IInv, TypeOK
    <3> HIDE DEF sum, cell
    <3>2. out' = [c \in DOMAIN out |-> out'[c]]
      BY <3>1
    <3>3. \A c \in DOMAIN out : out'[c] \in Int
      BY <3>1
    <3>4. Rewrites(out', out)
      BY <3>2, <3>3 DEF Rewrites
    <3> QED
      BY <3>1, <3>4, SameLength
  <2> HIDE DEF next
  <2>8. TypeOK'
    BY <1>1, <2>1, <2>2, <2>3, <2>7 DEF IInv, TypeOK, opVars
  <2>9. MatrixBuilt' /\ OperandTaken' /\ ReadsInside'
    BY <1>1, <2>1 DEF IInv, MatrixBuilt, OperandTaken, ReadsInside, opVars
  <2>10. SpotsInPlace'
    <3>1. \A v \in Workers : at'[v] = NoRow \/ InPlace(at'[v], a', width')
      BY <1>1, <2>1, <2>2, <2>5 DEF IInv, SpotsInPlace, opVars
    <3> QED
      BY <1>1, <2>1, <2>7, <3>1 DEF IInv, SpotsInPlace, opVars
  <2> QED
    BY <2>8, <2>9, <2>10 DEF IInv
<1>3. CASE ~Reads(p)
  <2>1. pc' = "wild" /\ UNCHANGED <<out, at>>
    BY <1>3 DEF Multiply
  <2>2. ~Sound
    BY <1>1, <1>3, SoundReads
  <2>3. ReadsInside'
    BY <1>1, <2>2 DEF ReadsInside, Sound, Plain, Length, opVars
  <2>4. TypeOK'
    BY <1>1, <2>1 DEF IInv, TypeOK, opVars
  <2>5. MatrixBuilt' /\ OperandTaken' /\ SpotsInPlace'
    BY <1>1, <2>1 DEF IInv, MatrixBuilt, OperandTaken, SpotsInPlace, InPlace, opVars
  <2> QED
    BY <2>3, <2>4, <2>5 DEF IInv
<1> QED
  BY <1>2, <1>3

LEMMA EndRowStep == ASSUME IInv, NEW w \in Workers, EndRow(w) PROVE IInv'
<1>1. /\ pc = "rows" /\ at' = [at EXCEPT ![w] = NoRow]
      /\ UNCHANGED <<pc, a, opVars, out, todo, writes>>
  BY DEF EndRow
<1>2. NoRow \in Spots
  BY DEF NoRow, Spots
<1>3. TypeOK'
  BY <1>1, <1>2 DEF IInv, TypeOK, opVars
<1>4. MatrixBuilt' /\ OperandTaken' /\ ReadsInside'
  BY <1>1 DEF IInv, MatrixBuilt, OperandTaken, ReadsInside, opVars
<1>5. SpotsInPlace'
  BY <1>1 DEF IInv, TypeOK, SpotsInPlace, InPlace, opVars
<1> QED
  BY <1>3, <1>4, <1>5 DEF IInv

LEMMA FinishStep == ASSUME IInv, Finish PROVE IInv'
<1>1. TypeOK' /\ MatrixBuilt' /\ OperandTaken' /\ ReadsInside'
  BY DEF Finish, IInv, TypeOK, MatrixBuilt, OperandTaken, ReadsInside, opVars
<1>2. SpotsInPlace'
  BY DEF Finish, IInv, SpotsInPlace, opVars
<1> QED
  BY <1>1, <1>2 DEF IInv

LEMMA SetEntryStep == ASSUME IInv, NEW c \in DOMAIN mem, SetEntry(c) PROVE IInv'
<1>1. /\ pc = "rows" /\ mem' = [mem EXCEPT ![c] = NewValue]
      /\ UNCHANGED <<pc, a, operand, base, width, before, out, todo, at>>
  BY DEF SetEntry
<1>2. mem' \in Seq(Int) /\ Len(mem') = Len(mem)
  BY <1>1, ArgumentsAssumption DEF IInv, TypeOK
<1>3. TypeOK'
  BY <1>1, <1>2 DEF IInv, TypeOK
<1>4. MatrixBuilt' /\ OperandTaken' /\ ReadsInside'
  BY <1>1, <1>2 DEF IInv, MatrixBuilt, OperandTaken, ReadsInside
<1>5. SpotsInPlace'
  BY <1>1 DEF IInv, SpotsInPlace, InPlace
<1> QED
  BY <1>3, <1>4, <1>5 DEF IInv

LEMMA NextStep == ASSUME IInv, Next PROVE IInv'
BY FromCsrStep, LaplacianStep, LaplacianRowStep, SpmvStep, SpmmStep, TakeRowStep,
   MultiplyStep, EndRowStep, FinishStep, SetEntryStep DEF Next

\* The benchmarks start a kernel without comparing sizes, and again.
LEMMA BNextStep == ASSUME IInv, BNext PROVE IInv'
<1>1. ASSUME NEW x \in Vectors, NEW p \in Params, BenchSpmv(x, p) PROVE IInv'
  <2>1. x.words \in Seq(Int) /\ x.base \in Nat
    BY VectorsAssumption
  <2> QED
    BY <1>1, <2>1, LaunchStep DEF BenchSpmv
<1>2. ASSUME NEW d \in Denses, NEW p \in Params, BenchSpmm(d, p) PROVE IInv'
  <2>1. d.flat \in Seq(Int) /\ d.cols \in Nat
    BY ArgumentsAssumption
  <2> QED
    BY <1>2, <2>1, LaunchStep DEF BenchSpmm
<1>3. CASE WarmedUp
  BY <1>3, AgainStep DEF WarmedUp
<1>4. ASSUME NEW dt \in Durations, Timed(dt) PROVE IInv'
  BY <1>4, AgainStep, Stutter DEF Timed
<1> QED
  BY <1>1, <1>2, <1>3, <1>4, NextStep DEF BNext

LEMMA InvWritesInside == ASSUME IInv PROVE WritesInside
<1> SUFFICES ASSUME NEW w \in Workers, pc = "rows", at[w] # NoRow
             PROVE  at[w].row * width + at[w].col + 1 \in DOMAIN out
  BY DEF WritesInside
<1> DEFINE r == at[w].row
           c == at[w].col
<1>1. r \in 0 .. a.rows - 1 /\ c \in 0 .. width - 1 /\ a.rows \in Nat /\ width \in Nat
  BY DEF IInv, TypeOK, Matrices, SpotsInPlace, InPlace
<1>2. out \in Seq(Int) /\ Len(out) = a.rows * width
  BY DEF IInv, TypeOK, SpotsInPlace
<1> HIDE DEF r, c
<1>3. r * width + c \in 0 .. a.rows * width - 1
  BY <1>1, RowCells
<1>4. DOMAIN out = 1 .. a.rows * width
  BY <1>2
<1>5. r * width \in Int /\ c \in Int /\ a.rows * width \in Int
  BY <1>1
<1>6. r * width + c + 1 \in DOMAIN out
  BY <1>3, <1>4, <1>5
<1> QED
  BY <1>6 DEF r, c

-----------------------------------------------------------------------------
(* The sums that the workers make *)

\* The products of column col of the operand with the entries of the matrix m,
\* the operand's words being old before entry `cut` and new from there on.
Terms(m, old, new, from, n, col, cut) ==
    [k \in 0 .. Nnz(m) - 1 |->
        Entry(m.vp, k) * Entry(IF k < cut THEN old ELSE new, from + Entry(m.ci, k) * n + col)]

\* x is the sum of row i before entry pos, for a cut not after pos.
SumsUpTo(x, m, old, new, from, n, i, col, pos) ==
    \E cut \in Entry(m.rp, i) .. pos :
        x = SetSum(Entry(m.rp, i) .. pos - 1, Terms(m, old, new, from, n, col, cut))

\* The words that a product of m takes are there.
Fits(m, old, new, from, n) ==
    /\ old \in Seq(Int) /\ new \in Seq(Int) /\ Len(old) = Len(new)
    /\ \A k \in 0 .. Nnz(m) - 1, col \in 0 .. n - 1 :
            from + Entry(m.ci, k) * n + col \in 0 .. Len(new) - 1

\* Cell (i, c) of rows of n cells is in row i.
LEMMA CellInRow ==
    ASSUME NEW n \in Nat, NEW i \in Int, NEW c \in 0 .. n - 1
    PROVE  (i * n + c) \div n = i
<1> DEFINE q == (i * n + c) \div n
<1>1. n > 0 /\ i * n \in Int
  OBVIOUS
<1>2. q \in Int /\ q * n <= i * n + c /\ i * n + c < q * n + n
  BY <1>1
<1> HIDE DEF q
<1>3. CASE q < i
  <2>1. (i - q - 1) * n >= 0
    BY <1>1, <1>2, <1>3
  <2> QED
    BY <1>1, <1>2, <2>1
<1>4. CASE q > i
  <2>1. (q - i - 1) * n >= 0
    BY <1>1, <1>2, <1>4
  <2> QED
    BY <1>1, <1>2, <2>1
<1> QED
  BY <1>2, <1>3, <1>4 DEF q

LEMMA CellsApart ==
    ASSUME NEW n \in Nat, NEW i \in Int, NEW c \in 0 .. n - 1, NEW j \in Int, NEW d \in 0 .. n - 1,
           i * n + c = j * n + d
    PROVE  i = j /\ c = d
<1>1. (i * n + c) \div n = i /\ (j * n + d) \div n = j
  BY CellInRow
<1>2. i = j
  BY <1>1
<1>3. i * n \in Int /\ i * n = j * n
  BY <1>2
<1> QED
  BY <1>2, <1>3

LEMMA TermsType ==
    ASSUME NEW m \in Matrices, NEW old, NEW new, NEW from, NEW n, Fits(m, old, new, from, n),
           NEW col \in 0 .. n - 1, NEW cut, NEW k \in 0 .. Nnz(m) - 1
    PROVE  /\ Terms(m, old, new, from, n, col, cut)[k] \in Int
           /\ Terms(m, old, new, from, n, col, cut)[k] =
                Entry(m.vp, k) * Entry(IF k < cut THEN old ELSE new, from + Entry(m.ci, k) * n + col)
<1> DEFINE c == from + Entry(m.ci, k) * n + col
<1>1. /\ old \in Seq(Int) /\ new \in Seq(Int)
      /\ c \in 0 .. Len(old) - 1 /\ c \in 0 .. Len(new) - 1
  BY DEF Fits
<1> HIDE DEF c
<1>2. Entry(old, c) \in Int /\ Entry(new, c) \in Int
  BY <1>1, EntryType
<1>3. Entry(m.vp, k) \in Int
  BY EntryType DEF Matrices, Nnz
<1>4. Entry(m.vp, k) * Entry(IF k < cut THEN old ELSE new, c) \in Int
  BY <1>2, <1>3
<1> QED
  BY <1>4 DEF Terms, c

\* A row that a worker starts has no products in its sum.
LEMMA SumsNothing ==
    ASSUME NEW m, NEW old, NEW new, NEW from, NEW n, NEW i, NEW col, Entry(m.rp, i) \in Nat
    PROVE  SumsUpTo(0, m, old, new, from, n, i, col, Entry(m.rp, i))
<1> DEFINE r == Entry(m.rp, i)
<1>1. r \in r .. r /\ r .. r - 1 = {} /\ r .. r - 1 \in SUBSET (0 .. r) /\ r \in Nat
  OBVIOUS
<1> HIDE DEF r
<1>2. SetSum(r .. r - 1, Terms(m, old, new, from, n, col, r)) = 0
  BY <1>1, SetSumTakes
<1> QED
  BY <1>1, <1>2 DEF SumsUpTo, r

\* One product more, with the operand as it is.
LEMMA SumsOneMore ==
    ASSUME NEW m \in Matrices, NEW old, NEW new, NEW from, NEW n, Fits(m, old, new, from, n),
           NEW i, NEW col \in 0 .. n - 1, NEW pos \in 0 .. Nnz(m) - 1,
           Entry(m.rp, i) \in Nat, Entry(m.rp, i) <= pos, NEW x,
           SumsUpTo(x, m, old, new, from, n, i, col, pos)
    PROVE  /\ x \in Int
           /\ SumsUpTo(x + Entry(m.vp, pos) * Entry(new, from + Entry(m.ci, pos) * n + col),
                       m, old, new, from, n, i, col, pos + 1)
<1> DEFINE r == Entry(m.rp, i)
<1>nnz. Nnz(m) \in Nat
  BY LenProperties DEF Nnz, Matrices
<1>1. PICK cut \in r .. pos : x = SetSum(r .. pos - 1, Terms(m, old, new, from, n, col, cut))
  BY DEF SumsUpTo
<1> DEFINE v == Terms(m, old, new, from, n, col, cut)
<1>2. /\ \A k \in r .. pos : v[k] \in Int
      /\ v[pos] = Entry(m.vp, pos) * Entry(new, from + Entry(m.ci, pos) * n + col)
  <2>1. \A k \in r .. pos : k \in 0 .. Nnz(m) - 1
    BY <1>nnz
  <2>2. ~(pos < cut)
    BY <1>1
  <2>3. pos \in 0 .. Nnz(m) - 1
    OBVIOUS
  <2>4. v[pos] = Entry(m.vp, pos) * Entry(IF pos < cut THEN old ELSE new, from + Entry(m.ci, pos) * n + col)
    BY TermsType
  <2>5. \A k \in r .. pos : v[k] \in Int
    BY <2>1, TermsType
  <2> QED
    BY <2>2, <2>4, <2>5
<1>3. r \in Nat /\ pos \in Nat /\ r <= pos /\ (pos + 1) - 1 = pos /\ cut \in r .. pos + 1
  OBVIOUS
<1> HIDE DEF v, r
<1>4. SetSum(r .. pos, v) = SetSum(r .. pos - 1, v) + v[pos] /\ SetSum(r .. pos - 1, v) \in Int
  BY <1>2, <1>3, SetSumNext
<1>5. SetSum(r .. (pos + 1) - 1, v) = x + v[pos] /\ x \in Int
  BY <1>1, <1>3, <1>4 DEF v
<1> QED
  BY <1>2, <1>3, <1>5 DEF SumsUpTo, v, r

\* What has been summed was summed before another thread set an entry.
LEMMA SumsCutHere ==
    ASSUME NEW m \in Matrices, NEW old, NEW from, NEW n, Fits(m, old, old, from, n),
           NEW i, NEW col \in 0 .. n - 1, NEW pos \in 0 .. Nnz(m), NEW new,
           Entry(m.rp, i) \in Nat, Entry(m.rp, i) <= pos, NEW x,
           SumsUpTo(x, m, old, old, from, n, i, col, pos)
    PROVE  SumsUpTo(x, m, old, new, from, n, i, col, pos)
<1> DEFINE r == Entry(m.rp, i)
<1>nnz. Nnz(m) \in Nat
  BY LenProperties DEF Nnz, Matrices
<1>1. PICK cut \in r .. pos : x = SetSum(r .. pos - 1, Terms(m, old, old, from, n, col, cut))
  BY DEF SumsUpTo
<1> DEFINE v == Terms(m, old, old, from, n, col, cut)
           w == Terms(m, old, new, from, n, col, pos)
<1>2. ASSUME NEW k \in r .. pos - 1 PROVE v[k] \in Int /\ w[k] = v[k]
  <2>1. k \in 0 .. Nnz(m) - 1 /\ k < pos
    BY <1>nnz
  <2>2. v[k] \in Int /\ v[k] = Entry(m.vp, k) * Entry(old, from + Entry(m.ci, k) * n + col)
    BY <2>1, TermsType
  <2>3. w[k] = Entry(m.vp, k) * Entry(old, from + Entry(m.ci, k) * n + col)
    BY <2>1 DEF Terms
  <2> QED
    BY <2>2, <2>3
<1>3. r .. pos - 1 \in SUBSET (0 .. pos) /\ pos \in Nat /\ pos \in r .. pos
  <2>1. r \in Nat /\ r <= pos
    OBVIOUS
  <2> HIDE DEF r
  <2> QED
    BY <1>nnz, <2>1
<1> HIDE DEF v, w, r
<1>4. Agree(r .. pos - 1, w, v) /\ IntsOn(r .. pos - 1, v)
  BY <1>2 DEF Agree, IntsOn
<1>5. SetSum(r .. pos - 1, w) = SetSum(r .. pos - 1, v)
  BY <1>3, <1>4, SetSumAgree
<1> QED
  BY <1>1, <1>3, <1>5 DEF SumsUpTo, v, w, r

-----------------------------------------------------------------------------
(* The invariant of the sums *)

\* The entry before which a worker at spot p has summed column col of its row.
Reached(p, col) == IF col < p.col THEN p.k + 1 ELSE p.k

\* Cell (i, col) of the result has the sum of row i before entry pos.
UpTo(i, col, pos) ==
    SumsUpTo(Entry(out, i * width + col), a, before, mem, base, width, i, col, pos)

\* Nothing was set since the kernel started, as long as it can be set.
Quiet ==
    /\ writes \in 0 .. 1
    /\ pc \in {"rows", "done"} =>
            /\ before \in Seq(Int) /\ Len(before) = Len(mem)
            /\ writes = 1 => mem = before

\* A row has one worker at most, and is then not taken again.
RowsApart ==
    pc = "rows" => \A w \in Workers : at[w] # NoRow =>
        /\ at[w].row \notin todo
        /\ \A v \in Workers : v # w => at[v].row # at[w].row

\* A worker stops at the end of its row.
StopsAtEnd ==
    pc = "rows" /\ Sound => \A w \in Workers : at[w] # NoRow =>
        /\ at[w].k <= Entry(a.rp, at[w].row + 1)
        /\ at[w].col > 0 => at[w].k < Entry(a.rp, at[w].row + 1)

\* The row of a worker is summed as far as the worker has come.
PartsSummed ==
    pc = "rows" /\ Sound => \A w \in Workers : at[w] # NoRow =>
        \A col \in 0 .. width - 1 : UpTo(at[w].row, col, Reached(at[w], col))

Done(i) == i \notin todo /\ \A w \in Workers : at[w].row # i

\* A row that was taken and left is summed to its end.
RowsSummed ==
    pc \in {"rows", "done"} /\ Sound => \A i \in 0 .. a.rows - 1 : Done(i) =>
        \A col \in 0 .. width - 1 : UpTo(i, col, Entry(a.rp, i + 1))

AllTaken == pc = "done" /\ out # <<>> => todo = {}

\* Row i of m has the columns cols, and 2 on the diagonal and -1 beside it.
RowIs(m, i, cols) ==
    /\ Entry(m.rp, i + 1) = Entry(m.rp, i) + Len(cols)
    /\ \A c \in 1 .. Len(cols) :
            /\ m.ci[Entry(m.rp, i) + c] = cols[c]
            /\ m.vp[Entry(m.rp, i) + c] = IF cols[c] = i THEN 2 ELSE -1

\* The rows that laplacian_1d has made so far.
Tridiagonal(m) == \A i \in 0 .. Len(m.rp) - 2 : RowIs(m, i, Neighbours(m.rows, i))

LaplacianMade ==
    /\ pc = "laplacian" => Tridiagonal(a)
    /\ pc \in {"call", "rows", "done", "wild"} =>
            a \in CsrInputs \/ (Tridiagonal(a) /\ a.cols = a.rows)

SumInv == Quiet /\ RowsApart /\ StopsAtEnd /\ PartsSummed /\ RowsSummed /\ AllTaken
PInv == IInv /\ SumInv /\ LaplacianMade

LEMMA SoundFits ==
    ASSUME IInv, Quiet, pc \in {"rows", "done"}, Sound
    PROVE  Fits(a, before, mem, base, width)
<1>1. before \in Seq(Int) /\ mem \in Seq(Int) /\ Len(before) = Len(mem)
  BY DEF IInv, TypeOK, Quiet
<1>2. ASSUME NEW k \in 0 .. Nnz(a) - 1, NEW col \in 0 .. width - 1
      PROVE  base + Entry(a.ci, k) * width + col \in 0 .. Len(mem) - 1
  <2>1. Entry(a.ci, k) \in 0 .. a.cols - 1
    BY SoundMatrix
  <2> QED
    BY <2>1, SoundCells
<1> QED
  BY <1>1, <1>2 DEF Fits

LEMMA SoundSame == ASSUME a' = a, operand' = operand PROVE Sound' <=> Sound
BY DEF Sound, Plain, Length

LEMMA UpToSame ==
    ASSUME UNCHANGED <<a, before, mem, base, width>>, NEW i, NEW col, NEW pos, UpTo(i, col, pos),
           Entry(out', i * width + col) = Entry(out, i * width + col)
    PROVE  UpTo(i, col, pos)'
BY DEF UpTo

LEMMA NotRunning ==
    ASSUME SumInv, writes' = writes, pc' \notin {"rows", "done"}
    PROVE  SumInv'
BY DEF SumInv, Quiet, RowsApart, StopsAtEnd, PartsSummed, RowsSummed, AllTaken

\* A kernel starts with all rows to do.
LEMMA Starting ==
    ASSUME SumInv, pc' \in {"rows", "done"}, writes' = writes, todo' = 0 .. a'.rows - 1,
           before' = mem', mem' \in Seq(Int), pc' = "done" => out' = <<>>,
           \A w \in Workers : at'[w] = NoRow
    PROVE  SumInv'
<1>1. Quiet'
  BY DEF SumInv, Quiet
<1>2. RowsApart' /\ StopsAtEnd' /\ PartsSummed' /\ AllTaken'
  BY DEF RowsApart, StopsAtEnd, PartsSummed, AllTaken
<1>3. \A i \in 0 .. a'.rows - 1 : ~Done(i)'
  BY DEF Done
<1>4. RowsSummed'
  BY <1>3 DEF RowsSummed
<1> QED
  BY <1>1, <1>2, <1>4 DEF SumInv

LEMMA SumStutter == ASSUME SumInv, UNCHANGED vars PROVE SumInv'
<1>1. Sound' <=> Sound
  BY SoundSame DEF vars, opVars
<1>2. UNCHANGED <<pc, a, operand, mem, base, width, before, out, todo, at, writes>>
  BY DEF vars, opVars
<1>3. Quiet' /\ RowsApart' /\ StopsAtEnd' /\ AllTaken'
  BY <1>1, <1>2 DEF SumInv, Quiet, RowsApart, StopsAtEnd, AllTaken
<1>4. PartsSummed'
  BY <1>1, <1>2 DEF SumInv, PartsSummed, UpTo
<1>5. RowsSummed'
  BY <1>1, <1>2 DEF SumInv, RowsSummed, UpTo, Done
<1> QED
  BY <1>3, <1>4, <1>5 DEF SumInv

LEMMA LaunchSums ==
    ASSUME IInv, SumInv, pc = "call", NEW o, NEW words \in Seq(Int), NEW from, NEW k \in Nat,
           Launch(o, words, from, k)
    PROVE  SumInv'
<1>1. a.rows * k \in Nat
  BY DEF IInv, TypeOK, Matrices
<1>2. /\ mem' = words /\ before' = words /\ todo' = 0 .. a.rows - 1
      /\ out' = [c \in 1 .. a.rows * k |-> 0]
      /\ pc' = IF a.rows * k = 0 THEN "done" ELSE "rows"
      /\ a' = a /\ at' = at /\ writes' = writes
  BY DEF Launch
<1>3. pc' = "done" => out' = <<>>
  BY <1>1, <1>2
<1>4. \A w \in Workers : at'[w] = NoRow
  BY <1>2 DEF IInv, SpotsInPlace
<1> QED
  BY <1>2, <1>3, <1>4, Starting

LEMMA AgainSums == ASSUME IInv, SumInv, Again PROVE SumInv'
<1>1. /\ pc = "done" /\ pc' = (IF out = <<>> THEN "done" ELSE "rows")
      /\ todo' = 0 .. a.rows - 1 /\ before' = mem
      /\ UNCHANGED <<a, operand, mem, base, width, out, at, writes>>
  BY DEF Again
<1>2. \A w \in Workers : at'[w] = NoRow
  BY <1>1 DEF IInv, SpotsInPlace
<1>3. mem' \in Seq(Int)
  BY <1>1 DEF IInv, TypeOK
<1>4. pc' = "done" => out' = <<>>
  BY <1>1
<1> QED
  BY <1>1, <1>2, <1>3, <1>4, Starting

\* Which cells of the result a worker clears.
LEMMA ClearedCells ==
    ASSUME IInv, NEW w \in Workers, NEW i \in todo, TakeRow(w, i),
           NEW r \in 0 .. a.rows - 1, NEW col \in 0 .. width - 1
    PROVE  Entry(out', r * width + col) = IF r = i THEN 0 ELSE Entry(out, r * width + col)
<1>1. /\ out \in Seq(Int) /\ Len(out) = a.rows * width /\ width \in Nat /\ a.rows \in Nat
      /\ out' = [c \in DOMAIN out |-> IF (c - 1) \div width = i THEN 0 ELSE out[c]]
  BY DEF IInv, TypeOK, SpotsInPlace, Matrices, TakeRow
<1>2. r * width + col \in 0 .. a.rows * width - 1
  BY <1>1, RowCells
<1> DEFINE c == r * width + col
<1>3. c \div width = r
  BY <1>1, CellInRow
<1> HIDE DEF c
<1>4. c + 1 \in DOMAIN out /\ (c + 1) - 1 = c
  BY <1>1, <1>2 DEF c
<1> QED
  BY <1>1, <1>3, <1>4 DEF Entry, c

LEMMA TakeRowSums ==
    ASSUME IInv, SumInv, NEW w \in Workers, NEW i \in todo, TakeRow(w, i)
    PROVE  SumInv'
<1>1. /\ pc = "rows" /\ pc' = "rows" /\ at[w] = NoRow /\ todo' = todo \ {i}
      /\ UNCHANGED <<a, operand, mem, base, width, before, writes>>
      /\ at' = [at EXCEPT ![w] = [row |-> i, k |-> Entry(a.rp, i), col |-> 0]]
  BY DEF TakeRow, opVars
<1>2. at \in [Workers -> Spots] /\ i \in 0 .. a.rows - 1 /\ NoRow.row = -1 /\ a.rows \in Nat
  BY <1>1 DEF IInv, TypeOK, SpotsInPlace, NoRow, Matrices
<1>3. /\ at'[w].row = i /\ at'[w].k = Entry(a.rp, i) /\ at'[w].col = 0
      /\ \A v \in Workers : v # w => at'[v] = at[v]
  BY <1>1, <1>2
<1>4. \A v \in Workers : at[v].row # i
  BY <1>1, <1>2 DEF SumInv, RowsApart
<1>5. \A v \in Workers : at[v] # NoRow => v # w /\ at[v].row \in 0 .. a.rows - 1
  BY <1>1 DEF IInv, SpotsInPlace, InPlace
<1>6. Quiet' /\ AllTaken'
  BY <1>1 DEF SumInv, Quiet, AllTaken
<1>7. RowsApart'
  <2> SUFFICES ASSUME NEW u \in Workers, at'[u] # NoRow
               PROVE  /\ at'[u].row \notin todo'
                      /\ \A v \in Workers : v # u => at'[v].row # at'[u].row
    BY DEF RowsApart
  <2>1. CASE u = w
    BY <1>1, <1>3, <1>4, <2>1
  <2>2. CASE u # w
    <3>1. at'[u] = at[u] /\ at[u].row \notin todo /\ \A v \in Workers : v # u => at[v].row # at[u].row
      BY <1>1, <1>3, <2>2 DEF SumInv, RowsApart
    <3> QED
      BY <1>1, <1>3, <1>4, <3>1
  <2> QED
    BY <2>1, <2>2
<1>8. Sound' <=> Sound
  BY <1>1, SoundSame
<1>9. ASSUME Sound PROVE Entry(a.rp, i) \in Nat /\ Entry(a.rp, i) <= Entry(a.rp, i + 1)
  BY <1>1, <1>2, <1>9, SoundMatrix, RowInside
<1>10. StopsAtEnd'
  <2> SUFFICES ASSUME Sound, NEW u \in Workers, at'[u] # NoRow
               PROVE  /\ at'[u].k <= Entry(a.rp, at'[u].row + 1)
                      /\ at'[u].col > 0 => at'[u].k < Entry(a.rp, at'[u].row + 1)
    BY <1>1, <1>8 DEF StopsAtEnd
  <2>1. CASE u = w
    BY <1>3, <1>9, <2>1
  <2>2. CASE u # w
    BY <1>1, <1>3, <2>2 DEF SumInv, StopsAtEnd
  <2> QED
    BY <2>1, <2>2
<1>11. PartsSummed'
  <2> SUFFICES ASSUME Sound, NEW u \in Workers, at'[u] # NoRow, NEW col \in 0 .. width - 1
               PROVE  UpTo(at[u].row, col, Reached(at[u], col))'
    BY <1>1, <1>8 DEF PartsSummed, Reached
  <2>1. CASE u = w
    <3>1. Entry(out', i * width + col) = 0
      BY <1>2, ClearedCells
    <3>2. Reached(at'[u], col) = Entry(a.rp, i) /\ at'[u].row = i
      BY <1>3, <2>1 DEF Reached
    <3>3. SumsUpTo(0, a, before, mem, base, width, i, col, Entry(a.rp, i))
      BY <1>9, SumsNothing
    <3> QED
      BY <1>1, <3>1, <3>2, <3>3 DEF UpTo
  <2>2. CASE u # w
    <3>1. at'[u] = at[u] /\ at[u] # NoRow
      BY <1>3, <2>2
    <3>2. UpTo(at[u].row, col, Reached(at[u], col))
      BY <1>1, <3>1 DEF SumInv, PartsSummed
    <3>3. Entry(out', at[u].row * width + col) = Entry(out, at[u].row * width + col)
      BY <1>4, <1>5, <3>1, ClearedCells
    <3> QED
      BY <1>1, <3>1, <3>2, <3>3 DEF UpTo
  <2> QED
    BY <2>1, <2>2
<1>12. RowsSummed'
  <2> SUFFICES ASSUME Sound, NEW r \in 0 .. a.rows - 1, Done(r)', NEW col \in 0 .. width - 1
               PROVE  UpTo(r, col, Entry(a.rp, r + 1))'
    BY <1>1, <1>8 DEF RowsSummed, UpTo
  <2>1. r # i
    BY <1>3 DEF Done
  <2>2. Done(r)
    <3>1. r \notin todo
      BY <1>1, <2>1 DEF Done
    <3>2. \A v \in Workers : at[v].row # r
      <4> SUFFICES ASSUME NEW v \in Workers PROVE at[v].row # r
        OBVIOUS
      <4>1. CASE v = w
        BY <1>1, <1>2, <4>1
      <4>2. CASE v # w
        BY <1>3, <4>2 DEF Done
      <4> QED
        BY <4>1, <4>2
    <3> QED
      BY <3>1, <3>2 DEF Done
  <2>3. UpTo(r, col, Entry(a.rp, r + 1))
    BY <1>1, <2>2 DEF SumInv, RowsSummed
  <2>4. Entry(out', r * width + col) = Entry(out, r * width + col)
    BY <2>1, ClearedCells
  <2> QED
    BY <1>1, <2>3, <2>4, UpToSame DEF UpTo
<1> QED
  BY <1>6, <1>7, <1>10, <1>11, <1>12 DEF SumInv

\* Which cell of the result a worker adds to.
LEMMA AddedCells ==
    ASSUME IInv, NEW w \in Workers, Multiply(w), Reads(at[w]),
           NEW r \in 0 .. a.rows - 1, NEW col \in 0 .. width - 1
    PROVE  Entry(out', r * width + col) =
                IF r = at[w].row /\ col = at[w].col
                THEN Entry(out, r * width + col) + Entry(a.vp, at[w].k) * Entry(mem, Cell(at[w]))
                ELSE Entry(out, r * width + col)
<1> DEFINE p == at[w]
           c == r * width + col
           d == p.row * width + p.col
           t == Entry(a.vp, p.k) * Entry(mem, Cell(p))
<1>1. /\ out \in Seq(Int) /\ Len(out) = a.rows * width /\ width \in Nat /\ a.rows \in Nat
      /\ out' = [out EXCEPT ![d + 1] = @ + t]
      /\ p.row \in 0 .. a.rows - 1 /\ p.col \in 0 .. width - 1
  <2>1. out' = [out EXCEPT ![d + 1] = @ + t] /\ pc = "rows" /\ at[w] # NoRow
    BY DEF Multiply
  <2> HIDE DEF d, t
  <2>2. /\ out \in Seq(Int) /\ Len(out) = a.rows * width /\ width \in Nat /\ a.rows \in Nat
    BY <2>1 DEF IInv, TypeOK, SpotsInPlace, Matrices
  <2>3. p.row \in 0 .. a.rows - 1 /\ p.col \in 0 .. width - 1
    BY <2>1 DEF IInv, SpotsInPlace, InPlace
  <2> QED
    BY <2>1, <2>2, <2>3
<1>2. c \in 0 .. a.rows * width - 1 /\ d \in 0 .. a.rows * width - 1
  BY <1>1, RowCells
<1>3. c = d => r = p.row /\ col = p.col
  <2> DEFINE i == p.row
             e == p.col
  <2>1. r \in Int /\ i \in Int /\ e \in 0 .. width - 1
    BY <1>1
  <2> HIDE DEF i, e
  <2>2. r * width + col = i * width + e => r = i /\ col = e
    BY <1>1, <2>1, CellsApart
  <2> QED
    BY <2>2 DEF i, e
<1>4. r = p.row /\ col = p.col => c = d
  OBVIOUS
<1> HIDE DEF c, d, t, p
<1>5. c + 1 \in DOMAIN out /\ d + 1 \in DOMAIN out /\ (c + 1 = d + 1 <=> c = d)
  <2>1. DOMAIN out = 1 .. Len(out) /\ Len(out) \in Nat
    BY <1>1, LenProperties
  <2>2. c \in 0 .. Len(out) - 1 /\ d \in 0 .. Len(out) - 1
    BY <1>1, <1>2
  <2> QED
    BY <2>1, <2>2
<1>6. out'[c + 1] = IF c = d THEN out[c + 1] + t ELSE out[c + 1]
  BY <1>1, <1>5
<1> QED
  BY <1>3, <1>4, <1>6 DEF Entry, c, p, t

LEMMA MultiplySums ==
    ASSUME IInv, SumInv, NEW w \in Workers, Multiply(w)
    PROVE  SumInv'
<1> DEFINE p == at[w]
           next == IF p.col + 1 < width THEN [p EXCEPT !.col = @ + 1]
                   ELSE [p EXCEPT !.k = @ + 1, !.col = 0]
<1>1. /\ pc = "rows" /\ p # NoRow /\ InRow(p)
      /\ UNCHANGED <<a, operand, mem, base, width, before, todo, writes>>
  BY DEF Multiply, opVars
<1>2. CASE ~Reads(p)
  <2>1. pc' = "wild"
    BY <1>2 DEF Multiply
  <2> QED
    BY <1>1, <2>1, NotRunning
<1>3. CASE Reads(p)
  <2>1. pc' = "rows" /\ at' = [at EXCEPT ![w] = next]
    BY <1>1, <1>3 DEF Multiply
  <2>2. /\ at \in [Workers -> Spots] /\ p \in Spots /\ width \in Nat
        /\ p.row \in 0 .. a.rows - 1 /\ p.col \in 0 .. width - 1 /\ Entry(a.rp, p.row) <= p.k
    BY <1>1 DEF IInv, TypeOK, SpotsInPlace, InPlace
  <2>3. /\ next.row = p.row
        /\ \/ p.col + 1 < width /\ next.k = p.k /\ next.col = p.col + 1
           \/ ~(p.col + 1 < width) /\ next.k = p.k + 1 /\ next.col = 0
    BY <2>2 DEF Spots
  <2>4. at'[w] = next /\ \A v \in Workers : v # w => at'[v] = at[v]
    BY <2>1, <2>2
  <2>5. p.k \in Int /\ p.col \in Int /\ p.row \in Int /\ p.k < Entry(a.rp, p.row + 1)
    BY <1>1, <2>2 DEF Spots, InRow
  <2>6. /\ Reached(next, p.col) = Reached(p, p.col) + 1 /\ Reached(p, p.col) = p.k
        /\ \A col \in 0 .. width - 1 : col # p.col => Reached(next, col) = Reached(p, col)
    <3> HIDE DEF next, p
    <3> QED
      BY <2>2, <2>3, <2>5 DEF Reached
  <2> HIDE DEF next
  <2>7. Quiet' /\ AllTaken'
    BY <1>1, <2>1 DEF SumInv, Quiet, AllTaken
  <2>8. \A v \in Workers : at'[v].row = at[v].row
    BY <2>3, <2>4
  <2>9. RowsApart'
    <3> SUFFICES ASSUME NEW u \in Workers, at'[u] # NoRow
                 PROVE  /\ at'[u].row \notin todo'
                        /\ \A v \in Workers : v # u => at'[v].row # at'[u].row
      BY DEF RowsApart
    <3>1. at[u] # NoRow
      BY <1>1, <2>4
    <3> QED
      BY <1>1, <2>8, <3>1 DEF SumInv, RowsApart
  <2>10. Sound' <=> Sound
    BY <1>1, SoundSame
  <2>11. StopsAtEnd'
    <3> SUFFICES ASSUME Sound, NEW u \in Workers, at'[u] # NoRow
                 PROVE  /\ at'[u].k <= Entry(a.rp, at'[u].row + 1)
                        /\ at'[u].col > 0 => at'[u].k < Entry(a.rp, at'[u].row + 1)
      BY <1>1, <2>1, <2>10 DEF StopsAtEnd
    <3>1. CASE u = w
      <4>1. Entry(a.rp, p.row + 1) \in Int
        BY <1>1, <2>2, SoundMatrix, RowInside
      <4> HIDE DEF p
      <4>2. /\ next.k <= Entry(a.rp, p.row + 1)
            /\ next.col > 0 => next.k < Entry(a.rp, p.row + 1)
        BY <2>3, <2>5, <4>1
      <4> QED
        BY <2>3, <2>4, <3>1, <4>2
    <3>2. CASE u # w
      BY <1>1, <2>4, <3>2 DEF SumInv, StopsAtEnd
    <3> QED
      BY <3>1, <3>2
  <2>12. PartsSummed'
    <3> SUFFICES ASSUME Sound, NEW u \in Workers, at'[u] # NoRow, NEW col \in 0 .. width - 1
                 PROVE  UpTo(at[u].row, col, Reached(at[u], col))'
      BY <1>1, <2>1, <2>10 DEF PartsSummed, Reached
    <3>1. at[u] # NoRow
      BY <1>1, <2>4
    <3>2. UpTo(at[u].row, col, Reached(at[u], col))
      BY <1>1, <3>1 DEF SumInv, PartsSummed
    <3>3. at[u].row \in 0 .. a.rows - 1
      BY <1>1, <3>1 DEF IInv, SpotsInPlace, InPlace
    <3>4. CASE u = w /\ col = p.col
      <4> DEFINE x == Entry(out, p.row * width + col)
                 t == Entry(a.vp, p.k) * Entry(mem, Cell(p))
      <4>1. Entry(out', p.row * width + col) = x + t
        BY <1>3, <3>3, <3>4, AddedCells
      <4>2. SumsUpTo(x, a, before, mem, base, width, p.row, col, p.k)
        BY <2>6, <3>2, <3>4 DEF UpTo
      <4>3. SumsUpTo(x + t, a, before, mem, base, width, p.row, col, p.k + 1)
        <5>1. Fits(a, before, mem, base, width) /\ a \in Matrices
          BY <1>1, SoundFits, SoundMatrix DEF SumInv
        <5>2. p.k \in 0 .. Nnz(a) - 1
          BY <1>3 DEF Reads
        <5>3. Entry(a.rp, p.row) \in Nat
          BY <1>1, <2>2, SoundMatrix, RowInside
        <5>4. t = Entry(a.vp, p.k) * Entry(mem, base + Entry(a.ci, p.k) * width + col)
          BY <3>4 DEF Cell
        <5> HIDE DEF x, t, p
        <5> QED
          BY <2>2, <4>2, <5>1, <5>2, <5>3, <5>4, SumsOneMore
      <4>4. at'[u].row = p.row /\ Reached(at'[u], col) = p.k + 1
        BY <2>3, <2>4, <2>6, <3>4
      <4> QED
        BY <1>1, <4>1, <4>3, <4>4 DEF UpTo
    <3>5. CASE ~(u = w /\ col = p.col)
      <4>1. Entry(out', at[u].row * width + col) = Entry(out, at[u].row * width + col)
        <5>1. ~(at[u].row = p.row /\ col = p.col)
          BY <1>1, <3>1, <3>5 DEF SumInv, RowsApart
        <5> QED
          BY <1>3, <3>3, <5>1, AddedCells
      <4>2. Reached(at'[u], col) = Reached(at[u], col) /\ at'[u].row = at[u].row
        BY <2>3, <2>4, <2>6, <3>5
      <4> QED
        BY <1>1, <3>2, <4>1, <4>2 DEF UpTo
    <3> QED
      BY <3>4, <3>5
  <2>13. RowsSummed'
    <3> SUFFICES ASSUME Sound, NEW r \in 0 .. a.rows - 1, Done(r)', NEW col \in 0 .. width - 1
                 PROVE  UpTo(r, col, Entry(a.rp, r + 1))'
      BY <1>1, <2>1, <2>10 DEF RowsSummed, UpTo
    <3>1. Done(r) /\ r # p.row
      BY <1>1, <2>8 DEF Done
    <3>2. UpTo(r, col, Entry(a.rp, r + 1))
      BY <1>1, <3>1 DEF SumInv, RowsSummed
    <3>3. Entry(out', r * width + col) = Entry(out, r * width + col)
      BY <1>3, <3>1, AddedCells
    <3> QED
      BY <1>1, <3>2, <3>3, UpToSame DEF UpTo
  <2> QED
    BY <2>7, <2>9, <2>11, <2>12, <2>13 DEF SumInv
<1> QED
  BY <1>2, <1>3

LEMMA EndRowSums ==
    ASSUME IInv, SumInv, NEW w \in Workers, EndRow(w)
    PROVE  SumInv'
<1>1. /\ pc = "rows" /\ pc' = "rows" /\ at[w] # NoRow /\ ~InRow(at[w])
      /\ at' = [at EXCEPT ![w] = NoRow]
      /\ UNCHANGED <<a, operand, mem, base, width, before, out, todo, writes>>
  BY DEF EndRow, opVars
<1>2. at \in [Workers -> Spots] /\ NoRow.row = -1
  BY DEF IInv, TypeOK, NoRow
<1>3. at'[w] = NoRow /\ \A v \in Workers : v # w => at'[v] = at[v]
  BY <1>1, <1>2
<1>4. Quiet' /\ AllTaken'
  BY <1>1 DEF SumInv, Quiet, AllTaken
<1>5. RowsApart'
  <2> SUFFICES ASSUME NEW u \in Workers, at'[u] # NoRow
               PROVE  /\ at'[u].row \notin todo'
                      /\ \A v \in Workers : v # u => at'[v].row # at'[u].row
    BY DEF RowsApart
  <2>1. u # w /\ at'[u] = at[u] /\ at[u].row # -1
    BY <1>1, <1>3 DEF IInv, SpotsInPlace, InPlace
  <2>2. at[u].row \notin todo /\ \A v \in Workers : v # u => at[v].row # at[u].row
    BY <1>1, <2>1 DEF SumInv, RowsApart
  <2> QED
    BY <1>1, <1>2, <1>3, <2>1, <2>2
<1>6. Sound' <=> Sound
  BY <1>1, SoundSame
<1>7. StopsAtEnd'
  BY <1>1, <1>3, <1>6 DEF SumInv, StopsAtEnd
<1>8. PartsSummed'
  <2> SUFFICES ASSUME Sound, NEW u \in Workers, at'[u] # NoRow, NEW col \in 0 .. width - 1
               PROVE  UpTo(at[u].row, col, Reached(at[u], col))'
    BY <1>1, <1>6 DEF PartsSummed, Reached
  <2>1. at'[u] = at[u] /\ at[u] # NoRow
    BY <1>3
  <2>2. UpTo(at[u].row, col, Reached(at[u], col))
    BY <1>1, <2>1 DEF SumInv, PartsSummed
  <2> QED
    BY <1>1, <2>1, <2>2 DEF UpTo
<1>9. RowsSummed'
  <2> SUFFICES ASSUME Sound, NEW r \in 0 .. a.rows - 1, Done(r)', NEW col \in 0 .. width - 1
               PROVE  UpTo(r, col, Entry(a.rp, r + 1))'
    BY <1>1, <1>6 DEF RowsSummed, UpTo
  <2>1. CASE r = at[w].row
    <3>1. /\ at[w].k <= Entry(a.rp, r + 1) /\ ~(at[w].k < Entry(a.rp, r + 1))
          /\ at[w].col > 0 => at[w].k < Entry(a.rp, r + 1)
      BY <1>1, <2>1 DEF SumInv, StopsAtEnd, InRow
    <3>2. at[w].k \in Int /\ at[w].col \in Int /\ Entry(a.rp, r + 1) \in Int
      <4>1. a \in Matrices /\ Sorted(a) /\ Len(a.rp) = a.rows + 1
        BY <1>1, SoundMatrix
      <4>2. Entry(a.rp, r + 1) \in Nat
        BY <4>1, RowInside
      <4> QED
        BY <1>2, <4>2 DEF Spots
    <3>3. Reached(at[w], col) = Entry(a.rp, r + 1)
      <4>1. at[w].k = Entry(a.rp, r + 1) /\ ~(at[w].col > 0)
        BY <3>1, <3>2
      <4> QED
        BY <3>2, <4>1 DEF Reached
    <3>4. UpTo(r, col, Entry(a.rp, r + 1))
      BY <1>1, <2>1, <3>3 DEF SumInv, PartsSummed
    <3> QED
      BY <1>1, <3>4, UpToSame DEF UpTo
  <2>2. CASE r # at[w].row
    <3>1. Done(r)
      BY <1>1, <1>3, <2>2 DEF Done
    <3>2. UpTo(r, col, Entry(a.rp, r + 1))
      BY <1>1, <3>1 DEF SumInv, RowsSummed
    <3> QED
      BY <1>1, <3>2, UpToSame DEF UpTo
  <2> QED
    BY <2>1, <2>2
<1> QED
  BY <1>4, <1>5, <1>7, <1>8, <1>9 DEF SumInv

LEMMA FinishSums == ASSUME IInv, SumInv, Finish PROVE SumInv'
<1>1. /\ pc = "rows" /\ pc' = "done" /\ todo = {}
      /\ UNCHANGED <<a, operand, mem, base, width, before, out, todo, at, writes>>
  BY DEF Finish, opVars
<1>2. Sound' <=> Sound
  BY <1>1, SoundSame
<1>3. Quiet' /\ RowsApart' /\ StopsAtEnd' /\ PartsSummed' /\ AllTaken'
  BY <1>1 DEF SumInv, Quiet, RowsApart, StopsAtEnd, PartsSummed, AllTaken
<1>4. RowsSummed'
  BY <1>1, <1>2 DEF SumInv, RowsSummed, UpTo, Done
<1> QED
  BY <1>3, <1>4 DEF SumInv

\* Another thread sets an entry: what the workers have summed had the old one.
LEMMA SetEntrySums ==
    ASSUME IInv, SumInv, NEW c \in DOMAIN mem, SetEntry(c)
    PROVE  SumInv'
<1>1. /\ pc = "rows" /\ pc' = "rows" /\ writes > 0 /\ writes' = writes - 1
      /\ mem' = [mem EXCEPT ![c] = NewValue]
      /\ UNCHANGED <<a, operand, base, width, before, out, todo, at>>
  BY DEF SetEntry
<1>2. mem \in Seq(Int) /\ mem' \in Seq(Int) /\ Len(mem') = Len(mem)
  BY <1>1, ArgumentsAssumption DEF IInv, TypeOK
<1>3. mem = before /\ writes = 1
  BY <1>1 DEF SumInv, Quiet
<1>4. Quiet'
  BY <1>1, <1>2, <1>3 DEF SumInv, Quiet
<1>5. Sound' <=> Sound
  BY <1>1, SoundSame
<1>6. RowsApart' /\ StopsAtEnd' /\ AllTaken'
  BY <1>1, <1>5 DEF SumInv, RowsApart, StopsAtEnd, AllTaken
<1>7. ASSUME Sound, NEW i \in 0 .. a.rows - 1, NEW col \in 0 .. width - 1, NEW pos \in Int,
             Entry(a.rp, i) <= pos, pos <= Nnz(a), UpTo(i, col, pos)
      PROVE  UpTo(i, col, pos)'
  <2>1. Fits(a, before, before, base, width) /\ a \in Matrices /\ Nnz(a) \in Nat
    BY <1>1, <1>3, <1>7, SoundFits, SoundMatrix DEF SumInv
  <2>2. Entry(a.rp, i) \in Nat
    BY <1>1, <1>7, SoundMatrix, RowInside
  <2>3. pos \in 0 .. Nnz(a)
    BY <1>7, <2>1, <2>2
  <2> DEFINE x == Entry(out, i * width + col)
  <2>4. SumsUpTo(x, a, before, before, base, width, i, col, pos)
    BY <1>3, <1>7 DEF UpTo
  <2> HIDE DEF x
  <2>5. SumsUpTo(x, a, before, mem', base, width, i, col, pos)
    BY <1>7, <2>1, <2>2, <2>3, <2>4, SumsCutHere
  <2> QED
    BY <1>1, <2>5 DEF UpTo, x
<1>8. PartsSummed'
  <2> SUFFICES ASSUME Sound, NEW u \in Workers, at[u] # NoRow, NEW col \in 0 .. width - 1
               PROVE  UpTo(at[u].row, col, Reached(at[u], col))'
    BY <1>1, <1>5 DEF PartsSummed, Reached
  <2> DEFINE p == at[u]
  <2>1. /\ p.row \in 0 .. a.rows - 1 /\ Entry(a.rp, p.row) <= p.k /\ p.k \in Int /\ p.col \in Int
        /\ p.col \in 0 .. width - 1
    BY <1>1 DEF IInv, TypeOK, Spots, SpotsInPlace, InPlace
  <2>2. UpTo(p.row, col, Reached(p, col))
    BY <1>1 DEF SumInv, PartsSummed
  <2>3. /\ p.k <= Entry(a.rp, p.row + 1)
        /\ p.col > 0 => p.k < Entry(a.rp, p.row + 1)
    BY <1>1 DEF SumInv, StopsAtEnd
  <2>4. /\ Entry(a.rp, p.row) \in Nat /\ Entry(a.rp, p.row + 1) \in Nat
        /\ Entry(a.rp, p.row + 1) <= Nnz(a) /\ Nnz(a) \in Nat
    BY <1>1, <2>1, SoundMatrix, RowInside
  <2> HIDE DEF p
  <2>5. /\ Reached(p, col) \in Int /\ Entry(a.rp, p.row) <= Reached(p, col)
        /\ Reached(p, col) <= Nnz(a)
    BY <2>1, <2>3, <2>4 DEF Reached
  <2>6. UpTo(p.row, col, Reached(p, col))'
    <3> DEFINE i == p.row
               pos == Reached(p, col)
    <3>1. UpTo(i, col, pos) /\ i \in 0 .. a.rows - 1 /\ pos \in Int /\ Entry(a.rp, i) <= pos /\ pos <= Nnz(a)
      BY <2>1, <2>2, <2>5
    <3>2. i' = i /\ pos' = pos
      BY <1>1 DEF p, Reached
    <3> HIDE DEF i, pos
    <3>3. UpTo(i, col, pos)'
      BY <1>7, <3>1, <3>2
    <3> QED
      BY <3>3 DEF i, pos
  <2> QED
    BY <2>6 DEF p
<1>9. RowsSummed'
  <2> SUFFICES ASSUME Sound, NEW r \in 0 .. a.rows - 1, Done(r), NEW col \in 0 .. width - 1
               PROVE  UpTo(r, col, Entry(a.rp, r + 1))'
    BY <1>1, <1>5 DEF RowsSummed, UpTo, Done
  <2>1. UpTo(r, col, Entry(a.rp, r + 1))
    BY <1>1 DEF SumInv, RowsSummed
  <2>2. /\ Entry(a.rp, r) <= Entry(a.rp, r + 1) /\ Entry(a.rp, r + 1) <= Nnz(a)
        /\ Entry(a.rp, r + 1) \in Int
    BY <1>1, SoundMatrix, RowInside
  <2> QED
    BY <1>1, <1>7, <2>1, <2>2 DEF UpTo
<1> QED
  BY <1>4, <1>6, <1>8, <1>9 DEF SumInv

-----------------------------------------------------------------------------
(* The rows of the Laplacian *)

LEMMA JoinedEntries ==
    ASSUME NEW s \in Seq(Int), NEW t \in Seq(Int)
    PROVE  /\ \A j \in 1 .. Len(s) : (s \o t)[j] = s[j]
           /\ \A j \in 1 .. Len(t) : (s \o t)[Len(s) + j] = t[j]
<1>1. /\ Len(s) \in Nat /\ Len(t) \in Nat
      /\ \A j \in 1 .. Len(s) + Len(t) :
            (s \o t)[j] = IF j <= Len(s) THEN s[j] ELSE t[j - Len(s)]
  BY ConcatProperties, LenProperties
<1>2. ASSUME NEW j \in 1 .. Len(s) PROVE (s \o t)[j] = s[j]
  BY <1>1
<1>3. ASSUME NEW j \in 1 .. Len(t) PROVE (s \o t)[Len(s) + j] = t[j]
  <2>1. Len(s) + j \in 1 .. Len(s) + Len(t) /\ ~(Len(s) + j <= Len(s)) /\ (Len(s) + j) - Len(s) = j
    BY <1>1
  <2> QED
    BY <1>1, <2>1
<1> QED
  BY <1>2, <1>3

\* One turn of the loop adds a row, and leaves the others.
LEMMA RowMade ==
    ASSUME IInv, LaplacianRow, Tridiagonal(a)
    PROVE  Tridiagonal(a')
<1> DEFINE i == Len(a.rp) - 1
           row == Neighbours(a.rows, i)
           values == [c \in DOMAIN row |-> IF row[c] = i THEN 2 ELSE -1]
           n == Len(a.ci)
<1>1. /\ a.rows \in Nat /\ a.rp \in Seq(Int) /\ a.ci \in Seq(Int) /\ a.vp \in Seq(Int)
  BY DEF IInv, TypeOK, Matrices
<1>2. Sorted(a) /\ Len(a.rp) \in 1 .. a.rows /\ Len(a.ci) = Len(a.vp)
  BY DEF IInv, LaplacianRow, MatrixBuilt
<1>3. row \in Seq(Int) /\ DOMAIN row = 1 .. Len(row) /\ Len(row) \in Nat
  <2>1. i \in 0 .. a.rows - 1
    BY <1>1, <1>2
  <2>2. row \in Seq(Int)
    BY <1>1, <2>1, NeighboursType
  <2> QED
    BY <2>2, LenProperties
<1>4. /\ a'.rows = a.rows /\ a'.ci = a.ci \o row /\ a'.vp = a.vp \o values
      /\ a'.rp = Append(a.rp, n + Len(row))
  BY DEF LaplacianRow, IInv, TypeOK, Matrices
<1> HIDE DEF row
<1>5. /\ values \in Seq(Int) /\ Len(values) = Len(row)
      /\ \A c \in 1 .. Len(row) : values[c] = IF row[c] = i THEN 2 ELSE -1
  BY <1>3
<1> HIDE DEF values
<1>6. n \in Nat /\ Len(a.vp) = n /\ Len(a.rp) \in Nat
  BY <1>1, <1>2
<1>7. /\ \A j \in 1 .. n : a'.ci[j] = a.ci[j] /\ a'.vp[j] = a.vp[j]
      /\ \A c \in 1 .. Len(row) : a'.ci[n + c] = row[c] /\ a'.vp[n + c] = values[c]
  <2>1. /\ \A j \in 1 .. n : (a.ci \o row)[j] = a.ci[j]
        /\ \A c \in 1 .. Len(row) : (a.ci \o row)[n + c] = row[c]
    BY <1>1, <1>3, JoinedEntries
  <2>2. /\ \A j \in 1 .. n : (a.vp \o values)[j] = a.vp[j]
        /\ \A c \in 1 .. Len(row) : (a.vp \o values)[n + c] = values[c]
    <3>1. /\ \A j \in 1 .. Len(a.vp) : (a.vp \o values)[j] = a.vp[j]
          /\ \A c \in 1 .. Len(values) : (a.vp \o values)[Len(a.vp) + c] = values[c]
      BY <1>1, <1>5, JoinedEntries
    <3> QED
      BY <1>5, <1>6, <3>1
  <2> QED
    BY <1>4, <2>1, <2>2
<1>8. /\ Len(a'.rp) = Len(a.rp) + 1
      /\ \A j \in 1 .. Len(a.rp) : a'.rp[j] = a.rp[j]
      /\ a'.rp[Len(a.rp) + 1] = n + Len(row)
  <2>1. n + Len(row) \in Int
    BY <1>3, <1>6
  <2> QED
    BY <1>1, <1>4, <2>1, Longer
<1>9. a.rp[Len(a.rp)] = n
  BY <1>6, <1>2 DEF Sorted
<1> HIDE DEF n, i
<1> SUFFICES ASSUME NEW r \in 0 .. Len(a'.rp) - 2
             PROVE  RowIs(a', r, Neighbours(a.rows, r))
  BY <1>4 DEF Tridiagonal
<1>10. CASE r = Len(a.rp) - 1
  <2>1. /\ Entry(a'.rp, r) = n /\ Entry(a'.rp, r + 1) = n + Len(row)
    <3>1. r + 1 = Len(a.rp) /\ (r + 1) + 1 = Len(a.rp) + 1 /\ Len(a.rp) \in 1 .. Len(a.rp)
      BY <1>2, <1>6, <1>10
    <3> QED
      BY <1>8, <1>9, <3>1 DEF Entry
  <2>2. Neighbours(a.rows, r) = row /\ r = i
    BY <1>10 DEF row, i
  <2> QED
    BY <1>5, <1>7, <2>1, <2>2 DEF RowIs
<1>11. CASE r \in 0 .. Len(a.rp) - 2
  <2> DEFINE e == Entry(a.rp, r)
             it == Neighbours(a.rows, r)
  <2>1. r + 1 \in 1 .. Len(a.rp) /\ (r + 1) + 1 \in 1 .. Len(a.rp) /\ Len(a.rp) \in 1 .. Len(a.rp)
    BY <1>6, <1>11
  <2>2. Entry(a'.rp, r) = e /\ Entry(a'.rp, r + 1) = Entry(a.rp, r + 1)
    BY <1>8, <2>1 DEF Entry
  <2>3. /\ Entry(a.rp, r + 1) = e + Len(it)
        /\ \A c \in 1 .. Len(it) : /\ a.ci[e + c] = it[c]
                                   /\ a.vp[e + c] = IF it[c] = r THEN 2 ELSE -1
    BY <1>11 DEF Tridiagonal, RowIs
  <2>4. 0 <= e /\ e \in Int /\ Entry(a.rp, r + 1) <= n
    <3>1. DOMAIN a.rp = 1 .. Len(a.rp) /\ 1 \in 1 .. Len(a.rp)
      BY <1>1, <2>1
    <3>2. a.rp[1] <= a.rp[r + 1] /\ a.rp[(r + 1) + 1] <= a.rp[Len(a.rp)]
      BY <1>2, <2>1, <3>1 DEF Sorted, Ascending
    <3>3. a.rp[r + 1] \in Int /\ a.rp[1] = 0
      BY <1>1, <1>2, <2>1, ElementOfSeq DEF Sorted
    <3> QED
      BY <1>9, <3>2, <3>3 DEF Entry
  <2>5. Len(it) \in Nat
    <3>1. r \in 0 .. a.rows - 1
      BY <1>1, <1>2, <1>11
    <3> QED
      BY <1>1, <3>1, NeighboursType, LenProperties
  <2> HIDE DEF e, it
  <2>6. \A c \in 1 .. Len(it) : e + c \in 1 .. n
    BY <1>6, <2>3, <2>4, <2>5
  <2>7. /\ Entry(a'.rp, r + 1) = Entry(a'.rp, r) + Len(it)
        /\ \A c \in 1 .. Len(it) :
              /\ a'.ci[Entry(a'.rp, r) + c] = it[c]
              /\ a'.vp[Entry(a'.rp, r) + c] = IF it[c] = r THEN 2 ELSE -1
    BY <1>7, <2>2, <2>3, <2>6
  <2> QED
    BY <2>7 DEF it, RowIs
<1> QED
  BY <1>6, <1>8, <1>10, <1>11

LEMMA Pair ==
    ASSUME NEW x \in Int, NEW y \in Int
    PROVE  <<x>> \o <<y>> = <<x, y>>
<1>1. <<x>> \in Seq(Int) /\ <<y>> \in Seq(Int) /\ Len(<<x>>) = 1 /\ Len(<<y>>) = 1
      /\ <<x>>[1] = x /\ <<y>>[1] = y
  OBVIOUS
<1>2. <<x, y>> \in Seq(Int) /\ Len(<<x, y>>) = 2 /\ <<x, y>>[1] = x /\ <<x, y>>[2] = y
  OBVIOUS
<1> DEFINE s == <<x>>
           t == <<y>>
           u == <<x, y>>
<1> HIDE DEF s, t, u
<1>3. /\ s \o t \in Seq(Int) /\ Len(s \o t) = 2
      /\ \A i \in 1 .. 2 : (s \o t)[i] = IF i <= 1 THEN s[1] ELSE t[1]
  <2>1. /\ s \o t \in Seq(Int) /\ Len(s \o t) = Len(s) + Len(t)
        /\ \A i \in 1 .. Len(s) + Len(t) : (s \o t)[i] =
                IF i <= Len(s) THEN s[i] ELSE t[i - Len(s)]
    BY <1>1, ConcatProperties DEF s, t
  <2>2. Len(s) = 1 /\ Len(t) = 1
    BY <1>1 DEF s, t
  <2> QED
    BY <2>1, <2>2
<1>4. \A i \in 1 .. 2 : (s \o t)[i] = u[i]
  BY <1>1, <1>2, <1>3 DEF s, t, u
<1>5. s \o t = u
  BY <1>2, <1>3, <1>4, SeqEqual DEF u
<1> QED
  BY <1>5 DEF s, t, u

LEMMA Triple ==
    ASSUME NEW x \in Int, NEW y \in Int, NEW z \in Int
    PROVE  <<x, y>> \o <<z>> = <<x, y, z>>
<1>1. <<x, y>> \in Seq(Int) /\ <<z>> \in Seq(Int) /\ Len(<<x, y>>) = 2 /\ Len(<<z>>) = 1
      /\ <<x, y>>[1] = x /\ <<x, y>>[2] = y /\ <<z>>[1] = z
  OBVIOUS
<1>2. <<x, y, z>> \in Seq(Int) /\ Len(<<x, y, z>>) = 3
      /\ <<x, y, z>>[1] = x /\ <<x, y, z>>[2] = y /\ <<x, y, z>>[3] = z
  OBVIOUS
<1> DEFINE s == <<x, y>>
           t == <<z>>
           u == <<x, y, z>>
<1> HIDE DEF s, t, u
<1>3. /\ s \o t \in Seq(Int) /\ Len(s \o t) = 3
      /\ \A i \in 1 .. 3 : (s \o t)[i] = IF i <= 2 THEN s[i] ELSE t[1]
  <2>1. /\ s \o t \in Seq(Int) /\ Len(s \o t) = Len(s) + Len(t)
        /\ \A i \in 1 .. Len(s) + Len(t) : (s \o t)[i] =
                IF i <= Len(s) THEN s[i] ELSE t[i - Len(s)]
    BY <1>1, ConcatProperties DEF s, t
  <2>2. Len(s) = 2 /\ Len(t) = 1
    BY <1>1 DEF s, t
  <2> QED
    BY <2>1, <2>2
<1>4. \A i \in 1 .. 3 : (s \o t)[i] = u[i]
  BY <1>1, <1>2, <1>3 DEF s, t, u
<1>5. s \o t = u
  BY <1>2, <1>3, <1>4, SeqEqual DEF u
<1> QED
  BY <1>5 DEF s, t, u

\* The columns of row i are those next to i, each once.
LEMMA NeighboursAre ==
    ASSUME NEW n \in Nat, NEW i \in 0 .. n - 1
    PROVE  /\ \A c, d \in 1 .. Len(Neighbours(n, i)) :
                Neighbours(n, i)[c] = Neighbours(n, i)[d] => c = d
           /\ \A j \in 0 .. n - 1 :
                (\E c \in 1 .. Len(Neighbours(n, i)) : Neighbours(n, i)[c] = j)
                    <=> i = j \/ i - j \in {-1, 1}
<1>1. CASE i > 0 /\ i + 1 < n
  <2>1. Neighbours(n, i) = <<i - 1, i, i + 1>>
    <3>1. Neighbours(n, i) = (<<i - 1>> \o <<i>>) \o <<i + 1>>
      BY <1>1 DEF Neighbours
    <3>2. i - 1 \in Int /\ i \in Int /\ i + 1 \in Int
      OBVIOUS
    <3>3. <<i - 1>> \o <<i>> = <<i - 1, i>>
      BY <3>2, Pair
    <3>4. <<i - 1, i>> \o <<i + 1>> = <<i - 1, i, i + 1>>
      BY <3>2, Triple
    <3> QED
      BY <3>1, <3>3, <3>4, Zenon
  <2>2. \A c, d \in 1 .. 3 : <<i - 1, i, i + 1>>[c] = <<i - 1, i, i + 1>>[d] => c = d
    OBVIOUS
  <2>3. ASSUME NEW j \in 0 .. n - 1
        PROVE  (\E c \in 1 .. 3 : <<i - 1, i, i + 1>>[c] = j) <=> i = j \/ i - j \in {-1, 1}
    OBVIOUS
  <2> QED
    BY <2>1, <2>2, <2>3
<1>2. CASE i > 0 /\ ~(i + 1 < n)
  <2>1. Neighbours(n, i) = <<i - 1, i>>
    <3>1. <<i - 1, i>> \in Seq(Int)
      OBVIOUS
    <3>2. <<i - 1, i>> \o <<>> = <<i - 1, i>>
      BY <3>1, ConcatEmptySeq
    <3> QED
      BY <1>2, <3>2, Pair DEF Neighbours
  <2>2. \A c, d \in 1 .. 2 : <<i - 1, i>>[c] = <<i - 1, i>>[d] => c = d
    OBVIOUS
  <2>3. ASSUME NEW j \in 0 .. n - 1
        PROVE  (\E c \in 1 .. 2 : <<i - 1, i>>[c] = j) <=> i = j \/ i - j \in {-1, 1}
    BY <1>2
  <2> QED
    BY <2>1, <2>2, <2>3
<1>3. CASE ~(i > 0) /\ i + 1 < n
  <2>1. Neighbours(n, i) = <<i, i + 1>>
    <3>1. <<i>> \in Seq(Int)
      OBVIOUS
    <3>2. <<>> \o <<i>> = <<i>>
      BY <3>1, ConcatEmptySeq
    <3> QED
      BY <1>3, <3>2, Pair DEF Neighbours
  <2>2. \A c, d \in 1 .. 2 : <<i, i + 1>>[c] = <<i, i + 1>>[d] => c = d
    OBVIOUS
  <2>3. ASSUME NEW j \in 0 .. n - 1
        PROVE  (\E c \in 1 .. 2 : <<i, i + 1>>[c] = j) <=> i = j \/ i - j \in {-1, 1}
    BY <1>3
  <2> QED
    BY <2>1, <2>2, <2>3
<1>4. CASE ~(i > 0) /\ ~(i + 1 < n)
  <2>1. Neighbours(n, i) = <<i>>
    BY <1>4 DEF Neighbours
  <2>2. ASSUME NEW j \in 0 .. n - 1
        PROVE  (\E c \in 1 .. 1 : <<i>>[c] = j) <=> i = j \/ i - j \in {-1, 1}
    BY <1>4
  <2> QED
    BY <2>1, <2>2
<1> QED
  BY <1>1, <1>2, <1>3, <1>4

-----------------------------------------------------------------------------
(* What is in the result *)

LEMMA RowSumIsSetSum ==
    ASSUME NEW i, NEW col, NEW cut,
           Entry(a.rp, i) .. Entry(a.rp, i + 1) - 1 \subseteq 0 .. Nnz(a) - 1
    PROVE  RowSum(i, col, cut, before, mem) =
                SetSum(Entry(a.rp, i) .. Entry(a.rp, i + 1) - 1,
                       Terms(a, before, mem, base, width, col, cut))
<1> DEFINE T == Entry(a.rp, i) .. Entry(a.rp, i + 1) - 1
           term(k) == Entry(a.vp, k) * Entry(IF k < cut THEN before ELSE mem,
                                             base + Entry(a.ci, k) * width + col)
           v == Terms(a, before, mem, base, width, col, cut)
           pick(s) == CHOOSE x \in s : TRUE
           Own(g) == g = [s \in SUBSET T |-> IF s = {} THEN 0 ELSE term(pick(s)) + g[s \ {pick(s)}]]
<1>1. RowSum(i, col, cut, before, mem) = (CHOOSE g : Own(g))[T]
  BY DEF RowSum, MapThenSumSet, MapThenFoldSet
<1>2. \A k \in T : v[k] = term(k)
  BY DEF Terms
<1> HIDE DEF term, v, T
<1>3. \A s \in SUBSET T : s # {} => pick(s) \in T
  OBVIOUS
<1>4. ASSUME NEW g PROVE Own(g) <=> Solves(g, T, v)
  <2> DEFINE A(s) == IF s = {} THEN 0 ELSE term(pick(s)) + g[s \ {pick(s)}]
             B(s) == IF s = {} THEN 0 ELSE v[pick(s)] + g[s \ {pick(s)}]
  <2>1. \A s \in SUBSET T : A(s) = B(s)
    BY <1>2, <1>3
  <2> HIDE DEF A, B
  <2>2. [s \in SUBSET T |-> A(s)] = [s \in SUBSET T |-> B(s)]
    BY <2>1
  <2> QED
    BY <2>2 DEF A, B, Solves
<1> HIDE DEF Own
<1>5. (CHOOSE g : Own(g)) = (CHOOSE g : Solves(g, T, v))
  BY <1>4
<1> QED
  BY <1>1, <1>5 DEF SetSum, T, v

\* The columns and the values of row i, and column col of the operand.
Cols(lo, hi) == [k \in lo .. hi |-> Entry(a.ci, k)]
Vals(lo, hi) == [k \in lo .. hi |-> Entry(a.vp, k)]
Operand(col) == [j \in 0 .. a.cols - 1 |-> Entry(mem, base + j * width + col)]

\* Element (i, j) of the matrix is the sum of what its row stores for column j.
LEMMA DenseIsSetSum ==
    ASSUME PInv, pc = "done", Sound, NEW i \in 0 .. a.rows - 1, NEW j \in 0 .. a.cols - 1,
           NEW lo, lo = Entry(a.rp, i), NEW hi, hi = Entry(a.rp, i + 1) - 1
    PROVE  Dense(i, j) = SetSum(lo .. hi, InColumn(Vals(lo, hi), Cols(lo, hi), j, hi, lo))
<1>1. /\ a \in Matrices /\ Nnz(a) \in Nat /\ lo \in Nat /\ hi \in Int /\ hi + 1 \in Nat
      /\ hi + 1 <= Nnz(a) /\ lo <= hi + 1
  BY SoundMatrix, RowInside DEF PInv
<1> DEFINE T == lo .. hi
           v == InColumn(Vals(lo, hi), Cols(lo, hi), j, hi, lo)
           entry(k) == IF Entry(a.ci, k) = j THEN Entry(a.vp, k) ELSE 0
<1>2. \A k \in T : v[k] = entry(k)
  BY DEF InColumn, Vals, Cols
<1>3. CASE a \in CsrInputs
  <2> DEFINE pick(s) == CHOOSE x \in s : TRUE
             Own(g) == g = [s \in SUBSET T |-> IF s = {} THEN 0 ELSE entry(pick(s)) + g[s \ {pick(s)}]]
  <2>1. Dense(i, j) = (CHOOSE g : Own(g))[T]
    BY <1>3 DEF Dense, MapThenSumSet, MapThenFoldSet
  <2> HIDE DEF entry, v, T
  <2>2. \A s \in SUBSET T : s # {} => pick(s) \in T
    OBVIOUS
  <2>3. ASSUME NEW g PROVE Own(g) <=> Solves(g, T, v)
    <3> DEFINE A(s) == IF s = {} THEN 0 ELSE entry(pick(s)) + g[s \ {pick(s)}]
               B(s) == IF s = {} THEN 0 ELSE v[pick(s)] + g[s \ {pick(s)}]
    <3>1. \A s \in SUBSET T : A(s) = B(s)
      BY <1>2, <2>2
    <3> HIDE DEF A, B
    <3>2. [s \in SUBSET T |-> A(s)] = [s \in SUBSET T |-> B(s)]
      BY <3>1
    <3> QED
      BY <3>2 DEF A, B, Solves
  <2> HIDE DEF Own
  <2>4. (CHOOSE g : Own(g)) = (CHOOSE g : Solves(g, T, v))
    BY <2>3
  <2> QED
    BY <2>1, <2>4 DEF SetSum, T, v
<1>4. CASE a \notin CsrInputs
  <2> DEFINE row == Neighbours(a.rows, i)
             tri == IF i = j THEN 2 ELSE IF i - j \in {-1, 1} THEN -1 ELSE 0
  <2>1. Dense(i, j) = tri
    BY <1>4 DEF Dense
  <2>2. RowIs(a, i, row) /\ a.cols = a.rows /\ a.rows \in Nat
    <3>1. Tridiagonal(a) /\ a.cols = a.rows
      BY <1>4 DEF PInv, LaplacianMade
    <3>2. Len(a.rp) = a.rows + 1 /\ a.rows \in Nat
      BY <1>1, SoundMatrix DEF PInv, Matrices
    <3>3. i \in 0 .. Len(a.rp) - 2
      BY <3>2
    <3> QED
      BY <3>1, <3>2, <3>3 DEF Tridiagonal
  <2>3. /\ row \in Seq(Int) /\ Len(row) \in Nat
        /\ \A c, d \in 1 .. Len(row) : row[c] = row[d] => c = d
        /\ (\E c \in 1 .. Len(row) : row[c] = j) <=> i = j \/ i - j \in {-1, 1}
    BY <2>2, NeighboursType, NeighboursAre, LenProperties
  <2> HIDE DEF row, T, v
  <2>4. hi = lo + Len(row) - 1
    BY <1>1, <2>2 DEF RowIs
  <2>10. lo \in Nat /\ hi \in Int /\ Len(row) \in Nat
    BY <1>1, <2>3
  <2>5. ASSUME NEW k \in T
        PROVE  /\ k - lo + 1 \in 1 .. Len(row)
               /\ v[k] = IF row[k - lo + 1] = j THEN (IF row[k - lo + 1] = i THEN 2 ELSE -1) ELSE 0
    <3> DEFINE c == k - lo + 1
    <3>1. c \in 1 .. Len(row) /\ lo + c = k + 1
      BY <2>4, <2>10 DEF T
    <3> HIDE DEF c
    <3>2. a.ci[lo + c] = row[c] /\ a.vp[lo + c] = IF row[c] = i THEN 2 ELSE -1
      BY <2>2, <3>1 DEF RowIs
    <3>3. Entry(a.ci, k) = row[c] /\ Entry(a.vp, k) = IF row[c] = i THEN 2 ELSE -1
      BY <3>1, <3>2 DEF Entry
    <3>4. v[k] = IF row[c] = j THEN (IF row[c] = i THEN 2 ELSE -1) ELSE 0
      BY <1>2, <3>3
    <3> QED
      BY <3>1, <3>4 DEF c
  <2> HIDE DEF entry
  <2>6. T \in SUBSET (0 .. hi + 1)
    BY <1>1 DEF T
  <2>7. CASE \E c \in 1 .. Len(row) : row[c] = j
    <3>1. PICK c \in 1 .. Len(row) : row[c] = j
      BY <2>7
    <3> DEFINE q == lo + c - 1
    <3>2. q \in T /\ q - lo + 1 = c
      <4>1. c \in Int /\ 1 <= c /\ c <= Len(row) /\ Len(row) \in Int /\ lo \in Int /\ hi \in Int
        BY <1>1, <2>3
      <4>2. lo <= q /\ q <= hi /\ q \in Int /\ q - lo + 1 = c
        BY <2>4, <4>1
      <4> QED
        BY <4>1, <4>2 DEF T
    <3> HIDE DEF q
    <3>3. v[q] = tri /\ v[q] \in Int
      <4>1. v[q] = IF row[c] = j THEN (IF row[c] = i THEN 2 ELSE -1) ELSE 0
        BY <2>5, <3>2
      <4>2. i = j \/ i - j \in {-1, 1}
        BY <2>3, <2>7
      <4> QED
        BY <3>1, <4>1, <4>2
    <3>4. ASSUME NEW k \in T \ {q} PROVE v[k] = 0
      <4>1. k - lo + 1 \in 1 .. Len(row) /\ k \in T
        BY <2>5
      <4>2. k - lo + 1 # c
        <5>1. k \in Int /\ q \in Int /\ k # q
          BY <2>10, <3>2 DEF T
        <5> QED
          BY <2>10, <3>2, <5>1
      <4>3. row[k - lo + 1] # j
        BY <2>3, <3>1, <4>1, <4>2
      <4> QED
        BY <2>5, <4>1, <4>3
    <3>5. SetSum(T, v) = v[q]
      <4>1. hi + 1 \in Nat
        BY <1>1
      <4> QED
        BY <2>6, <3>2, <3>3, <3>4, <4>1, SetSumOnly
    <3> QED
      BY <2>1, <3>3, <3>5 DEF T, v
  <2>8. CASE ~(\E c \in 1 .. Len(row) : row[c] = j)
    <3>1. tri = 0
      BY <2>3, <2>8
    <3>2. \A k \in T : v[k] = 0
      BY <2>5, <2>8
    <3>3. \A k \in T : v[k] \in Int
      BY <3>2
    <3>4. SetSum(T, v) = 0
      BY <1>1, <2>6, <3>2, <3>3, SetSumTakes
    <3> QED
      BY <2>1, <3>1, <3>4 DEF T, v
  <2> QED
    BY <2>7, <2>8
<1> QED
  BY <1>3, <1>4

LEMMA InvProduct == ASSUME PInv PROVE ProductIsDense
<1> SUFFICES ASSUME pc = "done", out # <<>>, Sound,
                    NEW i \in 0 .. a.rows - 1, NEW col \in 0 .. width - 1
             PROVE  IF mem = before
                    THEN Entry(out, i * width + col) =
                            MapThenSumSet(LAMBDA j : Dense(i, j) * Entry(mem, base + j * width + col),
                                          0 .. a.cols - 1)
                    ELSE \E cut \in Entry(a.rp, i) .. Entry(a.rp, i + 1) :
                            Entry(out, i * width + col) = RowSum(i, col, cut, before, mem)
  BY DEF ProductIsDense
<1> DEFINE lo == Entry(a.rp, i)
           hi == Entry(a.rp, i + 1) - 1
           cell == Entry(out, i * width + col)
           N == a.cols
<1>1. /\ a \in Matrices /\ Nnz(a) \in Nat /\ lo \in Nat /\ hi \in Int /\ hi + 1 = Entry(a.rp, i + 1)
      /\ hi + 1 \in Nat /\ hi + 1 <= Nnz(a) /\ lo - 1 <= hi /\ N \in Nat
      /\ \A k \in 0 .. Nnz(a) - 1 : Entry(a.ci, k) \in 0 .. N - 1
      /\ \A k \in 0 .. Nnz(a) - 1 : Entry(a.vp, k) \in Int
  <2>1. \A k \in 0 .. Nnz(a) - 1 : Entry(a.vp, k) \in Int
    <3>1. a.vp \in Seq(Int)
      BY SoundMatrix DEF PInv, Matrices
    <3> QED
      BY <3>1, EntryType DEF Nnz
  <2>2. /\ a \in Matrices /\ Sorted(a) /\ Len(a.rp) = a.rows + 1 /\ Nnz(a) \in Nat
        /\ \A k \in 0 .. Nnz(a) - 1 : Entry(a.ci, k) \in 0 .. N - 1
    BY SoundMatrix DEF PInv
  <2>3. /\ Entry(a.rp, i) \in Nat /\ Entry(a.rp, i + 1) \in Nat
        /\ Entry(a.rp, i) <= Entry(a.rp, i + 1) /\ Entry(a.rp, i + 1) <= Nnz(a)
    BY <2>2, RowInside
  <2>4. N \in Nat
    BY <2>2 DEF Matrices
  <2>5. /\ lo \in Nat /\ hi \in Int /\ hi + 1 = Entry(a.rp, i + 1)
        /\ hi + 1 \in Nat /\ hi + 1 <= Nnz(a) /\ lo - 1 <= hi
    <3> DEFINE next == Entry(a.rp, i + 1)
    <3>1. lo \in Nat /\ next \in Nat /\ lo <= next /\ next <= Nnz(a) /\ hi = next - 1
      BY <2>3
    <3> HIDE DEF lo, hi, next
    <3>2. hi \in Int /\ hi + 1 = next /\ lo - 1 <= hi
      BY <3>1
    <3> QED
      BY <3>1, <3>2 DEF next
  <2> HIDE DEF lo, hi
  <2> QED
    BY <2>1, <2>2, <2>4, <2>5
<1>2. UpTo(i, col, Entry(a.rp, i + 1))
  <2>1. Done(i)
    BY DEF PInv, SumInv, AllTaken, IInv, SpotsInPlace, Done, NoRow
  <2> QED
    BY <2>1 DEF PInv, SumInv, RowsSummed
<1>3. PICK cut \in lo .. hi + 1 :
            cell = SetSum(lo .. hi, Terms(a, before, mem, base, width, col, cut))
  <2>1. PICK cut \in lo .. Entry(a.rp, i + 1) :
            cell = SetSum(lo .. Entry(a.rp, i + 1) - 1, Terms(a, before, mem, base, width, col, cut))
    BY <1>2 DEF UpTo, SumsUpTo
  <2> QED
    BY <1>1, <2>1
<1>4. lo .. hi \subseteq 0 .. Nnz(a) - 1 /\ lo .. hi \in SUBSET (0 .. Nnz(a))
  BY <1>1
<1>5. CASE mem # before
  <2>1. RowSum(i, col, cut, before, mem) = cell
    BY <1>3, <1>4, RowSumIsSetSum
  <2> QED
    BY <1>1, <1>3, <1>5, <2>1
<1>6. CASE mem = before
  <2> DEFINE v == Vals(lo, hi)
             c == Cols(lo, hi)
             x == Operand(col)
             byRow == Terms(a, before, mem, base, width, col, cut)
             byCol == ByColumn(v, c, x, N, hi, lo)
             term(j) == Dense(i, j) * Entry(mem, base + j * width + col)
             product == MapThenSumSet(LAMBDA j : Dense(i, j) * Entry(mem, base + j * width + col), 0 .. N - 1)
  <2>1. /\ v \in [lo .. hi -> Int] /\ c \in [lo .. hi -> 0 .. N - 1]
    BY <1>1, <1>4 DEF Vals, Cols
  <2>2. x \in [0 .. N - 1 -> Int]
    <3>1. ASSUME NEW j \in 0 .. N - 1 PROVE Entry(mem, base + j * width + col) \in Int
      <4>1. base + j * width + col \in 0 .. Len(mem) - 1 /\ mem \in Seq(Int)
        BY SoundCells DEF PInv, IInv, TypeOK
      <4> QED
        BY <4>1, EntryType
    <3> QED
      BY <3>1 DEF Operand
  <2>3. SetSum(lo .. hi, byRow) = SetSum(lo .. hi, Each(v, c, x, hi, lo))
    <3>1. ASSUME NEW k \in lo .. hi
          PROVE  /\ byRow[k] = Each(v, c, x, hi, lo)[k]
                 /\ Each(v, c, x, hi, lo)[k] \in Int
      <4>1. k \in 0 .. Nnz(a) - 1
        BY <1>4
      <4>2. Entry(a.ci, k) \in 0 .. N - 1 /\ Entry(a.vp, k) \in Int
        BY <1>1, <4>1
      <4>3. /\ v[k] = Entry(a.vp, k) /\ c[k] = Entry(a.ci, k)
            /\ x[Entry(a.ci, k)] = Entry(mem, base + Entry(a.ci, k) * width + col)
            /\ x[Entry(a.ci, k)] \in Int
        BY <2>2, <4>2 DEF Vals, Cols, Operand
      <4>4. byRow[k] = Entry(a.vp, k) * Entry(mem, base + Entry(a.ci, k) * width + col)
        BY <1>6, <4>1 DEF Terms
      <4> HIDE DEF v, c, x, byRow
      <4>5. Each(v, c, x, hi, lo)[k] = v[k] * x[c[k]]
        BY DEF Each
      <4> QED
        BY <4>2, <4>3, <4>4, <4>5
    <3> DEFINE f == Each(v, c, x, hi, lo)
    <3>2. Agree(lo .. hi, byRow, f) /\ IntsOn(lo .. hi, f)
      BY <3>1 DEF Agree, IntsOn
    <3> HIDE DEF f, byRow, lo, hi
    <3>3. SetSum(lo .. hi, byRow) = SetSum(lo .. hi, f)
      <4>1. Nnz(a) \in Nat /\ lo .. hi \in SUBSET (0 .. Nnz(a))
        BY <1>1, <1>4
      <4> QED
        BY <3>2, <4>1, SetSumAgree
    <3> QED
      BY <3>3 DEF f
  <2>4. SetSum(lo .. hi, Each(v, c, x, hi, lo)) = SetSum(0 .. N - 1, byCol)
    <3> HIDE DEF v, c, x, lo, hi, N
    <3> QED
      BY <1>1, <2>1, <2>2, SetSumByColumn
  <2>5. \A j \in 0 .. N - 1 : byCol[j] = term(j)
    <3> TAKE j \in 0 .. N - 1
    <3>1. Dense(i, j) = SetSum(lo .. hi, InColumn(v, c, j, hi, lo))
      BY DenseIsSetSum
    <3>2. x[j] = Entry(mem, base + j * width + col)
      BY DEF Operand
    <3>3. byCol[j] = SetSum(lo .. hi, InColumn(v, c, j, hi, lo)) * x[j]
      BY DEF ByColumn
    <3> QED
      BY <3>1, <3>2, <3>3
  <2>6. product = SetSum(0 .. N - 1, byCol)
    <3> DEFINE T == 0 .. N - 1
               pick(s) == CHOOSE y \in s : TRUE
               Own(g) == g = [s \in SUBSET T |-> IF s = {} THEN 0 ELSE term(pick(s)) + g[s \ {pick(s)}]]
    <3>1. product = (CHOOSE g : Own(g))[T]
      BY DEF MapThenSumSet, MapThenFoldSet
    <3> HIDE DEF term, byCol, T, product
    <3>2. \A s \in SUBSET T : s # {} => pick(s) \in T
      OBVIOUS
    <3>3. ASSUME NEW g PROVE Own(g) <=> Solves(g, T, byCol)
      <4> DEFINE A(s) == IF s = {} THEN 0 ELSE term(pick(s)) + g[s \ {pick(s)}]
                 B(s) == IF s = {} THEN 0 ELSE byCol[pick(s)] + g[s \ {pick(s)}]
      <4>1. \A s \in SUBSET T : A(s) = B(s)
        BY <2>5, <3>2 DEF T
      <4> HIDE DEF A, B
      <4>2. [s \in SUBSET T |-> A(s)] = [s \in SUBSET T |-> B(s)]
        BY <4>1
      <4> QED
        BY <4>2 DEF A, B, Solves
    <3> HIDE DEF Own
    <3>4. (CHOOSE g : Own(g)) = (CHOOSE g : Solves(g, T, byCol))
      BY <3>3
    <3> QED
      BY <3>1, <3>4 DEF SetSum, T
  <2>7. cell = product
    <3> HIDE DEF cell, product, byRow, byCol, v, c, x, lo, hi, N
    <3> QED
      BY <1>3, <2>3, <2>4, <2>6 DEF byRow
  <2> QED
    BY <1>6, <2>7
<1> QED
  BY <1>5, <1>6

-----------------------------------------------------------------------------
(* The invariant of the products *)

LEMMA LaplacianKept ==
    ASSUME LaplacianMade, a' = a, pc \in {"call", "rows", "done"},
           pc' \in {"call", "rows", "done", "wild"}
    PROVE  LaplacianMade'
BY DEF LaplacianMade, Tridiagonal, RowIs, Entry

LEMMA RaiseSums == ASSUME SumInv, Raise PROVE SumInv' /\ LaplacianMade'
<1>1. pc' = "raised" /\ writes' = writes
  BY DEF Raise
<1> QED
  BY <1>1, NotRunning DEF LaplacianMade

LEMMA FromCsrSums == ASSUME SumInv, NEW in \in CsrInputs, FromCsr(in) PROVE SumInv' /\ LaplacianMade'
<1>1. CASE Raise
  BY <1>1, RaiseSums
<1>2. CASE a' = in /\ pc' = "call" /\ writes' = writes
  BY <1>2, NotRunning DEF LaplacianMade
<1> QED
  BY <1>1, <1>2 DEF FromCsr

\* Before the first turn of its loop, laplacian_1d has made no row.
LEMMA LaplacianSums ==
    ASSUME SumInv, NEW n \in Sizes, Laplacian(n)
    PROVE  SumInv' /\ LaplacianMade'
<1>1. /\ Len(a'.rp) = 1 /\ a'.cols = a'.rows /\ writes' = writes
      /\ pc' \in {"laplacian", "call"}
  BY DEF Laplacian
<1>2. Tridiagonal(a')
  BY <1>1 DEF Tridiagonal
<1>3. LaplacianMade'
  BY <1>1, <1>2 DEF LaplacianMade, Tridiagonal, RowIs, Entry
<1> QED
  BY <1>1, <1>3, NotRunning

LEMMA LaplacianRowSums ==
    ASSUME IInv, SumInv, LaplacianMade, LaplacianRow
    PROVE  SumInv' /\ LaplacianMade'
<1>1. pc' \in {"laplacian", "call"} /\ writes' = writes /\ pc = "laplacian"
  BY DEF LaplacianRow
<1>2. Tridiagonal(a')
  BY <1>1, RowMade DEF LaplacianMade
<1>3. a'.cols = a'.rows
  BY RowKeepsSorted DEF IInv
<1>4. LaplacianMade'
  BY <1>2, <1>3 DEF LaplacianMade, Tridiagonal, RowIs, Entry
<1> QED
  BY <1>1, <1>4, NotRunning

LEMMA LaunchKept ==
    ASSUME PInv, pc = "call", NEW o, NEW words \in Seq(Int), NEW from, NEW k \in Nat,
           Launch(o, words, from, k)
    PROVE  SumInv' /\ LaplacianMade'
<1>1. SumInv'
  BY LaunchSums DEF PInv
<1>2. a' = a /\ pc' \in {"rows", "done"}
  BY DEF Launch
<1> QED
  BY <1>1, <1>2, LaplacianKept DEF PInv

LEMMA AgainKept == ASSUME PInv, Again PROVE SumInv' /\ LaplacianMade'
<1>1. SumInv'
  BY AgainSums DEF PInv
<1>2. a' = a /\ pc = "done" /\ pc' \in {"rows", "done"}
  BY DEF Again
<1> QED
  BY <1>1, <1>2, LaplacianKept DEF PInv

LEMMA StutterKept == ASSUME PInv, UNCHANGED vars PROVE SumInv' /\ LaplacianMade'
<1>1. SumInv'
  BY SumStutter DEF PInv
<1>2. a' = a /\ pc' = pc
  BY DEF vars
<1> QED
  BY <1>1, <1>2 DEF PInv, LaplacianMade, Tridiagonal, RowIs, Entry

\* The steps of a kernel leave the matrix.
LEMMA KernelKept ==
    ASSUME PInv, \/ Finish
                 \/ \E w \in Workers : (\E i \in todo : TakeRow(w, i)) \/ Multiply(w) \/ EndRow(w)
                 \/ \E c \in DOMAIN mem : SetEntry(c)
    PROVE  SumInv' /\ LaplacianMade'
<1>1. a' = a /\ pc = "rows" /\ pc' \in {"rows", "done", "wild"}
  BY DEF Finish, TakeRow, Multiply, EndRow, SetEntry
<1>2. LaplacianMade'
  BY <1>1, LaplacianKept DEF PInv
<1>3. SumInv'
  BY FinishSums, TakeRowSums, MultiplySums, EndRowSums, SetEntrySums DEF PInv
<1> QED
  BY <1>2, <1>3

LEMMA NextKeeps == ASSUME PInv, Next PROVE SumInv' /\ LaplacianMade'
<1>1. ASSUME NEW in \in CsrInputs, FromCsr(in) PROVE SumInv' /\ LaplacianMade'
  BY <1>1, FromCsrSums DEF PInv
<1>2. ASSUME NEW n \in Sizes, Laplacian(n) PROVE SumInv' /\ LaplacianMade'
  BY <1>2, LaplacianSums DEF PInv
<1>3. CASE LaplacianRow
  BY <1>3, LaplacianRowSums DEF PInv
<1>4. ASSUME NEW x \in Vectors, Spmv(x) PROVE SumInv' /\ LaplacianMade'
  <2>1. x.words \in Seq(Int) /\ pc = "call"
    BY <1>4, VectorsAssumption DEF Spmv
  <2>2. CASE Raise
    BY <2>2, RaiseSums DEF PInv
  <2>3. CASE Launch(x, x.words, x.base, 1)
    BY <2>1, <2>3, LaunchKept
  <2> QED
    BY <1>4, <2>2, <2>3 DEF Spmv
<1>5. ASSUME NEW d \in Denses, Spmm(d) PROVE SumInv' /\ LaplacianMade'
  <2>1. d.flat \in Seq(Int) /\ d.cols \in Nat /\ pc = "call"
    BY <1>5, ArgumentsAssumption DEF Spmm
  <2>2. CASE Raise
    BY <2>2, RaiseSums DEF PInv
  <2>3. CASE Launch(d, d.flat, 0, d.cols)
    BY <2>1, <2>3, LaunchKept
  <2> QED
    BY <1>5, <2>2, <2>3 DEF Spmm
<1> QED
  BY <1>1, <1>2, <1>3, <1>4, <1>5, KernelKept DEF Next

LEMMA BNextKeeps == ASSUME PInv, BNext PROVE PInv'
<1>1. ASSUME NEW x \in Vectors, NEW p \in Params, BenchSpmv(x, p) PROVE SumInv' /\ LaplacianMade'
  <2>1. x.words \in Seq(Int)
    BY VectorsAssumption
  <2> QED
    BY <1>1, <2>1, LaunchKept DEF BenchSpmv
<1>2. ASSUME NEW d \in Denses, NEW p \in Params, BenchSpmm(d, p) PROVE SumInv' /\ LaplacianMade'
  <2>1. d.flat \in Seq(Int) /\ d.cols \in Nat
    BY ArgumentsAssumption
  <2> QED
    BY <1>2, <2>1, LaunchKept DEF BenchSpmm
<1>3. ASSUME WarmedUp PROVE SumInv' /\ LaplacianMade'
  BY <1>3, AgainKept DEF WarmedUp
<1>4. ASSUME NEW dt \in Durations, Timed(dt) PROVE SumInv' /\ LaplacianMade'
  BY <1>4, AgainKept, StutterKept DEF Timed
<1>5. SumInv' /\ LaplacianMade'
  BY <1>1, <1>2, <1>3, <1>4, NextKeeps DEF BNext
<1> QED
  BY <1>5, BNextStep DEF PInv

LEMMA InitProducts == ASSUME Init PROVE PInv
<1>1. SumInv /\ LaplacianMade
  BY DEF Init, SumInv, Quiet, RowsApart, StopsAtEnd, PartsSummed, RowsSummed, AllTaken, LaplacianMade
<1> QED
  BY <1>1, InitInv DEF PInv

-----------------------------------------------------------------------------
(* The median of the times *)

\* The order has each of the values s at one place, that p gives.
Permutes(p, n, s, order) ==
    /\ p \in [1 .. n -> 1 .. n]
    /\ \A i \in 1 .. n : order[i] = s[p[i]]
    /\ \A i, k \in 1 .. n : p[i] = p[k] => i = k
    /\ \A t \in 1 .. n : \E i \in 1 .. n : p[i] = t

\* What an order of the times is: they are all there, each at one place.
LEMMA OrderPlaces ==
    ASSUME NEW n \in Nat, NEW times \in [1 .. n -> Int], NEW j \in 1 .. n,
           NEW order \in NthElement(times, j)
    PROVE  /\ order \in [1 .. n -> Int]
           /\ \A i \in 1 .. n : (i < j => order[i] <= order[j]) /\ (i > j => order[j] <= order[i])
           /\ \E p : Permutes(p, n, times, order)
<1>1. DOMAIN times = 1 .. n
  OBVIOUS
<1>2. PICK p \in Bijection(1 .. n, 1 .. n) : order = [i \in 1 .. n |-> times[p[i]]]
  BY <1>1 DEF NthElement
<1>3. p \in [1 .. n -> 1 .. n]
  BY DEF Bijection, Injection
<1>4. \A i, k \in 1 .. n : p[i] = p[k] => i = k
  BY <1>3 DEF Bijection, Injection, IsInjective
<1>5. \A t \in 1 .. n : \E i \in 1 .. n : p[i] = t
  BY <1>3 DEF Bijection, Surjection
<1>6. order \in [1 .. n -> Int]
  BY <1>2, <1>3
<1>7. \A i \in 1 .. n : (i < j => order[i] <= order[j]) /\ (i > j => order[j] <= order[i])
  BY <1>1 DEF NthElement
<1>8. \A i \in 1 .. n : order[i] = times[p[i]]
  BY <1>2
<1>9. Permutes(p, n, times, order)
  BY <1>3, <1>4, <1>5, <1>8 DEF Permutes
<1> QED
  BY <1>6, <1>7, <1>9

\* A set that goes into k places, one member into each, has k members at most;
\* one that k places go into, each to a member of its own, has k at least.
LEMMA NoMoreThan ==
    ASSUME NEW k \in Nat, NEW B, NEW f \in [B -> 1 .. k], \A x, y \in B : f[x] = f[y] => x = y
    PROVE  IsFiniteSet(B) /\ Cardinality(B) <= k /\ Cardinality(B) \in Nat
<1>1. f \in Injection(B, 1 .. k)
  BY DEF Injection, IsInjective
<1>2. IsFiniteSet(1 .. k) /\ Cardinality(1 .. k) = k
  BY FS_Interval
<1> QED
  BY <1>1, <1>2, FS_Injection, FS_CardinalityType

LEMMA NoLessThan ==
    ASSUME NEW k \in Nat, NEW B, IsFiniteSet(B), NEW f \in [1 .. k -> B],
           \A x, y \in 1 .. k : f[x] = f[y] => x = y
    PROVE  Cardinality(B) >= k
<1>1. f \in Injection(1 .. k, B)
  BY DEF Injection, IsInjective
<1>2. IsFiniteSet(1 .. k) /\ Cardinality(1 .. k) = k
  BY FS_Interval
<1>3. Cardinality(1 .. k) <= Cardinality(B)
  BY <1>1, FS_Injection
<1>4. Cardinality(B) \in Nat
  BY FS_CardinalityType
<1> QED
  BY <1>2, <1>3, <1>4

\* The places without place c, without a gap.
Closed(k, c) == IF k < c THEN k ELSE k - 1

LEMMA ClosedFits ==
    ASSUME NEW q \in Nat, NEW c \in 1 .. q, NEW k \in 1 .. q, k # c
    PROVE  Closed(k, c) \in 1 .. q - 1
BY DEF Closed

LEMMA ClosedApart ==
    ASSUME NEW c \in Int, NEW k \in Int, NEW l \in Int, k # c, l # c, Closed(k, c) = Closed(l, c)
    PROVE  k = l
BY DEF Closed

\* The places of the first n values that are less than v, or are no more.
Less(s, n, v) == {i \in 1 .. n : s[i] < v}
NoMore(s, n, v) == {i \in 1 .. n : s[i] <= v}

\* A value that q of the places do not exceed, one of them having it, and that
\* no other is less than, is of rank q wherever the values were before.
LEMMA PlaceRanked ==
    ASSUME NEW n \in Nat, NEW times \in [1 .. n -> Int], NEW order \in [1 .. n -> Int],
           NEW p, Permutes(p, n, times, order), NEW q \in 1 .. n, NEW c \in 1 .. q,
           \A i \in 1 .. q : order[i] <= order[c],
           \A i \in q + 1 .. n : order[i] >= order[c]
    PROVE  /\ order[c] \in {times[i] : i \in 1 .. n}
           /\ Cardinality(Less(times, n, order[c])) < q
           /\ Cardinality(NoMore(times, n, order[c])) >= q
<1> DEFINE v == order[c]
           B == {i \in 1 .. n : times[i] < v}
           C == {i \in 1 .. n : times[i] <= v}
<1>0. /\ p \in [1 .. n -> 1 .. n]
      /\ \A i \in 1 .. n : order[i] = times[p[i]]
      /\ \A i, k \in 1 .. n : p[i] = p[k] => i = k
      /\ \A t \in 1 .. n : \E i \in 1 .. n : p[i] = t
  BY DEF Permutes
<1>1. c \in 1 .. n /\ q \in Nat /\ \A i \in 1 .. q : i \in 1 .. n
  OBVIOUS
<1>2. p[c] \in 1 .. n /\ v = times[p[c]] /\ v \in Int
  BY <1>0, <1>1
<1>3. \A i \in 1 .. n : times[i] \in Int /\ order[i] \in Int
  OBVIOUS
<1>4. Cardinality(B) < q
  <2> DEFINE place(i) == CHOOSE k \in 1 .. n : p[k] = i
             f == [i \in B |-> Closed(place(i), c)]
  <2>1. ASSUME NEW i \in B
        PROVE  place(i) \in 1 .. q /\ place(i) # c /\ p[place(i)] = i
    <3>1. i \in 1 .. n /\ times[i] < v
      OBVIOUS
    <3>2. \E k \in 1 .. n : p[k] = i
      BY <1>0, <3>1
    <3>3. place(i) \in 1 .. n /\ p[place(i)] = i
      BY <3>2
    <3> HIDE DEF place
    <3>4. order[place(i)] = times[i]
      BY <1>0, <3>3
    <3> DEFINE k == place(i)
    <3> HIDE DEF k
    <3>5. k \in 1 .. n /\ order[k] < v /\ p[k] = i
      BY <3>1, <3>3, <3>4 DEF k
    <3>6. k # c
      BY <3>5, <1>2
    <3>7. k \notin q + 1 .. n
      <4>1. order[k] \in Int /\ ~(order[k] >= v)
        <5>1. order[k] \in Int /\ order[k] < v
          BY <3>5, <1>3
        <5> DEFINE u == order[k]
        <5> HIDE DEF u, v
        <5>2. u \in Int /\ u < v /\ v \in Int
          BY <5>1, <1>2 DEF u
        <5>3. ~(u >= v)
          BY <5>2
        <5> QED
          BY <5>2, <5>3 DEF u
      <4>2. \A j \in q + 1 .. n : order[j] >= v
        OBVIOUS
      <4> QED
        BY <4>1, <4>2
    <3>8. k \in 1 .. q
      BY <3>5, <3>7, <1>1
    <3> QED
      BY <3>5, <3>6, <3>8 DEF k
  <2> HIDE DEF place
  <2>2. f \in [B -> 1 .. q - 1]
    <3>1. ASSUME NEW i \in B PROVE Closed(place(i), c) \in 1 .. q - 1
      BY <1>1, <2>1, ClosedFits
    <3> QED
      BY <3>1
  <2>3. ASSUME NEW x \in B, NEW y \in B, f[x] = f[y] PROVE x = y
    <3> DEFINE k == place(x)
               l == place(y)
    <3>1. k \in 1 .. q /\ l \in 1 .. q /\ k # c /\ l # c
      BY <2>1
    <3>2. Closed(k, c) = Closed(l, c)
      BY <2>3
    <3> HIDE DEF k, l
    <3>3. k \in Int /\ l \in Int /\ c \in Int
      BY <1>1, <3>1
    <3>4. k = l
      BY <3>1, <3>2, <3>3, ClosedApart
    <3> QED
      BY <2>1, <3>4 DEF k, l
  <2>4. q - 1 \in Nat /\ q \in Int
    OBVIOUS
  <2> HIDE DEF f, B
  <2>5. Cardinality(B) <= q - 1 /\ Cardinality(B) \in Nat
    BY <2>2, <2>3, <2>4, NoMoreThan
  <2> QED
    BY <2>4, <2>5
<1>5. Cardinality(C) >= q
  <2> DEFINE f == [i \in 1 .. q |-> p[i]]
  <2>1. f \in [1 .. q -> C]
    <3>1. ASSUME NEW i \in 1 .. q PROVE p[i] \in C
      <4>1. i \in 1 .. n /\ order[i] <= v
        BY <1>1
      <4>2. order[i] = times[p[i]] /\ p[i] \in 1 .. n
        BY <1>0, <4>1
      <4> QED
        BY <4>1, <4>2
    <3> QED
      BY <3>1
  <2>2. \A x, y \in 1 .. q : f[x] = f[y] => x = y
    BY <1>0, <1>1
  <2>3. IsFiniteSet(C)
    <3>1. C \in SUBSET (1 .. n) /\ IsFiniteSet(1 .. n)
      BY FS_Interval
    <3> HIDE DEF C
    <3> QED
      BY <3>1, FS_Subset
  <2>4. q \in Nat
    OBVIOUS
  <2> HIDE DEF f, C
  <2> QED
    BY <2>1, <2>2, <2>3, <2>4, NoLessThan
<1>6. v \in {times[i] : i \in 1 .. n}
  BY <1>2
<1>7. B = Less(times, n, v) /\ C = NoMore(times, n, v)
  BY DEF Less, NoMore
<1> HIDE DEF B, C
<1> QED
  BY <1>4, <1>5, <1>6, <1>7

\* Only one value is of a rank.
LEMMA RankedOnce ==
    ASSUME NEW n \in Nat, NEW times \in [1 .. n -> Int], NEW q \in Nat,
           NEW v \in Int, NEW w \in Int,
           Cardinality(Less(times, n, w)) < q, Cardinality(NoMore(times, n, v)) >= q
    PROVE  w <= v
<1> SUFFICES ASSUME v < w PROVE FALSE
  OBVIOUS
<1> DEFINE B == Less(times, n, w)
           C == NoMore(times, n, v)
<1>1. C \subseteq B
  BY DEF Less, NoMore
<1>2. B \in SUBSET (1 .. n) /\ IsFiniteSet(1 .. n)
  BY FS_Interval DEF Less
<1> HIDE DEF B, C
<1>4. IsFiniteSet(B)
  BY <1>2, FS_Subset
<1>3. Cardinality(C) <= Cardinality(B) /\ Cardinality(C) \in Nat /\ Cardinality(B) \in Nat
  BY <1>1, <1>4, FS_Subset, FS_CardinalityType
<1> QED
  BY <1>3 DEF B, C

LEMMA RankedIs ==
    ASSUME NEW q \in Nat, NEW v \in ToSet(ts), ts \in Seq(Int),
           Cardinality(Less(ts, Len(ts), v)) < q, Cardinality(NoMore(ts, Len(ts), v)) >= q
    PROVE  Ranked(q) = v
<1> DEFINE n == Len(ts)
           P(x) == Cardinality(Less(ts, n, x)) < q /\ Cardinality(NoMore(ts, n, x)) >= q
<1>1. n \in Nat /\ ts \in [1 .. n -> Int] /\ DOMAIN ts = 1 .. n
  BY LenProperties
<1>2. \A x \in ToSet(ts) : x \in Int
  BY <1>1 DEF ToSet
<1>3. P(v)
  OBVIOUS
<1>4. ASSUME NEW x \in ToSet(ts), P(x) PROVE x = v
  <2>1. x \in Int /\ v \in Int
    BY <1>2
  <2>2. \A y, z \in Int : P(y) /\ P(z) => y <= z
    <3>1. ASSUME NEW y \in Int, NEW z \in Int, P(y), P(z) PROVE y <= z
      <4>1. Cardinality(Less(ts, n, y)) < q /\ Cardinality(NoMore(ts, n, z)) >= q
        BY <3>1
      <4> HIDE DEF n
      <4> QED
        BY <1>1, <4>1, RankedOnce
    <3> HIDE DEF P
    <3> QED
      BY <3>1
  <2>3. x <= v /\ v <= x
    <3> HIDE DEF P
    <3> QED
      BY <1>3, <1>4, <2>1, <2>2
  <2> QED
    BY <2>1, <2>3
<1>5. Ranked(q) = CHOOSE x \in ToSet(ts) : P(x)
  BY <1>1 DEF Ranked, Less, NoMore
<1> HIDE DEF P
<1> QED
  BY <1>3, <1>4, <1>5

\* Numbers have a largest one.
LEMMA LargestPlace ==
    ASSUME NEW n \in Nat, NEW s \in [1 .. n -> Int], NEW h \in 1 .. n
    PROVE  \E c \in 1 .. h : \A i \in 1 .. h : s[i] <= s[c]
<1> DEFINE T == {k \in 0 .. n : k = 0 \/ \E c \in 1 .. k : \A i \in 1 .. k : s[i] <= s[c]}
<1>1. 0 \in T
  OBVIOUS
<1>2. ASSUME NEW k \in 0 .. n - 1, k \in T PROVE k + 1 \in T
  <2>1. k + 1 \in 1 .. n /\ k + 1 \in 0 .. n /\ k \in Nat /\ s[k + 1] \in Int
    OBVIOUS
  <2>2. \A i \in 1 .. k : i \in 1 .. n /\ i \in 1 .. k + 1 /\ s[i] \in Int
    OBVIOUS
  <2>3. \A i \in 1 .. k + 1 : i \in 1 .. k \/ i = k + 1
    BY <2>1
  <2>4. CASE k = 0
    <3>1. \A i \in 1 .. k + 1 : s[i] <= s[k + 1]
      BY <2>1, <2>3, <2>4
    <3> QED
      BY <2>1, <3>1
  <2>5. CASE k # 0
    <3>1. PICK c \in 1 .. k : \A i \in 1 .. k : s[i] <= s[c]
      BY <1>2, <2>5
    <3>2. CASE s[c] <= s[k + 1]
      <4>1. \A i \in 1 .. k + 1 : s[i] <= s[k + 1]
        BY <2>1, <2>2, <2>3, <3>1, <3>2
      <4>2. k + 1 \in 1 .. k + 1
        BY <2>1
      <4> QED
        BY <2>1, <4>1, <4>2
    <3>3. CASE s[k + 1] <= s[c]
      <4>1. \A i \in 1 .. k + 1 : s[i] <= s[c]
        BY <2>3, <3>1, <3>3
      <4> QED
        BY <2>1, <2>2, <4>1
    <3> QED
      BY <2>1, <2>2, <3>2, <3>3
  <2> QED
    BY <2>4, <2>5
<1> HIDE DEF T
<1>3. h \in Nat /\ \A k \in 0 .. h - 1 : k \in 0 .. n - 1
  OBVIOUS
<1>4. h \in T
  BY <1>1, <1>2, <1>3, Reaches
<1> QED
  BY <1>4 DEF T

\* The largest of the first h is where none of them is larger.
LEMMA LargestOfFirst ==
    ASSUME NEW n \in Nat, NEW s \in Seq(Int), Len(s) = n, NEW h \in 1 .. n, NEW c \in 1 .. h,
           \A i \in 1 .. h : s[i] <= s[c]
    PROVE  Max(ToSet(SubSeq(s, 1, h))) = s[c]
<1> DEFINE S == ToSet(SubSeq(s, 1, h))
<1>1. h \in Nat /\ c \in 1 .. n /\ \A i \in 1 .. h : i \in 1 .. n /\ s[i] \in Int
  BY ElementOfSeq
<1>2. SubSeq(s, 1, h) = [i \in 1 .. h |-> s[i]]
  <2>1. SubSeq(s, 1, h) = [i \in 1 .. (h - 1) + 1 |-> s[i + (1 - 1)]]
    BY <1>1
  <2>2. (h - 1) + 1 = h /\ \A i \in 1 .. h : i + (1 - 1) = i
    BY <1>1
  <2> QED
    BY <2>1, <2>2
<1>3. S = {s[i] : i \in 1 .. h}
  BY <1>2 DEF ToSet
<1>4. s[c] \in S /\ \A y \in S : y \in Int /\ s[c] >= y
  <2> HIDE DEF S
  <2> QED
    BY <1>1, <1>3
<1>5. Max(S) = CHOOSE x \in S : \A y \in S : x >= y
  BY DEF Max
<1> HIDE DEF S
<1>6. Max(S) \in S /\ \A y \in S : Max(S) >= y
  BY <1>4, <1>5
<1> DEFINE m == Max(S)
           v == s[c]
<1>7. m \in Int /\ v \in Int /\ m >= v /\ v >= m
  BY <1>4, <1>6
<1> HIDE DEF m, v
<1>8. m = v
  BY <1>7
<1> QED
  BY <1>8 DEF m, v, S

\* The middle of n places.
LEMMA Middle ==
    ASSUME NEW n \in Nat, n > 0
    PROVE  /\ n \div 2 \in Nat /\ n \div 2 + 1 \in 1 .. n
           /\ n % 2 = 0 => (n + 1) \div 2 = n \div 2 /\ n \div 2 \in 1 .. n
           /\ n % 2 # 0 => (n + 1) \div 2 = n \div 2 + 1
<1>1. PICK k \in Nat : n = 2 * k \/ n = 2 * k + 1
  <2>1. n = 2 * (n \div 2) \/ n = 2 * (n \div 2) + 1
    OBVIOUS
  <2>2. n \div 2 \in Nat
    OBVIOUS
  <2> QED
    BY <2>1, <2>2
<1>2. CASE n = 2 * k
  <2>1. n \div 2 = k /\ n % 2 = 0 /\ (n + 1) \div 2 = k
    BY <1>2
  <2> QED
    BY <1>2, <2>1
<1>3. CASE n = 2 * k + 1
  <2>1. n \div 2 = k /\ n % 2 = 1 /\ (n + 1) \div 2 = k + 1
    BY <1>3
  <2> QED
    BY <1>3, <2>1
<1> QED
  BY <1>1, <1>2, <1>3

\* What measure() returns after nth_element is the median: half the sum of the
\* two in the middle.
LEMMA MedianRanked ==
    ASSUME ts \in Seq(Int), ts # <<>>, NEW order \in NthElement(ts, Len(ts) \div 2 + 1)
    PROVE  TwiceMedian(order) = Ranked((Len(ts) + 1) \div 2) + Ranked(Len(ts) \div 2 + 1)
<1> DEFINE n == Len(ts)
           h == Len(ts) \div 2
<1>1. n \in Nat /\ n > 0 /\ ts \in [1 .. n -> Int]
  BY LenProperties, EmptySeq
<1>2. /\ h \in Nat /\ h + 1 \in 1 .. n
      /\ n % 2 = 0 => (n + 1) \div 2 = h /\ h \in 1 .. n
      /\ n % 2 # 0 => (n + 1) \div 2 = h + 1
  BY <1>1, Middle
<1> HIDE DEF n, h
<1>mid. h \in Nat /\ h + 1 \in 1 .. n
  BY <1>2
<1>3. order \in NthElement(ts, h + 1)
  BY DEF h
<1>4. /\ order \in [1 .. n -> Int]
      /\ \A i \in 1 .. n : (i < h + 1 => order[i] <= order[h + 1])
                         /\ (i > h + 1 => order[h + 1] <= order[i])
  BY <1>1, <1>2, <1>3, OrderPlaces
<1>5. PICK p : Permutes(p, n, ts, order)
  BY <1>1, <1>mid, <1>3, OrderPlaces
<1>6. ASSUME NEW q \in 1 .. n, NEW c \in 1 .. q,
             \A i \in 1 .. q : order[i] <= order[c],
             \A i \in q + 1 .. n : order[i] >= order[c]
      PROVE  Ranked(q) = order[c]
  <2>1. /\ order[c] \in {ts[i] : i \in 1 .. n}
        /\ Cardinality(Less(ts, n, order[c])) < q
        /\ Cardinality(NoMore(ts, n, order[c])) >= q
    BY <1>1, <1>4, <1>5, <1>6, PlaceRanked
  <2>2. order[c] \in ToSet(ts) /\ q \in Nat
    BY <1>1, <2>1 DEF ToSet
  <2> QED
    BY <2>1, <2>2, RankedIs DEF n
<1>7. Ranked(h + 1) = order[h + 1]
  <2>1. ASSUME NEW i \in 1 .. h + 1 PROVE order[i] <= order[h + 1]
    <3>1. i \in 1 .. n /\ (i < h + 1 \/ i = h + 1)
      BY <1>1, <1>mid
    <3>2. order[h + 1] \in Int
      BY <1>mid, <1>4
    <3> QED
      BY <1>4, <3>1, <3>2
  <2>2. ASSUME NEW i \in (h + 1) + 1 .. n PROVE order[i] >= order[h + 1]
    <3>1. i \in 1 .. n /\ i > h + 1
      BY <1>1, <1>mid
    <3>2. order[h + 1] <= order[i] /\ order[h + 1] \in Int /\ order[i] \in Int
      BY <1>mid, <1>4, <3>1
    <3> QED
      BY <3>2
  <2>3. h + 1 \in 1 .. h + 1
    BY <1>2
  <2> QED
    BY <1>2, <1>6, <2>1, <2>2, <2>3
<1>8. order \in Seq(Int) /\ Len(order) = n
  BY <1>1, <1>4, IsASeq, LenProperties
<1>9. CASE n % 2 # 0
  <2>1. TwiceMedian(order) = 2 * order[h + 1] /\ order[h + 1] \in Int
    BY <1>2, <1>4, <1>8, <1>9 DEF TwiceMedian, n, h
  <2> QED
    BY <1>2, <1>7, <1>9, <2>1 DEF n, h
<1>10. CASE n % 2 = 0
  <2>1. PICK c \in 1 .. h : \A i \in 1 .. h : order[i] <= order[c]
    BY <1>1, <1>2, <1>4, <1>10, LargestPlace
  <2>2. Max(ToSet(SubSeq(order, 1, h))) = order[c]
    BY <1>1, <1>2, <1>8, <1>10, <2>1, LargestOfFirst
  <2>3. \A i \in h + 1 .. n : order[i] >= order[c]
    <3>1. c \in 1 .. n /\ c < h + 1
      BY <1>1, <1>mid, <2>1
    <3>2. order[c] <= order[h + 1] /\ order[c] \in Int /\ order[h + 1] \in Int
      BY <1>2, <1>4, <3>1
    <3>3. ASSUME NEW i \in h + 1 .. n PROVE order[i] >= order[c]
      <4>1. i \in 1 .. n /\ (i = h + 1 \/ i > h + 1) /\ order[i] \in Int
        <5>1. i \in 1 .. n /\ (i = h + 1 \/ i > h + 1)
          BY <1>1, <1>mid
        <5> QED
          BY <1>4, <5>1
      <4>2. order[h + 1] <= order[i]
        BY <1>4, <3>2, <4>1
      <4> QED
        BY <3>2, <4>1, <4>2
    <3> QED
      BY <3>3
  <2>4. Ranked(h) = order[c]
    BY <1>2, <1>6, <1>10, <2>1, <2>3
  <2>5. TwiceMedian(order) = Max(ToSet(SubSeq(order, 1, h))) + order[h + 1]
    BY <1>8, <1>10 DEF TwiceMedian, n, h
  <2> QED
    BY <1>2, <1>7, <1>10, <2>2, <2>4, <2>5 DEF n, h
<1> QED
  BY <1>9, <1>10

-----------------------------------------------------------------------------
(* The loop of measure() *)

\* g is the fold that Spent takes of the times.
SpentSums(g, times) ==
    g = [s \in SUBSET (DOMAIN times) |-> IF s = {} THEN 0 ELSE g[s \ {Max(s)}] + times[Max(s)]]

LEMMA SpentType == ASSUME NEW times \in Seq(Int) PROVE Spent(times) \in Int
<1> DEFINE n == Len(times)
           Value(g, s) == IF s = {} THEN 0 ELSE g[s \ {Max(s)}] + times[Max(s)]
           it == CHOOSE g : SpentSums(g, times)
           F == [p \in (0 .. n) \X Int |-> IF p[1] = 0 THEN 0 ELSE p[2] + times[p[1]]]
<1>1. n \in Nat /\ DOMAIN times = 1 .. n /\ \A i \in 1 .. n : times[i] \in Int
  BY LenProperties, ElementOfSeq
<1>2. Spent(times) = it[DOMAIN times]
  <2>1. Spent(times) =
            (CHOOSE g : g = [s \in SUBSET (DOMAIN times) |->
                IF s = {} THEN 0 ELSE g[s \ {Max(s)}] + times[Max(s)]])[DOMAIN times]
    BY DEF Spent, FoldLeft, MapThenFoldSet
  <2> QED
    BY <2>1 DEF SpentSums
<1> HIDE DEF n
<1>3. F \in [(0 .. n) \X Int -> Int]
  <2>1. ASSUME NEW i \in 0 .. n, NEW x \in Int
        PROVE  (IF i = 0 THEN 0 ELSE x + times[i]) \in Int
    <3>1. i # 0 => times[i] \in Int
      BY <1>1
    <3> QED
      BY <3>1
  <2> QED
    BY <2>1
<1>4. PICK g \in [SUBSET (0 .. n) -> Int] : Greatest(n, 0, F, g)
  <2> DEFINE D == Int
  <2>1. n \in Nat /\ 0 \in D /\ F \in [(0 .. n) \X D -> D]
    BY <1>1, <1>3
  <2> HIDE DEF F, D
  <2>2. \E g \in [SUBSET (0 .. n) -> D] : Greatest(n, 0, F, g)
    BY <2>1, FoldDefined
  <2> QED
    BY <2>2 DEF D
<1> DEFINE h == [s \in SUBSET (1 .. n) |-> g[s]]
<1>5. ASSUME NEW s \in SUBSET (1 .. n) PROVE h[s] = Value(h, s)
  <2>1. s \in SUBSET (0 .. n) /\ h[s] = g[s] /\ g[s] \in Int
    BY <1>1, <1>4
  <2>2. CASE s = {}
    BY <1>4, <2>1, <2>2 DEF Greatest
  <2>3. CASE s # {}
    <3> DEFINE r == s \ {Max(s)}
    <3>1. Max(s) \in s
      BY <1>1, <2>1, <2>3, WithoutGreatest
    <3>2. Max(s) \in 1 .. n /\ r \in SUBSET (1 .. n)
      BY <3>1
    <3>3. r \in SUBSET (0 .. n) /\ h[r] = g[r] /\ g[r] \in Int
      BY <1>4, <3>2
    <3>4. Max(s) # 0 /\ Max(s) \in 0 .. n
      BY <3>2
    <3>5. g[s] = F[<<Max(s), g[r]>>]
      BY <1>4, <2>1, <2>3 DEF Greatest
    <3>6. g[s] = g[r] + times[Max(s)]
      BY <3>3, <3>4, <3>5
    <3> QED
      BY <2>1, <2>3, <3>3, <3>6
  <2> QED
    BY <2>2, <2>3
<1> HIDE DEF F
<1>6. SpentSums(h, times)
  <2>1. h = [s \in SUBSET (1 .. n) |-> h[s]]
    OBVIOUS
  <2> HIDE DEF h
  <2> QED
    BY <1>1, <1>5, <2>1 DEF SpentSums
<1>7. SpentSums(it, times)
  <2> HIDE DEF h
  <2> QED
    BY <1>6
<1> HIDE DEF h, it
<1>8. \A s \in SUBSET (1 .. n) : it[s] = Value(it, s)
  BY <1>1, <1>7 DEF SpentSums
<1> DEFINE T == {k \in 0 .. n : it[1 .. k] \in Int}
<1>9. 0 \in T
  <2>1. 1 .. 0 = {} /\ {} \in SUBSET (1 .. n) /\ 0 \in 0 .. n
    BY <1>1
  <2>2. it[{}] = 0
    BY <1>8, <2>1
  <2> QED
    BY <2>1, <2>2
<1>10. ASSUME NEW k \in 0 .. n - 1, k \in T PROVE k + 1 \in T
  <2> DEFINE s == 1 .. k + 1
  <2>0. k \in Nat /\ k + 1 \in 1 .. n /\ k + 1 \in 0 .. n
    BY <1>1
  <2>1. s \in SUBSET (1 .. n) /\ s \in SUBSET (0 .. n) /\ k + 1 \in s /\ s # {}
        /\ \A i \in s : i <= k + 1 /\ i \in Int
    <3>1. k + 1 \in s
      BY <2>0
    <3>2. \A i \in s : i \in 1 .. n /\ i \in 0 .. n /\ i <= k + 1 /\ i \in Int
      BY <1>1, <2>0
    <3> HIDE DEF s
    <3> QED
      BY <3>1, <3>2
  <2>2. Max(s) = k + 1
    <3> HIDE DEF s
    <3>1. Max(s) \in s /\ \A i \in s : i <= Max(s)
      BY <1>1, <2>1, GreatestMember
    <3> DEFINE x == Max(s)
    <3>2. x \in s /\ k + 1 <= x
      BY <2>1, <3>1
    <3> HIDE DEF x
    <3>3. x = k + 1
      BY <2>0, <2>1, <3>2
    <3> QED
      BY <3>3 DEF x
  <2>3. s \ {k + 1} = 1 .. k
    BY <2>0
  <2>4. it[1 .. k] \in Int /\ times[k + 1] \in Int
    BY <1>1, <1>10, <2>0
  <2> HIDE DEF s
  <2>5. it[s] = it[1 .. k] + times[k + 1]
    BY <1>8, <2>1, <2>2, <2>3
  <2> QED
    BY <2>0, <2>4, <2>5 DEF s
<1> HIDE DEF T
<1>11. n \in T
  BY <1>1, <1>9, <1>10, Reaches
<1> QED
  BY <1>1, <1>2, <1>11 DEF T

\* A kernel is under way or was, in the benchmark's first run or a later one.
BenchRuns ==
    /\ phase \in {"none", "warm", "timed", "reported"}
    /\ phase # "none" => pc \in {"rows", "done", "wild"} /\ params \in Params

\* While the loop goes on, the runs made so far are not enough.
TimesTaken ==
    /\ ts \in Seq(Durations)
    /\ phase \in {"none", "warm"} => ts = <<>>
    /\ phase = "timed" => ts = <<>> \/ ~Enough(ts)

\* The last run is the one that made them enough, and what is returned is the
\* middle of some order that nth_element leaves.
MedianTaken ==
    phase = "reported" =>
        /\ ts # <<>> /\ Enough(ts)
        /\ Front(ts) = <<>> \/ ~Enough(Front(ts))
        /\ \E order \in NthElement(ts, Len(ts) \div 2 + 1) : median = TwiceMedian(order)

TimingInv == BenchRuns /\ TimesTaken /\ MedianTaken

\* The number of runs is at least 1 and the cap, if that is larger.
LEMMA LargerOfTwo == ASSUME NEW x \in Int PROVE Max({1, x}) \in Int /\ Max({1, x}) >= 1 /\ Max({1, x}) >= x
<1> DEFINE S == {1, x}
<1>1. \E y \in S : \A z \in S : y >= z
  <2>1. CASE 1 >= x
    BY <2>1
  <2>2. CASE x >= 1
    BY <2>2
  <2> QED
    BY <2>1, <2>2
<1>2. Max(S) \in S /\ \A z \in S : Max(S) >= z
  <2>1. Max(S) = CHOOSE y \in S : \A z \in S : y >= z
    BY DEF Max
  <2> HIDE DEF S
  <2> QED
    BY <1>1, <2>1
<1> QED
  BY <1>2

LEMMA FrontOf ==
    ASSUME NEW D, NEW s \in Seq(D), NEW d \in D
    PROVE  Append(s, d) \in Seq(D) /\ Append(s, d) # <<>> /\ Front(Append(s, d)) = s
           /\ Len(Append(s, d)) = Len(s) + 1
<1> DEFINE t == Append(s, d)
           n == Len(s)
<1>1. /\ n \in Nat /\ t \in Seq(D) /\ Len(t) = n + 1
      /\ \A i \in 1 .. n : t[i] = s[i]
  BY AppendProperties, LenProperties
<1>2. Len(t) - 1 = n
  BY <1>1
<1>3. SubSeq(t, 1, n) = [i \in 1 .. (n - 1) + 1 |-> t[i + (1 - 1)]]
  BY <1>1
<1>4. SubSeq(t, 1, n) = [i \in 1 .. n |-> s[i]]
  BY <1>1, <1>3
<1>5. s = [i \in 1 .. n |-> s[i]]
  BY LenProperties
<1>6. t # <<>>
  BY <1>1, EmptySeq
<1> QED
  BY <1>1, <1>2, <1>4, <1>5, <1>6 DEF Front

LEMMA InvRunsAsAsked == ASSUME TimingInv PROVE RunsAsAsked
<1> SUFFICES ASSUME phase = "reported" PROVE RunsAsAsked
  BY DEF RunsAsAsked
<1> DEFINE n == Len(ts)
           f == Front(ts)
<1>1. /\ params.budget \in Int /\ params.min_reps \in Int /\ params.max_reps \in Int
      /\ ts \in Seq(Int) /\ ts # <<>>
  <2>1. Durations \subseteq Int /\ ts \in Seq(Durations)
    BY TimingAssumption DEF TimingInv, TimesTaken
  <2>2. ts \in Seq(Int)
    BY <2>1, SeqMonotonic
  <2>3. params \in [budget : Int, min_reps : Int, max_reps : Int]
    BY TimingAssumption DEF TimingInv, BenchRuns
  <2> QED
    BY <2>2, <2>3 DEF TimingInv, MedianTaken
<1>2. n \in Nat /\ n > 0 /\ f \in Seq(Int) /\ Len(f) = n - 1
  <2>1. n \in Nat /\ n > 0
    BY <1>1, LenProperties, EmptySeq
  <2>2. f = SubSeq(ts, 1, n - 1) /\ 1 \in 1 .. n + 1 /\ n - 1 \in 1 - 1 .. n
    BY <2>1 DEF Front
  <2>3. f \in Seq(Int) /\ Len(f) = IF 1 <= n - 1 THEN (n - 1) - 1 + 1 ELSE 0
    BY <1>1, <2>1, <2>2, SubSeqProperties
  <2> HIDE DEF n, f
  <2>4. (IF 1 <= n - 1 THEN (n - 1) - 1 + 1 ELSE 0) = n - 1
    BY <2>1
  <2> QED
    BY <2>1, <2>3, <2>4
<1>3. Spent(f) \in Int
  BY <1>2, SpentType
<1>4. median = Ranked((n + 1) \div 2) + Ranked(n \div 2 + 1)
  BY <1>1, MedianRanked DEF TimingInv, MedianTaken
<1>5. f = <<>> => n = 1
  BY <1>2
<1>6. /\ n >= params.max_reps \/ (n >= params.min_reps /\ Spent(ts) >= params.budget)
      /\ f = <<>> \/ ~(Len(f) >= params.max_reps)
      /\ f = <<>> \/ ~(Len(f) >= params.min_reps) \/ ~(Spent(f) >= params.budget)
  BY DEF TimingInv, MedianTaken, Enough
<1>7. /\ Max({1, params.max_reps}) \in Int /\ Max({1, params.max_reps}) >= 1
      /\ Max({1, params.max_reps}) >= params.max_reps
      /\ Max({1, params.min_reps}) \in Int /\ Max({1, params.min_reps}) >= 1
      /\ Max({1, params.min_reps}) >= params.min_reps
  BY <1>1, LargerOfTwo
<1> DEFINE least  == params.min_reps
           cap    == params.max_reps
           budget == params.budget
           lo     == Max({1, least})
           hi     == Max({1, cap})
           l      == Len(f)
           x      == Spent(f)
           y      == Spent(ts)
<1>8. /\ n \in Nat /\ n > 0 /\ l = n - 1 /\ x \in Int
      /\ budget \in Int /\ least \in Int /\ cap \in Int
      /\ hi \in Int /\ hi >= 1 /\ hi >= cap /\ lo \in Int /\ lo >= 1 /\ lo >= least
  BY <1>1, <1>2, <1>3, <1>7
<1>9. /\ n >= cap \/ (n >= least /\ y >= budget)
      /\ n = 1 \/ (~(l >= cap) /\ (~(l >= least) \/ ~(x >= budget)))
  <2>1. n >= cap \/ (n >= least /\ y >= budget)
    BY <1>6
  <2>2. f = <<>> \/ ~(l >= cap)
    BY <1>6
  <2>3. f = <<>> \/ ~(l >= least) \/ ~(x >= budget)
    BY <1>6
  <2> QED
    BY <1>5, <2>1, <2>2, <2>3
<1> HIDE DEF n, least, cap, budget, lo, hi, l, x, y
<1>10. n <= hi
  BY <1>8, <1>9
<1>11. n < cap => n >= least /\ y >= budget
  BY <1>8, <1>9
<1>12. n > lo => x < budget
  BY <1>8, <1>9
<1> QED
  BY <1>4, <1>10, <1>11, <1>12 DEF RunsAsAsked, n, least, cap, budget, lo, hi, x, y

\* A kernel that has started is not called again, and leads to no call.
LEMMA KernelGoesOn ==
    ASSUME pc \in {"rows", "done", "wild"}, Next
    PROVE  pc' \in {"rows", "done", "wild"}
<1>1. pc # "build" /\ pc # "laplacian" /\ pc # "call"
  OBVIOUS
<1>2. ASSUME NEW in \in CsrInputs, FromCsr(in) PROVE FALSE
  BY <1>1, <1>2 DEF FromCsr
<1>3. ASSUME NEW n \in Sizes, Laplacian(n) PROVE FALSE
  BY <1>1, <1>3 DEF Laplacian
<1>4. CASE LaplacianRow
  BY <1>1, <1>4 DEF LaplacianRow
<1>5. ASSUME NEW x \in Vectors, Spmv(x) PROVE FALSE
  BY <1>1, <1>5 DEF Spmv
<1>6. ASSUME NEW d \in Denses, Spmm(d) PROVE FALSE
  BY <1>1, <1>6 DEF Spmm
<1>7. CASE Finish
  BY <1>7 DEF Finish
<1>8. ASSUME NEW w \in Workers, NEW i \in todo, TakeRow(w, i) PROVE pc' = pc
  BY <1>8 DEF TakeRow
<1>9. ASSUME NEW w \in Workers, Multiply(w) PROVE pc' \in {pc, "wild"}
  BY <1>9 DEF Multiply
<1>10. ASSUME NEW w \in Workers, EndRow(w) PROVE pc' = pc
  BY <1>10 DEF EndRow
<1>11. ASSUME NEW c \in DOMAIN mem, SetEntry(c) PROVE pc' = pc
  BY <1>11 DEF SetEntry
<1> QED
  BY <1>2, <1>3, <1>4, <1>5, <1>6, <1>7, <1>8, <1>9, <1>10, <1>11 DEF Next

LEMMA BenchStutter ==
    ASSUME TimingInv, UNCHANGED benchVars, phase # "none" => pc' \in {"rows", "done", "wild"}
    PROVE  TimingInv'
<1>1. phase' = phase /\ params' = params /\ ts' = ts /\ median' = median
  BY DEF benchVars
<1>2. BenchRuns'
  BY <1>1 DEF TimingInv, BenchRuns
<1>3. TimesTaken'
  BY <1>1 DEF TimingInv, TimesTaken, Enough
<1>4. MedianTaken'
  BY <1>1 DEF TimingInv, MedianTaken, Enough
<1> QED
  BY <1>2, <1>3, <1>4 DEF TimingInv

\* A benchmark begins with the kernel's first run.
LEMMA BenchBegins ==
    ASSUME TimingInv, NEW p \in Params, pc = "call", pc' \in {"rows", "done"},
           phase' = "warm", params' = p, ts' = ts
    PROVE  TimingInv'
<1>1. phase = "none" /\ ts = <<>> /\ ts \in Seq(Durations)
  BY DEF TimingInv, BenchRuns, TimesTaken
<1>2. BenchRuns'
  BY DEF BenchRuns
<1>3. TimesTaken'
  BY <1>1 DEF TimesTaken
<1>4. MedianTaken'
  BY DEF MedianTaken
<1> QED
  BY <1>2, <1>3, <1>4 DEF TimingInv

LEMMA WarmedUpStep == ASSUME TimingInv, WarmedUp PROVE TimingInv'
<1>1. phase = "warm" /\ phase' = "timed" /\ params' = params /\ ts' = ts /\ pc' \in {"rows", "done"}
  BY DEF WarmedUp, Again
<1>2. BenchRuns'
  BY <1>1 DEF TimingInv, BenchRuns
<1>3. TimesTaken'
  BY <1>1 DEF TimingInv, TimesTaken
<1>4. MedianTaken'
  BY <1>1 DEF MedianTaken
<1> QED
  BY <1>2, <1>3, <1>4 DEF TimingInv

\* The time of a run is added; without it the runs were not enough.
LEMMA TimedStep == ASSUME TimingInv, NEW dt \in Durations, Timed(dt) PROVE TimingInv'
<1>1. /\ phase = "timed" /\ pc = "done" /\ ts' = Append(ts, dt) /\ params' = params
      /\ params \in Params /\ ts \in Seq(Durations)
      /\ ts = <<>> \/ ~Enough(ts)
  BY DEF Timed, TimingInv, BenchRuns, TimesTaken
<1>2. ts' \in Seq(Durations) /\ ts' # <<>> /\ Front(ts') = ts
  BY <1>1, FrontOf
<1>4. CASE Enough(ts')
  <2>1. /\ phase' = "reported" /\ pc' = pc
        /\ \E order \in NthElement(ts', Len(ts') \div 2 + 1) : median' = TwiceMedian(order)
    BY <1>4 DEF Timed, vars
  <2>2. BenchRuns'
    BY <1>1, <2>1 DEF BenchRuns
  <2>3. TimesTaken'
    BY <1>2, <2>1 DEF TimesTaken
  <2>4. MedianTaken'
    BY <1>1, <1>2, <1>4, <2>1 DEF MedianTaken, Enough
  <2> QED
    BY <2>2, <2>3, <2>4 DEF TimingInv
<1>5. CASE ~Enough(ts')
  <2>1. phase' = "timed" /\ pc' \in {"rows", "done"}
    BY <1>1, <1>5 DEF Timed, Again
  <2>2. BenchRuns'
    BY <1>1, <2>1 DEF BenchRuns
  <2>3. TimesTaken'
    BY <1>1, <1>2, <1>5, <2>1 DEF TimesTaken, Enough
  <2>4. MedianTaken'
    BY <2>1 DEF MedianTaken
  <2> QED
    BY <2>2, <2>3, <2>4 DEF TimingInv
<1> QED
  BY <1>4, <1>5

LEMMA BNextTimes == ASSUME TimingInv, BNext PROVE TimingInv'
<1>1. ASSUME NEW x \in Vectors, NEW p \in Params, BenchSpmv(x, p) PROVE TimingInv'
  <2>1. pc = "call" /\ pc' \in {"rows", "done"} /\ phase' = "warm" /\ params' = p /\ ts' = ts
    BY <1>1 DEF BenchSpmv, Launch
  <2> QED
    BY <2>1, BenchBegins
<1>2. ASSUME NEW d \in Denses, NEW p \in Params, BenchSpmm(d, p) PROVE TimingInv'
  <2>1. pc = "call" /\ pc' \in {"rows", "done"} /\ phase' = "warm" /\ params' = p /\ ts' = ts
    BY <1>2 DEF BenchSpmm, Launch
  <2> QED
    BY <2>1, BenchBegins
<1>3. CASE Next /\ UNCHANGED benchVars
  <2>1. phase # "none" => pc' \in {"rows", "done", "wild"}
    BY <1>3, KernelGoesOn DEF TimingInv, BenchRuns
  <2> QED
    BY <1>3, <2>1, BenchStutter
<1>4. CASE WarmedUp
  BY <1>4, WarmedUpStep
<1>5. ASSUME NEW dt \in Durations, Timed(dt) PROVE TimingInv'
  BY <1>5, TimedStep
<1> QED
  BY <1>1, <1>2, <1>3, <1>4, <1>5 DEF BNext

-----------------------------------------------------------------------------
(* The theorems *)

\* What a program of matrices and products keeps true (class CsrMatrix), with
\* and without the timing loop.
THEOREM Invariant == Spec => []IInv
<1>1. IInv /\ [Next]_vars => IInv'
  BY NextStep, Stutter
<1> QED
  BY <1>1, InitInv, PTL DEF Spec

THEOREM BenchInvariant == BSpec => []IInv
<1>1. IInv /\ [BNext]_allVars => IInv'
  BY BNextStep, Stutter DEF allVars
<1>2. BInit => IInv
  BY InitInv DEF BInit
<1> QED
  BY <1>1, <1>2, PTL DEF BSpec

\* spmv_into and spmm_into, called by spmv, spmm, bench_spmv or bench_spmm, read
\* the matrix and the operand inside their arrays, unless csr_from was given a
\* malformed matrix or the operand does not fit: the Laplacian never is the cause.
THEOREM ReadsInsideHolds == BSpec => []ReadsInside
BY BenchInvariant, PTL DEF IInv

\* They write inside their result, sound arguments or not.
THEOREM WritesInsideHolds == BSpec => []WritesInside
<1>1. IInv => WritesInside
  BY InvWritesInside
<1> QED
  BY <1>1, BenchInvariant, PTL

\* What the workers of a kernel keep true of the cells they have summed so far,
\* and laplacian_1d of the rows it has made, under the timing loop or not.
THEOREM ProductInvariant == BSpec => []PInv
<1>1. PInv /\ [BNext]_allVars => PInv'
  <2>1. ASSUME PInv, UNCHANGED allVars PROVE PInv'
    BY <2>1, Stutter, StutterKept DEF allVars, PInv
  <2> QED
    BY <2>1, BNextKeeps
<1>2. BInit => PInv
  BY InitProducts DEF BInit
<1> QED
  BY <1>1, <1>2, PTL DEF BSpec

\* What spmv_into and spmm_into leave in the result is the product of the
\* matrices that the program asked for, once or under the timing loop; when
\* DenseMatrix.set came in between, every cell is its row's sum with the old
\* entry up to some point and the new one after it.
THEOREM ProductIsDenseHolds == BSpec => []ProductIsDense
<1>1. PInv => ProductIsDense
  BY InvProduct
<1> QED
  BY <1>1, ProductInvariant, PTL

\* What the loop of measure() keeps true of its phase and of the times taken.
THEOREM TimingInvariant == BSpec => []TimingInv
<1>1. BInit => TimingInv
  BY DEF BInit, TimingInv, BenchRuns, TimesTaken, MedianTaken
<1>2. TimingInv /\ [BNext]_allVars => TimingInv'
  <2>1. ASSUME TimingInv, UNCHANGED allVars PROVE TimingInv'
    <3>1. UNCHANGED benchVars /\ pc' = pc
      BY <2>1 DEF allVars, vars
    <3> QED
      BY <2>1, <3>1, BenchStutter DEF TimingInv, BenchRuns
  <2> QED
    BY <2>1, BNextTimes
<1> QED
  BY <1>1, <1>2, PTL DEF BSpec

\* measure(), called by bench_spmv and bench_spmm, makes as many runs as it was
\* asked for, whatever the budget, the minimum and the cap are, and returns the
\* median of their times, whatever order nth_element leaves.
THEOREM RunsAsAskedHolds == BSpec => []RunsAsAsked
<1>1. TimingInv => RunsAsAsked
  BY InvRunsAsAsked
<1> QED
  BY <1>1, TimingInvariant, PTL
=============================================================================
