-------------------------- MODULE ParReduce_proofs --------------------------
(***************************************************************************)
(* Theorems about ParReduce: what a full reduction returns is what NumPy   *)
(* returns, for arrays of every length, on any number of workers and       *)
(* however these cut, share and fold the elements.                         *)
(*                                                                         *)
(* min, max, any, all and is_sorted select one of what they fold: a term   *)
(* may be folded any number of times, it must not be lost. sum, prod,      *)
(* mean, dot and count_nonzero of int64 add up, modulo 2^Bits: each term   *)
(* must be folded exactly once, in any order.                              *)
(***************************************************************************)
EXTENDS ParReduce, FoldTheorems, FiniteSetTheorems, SequenceTheorems, TLAPS

Terms == [i \in 1 .. Count |-> Term(i)]

TypeOK ==
    /\ floating \in BOOLEAN /\ op \in Ops
    /\ arr \in Seq(-Inf .. NaN) /\ other \in Seq(Int)
    /\ ~floating => arr \in Seq(-Inf .. Finite)
    /\ chunked \in BOOLEAN
    /\ next \in Nat
    /\ chunk \in [Workers -> [lo : Nat, hi : Nat]]
    /\ acc \in [Workers -> Int]
    /\ parts \in Seq(Int)
    /\ result \in Int
    /\ pc \in {"call", "run", "join", "returned", "thrown"}

\* Before the reduction begins there is nothing but identities.
Fresh ==
    pc = "call" =>
        /\ next = 0 /\ parts = <<>> /\ result = Identity(op)
        /\ \A w \in Workers : acc[w] = Identity(op) /\ chunk[w] = [lo |-> 0, hi |-> 0]

\* There is something to fold, the chunks' elements are among those handed out, and
\* a worker's copy waits for the join.
Chunks ==
    /\ pc \in {"run", "join"} => Count >= 1 /\ (op = "dot" => Len(arr) = Len(other))
    /\ pc = "run" =>
        /\ next <= Count
        /\ \A w \in Workers : chunk[w].lo <= chunk[w].hi /\ chunk[w].hi <= next
        /\ ~chunked => parts = <<>>

WellFormed == TypeOK /\ Fresh /\ Chunks

LEMMA Bounds == /\ Finite \in Nat /\ Finite > 0 /\ Inf = Finite + 1 /\ NaN = Finite + 2
                /\ Lowest = IF floating THEN -Finite ELSE -Finite - 1
<1>1. Finite \in Nat \ {0}
  BY CasesAssumption
<1> QED
  BY <1>1 DEF Inf, NaN, Lowest

-----------------------------------------------------------------------------
(* Two's complement *)

Int64 == -Inf .. Finite

\* Wrapping adds a multiple of the modulus, and the number in range that this gives
\* is the only one.
LEMMA Wraps ==
    ASSUME NEW x \in Int
    PROVE  /\ Wrap(x) \in Int64
           /\ \E k \in Int : x = Wrap(x) + k * (2 * Inf)
<1> DEFINE m == 2 * Inf
<1>1. m \in Nat /\ m > 0 /\ x + Inf \in Int /\ Inf \in Nat
  BY Bounds
<1>2. /\ (x + Inf) % m \in 0 .. m - 1 /\ (x + Inf) \div m \in Int
      /\ x + Inf = m * ((x + Inf) \div m) + ((x + Inf) % m)
  <2> HIDE DEF m
  <2> QED
    BY <1>1
<1> DEFINE q == (x + Inf) \div m
           r == (x + Inf) % m
<1>3. Wrap(x) = r - Inf
  BY DEF Wrap
<1>4. r \in Int /\ q \in Int /\ 0 <= r /\ r < m /\ x + Inf = m * q + r
  BY <1>1, <1>2
<1> HIDE DEF q, r
<1>5. Wrap(x) \in Int64
  BY <1>1, <1>3, <1>4, Bounds DEF Int64
<1>6. x = Wrap(x) + q * m
  <2> HIDE DEF m
  <2> QED
    BY <1>1, <1>3, <1>4
<1> QED
  BY <1>4, <1>5, <1>6

LEMMA WrapUnique ==
    ASSUME NEW x \in Int, NEW y \in Int64, NEW k \in Int, x = y + k * (2 * Inf)
    PROVE  Wrap(x) = y
<1> DEFINE m == 2 * Inf
<1>1. PICK j \in Int : x = Wrap(x) + j * m
  BY Wraps
<1>2. Wrap(x) \in Int64 /\ m \in Nat /\ m > 0 /\ y \in Int
  BY Wraps, Bounds DEF Int64
<1> DEFINE z == Wrap(x)
<1>3. z \in Int /\ -m < z - y /\ z - y < m
  BY <1>2, Bounds DEF Int64
<1> HIDE DEF z, m
<1>4. z - y = (k - j) * m
  BY <1>1, <1>2, <1>3 DEF z, m
<1>5. k - j = 0
  <2>1. ASSUME k - j >= 1 PROVE FALSE
    <3>1. (k - j) * m >= m
      BY <1>2, <2>1
    <3> QED
      BY <1>2, <1>3, <1>4, <3>1
  <2>2. ASSUME k - j <= -1 PROVE FALSE
    <3>1. (k - j) * m <= -m
      BY <1>2, <2>2
    <3> QED
      BY <1>2, <1>3, <1>4, <3>1
  <2> QED
    BY <2>1, <2>2
<1> QED
  BY <1>2, <1>3, <1>4, <1>5 DEF z

LEMMA WrapInRange == ASSUME NEW x \in Int64 PROVE Wrap(x) = x
<1>1. x \in Int /\ x = x + 0 * (2 * Inf)
  BY Bounds DEF Int64
<1> QED
  BY <1>1, WrapUnique

\* Numbers that differ by a multiple of the modulus wrap to one.
LEMMA WrapModulo ==
    ASSUME NEW x \in Int, NEW y \in Int, NEW k \in Int, x = y + k * (2 * Inf)
    PROVE  Wrap(x) = Wrap(y)
<1> DEFINE m == 2 * Inf
<1>1. PICK j \in Int : y = Wrap(y) + j * m
  BY Wraps
<1>2. Wrap(y) \in Int64 /\ Wrap(y) \in Int /\ m \in Int
  BY Wraps, Bounds DEF Int64
<1>3. x = Wrap(y) + (j + k) * m
  <2> DEFINE z == Wrap(y)
  <2>1. x = y + k * m /\ y = z + j * m /\ z \in Int
    BY <1>1, <1>2
  <2> HIDE DEF m, z
  <2>2. (z + j * m) + k * m = z + (j + k) * m
    BY <1>2, <2>1
  <2> QED
    BY <2>1, <2>2 DEF z
<1> QED
  BY <1>2, <1>3, WrapUnique

\* Wrapped sums and products may be wrapped again, and no sooner.
LEMMA WrapOnce ==
    ASSUME NEW x \in Int, NEW y \in Int
    PROVE  Wrap(Wrap(x) + y) = Wrap(x + y) /\ Wrap(Wrap(x) * y) = Wrap(x * y)
<1> DEFINE m == 2 * Inf
<1>1. PICK k \in Int : x = Wrap(x) + k * m
  BY Wraps
<1>2. Wrap(x) \in Int /\ m \in Int
  BY Wraps, Bounds DEF Int64
<1>3. x + y = (Wrap(x) + y) + k * m
  <2> HIDE DEF m
  <2> QED
    BY <1>1, <1>2
<1>4. x * y = (Wrap(x) * y) + (k * y) * m
  <2> DEFINE z == Wrap(x)
  <2>1. x = z + k * m /\ z \in Int
    BY <1>1, <1>2
  <2> HIDE DEF m, z
  <2>2. (z + k * m) * y = z * y + (k * y) * m
    BY <1>2, <2>1
  <2> QED
    BY <2>1, <2>2 DEF z
<1>5. x + y \in Int /\ Wrap(x) + y \in Int /\ x * y \in Int /\ Wrap(x) * y \in Int /\ k * y \in Int
  BY <1>2
<1> QED
  BY <1>3, <1>4, <1>5, WrapModulo

-----------------------------------------------------------------------------
(* Sums and products are a monoid *)

Summing == {"sum", "prod", "mean", "dot", "count_nonzero"}

FoldOp(o) == [p \in Int64 \X Int64 |-> Merge(o, p[1], p[2])]

LEMMA MergeSums ==
    ASSUME NEW o \in Summing, NEW x, NEW y
    PROVE  Merge(o, x, y) = IF o = "prod" THEN Wrap(x * y) ELSE Wrap(x + y)
BY DEF Merge, Summing

LEMMA MergeMonoid ==
    ASSUME NEW o \in Summing
    PROVE  Monoid(Int64, FoldOp(o), Identity(o))
<1> DEFINE F == FoldOp(o)
           e == Identity(o)
<1>1. e = (IF o = "prod" THEN 1 ELSE 0) /\ e \in Int64
  <2>1. e = IF o = "prod" THEN 1 ELSE 0
    BY DEF Identity, Summing
  <2> HIDE DEF e
  <2> QED
    BY <2>1, Bounds DEF Int64
<1>2. ASSUME NEW x \in Int64, NEW y \in Int64
      PROVE  /\ F[<<x, y>>] = IF o = "prod" THEN Wrap(x * y) ELSE Wrap(x + y)
             /\ F[<<x, y>>] \in Int64
  <2>1. F[<<x, y>>] = Merge(o, x, y)
    BY DEF FoldOp
  <2>2. x \in Int /\ y \in Int
    BY Bounds DEF Int64
  <2>3. x * y \in Int /\ x + y \in Int
    BY <2>2
  <2> QED
    BY <2>1, <2>3, MergeSums, Wraps
<1>3. F \in [Int64 \X Int64 -> Int64]
  <2>1. F = [p \in Int64 \X Int64 |-> Merge(o, p[1], p[2])]
    BY DEF FoldOp
  <2>2. \A p \in Int64 \X Int64 : F[p] \in Int64
    BY <1>2
  <2> QED
    BY <2>1, <2>2
<1>4. \A x \in Int64 : F[<<e, x>>] = x
  <2> SUFFICES ASSUME NEW x \in Int64 PROVE F[<<e, x>>] = x
    OBVIOUS
  <2>1. x \in Int /\ 1 * x = x /\ 0 + x = x
    BY Bounds DEF Int64
  <2> QED
    BY <1>1, <1>2, <2>1, WrapInRange
<1>5. \A x, y \in Int64 : F[<<x, y>>] = F[<<y, x>>]
  <2> SUFFICES ASSUME NEW x \in Int64, NEW y \in Int64 PROVE F[<<x, y>>] = F[<<y, x>>]
    OBVIOUS
  <2>1. x \in Int /\ y \in Int
    BY Bounds DEF Int64
  <2>2. x * y = y * x /\ x + y = y + x
    BY <2>1
  <2> QED
    BY <1>2, <2>2
<1>6. \A x, y, z \in Int64 : F[<<F[<<x, y>>], z>>] = F[<<x, F[<<y, z>>]>>]
  <2> SUFFICES ASSUME NEW x \in Int64, NEW y \in Int64, NEW z \in Int64
               PROVE  F[<<F[<<x, y>>], z>>] = F[<<x, F[<<y, z>>]>>]
    OBVIOUS
  <2>1. x \in Int /\ y \in Int /\ z \in Int
    BY Bounds DEF Int64
  <2>2. /\ F[<<x, y>>] \in Int64 /\ F[<<y, z>>] \in Int64
        /\ F[<<x, F[<<y, z>>]>>] = F[<<F[<<y, z>>], x>>]
    BY <1>2, <1>5
  <2>3. CASE o = "prod"
    <3>1. /\ F[<<F[<<x, y>>], z>>] = Wrap(Wrap(x * y) * z)
          /\ F[<<F[<<y, z>>], x>>] = Wrap(Wrap(y * z) * x)
      BY <1>2, <2>2, <2>3
    <3>2. x * y \in Int /\ y * z \in Int /\ (x * y) * z = (y * z) * x
      BY <2>1
    <3>3. Wrap(Wrap(x * y) * z) = Wrap((x * y) * z) /\ Wrap(Wrap(y * z) * x) = Wrap((y * z) * x)
      BY <2>1, <3>2, WrapOnce
    <3> QED
      BY <2>2, <3>1, <3>2, <3>3
  <2>4. CASE o # "prod"
    <3>1. /\ F[<<F[<<x, y>>], z>>] = Wrap(Wrap(x + y) + z)
          /\ F[<<F[<<y, z>>], x>>] = Wrap(Wrap(y + z) + x)
      BY <1>2, <2>2, <2>4
    <3>2. x + y \in Int /\ y + z \in Int /\ (x + y) + z = (y + z) + x
      BY <2>1
    <3>3. Wrap(Wrap(x + y) + z) = Wrap((x + y) + z) /\ Wrap(Wrap(y + z) + x) = Wrap((y + z) + x)
      BY <2>1, <3>2, WrapOnce
    <3> QED
      BY <2>2, <3>1, <3>2, <3>3
  <2> QED
    BY <2>3, <2>4
<1> HIDE DEF F, e
<1>7. Monoid(Int64, F, e)
  BY <1>1, <1>3, <1>4, <1>5, <1>6 DEF Monoid
<1> QED
  BY <1>7 DEF F, e

-----------------------------------------------------------------------------
(* What is folded *)

LEMMA Sizes ==
    ASSUME TypeOK
    PROVE  /\ arr \in Seq(Int) /\ Len(arr) \in Nat /\ DOMAIN arr = 1 .. Len(arr)
           /\ Count = (IF op = "is_sorted" THEN Len(arr) - 1 ELSE Len(arr))
           /\ Count \in Int /\ Count <= Len(arr)
           /\ \A i \in 1 .. Len(arr) : arr[i] \in Int /\ arr[i] \in ToSet(arr)
           /\ Identity(op) \in Int
<1>1. arr \in Seq(Int)
  <2>1. -Inf .. NaN \subseteq Int
    BY Bounds
  <2> QED
    BY <2>1, SeqMonotonic DEF TypeOK
<1>2. Len(arr) \in Nat /\ DOMAIN arr = 1 .. Len(arr)
  BY <1>1, LenProperties
<1>3. Count = (IF op = "is_sorted" THEN Len(arr) - 1 ELSE Len(arr))
  BY DEF Count
<1>4. \A i \in 1 .. Len(arr) : arr[i] \in Int /\ arr[i] \in ToSet(arr)
  BY <1>1, <1>2, ElementOfSeq DEF ToSet
<1>5. Identity(op) \in Int
  <2>1. op \in Ops
    BY DEF TypeOK
  <2>2. Lowest \in Int /\ Finite \in Int
    BY Bounds
  <2> HIDE DEF Finite, Lowest
  <2> QED
    BY <2>1, <2>2 DEF Identity, Ops
<1>6. Count \in Int /\ Count <= Len(arr)
  <2> DEFINE n == Len(arr)
  <2>1. n \in Nat /\ (Count = n \/ Count = n - 1)
    BY <1>2, <1>3
  <2> HIDE DEF n
  <2>2. Count \in Int /\ Count <= n
    BY <2>1
  <2> QED
    BY <2>2 DEF n
<1> QED
  BY <1>1, <1>2, <1>3, <1>4, <1>5, <1>6

LEMMA MergeInt ==
    ASSUME NEW o \in Ops, NEW x \in Int, NEW y \in Int
    PROVE  Merge(o, x, y) \in Int
<1>1. Wrap(x + y) \in Int /\ Wrap(x * y) \in Int
  <2>1. x + y \in Int /\ x * y \in Int
    OBVIOUS
  <2>2. Wrap(x + y) \in Int64 /\ Wrap(x * y) \in Int64
    BY <2>1, Wraps
  <2> QED
    BY <2>2, Bounds DEF Int64
<1> QED
  BY <1>1 DEF Merge, Ops

LEMMA TermInt ==
    ASSUME TypeOK, op = "dot" => Len(arr) = Len(other)
    PROVE  Count \in Int /\ \A i \in 1 .. Count : Terms[i] = Term(i) /\ Term(i) \in Int
<1>1. Count \in Int
  BY Sizes
<1> SUFFICES ASSUME NEW i \in 1 .. Count PROVE Term(i) \in Int
  BY <1>1 DEF Terms
<1>2. arr[i] \in Int
  BY Sizes
<1>3. CASE op = "dot"
  <2>1. i \in 1 .. Len(other)
    BY <1>3, Sizes
  <2>2. other[i] \in Int
    BY <2>1, ElementOfSeq DEF TypeOK
  <2>3. Wrap(arr[i] * other[i]) \in Int64
    <3>1. arr[i] * other[i] \in Int
      BY <1>2, <2>2
    <3> QED
      BY <3>1, Wraps
  <2> QED
    BY <1>3, <2>3, Bounds DEF Term, Int64
<1>4. CASE op # "dot"
  BY <1>2, <1>4 DEF Term
<1> QED
  BY <1>3, <1>4

LEMMA Fixed ==
    ASSUME UNCHANGED <<floating, arr, op, other, chunked>>
    PROVE  /\ Count' = Count /\ Terms' = Terms
           /\ Identity(op)' = Identity(op)
           /\ Undefined' = Undefined
<1>1. Count' = Count
  BY DEF Count
<1>2. \A i : Term(i)' = Term(i)
  BY DEF Term
<1>3. Terms' = Terms
  BY <1>1, <1>2 DEF Terms
<1>4. Identity(op)' = Identity(op)
  BY DEF Identity, Lowest
<1>5. Undefined' = Undefined
  BY DEF Undefined
<1> QED
  BY <1>1, <1>3, <1>4, <1>5

-----------------------------------------------------------------------------
(* Sequences *)

\* What is left of a sequence without its element k, and where.
LEMMA RemovedAt ==
    ASSUME NEW s \in Seq(Int), NEW k \in DOMAIN s
    PROVE  LET old(j) == IF j < k THEN j ELSE j + 1
               t      == RemoveAt(s, k)
           IN  /\ t \in Seq(Int)
               /\ \A j \in DOMAIN t : old(j) \in DOMAIN s \ {k} /\ t[j] = s[old(j)]
               /\ \A i, j \in DOMAIN t : old(i) = old(j) => i = j
               /\ \A m \in DOMAIN s \ {k} : \E j \in DOMAIN t : old(j) = m
<1> DEFINE n == Len(s)
           l == SubSeq(s, 1, k - 1)
           r == SubSeq(s, k + 1, n)
           old(j) == IF j < k THEN j ELSE j + 1
<1>1. DOMAIN s = 1 .. n /\ n \in Nat /\ k \in 1 .. n /\ \A i \in 1 .. n : s[i] \in Int
  BY LenProperties, ElementOfSeq
<1>2. /\ l \in Seq(Int) /\ Len(l) = k - 1
      /\ \A i \in 1 .. k - 1 : l[i] = s[i]
  BY <1>1, SubSeqProperties
<1>3. /\ r \in Seq(Int) /\ Len(r) = n - k
      /\ \A i \in 1 .. n - k : r[i] = s[k + i]
  <2>1. k + 1 \in Int /\ n \in Int /\ \A i \in k + 1 .. n : s[i] \in Int
    <3>1. k \in Nat /\ k >= 1 /\ n \in Nat
      BY <1>1
    <3>2. \A i \in k + 1 .. n : i \in 1 .. n
      BY <3>1
    <3> QED
      BY <1>1, <3>1, <3>2
  <2>2. /\ r \in Seq(Int) /\ Len(r) = IF k + 1 <= n THEN n - (k + 1) + 1 ELSE 0
        /\ \A i \in 1 .. n - (k + 1) + 1 : r[i] = s[(k + 1) + i - 1]
    BY <2>1, SubSeqProperties
  <2> HIDE DEF n, r
  <2>3. n - (k + 1) + 1 = n - k /\ \A i \in Int : (k + 1) + i - 1 = k + i
    BY <1>1
  <2>4. ASSUME NEW i \in 1 .. n - k PROVE r[i] = s[k + i]
    <3>1. i \in 1 .. n - (k + 1) + 1 /\ (k + 1) + i - 1 = k + i
      BY <1>1, <2>3
    <3> QED
      BY <2>2, <3>1
  <2>5. Len(r) = n - k
    BY <1>1, <2>2
  <2> QED
    BY <2>2, <2>4, <2>5
<1> HIDE DEF n, l, r
<1>4. RemoveAt(s, k) = l \o r
  BY DEF RemoveAt, l, r, n
<1>5. /\ l \o r \in Seq(Int) /\ DOMAIN (l \o r) = 1 .. n - 1
      /\ \A j \in 1 .. n - 1 : (l \o r)[j] = IF j <= k - 1 THEN l[j] ELSE r[j - (k - 1)]
  <2>1. /\ l \o r \in Seq(Int) /\ Len(l \o r) = Len(l) + Len(r)
        /\ \A j \in 1 .. Len(l) + Len(r) :
                (l \o r)[j] = IF j <= Len(l) THEN l[j] ELSE r[j - Len(l)]
    BY <1>2, <1>3, ConcatProperties
  <2>2. Len(l) + Len(r) = n - 1
    BY <1>1, <1>2, <1>3
  <2>3. DOMAIN (l \o r) = 1 .. n - 1
    BY <2>1, <2>2, LenProperties
  <2> QED
    BY <1>2, <2>1, <2>2, <2>3
<1>6. ASSUME NEW j \in 1 .. n - 1 PROVE old(j) \in (1 .. n) \ {k} /\ (l \o r)[j] = s[old(j)]
  <2>1. CASE j < k
    <3>1. j <= k - 1 /\ j \in 1 .. k - 1 /\ old(j) = j
      BY <1>1, <2>1
    <3> QED
      BY <1>1, <1>2, <1>5, <3>1
  <2>2. CASE ~(j < k)
    <3>1. /\ j - (k - 1) \in 1 .. n - k /\ j + 1 \in (1 .. n) \ {k} /\ k + (j - (k - 1)) = j + 1
          /\ old(j) = j + 1 /\ ~(j <= k - 1)
      BY <1>1, <2>2
    <3>2. (l \o r)[j] = s[j + 1]
      BY <1>3, <1>5, <2>2, <3>1
    <3> QED
      BY <3>1, <3>2
  <2> QED
    BY <2>1, <2>2
<1>7. \A i, j \in 1 .. n - 1 : old(i) = old(j) => i = j
  BY <1>1
<1>8. ASSUME NEW m \in (1 .. n) \ {k} PROVE \E j \in 1 .. n - 1 : old(j) = m
  <2>1. CASE m < k
    <3>1. m \in 1 .. n - 1 /\ old(m) = m
      BY <1>1, <2>1
    <3> QED
      BY <3>1
  <2>2. CASE m > k
    <3>1. m - 1 \in 1 .. n - 1 /\ old(m - 1) = m
      BY <1>1, <2>2
    <3> QED
      BY <3>1
  <2> QED
    BY <1>1, <2>1, <2>2
<1> HIDE DEF old
<1> QED
  BY <1>1, <1>4, <1>5, <1>6, <1>7, <1>8 DEF old

\* Taking element k out of a sequence loses no other.
LEMMA Removed ==
    ASSUME NEW s \in Seq(Int), NEW k \in DOMAIN s
    PROVE  /\ RemoveAt(s, k) \in Seq(Int)
           /\ \A j \in DOMAIN RemoveAt(s, k) : \E i \in DOMAIN s : RemoveAt(s, k)[j] = s[i]
           /\ \A i \in DOMAIN s \ {k} : \E j \in DOMAIN RemoveAt(s, k) : RemoveAt(s, k)[j] = s[i]
<1> DEFINE old(j) == IF j < k THEN j ELSE j + 1
           t == RemoveAt(s, k)
<1>1. /\ t \in Seq(Int)
      /\ \A j \in DOMAIN t : old(j) \in DOMAIN s \ {k} /\ t[j] = s[old(j)]
      /\ \A m \in DOMAIN s \ {k} : \E j \in DOMAIN t : old(j) = m
  BY RemovedAt
<1> HIDE DEF old, t
<1>2. t \in Seq(Int) /\ \A j \in DOMAIN t : \E i \in DOMAIN s : t[j] = s[i]
  BY <1>1
<1>3. \A i \in DOMAIN s \ {k} : \E j \in DOMAIN t : t[j] = s[i]
  BY <1>1
<1> QED
  BY <1>2, <1>3 DEF t

LEMMA Extended ==
    ASSUME NEW s \in Seq(Int), NEW x \in Int
    PROVE  /\ DOMAIN Append(s, x) = DOMAIN s \cup {Len(s) + 1}
           /\ Append(s, x)[Len(s) + 1] = x
           /\ \A j \in DOMAIN s : Append(s, x)[j] = s[j]
<1>1. DOMAIN s = 1 .. Len(s) /\ Len(s) \in Nat
  BY LenProperties
<1>2. /\ Append(s, x) \in Seq(Int) /\ Len(Append(s, x)) = Len(s) + 1
      /\ \A i \in 1 .. Len(s) : Append(s, x)[i] = s[i]
      /\ Append(s, x)[Len(s) + 1] = x
  BY AppendProperties
<1>3. DOMAIN Append(s, x) = 1 .. Len(s) + 1
  BY <1>2, LenProperties
<1>4. 1 .. Len(s) + 1 = (1 .. Len(s)) \cup {Len(s) + 1}
  BY <1>1
<1> QED
  BY <1>1, <1>2, <1>3, <1>4

LEMMA Appended ==
    ASSUME NEW s \in Seq(Int), NEW x \in Int
    PROVE  /\ Append(s, x) \in Seq(Int)
           /\ \E j \in DOMAIN Append(s, x) : Append(s, x)[j] = x
           /\ \A i \in DOMAIN s : \E j \in DOMAIN Append(s, x) : Append(s, x)[j] = s[i]
           /\ \A j \in DOMAIN Append(s, x) :
                    Append(s, x)[j] = x \/ \E i \in DOMAIN s : Append(s, x)[j] = s[i]
<1>1. DOMAIN s = 1 .. Len(s) /\ Len(s) \in Nat
  BY LenProperties
<1>2. /\ Append(s, x) \in Seq(Int) /\ Len(Append(s, x)) = Len(s) + 1
      /\ \A i \in 1 .. Len(s) : Append(s, x)[i] = s[i]
      /\ Append(s, x)[Len(s) + 1] = x
  BY AppendProperties
<1>3. DOMAIN Append(s, x) = 1 .. Len(s) + 1
  BY <1>2, LenProperties
<1>4. \A i \in 1 .. Len(s) + 1 : i = Len(s) + 1 \/ i \in 1 .. Len(s)
  BY <1>1
<1>5. Len(s) + 1 \in 1 .. Len(s) + 1 /\ \A i \in 1 .. Len(s) : i \in 1 .. Len(s) + 1
  BY <1>1
<1> QED
  BY <1>1, <1>2, <1>3, <1>4, <1>5

\* The workers in some order.
LEMMA WorkerOrder ==
    /\ SetToSeq(Workers) \in [1 .. Cardinality(Workers) -> Workers]
    /\ \A w \in Workers : \E i \in 1 .. Cardinality(Workers) : SetToSeq(Workers)[i] = w
    /\ \A i, j \in 1 .. Cardinality(Workers) : SetToSeq(Workers)[i] = SetToSeq(Workers)[j] => i = j
<1> DEFINE n == Cardinality(Workers)
           f == SetToSeq(Workers)
<1>1. IsFiniteSet(Workers)
  BY CasesAssumption
<1>2. n \in Nat /\ Bijection(1 .. n, Workers) # {}
  BY <1>1, FS_CardinalityType DEF ExistsBijection
<1>3. \E g \in [1 .. n -> Workers] : IsInjective(g)
  BY <1>2 DEF Bijection, Injection
<1>4. f \in [1 .. n -> Workers] /\ IsInjective(f)
  BY <1>3 DEF SetToSeq
<1>5. f \in Injection(1 .. n, Workers)
  BY <1>4 DEF Injection
<1>6. Cardinality(1 .. n) = n
  BY <1>2, FS_Interval
<1>7. f \in Surjection(1 .. n, Workers)
  BY <1>1, <1>5, <1>6, FS_Injection
<1>8. \A i, j \in 1 .. n : f[i] = f[j] => i = j
  BY <1>4 DEF IsInjective
<1> QED
  BY <1>4, <1>7, <1>8 DEF Surjection

-----------------------------------------------------------------------------
(* The steps of a call, and that they keep it well formed *)

LEMMA InitWellFormed == ASSUME Init PROVE WellFormed
<1>1. PICK c \in Cases : floating = c.floating /\ arr = c.elems /\ op = c.op /\ other = c.other
  BY DEF Init
<1>2. /\ floating \in BOOLEAN /\ op \in Ops
      /\ arr \in Seq(-Inf .. NaN) /\ other \in Seq(Int)
      /\ ~floating => arr \in Seq(-Inf .. Finite)
  BY <1>1, CasesAssumption
<1>3. Identity(op) \in Int
  <2>1. Lowest \in Int /\ Finite \in Int
    BY Bounds
  <2> HIDE DEF Finite, Lowest
  <2> QED
    BY <1>2, <2>1 DEF Identity, Ops
<1>4. TypeOK
  <2>1. chunked \in BOOLEAN
    BY DEF Init
  <2>2. chunk \in [Workers -> [lo : Nat, hi : Nat]] /\ acc \in [Workers -> Int]
    BY <1>3 DEF Init
  <2> QED
    BY <1>2, <1>3, <2>1, <2>2 DEF Init, TypeOK
<1>5. Fresh /\ Chunks
  BY DEF Init, Fresh, Chunks
<1> QED
  BY <1>4, <1>5 DEF WellFormed

\* A call returns at once, or goes on to fold something.
LEMMA CallDoes ==
    ASSUME WellFormed, Call
    PROVE  /\ WellFormed' /\ pc = "call"
           /\ UNCHANGED <<floating, arr, op, other, chunked, next, chunk, acc, parts, result>>
           /\ \/ pc' = "thrown"
              \/ /\ pc' = "returned" /\ Count < 1
                 /\ ret' = IF op = "mean" THEN NaN ELSE Identity(op)
                 /\ op = "dot" => Len(arr) = Len(other)
              \/ pc' = "run" /\ Count >= 1 /\ ret' = ret
<1>1. /\ pc = "call"
      /\ UNCHANGED <<floating, arr, op, other, chunked, next, chunk, acc, parts, result>>
  BY DEF Call
<1>2. TypeOK /\ Fresh /\ Count \in Int
  BY Sizes DEF WellFormed
<1>3. Count' = Count /\ Identity(op)' = Identity(op)
  BY <1>1, Fixed
<1>4. \/ pc' = "thrown"
      \/ /\ pc' = "returned" /\ Count < 1
         /\ ret' = IF op = "mean" THEN NaN ELSE Identity(op)
         /\ op = "dot" => Len(arr) = Len(other)
      \/ /\ pc' = "run" /\ Count >= 1 /\ ret' = ret
         /\ op = "dot" => Len(arr) = Len(other)
  BY <1>2 DEF Call
<1>5. TypeOK' /\ Fresh'
  BY <1>1, <1>2, <1>4 DEF TypeOK, Fresh
<1>6. Chunks'
  <2>1. next' = 0 /\ parts' = <<>> /\ \A w \in Workers : chunk'[w] = [lo |-> 0, hi |-> 0]
    BY <1>1, <1>2 DEF Fresh
  <2>2. \A w \in Workers : chunk'[w].lo = 0 /\ chunk'[w].hi = 0
    BY <2>1
  <2> QED
    BY <1>1, <1>2, <1>3, <1>4, <2>1, <2>2 DEF Chunks
<1> QED
  BY <1>1, <1>4, <1>5, <1>6 DEF WellFormed

\* Worker w has its chunk, of an hpx::reduce all but the first element, which it has
\* folded.
LEMMA TakeDoes ==
    ASSUME WellFormed, NEW w \in Workers, Take(w)
    PROVE  /\ WellFormed' /\ pc = "run" /\ Idle(w)
           /\ UNCHANGED <<floating, arr, op, other, chunked, result, pc, ret>>
           /\ \A v \in Workers \ {w} : chunk'[v] = chunk[v] /\ acc'[v] = acc[v]
           /\ next' \in next + 1 .. Count /\ next + 1 \in 1 .. Count /\ next' \in 1 .. Count
           /\ chunk'[w] = [lo |-> IF chunked THEN next + 1 ELSE next, hi |-> next']
           /\ acc'[w] = IF chunked THEN Terms[next + 1] ELSE acc[w]
           /\ parts' = IF chunked /\ next' = next + 1 THEN Append(parts, Terms[next + 1])
                       ELSE parts
<1>1. /\ pc = "run" /\ Idle(w) /\ next < Count
      /\ UNCHANGED <<floating, arr, op, other, chunked, result, pc, ret>>
  BY DEF Take
<1>2. TypeOK /\ Fresh /\ Chunks
  BY DEF WellFormed
<1>3. Count' = Count
  BY <1>1, Fixed
<1>4. Count \in Int /\ \A i \in 1 .. Count : Terms[i] = Term(i) /\ Term(i) \in Int
  BY <1>1, <1>2, TermInt DEF Chunks
<1>5. /\ next \in Nat /\ chunk \in [Workers -> [lo : Nat, hi : Nat]] /\ acc \in [Workers -> Int]
      /\ parts \in Seq(Int)
  BY <1>2 DEF TypeOK
<1>6. PICK hi \in next + 1 .. Count :
          /\ next' = hi
          /\ IF chunked
             THEN /\ acc' = [acc EXCEPT ![w] = Term(next + 1)]
                  /\ chunk' = [chunk EXCEPT ![w] = [lo |-> next + 1, hi |-> hi]]
                  /\ parts' = IF hi = next + 1 THEN Append(parts, Term(hi)) ELSE parts
             ELSE /\ chunk' = [chunk EXCEPT ![w] = [lo |-> next, hi |-> hi]]
                  /\ UNCHANGED <<acc, parts>>
  BY DEF Take
<1>7. /\ hi \in Nat /\ hi \in 1 .. Count /\ next + 1 \in Nat /\ next + 1 \in 1 .. Count
      /\ next + 1 <= hi
  BY <1>4, <1>5
<1> DEFINE first == IF chunked THEN next + 1 ELSE next
<1>8. /\ chunk' = [chunk EXCEPT ![w] = [lo |-> first, hi |-> hi]] /\ first \in Nat /\ first <= hi
      /\ chunk'[w] = [lo |-> first, hi |-> hi]
      /\ \A v \in Workers \ {w} : chunk'[v] = chunk[v] /\ acc'[v] = acc[v]
  BY <1>5, <1>6, <1>7
<1>9. acc' \in [Workers -> Int] /\ acc'[w] = IF chunked THEN Terms[next + 1] ELSE acc[w]
  BY <1>4, <1>5, <1>6, <1>7
<1>10. parts' = IF chunked /\ hi = next + 1 THEN Append(parts, Terms[next + 1]) ELSE parts
  BY <1>4, <1>6, <1>7
<1>11. parts' \in Seq(Int)
  BY <1>4, <1>5, <1>7, <1>10, Appended
<1>12. TypeOK'
  <2>1. chunk' \in [Workers -> [lo : Nat, hi : Nat]]
    BY <1>5, <1>7, <1>8
  <2> QED
    BY <1>1, <1>2, <1>6, <1>7, <1>9, <1>11, <2>1 DEF TypeOK
<1>13. Chunks'
  <2>1. \A v \in Workers : chunk[v].lo <= chunk[v].hi /\ chunk[v].hi <= next /\ chunk[v].hi \in Nat
    BY <1>1, <1>2, <1>5 DEF Chunks
  <2>2. ASSUME NEW v \in Workers PROVE chunk'[v].lo <= chunk'[v].hi /\ chunk'[v].hi <= hi
    <3>1. CASE v = w
      BY <1>7, <1>8, <3>1
    <3>2. CASE v # w
      <4>1. chunk'[v] = chunk[v]
        BY <1>8, <3>2
      <4> QED
        BY <1>5, <1>7, <2>1, <4>1
    <3> QED
      BY <3>1, <3>2
  <2>3. ~chunked => parts' = <<>>
    BY <1>1, <1>2, <1>6 DEF Chunks
  <2>4. Count >= 1 /\ (op = "dot" => Len(arr) = Len(other))
    BY <1>1, <1>2 DEF Chunks
  <2> QED
    BY <1>1, <1>3, <1>6, <1>7, <2>2, <2>3, <2>4 DEF Chunks
<1>14. WellFormed'
  BY <1>1, <1>12, <1>13 DEF WellFormed, Fresh
<1>15. next' \in next + 1 .. Count /\ next' \in 1 .. Count /\ next' = hi
  BY <1>6, <1>7
<1> QED
  BY <1>1, <1>7, <1>8, <1>9, <1>10, <1>14, <1>15

\* Worker w has folded one element of its chunk.
LEMMA StepDoes ==
    ASSUME WellFormed, NEW w \in Workers, Step(w)
    PROVE  /\ WellFormed' /\ pc = "run" /\ ~Idle(w)
           /\ UNCHANGED <<floating, arr, op, other, chunked, next, result, pc, ret>>
           /\ \A v \in Workers \ {w} : chunk'[v] = chunk[v] /\ acc'[v] = acc[v]
           /\ chunk[w].lo + 1 \in 1 .. Count /\ chunk[w].lo + 1 <= chunk[w].hi
           /\ chunk[w].hi <= next
           /\ chunk'[w] = [lo |-> chunk[w].lo + 1, hi |-> chunk[w].hi]
           /\ acc'[w] = Accumulate(op, acc[w], Terms[chunk[w].lo + 1])
           /\ parts' = IF chunked /\ chunk[w].lo + 1 = chunk[w].hi THEN Append(parts, acc'[w])
                       ELSE parts
<1>1. /\ pc = "run" /\ ~Idle(w)
      /\ UNCHANGED <<floating, arr, op, other, chunked, next, result, pc, ret>>
      /\ acc' = [acc EXCEPT ![w] = Accumulate(op, @, Term(chunk[w].lo + 1))]
      /\ chunk' = [chunk EXCEPT ![w].lo = @ + 1]
      /\ parts' = IF chunked /\ chunk[w].lo + 1 = chunk[w].hi THEN Append(parts, acc'[w]) ELSE parts
  BY DEF Step
<1>2. TypeOK /\ Fresh /\ Chunks /\ op \in Ops
  BY DEF WellFormed, TypeOK
<1>3. Count' = Count
  BY <1>1, Fixed
<1>4. Count \in Int /\ \A i \in 1 .. Count : Terms[i] = Term(i) /\ Term(i) \in Int
  BY <1>1, <1>2, TermInt DEF Chunks
<1>5. /\ next \in Nat /\ chunk \in [Workers -> [lo : Nat, hi : Nat]] /\ acc \in [Workers -> Int]
      /\ parts \in Seq(Int)
  BY <1>2 DEF TypeOK
<1>6. /\ next <= Count /\ (~chunked => parts = <<>>)
      /\ Count >= 1 /\ (op = "dot" => Len(arr) = Len(other))
      /\ \A v \in Workers : chunk[v].lo <= chunk[v].hi /\ chunk[v].hi <= next
  BY <1>1, <1>2 DEF Chunks
<1> DEFINE k  == chunk[w].lo + 1
           hi == chunk[w].hi
<1>7. k \in 1 .. Count /\ k <= hi /\ hi \in Nat /\ k \in Nat /\ hi <= next
  BY <1>1, <1>4, <1>5, <1>6 DEF Idle
<1>8. /\ chunk'[w] = [lo |-> k, hi |-> hi] /\ chunk' \in [Workers -> [lo : Nat, hi : Nat]]
      /\ \A v \in Workers \ {w} : chunk'[v] = chunk[v] /\ acc'[v] = acc[v]
  BY <1>1, <1>5, <1>7
<1>9. acc'[w] = Accumulate(op, acc[w], Terms[k]) /\ acc'[w] \in Int /\ acc' \in [Workers -> Int]
  <2>1. acc'[w] = Accumulate(op, acc[w], Terms[k])
    BY <1>1, <1>4, <1>5, <1>7
  <2>2. acc'[w] \in Int
    BY <1>2, <1>4, <1>5, <1>7, <2>1, MergeInt DEF Accumulate
  <2> QED
    BY <1>1, <1>5, <2>1, <2>2
<1>10. parts' = parts \/ (chunked /\ parts' = Append(parts, acc'[w]))
  BY <1>1
<1>11. TypeOK'
  <2>1. parts' \in Seq(Int)
    BY <1>5, <1>9, <1>10, Appended
  <2> QED
    BY <1>1, <1>2, <1>8, <1>9, <2>1 DEF TypeOK
<1>12. Chunks'
  <2>1. ASSUME NEW v \in Workers PROVE chunk'[v].lo <= chunk'[v].hi /\ chunk'[v].hi <= next
    <3>1. CASE v = w
      BY <1>7, <1>8, <3>1
    <3>2. CASE v # w
      BY <1>6, <1>8, <3>2
    <3> QED
      BY <3>1, <3>2
  <2>2. ~chunked => parts' = <<>>
    BY <1>6, <1>10
  <2> QED
    BY <1>1, <1>3, <1>6, <2>1, <2>2 DEF Chunks
<1>13. WellFormed'
  BY <1>1, <1>11, <1>12 DEF WellFormed, Fresh
<1> QED
  BY <1>1, <1>7, <1>8, <1>9, <1>13

\* All elements are handed out and folded. What is to be merged are the chunks'
\* results, or every worker's copy once.
LEMMA JoinDoes ==
    ASSUME WellFormed, Join
    PROVE  /\ WellFormed' /\ pc = "run" /\ pc' = "join" /\ next = Count /\ \A w \in Workers : Idle(w)
           /\ UNCHANGED <<floating, arr, op, other, chunked, next, chunk, acc, result, ret>>
           /\ chunked => parts' = parts
           /\ ~chunked =>
                \E order \in [DOMAIN parts' -> Workers] :
                    /\ \A w \in Workers : \E i \in DOMAIN parts' : order[i] = w
                    /\ \A i, j \in DOMAIN parts' : order[i] = order[j] => i = j
                    /\ \A i \in DOMAIN parts' : parts'[i] = acc[order[i]]
<1>1. /\ pc = "run" /\ next = Count /\ (\A w \in Workers : Idle(w))
      /\ parts' = Partials /\ pc' = "join"
      /\ UNCHANGED <<floating, arr, op, other, chunked, next, chunk, acc, result, ret>>
  BY DEF Join
<1>2. TypeOK /\ Fresh /\ Chunks
  BY DEF WellFormed
<1>3. Count' = Count
  BY <1>1, Fixed
<1>4. acc \in [Workers -> Int] /\ parts \in Seq(Int)
  BY <1>2 DEF TypeOK
<1> DEFINE n == Cardinality(Workers)
           order == SetToSeq(Workers)
<1>5. /\ order \in [1 .. n -> Workers]
      /\ \A w \in Workers : \E i \in 1 .. n : order[i] = w
      /\ \A i, j \in 1 .. n : order[i] = order[j] => i = j
      /\ n \in Nat
  BY WorkerOrder, CasesAssumption, FS_CardinalityType
<1>6. ~chunked => /\ parts' = [i \in 1 .. n |-> acc[order[i]]]
                  /\ DOMAIN parts' = 1 .. n /\ \A i \in 1 .. n : parts'[i] = acc[order[i]]
  <2>1. DOMAIN order = 1 .. n
    BY <1>5
  <2> QED
    BY <1>1, <2>1 DEF Partials
<1>7. chunked => parts' = parts
  BY <1>1 DEF Partials
<1> HIDE DEF n, order
<1>8. parts' \in Seq(Int)
  <2>1. CASE chunked
    BY <1>4, <1>7, <2>1
  <2>2. CASE ~chunked
    <3>1. \A i \in 1 .. n : acc[order[i]] \in Int
      BY <1>4, <1>5
    <3>2. parts' \in [1 .. n -> Int]
      BY <1>6, <2>2, <3>1
    <3> QED
      BY <1>5, <3>2, SeqDef
  <2> QED
    BY <2>1, <2>2
<1>9. WellFormed'
  BY <1>1, <1>2, <1>3, <1>8 DEF WellFormed, TypeOK, Fresh, Chunks
<1>10. ASSUME ~chunked
       PROVE  \E ord \in [DOMAIN parts' -> Workers] :
                    /\ \A w \in Workers : \E i \in DOMAIN parts' : ord[i] = w
                    /\ \A i, j \in DOMAIN parts' : ord[i] = ord[j] => i = j
                    /\ \A i \in DOMAIN parts' : parts'[i] = acc[ord[i]]
  BY <1>5, <1>6, <1>10
<1> QED
  BY <1>1, <1>7, <1>9, <1>10

LEMMA MergeOneDoes ==
    ASSUME WellFormed, MergeOne
    PROVE  /\ WellFormed' /\ pc = "join"
           /\ UNCHANGED <<floating, arr, op, other, chunked, next, chunk, acc, pc, ret>>
           /\ \E k \in DOMAIN parts : result' = Merge(op, result, parts[k]) /\ parts' = RemoveAt(parts, k)
<1>1. /\ pc = "join"
      /\ UNCHANGED <<floating, arr, op, other, chunked, next, chunk, acc, pc, ret>>
  BY DEF MergeOne
<1>2. PICK k \in DOMAIN parts : result' = Merge(op, result, parts[k]) /\ parts' = RemoveAt(parts, k)
  BY DEF MergeOne
<1>3. TypeOK /\ Chunks
  BY DEF WellFormed
<1>4. Count' = Count
  BY <1>1, Fixed
<1>5. parts \in Seq(Int) /\ result \in Int /\ parts[k] \in Int /\ op \in Ops
  BY <1>3, ElementOfSeq, LenProperties DEF TypeOK
<1>6. result' \in Int /\ parts' \in Seq(Int)
  BY <1>2, <1>5, MergeInt, Removed
<1>7. TypeOK' /\ Fresh' /\ Chunks'
  BY <1>1, <1>3, <1>4, <1>6 DEF TypeOK, Fresh, Chunks
<1> QED
  BY <1>1, <1>2, <1>7 DEF WellFormed

LEMMA ReturnDoes ==
    ASSUME WellFormed, Return
    PROVE  /\ WellFormed' /\ pc = "join" /\ parts = <<>> /\ pc' = "returned" /\ Count >= 1
           /\ UNCHANGED <<floating, arr, op, other, chunked, next, chunk, acc, parts, result>>
           /\ op = "dot" => Len(arr) = Len(other)
           /\ floating \/ op \in {"any", "all", "count_nonzero", "is_sorted"} => ret' = result
           /\ op # "prod" \/ ~(AsDouble(result) > Finite) => ret' \in {result, AsDouble(result)}
           /\ ~(floating \/ op \in {"any", "all", "count_nonzero", "is_sorted"})
                 /\ (op # "prod" \/ ~(AsDouble(result) > Finite)) => ret' = AsDouble(result)
<1>1. /\ pc = "join" /\ parts = <<>> /\ pc' = "returned"
      /\ UNCHANGED <<floating, arr, op, other, chunked, next, chunk, acc, parts, result>>
  BY DEF Return
<1>2. TypeOK /\ Chunks
  BY DEF WellFormed
<1>3. WellFormed'
  BY <1>1, <1>2 DEF WellFormed, TypeOK, Fresh, Chunks
<1> HIDE DEF AsDouble, Finite
<1> QED
  BY <1>1, <1>2, <1>3 DEF Return, Chunks

LEMMA NextWellFormed == ASSUME WellFormed, [Next]_vars PROVE WellFormed'
<1>1. CASE UNCHANGED vars
  <2>1. UNCHANGED <<floating, arr, op, other, chunked, next, chunk, acc, parts, result, pc, ret>>
    BY <1>1 DEF vars
  <2>2. Count' = Count /\ Identity(op)' = Identity(op)
    BY <2>1, Fixed
  <2> QED
    BY <2>1, <2>2 DEF WellFormed, TypeOK, Fresh, Chunks
<1>2. CASE Next
  BY <1>2, CallDoes, TakeDoes, StepDoes, JoinDoes, MergeOneDoes, ReturnDoes DEF Next
<1> QED
  BY <1>1, <1>2

\* A call keeps to its types, hands out no element twice and folds only what the
\* workers were handed, whatever it reduces.
THEOREM TypeCorrect == Spec => []WellFormed
BY InitWellFormed, NextWellFormed, PTL DEF Spec

-----------------------------------------------------------------------------
(* Selections: no term is lost *)

Selections == {"min", "max", "any", "all", "is_sorted"}

\* The calls the theorem is about: reductions that select, of an Array with an
\* element that the identity does not exceed, and of integers that a double
\* holds when one is returned.
Selecting(float, elems, o) ==
    /\ o \in Selections
    /\ o = "min" /\ float /\ elems # <<>> => \E i \in DOMAIN elems : elems[i] <= Finite \/ elems[i] = NaN
    /\ o = "max" /\ float /\ elems # <<>> => \E i \in DOMAIN elems : elems[i] >= -Finite
    /\ o \in {"min", "max"} /\ ~float => \A i \in DOMAIN elems : AsDouble(elems[i]) = elems[i]

Numbers == Int \ {NaN}

\* x answers for y in reduction o: a fold that has seen x need not see y.
Below(o, x, y) == IF o \in {"max", "any"} THEN y <= x ELSE x <= y

Sources == {Identity(op)} \cup {Terms[i] : i \in 1 .. Count}

\* Nothing is folded that is no term of the call.
Honest ==
    pc \in {"run", "join"} =>
        /\ result \in Sources
        /\ \A i \in DOMAIN parts : parts[i] \in Sources
        /\ \A w \in Workers : acc[w] \in Sources

\* A worker with chunk c and accumulator x, which counts if it is to be merged or
\* to go on, has yet to fold term t, the i-th, or has folded what answers for it.
HasTerm(o, c, counts, x, i, t) == (c.lo < i /\ i <= c.hi) \/ (counts /\ Below(o, x, t))

\* A result, or the variable they are merged into, answers for term t.
Merged(o, results, r, t) == Below(o, r, t) \/ \E j \in DOMAIN results : Below(o, results[j], t)

\* No term is lost: it is to be handed out, some worker has it, or a result
\* answers for it.
Covered ==
    /\ pc = "run" =>
        \A i \in 1 .. Count :
            \/ i > next \/ Merged(op, parts, result, Terms[i])
            \/ \E w \in Workers : HasTerm(op, chunk[w], chunked => ~Idle(w), acc[w], i, Terms[i])
    /\ pc = "join" => \A i \in 1 .. Count : Merged(op, parts, result, Terms[i])

Selected == Selecting(floating, arr, op)

SelectionInv ==
    Selected =>
        /\ ~Unordered => Honest /\ Covered
        /\ ReturnsNumPy

LEMMA IdentityNumber == ASSUME op \in Selections PROVE Identity(op) \in Numbers
<1> HIDE DEF Finite
<1> QED
  BY Bounds DEF Identity, Selections, Numbers, Lowest, NaN

LEMMA MergeOneOf == ASSUME NEW o \in Selections, NEW x, NEW y PROVE Merge(o, x, y) \in {x, y}
<1>1. o \in {"min", "all", "is_sorted"} => Merge(o, x, y) = IF Less(x, y) THEN x ELSE y
  BY DEF Merge
<1>2. o \in {"max", "any"} => Merge(o, x, y) = IF Less(y, x) THEN x ELSE y
  BY DEF Merge
<1> QED
  BY <1>1, <1>2 DEF Selections

\* The merge of two accumulators is one of them, and answers for both.
LEMMA MergeSelects ==
    ASSUME NEW o \in Selections, NEW x \in Numbers, NEW y \in Numbers
    PROVE  /\ Merge(o, x, y) \in {x, y}
           /\ Below(o, Merge(o, x, y), x) /\ Below(o, Merge(o, x, y), y)
<1>1. x \in Int /\ y \in Int /\ Less(x, y) = (x < y) /\ Less(y, x) = (y < x)
  BY DEF Numbers, Less
<1>2. CASE o \in {"min", "all", "is_sorted"}
  <2>1. Merge(o, x, y) = IF x < y THEN x ELSE y
    BY <1>1, <1>2 DEF Merge
  <2> QED
    BY <1>1, <1>2, <2>1 DEF Below
<1>3. CASE o \in {"max", "any"}
  <2>1. Merge(o, x, y) = IF y < x THEN x ELSE y
    BY <1>1, <1>3 DEF Merge
  <2> QED
    BY <1>1, <1>3, <2>1 DEF Below
<1> QED
  BY <1>2, <1>3 DEF Selections

LEMMA BelowTransitive ==
    ASSUME NEW o, NEW x \in Int, NEW y \in Int, NEW z \in Int, Below(o, x, y), Below(o, y, z)
    PROVE  Below(o, x, z)
BY DEF Below

LEMMA BelowReflexive == ASSUME NEW o, NEW x \in Int PROVE Below(o, x, x)
BY DEF Below

\* What a call with an answer folds are numbers.
LEMMA TermNumber ==
    ASSUME TypeOK, Selected, ~Unordered
    PROVE  /\ Count \in Int
           /\ \A i \in 1 .. Count : Terms[i] = Term(i) /\ Terms[i] \in Numbers
           /\ op \in {"any", "all", "is_sorted"} =>
                    \A i \in 1 .. Count : Terms[i] \in {0, 1}
<1>1. arr \in Seq(Int) /\ op \in Selections /\ Len(arr) \in Nat
  <2>1. -Inf .. NaN \subseteq Int
    BY Bounds
  <2> QED
    BY <2>1, SeqMonotonic, LenProperties DEF TypeOK, Selected, Selecting
<1>2. Count \in Int /\ Count <= Len(arr) /\ (op = "is_sorted" => Count = Len(arr) - 1)
  BY <1>1 DEF Count
<1>3. 0 \in Numbers /\ 1 \in Numbers
  BY Bounds DEF Numbers
<1> SUFFICES ASSUME NEW i \in 1 .. Count
             PROVE  /\ Term(i) \in Numbers
                    /\ op \in {"any", "all", "is_sorted"} => Term(i) \in {0, 1}
  BY <1>2 DEF Terms
<1>4. CASE op \in {"any", "all", "is_sorted"}
  <2>1. Term(i) \in {0, 1}
    BY <1>4 DEF Term
  <2> QED
    BY <1>3, <2>1
<1>5. CASE op \in {"min", "max"}
  <2>1. Term(i) = arr[i] /\ NaN \notin ToSet(arr)
    BY <1>5 DEF Term, Unordered
  <2>2. i \in 1 .. Len(arr)
    BY <1>1, <1>2
  <2>3. arr[i] \in Int /\ arr[i] \in ToSet(arr)
    BY <1>1, <2>2, ElementOfSeq, LenProperties DEF ToSet
  <2> QED
    BY <1>5, <2>1, <2>3 DEF Numbers
<1> QED
  BY <1>1, <1>4, <1>5 DEF Selections

LEMMA SourcesNumbers == ASSUME TypeOK, Selected, ~Unordered PROVE Sources \subseteq Numbers
BY IdentityNumber, TermNumber DEF Sources, Selected, Selecting

\* NumPyResult of the reductions that select.
Pick(o, s) ==
    CASE o = "min" -> Min(ToSet(s))
      [] o = "max" -> Max(ToSet(s))
      [] o = "any" -> IF \E i \in DOMAIN s : s[i] # 0 THEN 1 ELSE 0
      [] o = "all" -> IF \A i \in DOMAIN s : s[i] # 0 THEN 1 ELSE 0
      [] o = "is_sorted" -> IF \A i \in 1 .. Len(s) - 1 : s[i] <= s[i + 1] THEN 1 ELSE 0

LEMMA NumPyPicks == op \in Selections => NumPyResult = Pick(op, arr)
<1>1. op = "min" => NumPyResult = Pick(op, arr)
  BY DEF NumPyResult, Pick
<1>2. op = "max" => NumPyResult = Pick(op, arr)
  BY DEF NumPyResult, Pick
<1>3. op = "any" => NumPyResult = Pick(op, arr)
  BY DEF NumPyResult, Pick
<1>4. op = "all" => NumPyResult = Pick(op, arr)
  BY DEF NumPyResult, Pick
<1>5. op = "is_sorted" => NumPyResult = Pick(op, arr)
  BY DEF NumPyResult, Pick
<1> QED
  BY <1>1, <1>2, <1>3, <1>4, <1>5 DEF Selections

LEMMA FixedSelection ==
    ASSUME UNCHANGED <<floating, arr, op, other, chunked>>
    PROVE  /\ Count' = Count /\ Terms' = Terms /\ Sources' = Sources /\ Identity(op)' = Identity(op)
           /\ Selected' = Selected /\ Unordered' = Unordered /\ Undefined' = Undefined
           /\ Selected => NumPyResult' = NumPyResult
<1>1. Count' = Count /\ Terms' = Terms /\ Identity(op)' = Identity(op) /\ Undefined' = Undefined
  BY Fixed
<1>2. Sources' = Sources
  BY <1>1 DEF Sources
<1>3. Selected' = Selected /\ Unordered' = Unordered
  BY DEF Selected, Unordered
<1>4. ASSUME Selected PROVE NumPyResult' = NumPyResult
  <2>1. op \in Selections
    BY <1>4 DEF Selected, Selecting
  <2>2. (op \in Selections => NumPyResult = Pick(op, arr))'
    BY NumPyPicks, PTL
  <2> QED
    BY <2>1, <2>2, NumPyPicks
<1> QED
  BY <1>1, <1>2, <1>3, <1>4

\* A result more answers for what it did, and for what the new one answers for.
LEMMA MergedAppended ==
    ASSUME NEW o, NEW s \in Seq(Int), NEW x \in Int, NEW r \in Int, NEW t
    PROVE  /\ Merged(o, s, r, t) => Merged(o, Append(s, x), r, t)
           /\ Below(o, x, t) => Merged(o, Append(s, x), r, t)
<1>1. /\ \E j \in DOMAIN Append(s, x) : Append(s, x)[j] = x
      /\ \A i \in DOMAIN s : \E j \in DOMAIN Append(s, x) : Append(s, x)[j] = s[i]
  BY Appended
<1>2. ASSUME Merged(o, s, r, t) PROVE Merged(o, Append(s, x), r, t)
  <2>1. CASE Below(o, r, t)
    BY <2>1 DEF Merged
  <2>2. CASE \E i \in DOMAIN s : Below(o, s[i], t)
    <3>1. PICK i \in DOMAIN s : Below(o, s[i], t)
      BY <2>2
    <3>2. PICK j \in DOMAIN Append(s, x) : Append(s, x)[j] = s[i]
      BY <1>1
    <3>3. Below(o, Append(s, x)[j], t)
      BY <3>1, <3>2
    <3> QED
      BY <3>3 DEF Merged
  <2> QED
    BY <1>2, <2>1, <2>2 DEF Merged
<1>3. ASSUME Below(o, x, t) PROVE Merged(o, Append(s, x), r, t)
  <2>1. PICK j \in DOMAIN Append(s, x) : Append(s, x)[j] = x
    BY <1>1
  <2>2. Below(o, Append(s, x)[j], t)
    BY <1>3, <2>1
  <2> QED
    BY <2>2 DEF Merged
<1> QED
  BY <1>2, <1>3

LEMMA CallSelects == ASSUME WellFormed, SelectionInv, Selected, Call PROVE SelectionInv'
<1>1. /\ WellFormed' /\ pc = "call" /\ op \in Selections
      /\ UNCHANGED <<floating, arr, op, other, chunked, next, chunk, acc, parts, result>>
      /\ \/ pc' = "thrown"
         \/ pc' = "returned" /\ Count < 1 /\ ret' = Identity(op)
         \/ pc' = "run" /\ Count >= 1 /\ ret' = ret
  BY CallDoes DEF Selected, Selecting, Selections
<1>2. /\ Count' = Count /\ Terms' = Terms /\ Sources' = Sources /\ Identity(op)' = Identity(op)
      /\ Unordered' = Unordered /\ Undefined' = Undefined /\ NumPyResult' = NumPyResult
  BY <1>1, FixedSelection
<1>3. TypeOK /\ Fresh
  BY DEF WellFormed
<1>4. /\ Len(arr) \in Nat /\ DOMAIN arr = 1 .. Len(arr) /\ Count \in Int
      /\ Count = IF op = "is_sorted" THEN Len(arr) - 1 ELSE Len(arr)
  BY <1>3, Sizes
<1>5. CASE pc' = "thrown"
  BY <1>5 DEF SelectionInv, Honest, Covered, ReturnsNumPy
<1>6. CASE pc' = "returned"
  <2>1. Count < 1 /\ ret' = Identity(op)
    BY <1>1, <1>6
  <2>2. ASSUME op \in {"any", "all", "is_sorted"} PROVE Identity(op) = NumPyResult
    <3>1. NumPyResult = Pick(op, arr) /\ op \in Selections
      BY <1>1, NumPyPicks
    <3>2. op # "is_sorted" => DOMAIN arr = {}
      BY <1>4, <2>1
    <3>3. op = "is_sorted" => 1 .. Len(arr) - 1 = {}
      BY <1>4, <2>1
    <3> QED
      BY <2>2, <3>1, <3>2, <3>3 DEF Pick, Identity
  <2>3. ASSUME op \in {"min", "max"} PROVE Undefined
    <3>1. Len(arr) = 0 /\ op # "dot"
      <4> DEFINE n == Len(arr)
      <4>1. n \in Nat /\ Count = n
        BY <1>4, <2>3
      <4> HIDE DEF n
      <4>2. n = 0
        BY <2>1, <4>1
      <4> QED
        BY <2>3, <4>2 DEF n
    <3>2. arr = <<>>
      BY <1>3, <3>1, Sizes, EmptySeq
    <3> QED
      BY <2>3, <3>1, <3>2 DEF Undefined
  <2>4. ReturnsNumPy'
    BY <1>1, <1>2, <2>1, <2>2, <2>3 DEF ReturnsNumPy, Selections
  <2> QED
    BY <1>6, <2>4 DEF SelectionInv, Honest, Covered
<1>7. CASE pc' = "run"
  <2>1. Honest'
    BY <1>1, <1>2, <1>3 DEF Fresh, Honest, Sources
  <2>2. Covered'
    <3>1. \A i \in 1 .. Count : i > next
      BY <1>1, <1>3, <1>4 DEF Fresh
    <3> QED
      BY <1>1, <1>2, <1>7, <3>1 DEF Covered
  <2> QED
    BY <1>7, <2>1, <2>2 DEF SelectionInv, ReturnsNumPy
<1> QED
  BY <1>1, <1>5, <1>6, <1>7

\* A worker that is given a chunk has its terms.
LEMMA TakeSelects ==
    ASSUME WellFormed, SelectionInv, Selected, NEW w \in Workers, Take(w)
    PROVE  SelectionInv'
<1>1. /\ WellFormed' /\ pc = "run" /\ Idle(w)
      /\ UNCHANGED <<floating, arr, op, other, chunked, result, pc, ret>>
      /\ \A v \in Workers \ {w} : chunk'[v] = chunk[v] /\ acc'[v] = acc[v]
      /\ next' \in next + 1 .. Count /\ next + 1 \in 1 .. Count /\ next' \in 1 .. Count
      /\ chunk'[w] = [lo |-> IF chunked THEN next + 1 ELSE next, hi |-> next']
      /\ acc'[w] = IF chunked THEN Terms[next + 1] ELSE acc[w]
      /\ parts' = IF chunked /\ next' = next + 1 THEN Append(parts, Terms[next + 1]) ELSE parts
  BY TakeDoes
<1>2. TypeOK /\ op \in Selections
  BY DEF WellFormed, Selected, Selecting
<1>3. Count' = Count /\ Terms' = Terms /\ Sources' = Sources /\ Unordered' = Unordered
  BY <1>1, FixedSelection
<1>4. Count \in Int /\ \A i \in 1 .. Count : Terms[i] \in Int
  BY <1>2, TermInt DEF Selections
<1>5. /\ next \in Nat /\ chunk \in [Workers -> [lo : Nat, hi : Nat]] /\ next' \in Nat
      /\ parts \in Seq(Int) /\ result \in Int /\ chunked \in BOOLEAN
  BY <1>1, <1>2 DEF WellFormed, TypeOK
<1> DEFINE first == IF chunked THEN next + 1 ELSE next
           t == Terms[next + 1]
<1>6. chunk'[w] = [lo |-> first, hi |-> next'] /\ t \in Int
  BY <1>1, <1>4
<1>7. parts' = parts \/ (chunked /\ next' = next + 1 /\ parts' = Append(parts, t))
  BY <1>1
<1>8. ASSUME ~Unordered PROVE Honest'
  <2>1. /\ result \in Sources /\ \A i \in DOMAIN parts : parts[i] \in Sources
        /\ \A v \in Workers : acc[v] \in Sources
    BY <1>1, <1>8 DEF SelectionInv, Honest
  <2>2. t \in Sources
    BY <1>1 DEF Sources
  <2>3. \A v \in Workers : acc'[v] \in Sources
    BY <1>1, <2>1, <2>2
  <2>4. \A i \in DOMAIN parts' : parts'[i] \in Sources
    <3>1. CASE parts' = parts
      BY <2>1, <3>1
    <3>2. CASE parts' = Append(parts, t)
      <4>1. \A j \in DOMAIN parts' : parts'[j] = t \/ \E i \in DOMAIN parts : parts'[j] = parts[i]
        <5> HIDE DEF t
        <5> QED
          BY <1>5, <1>6, <3>2, Appended
      <4> QED
        BY <2>1, <2>2, <4>1
    <3> QED
      BY <1>7, <3>1, <3>2
  <2> QED
    BY <1>1, <1>3, <2>1, <2>3, <2>4 DEF Honest
<1>9. ASSUME ~Unordered PROVE Covered'
  <2> SUFFICES ASSUME NEW i \in 1 .. Count
               PROVE  \/ i > next' \/ Merged(op, parts', result, Terms[i])
                      \/ \E v \in Workers :
                            HasTerm(op, chunk'[v], chunked => ~Idle(v)', acc'[v], i, Terms[i])
    BY <1>1, <1>3 DEF Covered
  <2>1. Merged(op, parts, result, Terms[i]) => Merged(op, parts', result, Terms[i])
    <3> HIDE DEF t
    <3> QED
      BY <1>5, <1>6, <1>7, MergedAppended
  <2>2. CASE i > next
    <3>1. CASE i > next'
      BY <3>1
    <3>2. CASE first < i /\ i <= next'
      <4>1. HasTerm(op, chunk'[w], chunked => ~Idle(w)', acc'[w], i, Terms[i])
        BY <1>6, <3>2 DEF HasTerm
      <4> QED
        BY <4>1
    <3>3. CASE chunked /\ i = next + 1 /\ next' = next + 1
      <4>1. parts' = Append(parts, t) /\ Terms[i] = t
        BY <1>1, <3>3
      <4>2. Below(op, t, Terms[i])
        BY <1>6, <4>1, BelowReflexive
      <4> HIDE DEF t
      <4> QED
        BY <1>5, <1>6, <4>1, <4>2, MergedAppended
    <3>4. CASE chunked /\ i = next + 1 /\ next' # next + 1
      <4>1. ~Idle(w)'
        BY <1>6, <3>4 DEF Idle, first
      <4>2. Below(op, acc'[w], Terms[i])
        BY <1>1, <1>6, <3>4, BelowReflexive
      <4> QED
        BY <4>1, <4>2 DEF HasTerm
    <3> QED
      BY <1>1, <1>4, <1>5, <2>2, <3>1, <3>2, <3>3, <3>4 DEF first
  <2>3. CASE \E v \in Workers : HasTerm(op, chunk[v], chunked => ~Idle(v), acc[v], i, Terms[i])
    <3>1. PICK v \in Workers : HasTerm(op, chunk[v], chunked => ~Idle(v), acc[v], i, Terms[i])
      BY <2>3
    <3>2. CASE v = w
      <4>1. ~(chunk[w].lo < i /\ i <= chunk[w].hi)
        BY <1>1, <1>5 DEF Idle
      <4>2. ~chunked /\ Below(op, acc'[w], Terms[i])
        BY <1>1, <3>1, <3>2, <4>1 DEF HasTerm
      <4> QED
        BY <4>2 DEF HasTerm
    <3>3. CASE v # w
      <4>1. chunk'[v] = chunk[v] /\ acc'[v] = acc[v] /\ Idle(v)' = Idle(v)
        BY <1>1, <3>3 DEF Idle
      <4> QED
        BY <3>1, <4>1 DEF HasTerm
    <3> QED
      BY <3>2, <3>3
  <2> QED
    BY <1>1, <1>9, <2>1, <2>2, <2>3 DEF SelectionInv, Covered
<1> QED
  BY <1>1, <1>3, <1>8, <1>9 DEF SelectionInv, ReturnsNumPy

\* A worker's accumulator goes on to answer for what it did, and for the next term.
LEMMA StepSelects ==
    ASSUME WellFormed, SelectionInv, Selected, NEW w \in Workers, Step(w)
    PROVE  SelectionInv'
<1> DEFINE k  == chunk[w].lo + 1
           hi == chunk[w].hi
<1>1. /\ WellFormed' /\ pc = "run" /\ ~Idle(w)
      /\ UNCHANGED <<floating, arr, op, other, chunked, next, result, pc, ret>>
      /\ \A v \in Workers \ {w} : chunk'[v] = chunk[v] /\ acc'[v] = acc[v]
      /\ k \in 1 .. Count /\ k <= hi /\ hi <= next
      /\ chunk'[w] = [lo |-> k, hi |-> hi]
      /\ acc'[w] = Accumulate(op, acc[w], Terms[k])
      /\ parts' = IF chunked /\ k = hi THEN Append(parts, acc'[w]) ELSE parts
  BY StepDoes
<1>2. TypeOK /\ op \in Selections
  BY DEF WellFormed, Selected, Selecting
<1>3. Count' = Count /\ Terms' = Terms /\ Sources' = Sources /\ Unordered' = Unordered
  BY <1>1, FixedSelection
<1>4. Count \in Int /\ \A i \in 1 .. Count : Terms[i] \in Int
  BY <1>2, TermInt DEF Selections
<1>5. /\ next \in Nat /\ chunk \in [Workers -> [lo : Nat, hi : Nat]] /\ acc \in [Workers -> Int]
      /\ parts \in Seq(Int) /\ result \in Int /\ chunked \in BOOLEAN /\ acc'[w] \in Int
  BY <1>1, <1>2 DEF WellFormed, TypeOK
<1>6. acc'[w] \in {acc[w], Terms[k]}
  BY <1>1, <1>2, MergeOneOf DEF Accumulate
<1>7. parts' = parts \/ (chunked /\ k = hi /\ parts' = Append(parts, acc'[w]))
  BY <1>1
<1>8. \A i \in 1 .. Count : chunk[w].lo < i => k < i \/ i = k
  BY <1>4, <1>5
<1> HIDE DEF k
<1>9. ASSUME ~Unordered PROVE Honest'
  <2>1. /\ result \in Sources /\ \A i \in DOMAIN parts : parts[i] \in Sources
        /\ \A v \in Workers : acc[v] \in Sources
    BY <1>1, <1>9 DEF SelectionInv, Honest
  <2>2. Terms[k] \in Sources
    BY <1>1 DEF Sources
  <2>3. \A v \in Workers : acc'[v] \in Sources
    BY <1>1, <1>6, <2>1, <2>2
  <2>4. \A i \in DOMAIN parts' : parts'[i] \in Sources
    <3>1. CASE parts' = parts
      BY <2>1, <3>1
    <3>2. CASE parts' = Append(parts, acc'[w])
      <4>1. \A j \in DOMAIN parts' : parts'[j] = acc'[w] \/ \E i \in DOMAIN parts : parts'[j] = parts[i]
        BY <1>5, <3>2, Appended
      <4> QED
        BY <2>1, <2>3, <4>1
    <3> QED
      BY <1>7, <3>1, <3>2
  <2> QED
    BY <1>1, <1>3, <2>1, <2>3, <2>4 DEF Honest
<1>10. ASSUME ~Unordered PROVE Covered'
  <2> SUFFICES ASSUME NEW i \in 1 .. Count
               PROVE  \/ i > next \/ Merged(op, parts', result, Terms[i])
                      \/ \E v \in Workers :
                            HasTerm(op, chunk'[v], chunked => ~Idle(v)', acc'[v], i, Terms[i])
    BY <1>1, <1>3 DEF Covered
  <2>1. Merged(op, parts, result, Terms[i]) => Merged(op, parts', result, Terms[i])
    <3>1. CASE parts' = parts
      BY <3>1
    <3>2. CASE parts' = Append(parts, acc'[w])
      BY <1>5, <3>2, MergedAppended
    <3> QED
      BY <1>7, <3>1, <3>2
  <2>2. Below(op, acc'[w], acc[w]) /\ Below(op, acc'[w], Terms[k])
    <3>1. acc[w] \in Numbers /\ Terms[k] \in Numbers
      <4>1. acc[w] \in Sources /\ Terms[k] \in Sources
        BY <1>1, <1>10 DEF SelectionInv, Honest, Sources
      <4> QED
        BY <1>2, <1>10, <4>1, SourcesNumbers
    <3> QED
      BY <1>1, <1>2, <3>1, MergeSelects DEF Accumulate
  <2>3. ASSUME Below(op, acc'[w], Terms[i])
        PROVE  \/ Merged(op, parts', result, Terms[i])
               \/ HasTerm(op, chunk'[w], chunked => ~Idle(w)', acc'[w], i, Terms[i])
    <3>1. CASE chunked /\ k = hi
      <4>1. parts' = Append(parts, acc'[w])
        BY <1>1, <3>1
      <4> QED
        BY <1>5, <2>3, <4>1, MergedAppended
    <3>2. CASE ~(chunked /\ k = hi)
      <4>1. chunked => ~Idle(w)'
        BY <1>1, <3>2 DEF Idle
      <4> QED
        BY <2>3, <4>1 DEF HasTerm
    <3> QED
      BY <3>1, <3>2
  <2>4. CASE \E v \in Workers : HasTerm(op, chunk[v], chunked => ~Idle(v), acc[v], i, Terms[i])
    <3>1. PICK v \in Workers : HasTerm(op, chunk[v], chunked => ~Idle(v), acc[v], i, Terms[i])
      BY <2>4
    <3>2. CASE v = w
      <4>1. CASE k < i /\ i <= hi
        BY <1>1, <4>1 DEF HasTerm
      <4>2. CASE i = k
        BY <2>2, <2>3, <4>2
      <4>3. CASE Below(op, acc[w], Terms[i])
        <5>1. acc[w] \in Int /\ Terms[i] \in Int
          BY <1>4, <1>5
        <5>2. Below(op, acc'[w], Terms[i])
          BY <1>5, <2>2, <4>3, <5>1, BelowTransitive
        <5> QED
          BY <2>3, <5>2
      <4>4. chunk[w].lo < i => k < i \/ i = k
        BY <1>8
      <4> QED
        BY <3>1, <3>2, <4>1, <4>2, <4>3, <4>4 DEF HasTerm
    <3>3. CASE v # w
      <4>1. chunk'[v] = chunk[v] /\ acc'[v] = acc[v] /\ Idle(v)' = Idle(v)
        BY <1>1, <3>3 DEF Idle
      <4> QED
        BY <3>1, <4>1 DEF HasTerm
    <3> QED
      BY <3>2, <3>3
  <2> QED
    BY <1>1, <1>10, <2>1, <2>4 DEF SelectionInv, Covered
<1> QED
  BY <1>1, <1>3, <1>9, <1>10 DEF SelectionInv, ReturnsNumPy

\* The variable is left to answer, once the copies or the results are merged
\* into it.
LEMMA JoinSelects == ASSUME WellFormed, SelectionInv, Selected, Join PROVE SelectionInv'
<1>1. /\ pc = "run" /\ pc' = "join" /\ next = Count /\ \A w \in Workers : Idle(w)
      /\ UNCHANGED <<floating, arr, op, other, chunked, next, chunk, acc, result, ret>>
      /\ chunked => parts' = parts
  BY JoinDoes
<1>2. ASSUME ~chunked
      PROVE  \E order \in [DOMAIN parts' -> Workers] :
                /\ \A w \in Workers : \E i \in DOMAIN parts' : order[i] = w
                /\ \A i \in DOMAIN parts' : parts'[i] = acc[order[i]]
  BY <1>2, JoinDoes
<1>3. Count' = Count /\ Terms' = Terms /\ Sources' = Sources /\ Unordered' = Unordered
  BY <1>1, FixedSelection
<1>4. /\ chunk \in [Workers -> [lo : Nat, hi : Nat]] /\ Count \in Int
      /\ ~chunked => parts = <<>>
  BY <1>1, Sizes DEF WellFormed, TypeOK, Chunks
<1>5. ASSUME ~Unordered PROVE Honest'
  <2>1. /\ result \in Sources /\ \A i \in DOMAIN parts : parts[i] \in Sources
        /\ \A v \in Workers : acc[v] \in Sources
    BY <1>1, <1>5 DEF SelectionInv, Honest
  <2>2. \A i \in DOMAIN parts' : parts'[i] \in Sources
    <3>1. CASE chunked
      BY <1>1, <2>1, <3>1
    <3>2. CASE ~chunked
      BY <1>2, <2>1, <3>2
    <3> QED
      BY <3>1, <3>2
  <2> QED
    BY <1>1, <1>3, <2>1, <2>2 DEF Honest
<1>6. ASSUME ~Unordered PROVE Covered'
  <2> SUFFICES ASSUME NEW i \in 1 .. Count PROVE Merged(op, parts', result, Terms[i])
    BY <1>1, <1>3 DEF Covered
  <2>1. ~(i > next)
    BY <1>1, <1>4
  <2>2. CASE Merged(op, parts, result, Terms[i])
    <3>1. CASE chunked
      BY <1>1, <2>2, <3>1
    <3>2. CASE ~chunked
      <4>1. Below(op, result, Terms[i])
        BY <1>4, <2>2, <3>2 DEF Merged
      <4> QED
        BY <4>1 DEF Merged
    <3> QED
      BY <3>1, <3>2
  <2>3. CASE \E v \in Workers : HasTerm(op, chunk[v], chunked => ~Idle(v), acc[v], i, Terms[i])
    <3>1. PICK v \in Workers : HasTerm(op, chunk[v], chunked => ~Idle(v), acc[v], i, Terms[i])
      BY <2>3
    <3>2. ~(chunk[v].lo < i /\ i <= chunk[v].hi) /\ Idle(v)
      BY <1>1, <1>4 DEF Idle
    <3>3. ~chunked /\ Below(op, acc[v], Terms[i])
      BY <3>1, <3>2 DEF HasTerm
    <3>4. \E j \in DOMAIN parts' : parts'[j] = acc[v]
      BY <1>2, <3>3
    <3> QED
      BY <3>3, <3>4 DEF Merged
  <2> QED
    BY <1>1, <1>6, <2>1, <2>2, <2>3 DEF SelectionInv, Covered
<1> QED
  BY <1>1, <1>3, <1>5, <1>6 DEF SelectionInv, ReturnsNumPy

\* What is merged still answers.
LEMMA MergeOneSelects == ASSUME WellFormed, SelectionInv, Selected, MergeOne PROVE SelectionInv'
<1>1. /\ WellFormed' /\ pc = "join"
      /\ UNCHANGED <<floating, arr, op, other, chunked, next, chunk, acc, pc, ret>>
  BY MergeOneDoes
<1>2. PICK k \in DOMAIN parts : result' = Merge(op, result, parts[k]) /\ parts' = RemoveAt(parts, k)
  BY MergeOneDoes
<1>3. TypeOK /\ op \in Selections
  BY DEF WellFormed, Selected, Selecting
<1>4. Count' = Count /\ Terms' = Terms /\ Sources' = Sources /\ Unordered' = Unordered
  BY <1>1, FixedSelection
<1>5. /\ parts \in Seq(Int) /\ result \in Int /\ result' \in Int /\ parts[k] \in Int
      /\ Count \in Int /\ \A i \in 1 .. Count : Terms[i] \in Int
  <2>1. parts \in Seq(Int) /\ result \in Int /\ result' \in Int
    BY <1>1, <1>3 DEF WellFormed, TypeOK
  <2>2. parts[k] \in Int
    BY <2>1, ElementOfSeq, LenProperties
  <2> QED
    BY <1>3, <2>1, <2>2, TermInt DEF Selections
<1>6. result' \in {result, parts[k]}
  BY <1>2, <1>3, MergeOneOf
<1>7. /\ \A j \in DOMAIN parts' : \E i \in DOMAIN parts : parts'[j] = parts[i]
      /\ \A i \in DOMAIN parts \ {k} : \E j \in DOMAIN parts' : parts'[j] = parts[i]
  BY <1>2, <1>5, Removed
<1>8. ASSUME ~Unordered
      PROVE  /\ result \in Sources /\ \A i \in DOMAIN parts : parts[i] \in Sources
             /\ \A w \in Workers : acc[w] \in Sources
  BY <1>1, <1>8 DEF SelectionInv, Honest
<1>9. ASSUME ~Unordered PROVE Honest'
  <2>1. result' \in Sources
    BY <1>6, <1>8, <1>9
  <2>2. \A j \in DOMAIN parts' : parts'[j] \in Sources
    BY <1>7, <1>8, <1>9
  <2> QED
    BY <1>1, <1>4, <1>8, <1>9, <2>1, <2>2 DEF Honest
<1>10. ASSUME ~Unordered PROVE Covered'
  <2> SUFFICES ASSUME NEW i \in 1 .. Count PROVE Merged(op, parts', result', Terms[i])
    BY <1>1, <1>4 DEF Covered
  <2>1. Below(op, result', result) /\ Below(op, result', parts[k])
    <3>1. result \in Numbers /\ parts[k] \in Numbers
      BY <1>3, <1>8, <1>10, SourcesNumbers
    <3> QED
      BY <1>2, <1>3, <3>1, MergeSelects
  <2>2. \A x \in {result, parts[k]} : Below(op, x, Terms[i]) => Below(op, result', Terms[i])
    BY <1>5, <2>1, BelowTransitive
  <2>3. CASE Below(op, result, Terms[i])
    BY <2>2, <2>3 DEF Merged
  <2>4. CASE \E j \in DOMAIN parts : Below(op, parts[j], Terms[i])
    <3>1. PICK j \in DOMAIN parts : Below(op, parts[j], Terms[i])
      BY <2>4
    <3>2. CASE j = k
      BY <2>2, <3>1, <3>2 DEF Merged
    <3>3. CASE j # k
      <4>1. PICK m \in DOMAIN parts' : parts'[m] = parts[j]
        BY <1>7, <3>3
      <4> QED
        BY <3>1, <4>1 DEF Merged
    <3> QED
      BY <3>2, <3>3
  <2>5. Merged(op, parts, result, Terms[i])
    BY <1>1, <1>10 DEF SelectionInv, Covered
  <2> QED
    BY <2>3, <2>4, <2>5 DEF Merged
<1> QED
  BY <1>1, <1>4, <1>9, <1>10 DEF SelectionInv, ReturnsNumPy

\* The least of a set is the one element no other is less than.
LEMMA Least ==
    ASSUME NEW S \in SUBSET Int, NEW m \in S
    PROVE  /\ (\A x \in S : m <= x) => Min(S) = m
           /\ (\A x \in S : x <= m) => Max(S) = m
<1>1. ASSUME \A x \in S : m <= x PROVE Min(S) = m
  <2>1. \A c \in S : (\A x \in S : c <= x) => c = m
    BY <1>1
  <2>2. Min(S) = CHOOSE c \in S : \A x \in S : c <= x
    BY DEF Min
  <2> QED
    BY <1>1, <2>1, <2>2
<1>2. ASSUME \A x \in S : x <= m PROVE Max(S) = m
  <2>1. \A c \in S : (\A x \in S : c >= x) => c = m
    BY <1>2
  <2>2. \A x \in S : m >= x
    BY <1>2
  <2>3. Max(S) = CHOOSE c \in S : \A x \in S : c >= x
    BY DEF Max
  <2> QED
    BY <2>1, <2>2, <2>3
<1> QED
  BY <1>1, <1>2

\* The one source that answers for every term is what NumPy picks.
LEMMA Picked ==
    ASSUME TypeOK, Selected, ~Unordered, Count >= 1,
           NEW r \in Sources, \A i \in 1 .. Count : Below(op, r, Terms[i])
    PROVE  /\ r = Pick(op, arr)
           /\ op \in {"min", "max"} /\ ~floating => AsDouble(r) = r
<1>1. op \in Selections /\ r \in Int
  BY SourcesNumbers DEF Selected, Selecting, Numbers
<1>2. Len(arr) \in Nat /\ DOMAIN arr = 1 .. Len(arr) /\ arr \in Seq(Int)
  <2>1. -Inf .. NaN \subseteq Int
    BY Bounds
  <2> QED
    BY <2>1, SeqMonotonic, LenProperties DEF TypeOK
<1>3. /\ Count = IF op = "is_sorted" THEN Len(arr) - 1 ELSE Len(arr)
      /\ Count \in Int
      /\ \A i \in 1 .. Count : Terms[i] = Term(i)
      /\ op \in {"any", "all", "is_sorted"} => \A i \in 1 .. Count : Terms[i] \in {0, 1}
  BY <1>2, TermNumber DEF Count
<1>4. r = Identity(op) \/ \E i \in 1 .. Count : r = Terms[i]
  BY DEF Sources
<1>5. ASSUME op \in {"min", "max"}
      PROVE  /\ ToSet(arr) \in SUBSET Int
             /\ \A i \in 1 .. Count : Terms[i] = arr[i] /\ arr[i] \in ToSet(arr)
             /\ \A x \in ToSet(arr) : \E i \in 1 .. Count : x = Terms[i]
             /\ \A i \in 1 .. Count : arr[i] \in Int
             /\ NaN \notin ToSet(arr)
             /\ DOMAIN arr = 1 .. Count /\ arr # <<>>
  <2>1. Count = Len(arr) /\ DOMAIN arr = 1 .. Count
    BY <1>2, <1>3, <1>5
  <2>2. \A i \in 1 .. Count : arr[i] \in Int
    BY <1>2, <2>1, ElementOfSeq
  <2>3. \A i \in 1 .. Count : Terms[i] = arr[i]
    BY <1>3, <1>5 DEF Term
  <2>4. ToSet(arr) = {arr[i] : i \in 1 .. Count}
    BY <2>1 DEF ToSet
  <2>5. arr # <<>>
    BY <1>2, <2>1
  <2> QED
    BY <1>5, <2>1, <2>2, <2>3, <2>4, <2>5 DEF Unordered
<1>6. ASSUME op \in {"min", "max"} PROVE \E i \in 1 .. Count : r = arr[i]
  <2>1. CASE \E i \in 1 .. Count : r = Terms[i]
    BY <1>5, <1>6, <2>1
  <2>2. CASE op = "min" /\ r = Identity(op)
    <3>1. r = Finite
      BY <2>2 DEF Identity
    <3>2. \A i \in 1 .. Count : Finite <= arr[i]
      BY <1>5, <1>6, <2>2, <3>1 DEF Below
    <3>3. \E i \in 1 .. Count : arr[i] <= Finite
      <4>1. CASE floating
        <5>1. \E i \in DOMAIN arr : arr[i] <= Finite \/ arr[i] = NaN
          BY <1>5, <1>6, <2>2, <4>1 DEF Selected, Selecting
        <5> QED
          BY <1>5, <1>6, <5>1
      <4>2. CASE ~floating
        <5>1. arr \in Seq(-Inf .. Finite) /\ 1 \in 1 .. Count
          BY <1>3, <4>2 DEF TypeOK
        <5>2. arr[1] \in -Inf .. Finite
          BY <1>2, <1>5, <1>6, <5>1, ElementOfSeq
        <5> QED
          BY <5>1, <5>2
      <4> QED
        BY <4>1, <4>2
    <3> HIDE DEF Finite
    <3> QED
      BY <1>5, <1>6, <3>1, <3>2, <3>3, Bounds
  <2>3. CASE op = "max" /\ r = Identity(op)
    <3>1. r = Lowest /\ Lowest \in Int
      BY <1>1, <2>3 DEF Identity
    <3>2. \A i \in 1 .. Count : arr[i] <= Lowest
      BY <1>5, <1>6, <2>3, <3>1 DEF Below
    <3>3. \E i \in 1 .. Count : arr[i] >= Lowest
      <4>1. CASE floating
        <5>1. \E i \in DOMAIN arr : arr[i] >= -Finite
          BY <1>5, <1>6, <2>3, <4>1 DEF Selected, Selecting
        <5> QED
          BY <1>5, <1>6, <4>1, <5>1 DEF Lowest
      <4>2. CASE ~floating
        <5>1. arr \in Seq(-Inf .. Finite) /\ 1 \in 1 .. Count
          BY <1>3, <4>2 DEF TypeOK
        <5>2. arr[1] \in -Inf .. Finite
          BY <1>2, <1>5, <1>6, <5>1, ElementOfSeq
        <5>3. Lowest = -Inf
          <6> HIDE DEF Finite
          <6> QED
            BY <4>2, Bounds
        <5> QED
          BY <5>1, <5>2, <5>3
      <4> QED
        BY <4>1, <4>2
    <3> HIDE DEF Lowest
    <3> QED
      BY <1>5, <1>6, <3>1, <3>2, <3>3
  <2> QED
    BY <1>4, <1>6, <2>1, <2>2, <2>3
<1>7. CASE op = "min"
  <2>1. r \in ToSet(arr) /\ \A x \in ToSet(arr) : r <= x
    BY <1>5, <1>6, <1>7 DEF Below
  <2>2. Min(ToSet(arr)) = r
    BY <1>5, <1>7, <2>1, Least
  <2>3. ~floating => AsDouble(r) = r
    BY <1>5, <1>6, <1>7 DEF Selected, Selecting
  <2> QED
    BY <1>7, <2>2, <2>3 DEF Pick
<1>8. CASE op = "max"
  <2>1. r \in ToSet(arr) /\ \A x \in ToSet(arr) : x <= r
    BY <1>5, <1>6, <1>8 DEF Below
  <2>2. Max(ToSet(arr)) = r
    BY <1>5, <1>8, <2>1, Least
  <2>3. ~floating => AsDouble(r) = r
    BY <1>5, <1>6, <1>8 DEF Selected, Selecting
  <2> QED
    BY <1>8, <2>2, <2>3 DEF Pick
<1>9. CASE op = "any"
  <2>1. \A i \in 1 .. Count : Terms[i] = IF arr[i] # 0 THEN 1 ELSE 0
    BY <1>3, <1>9 DEF Term
  <2>2. Count = Len(arr) /\ Identity(op) = 0
    BY <1>3, <1>9 DEF Identity
  <2>3. \A i \in 1 .. Count : Terms[i] <= r
    BY <1>9 DEF Below
  <2>4. r = IF \E i \in 1 .. Count : arr[i] # 0 THEN 1 ELSE 0
    BY <1>1, <1>3, <1>4, <2>1, <2>2, <2>3
  <2> QED
    BY <1>2, <1>9, <2>2, <2>4 DEF Pick
<1>10. CASE op = "all"
  <2>1. \A i \in 1 .. Count : Terms[i] = IF arr[i] # 0 THEN 1 ELSE 0
    BY <1>3, <1>10 DEF Term
  <2>2. Count = Len(arr) /\ Identity(op) = 1
    BY <1>3, <1>10 DEF Identity
  <2>3. \A i \in 1 .. Count : r <= Terms[i]
    BY <1>10 DEF Below
  <2>4. r = IF \A i \in 1 .. Count : arr[i] # 0 THEN 1 ELSE 0
    BY <1>1, <1>3, <1>4, <2>1, <2>2, <2>3
  <2> QED
    BY <1>2, <1>10, <2>2, <2>4 DEF Pick
<1>11. CASE op = "is_sorted"
  <2>1. Count = Len(arr) - 1 /\ Identity(op) = 1
    BY <1>3, <1>11 DEF Identity
  <2>2. ASSUME NEW i \in 1 .. Count
        PROVE  Terms[i] = IF arr[i] <= arr[i + 1] THEN 1 ELSE 0
    <3>1. i \in 1 .. Len(arr) /\ i + 1 \in 1 .. Len(arr)
      BY <1>2, <2>1
    <3>2. arr[i] \in Int /\ arr[i + 1] \in Int /\ NaN # arr[i] /\ NaN # arr[i + 1]
      BY <1>2, <1>11, <3>1, ElementOfSeq DEF Unordered, ToSet
    <3>3. Term(i) = IF chunked THEN (IF Less(arr[i + 1], arr[i]) THEN 0 ELSE 1)
                    ELSE (IF NaN \notin {arr[i], arr[i + 1]} /\ arr[i] <= arr[i + 1] THEN 1 ELSE 0)
      BY <1>11 DEF Term
    <3>4. Less(arr[i + 1], arr[i]) <=> arr[i + 1] < arr[i]
      BY <3>2 DEF Less
    <3>5. NaN \notin {arr[i], arr[i + 1]}
      BY <3>2
    <3>6. CASE chunked
      BY <3>2, <3>3, <3>4, <3>6, <1>3
    <3>7. CASE ~chunked
      BY <3>3, <3>5, <3>7, <1>3
    <3> QED
      BY <3>6, <3>7
  <2>3. \A i \in 1 .. Count : r <= Terms[i]
    BY <1>11 DEF Below
  <2>4. r = IF \A i \in 1 .. Count : arr[i] <= arr[i + 1] THEN 1 ELSE 0
    BY <1>1, <1>3, <1>4, <2>1, <2>2, <2>3
  <2> QED
    BY <1>11, <2>1, <2>4 DEF Pick
<1> QED
  BY <1>1, <1>7, <1>8, <1>9, <1>10, <1>11 DEF Selections

LEMMA ReturnSelects == ASSUME WellFormed, SelectionInv, Selected, Return PROVE SelectionInv'
<1>1. /\ pc = "join" /\ parts = <<>> /\ pc' = "returned" /\ Count >= 1 /\ op \in Selections
      /\ UNCHANGED <<floating, arr, op, other, chunked, next, chunk, acc, parts, result>>
      /\ floating \/ op \in {"any", "all", "is_sorted"} => ret' = result
      /\ ~(floating \/ op \in {"any", "all", "is_sorted"}) => ret' = AsDouble(result)
  <2>1. op \in Selections /\ op # "prod" /\ op # "count_nonzero"
    BY DEF Selected, Selecting, Selections
  <2> HIDE DEF AsDouble
  <2> QED
    BY <2>1, ReturnDoes
<1>2. Unordered' = Unordered /\ Undefined' = Undefined /\ NumPyResult' = NumPyResult
  BY <1>1, FixedSelection
<1>3. ASSUME ~Unordered PROVE ret' = NumPyResult
  <2>1. result \in Sources
    BY <1>1, <1>3 DEF SelectionInv, Honest
  <2>2. \A i \in 1 .. Count : Below(op, result, Terms[i])
    BY <1>1, <1>3 DEF SelectionInv, Covered, Merged
  <2>3. /\ result = Pick(op, arr)
        /\ op \in {"min", "max"} /\ ~floating => AsDouble(result) = result
    BY <1>1, <1>3, <2>1, <2>2, Picked DEF WellFormed
  <2> QED
    BY <1>1, <2>3, NumPyPicks DEF Selections
<1>4. ReturnsNumPy'
  BY <1>2, <1>3 DEF ReturnsNumPy
<1> QED
  BY <1>1, <1>4 DEF SelectionInv, Honest, Covered

LEMMA NextSelects == ASSUME WellFormed, SelectionInv, [Next]_vars PROVE SelectionInv'
<1>1. UNCHANGED <<floating, arr, op, other, chunked>>
  BY DEF Next, Call, Take, Step, Join, MergeOne, Return, vars
<1>2. Selected' = Selected
  BY <1>1, FixedSelection
<1>3. CASE ~Selected
  BY <1>2, <1>3 DEF SelectionInv
<1>4. CASE Selected /\ UNCHANGED vars
  <2>1. UNCHANGED <<floating, arr, op, other, chunked, next, chunk, acc, parts, result, pc, ret>>
    BY <1>4 DEF vars
  <2>2. /\ Count' = Count /\ Terms' = Terms /\ Sources' = Sources /\ Unordered' = Unordered
        /\ Undefined' = Undefined /\ NumPyResult' = NumPyResult
    BY <1>4, <2>1, FixedSelection
  <2>3. ~Unordered => Honest' /\ Covered'
    BY <1>4, <2>1, <2>2 DEF SelectionInv, Honest, Covered, Idle
  <2>4. ReturnsNumPy'
    BY <1>4, <2>1, <2>2 DEF SelectionInv, ReturnsNumPy
  <2> QED
    BY <2>2, <2>3, <2>4 DEF SelectionInv
<1>5. CASE Selected /\ Next
  BY <1>5, CallSelects, TakeSelects, StepSelects, JoinSelects, MergeOneSelects, ReturnSelects
     DEF Next
<1> QED
  BY <1>3, <1>4, <1>5

\* min, max, any, all and is_sorted of an array of any length return what NumPy's
\* do, on any number of workers, however hpx::reduce or for_loop cut the array,
\* hand out the chunks and fold the results (array.hpp's full reductions).
THEOREM SelectionsReturnNumPy == Spec => [](Selected => ReturnsNumPy)
<1>1. Init => SelectionInv
  BY DEF Init, SelectionInv, Honest, Covered, ReturnsNumPy
<1>2. SelectionInv => (Selected => ReturnsNumPy)
  BY DEF SelectionInv
<1> QED
  BY <1>1, <1>2, NextSelects, TypeCorrect, PTL DEF Spec

-----------------------------------------------------------------------------
(* Sums: each term is folded once *)

\* The calls the theorem is about: integers, or a count, with a result that the
\* returned type holds: a double, and for a mean, of some elements, an int64 too.
Summed ==
    /\ op \in Summing
    /\ ~floating \/ op = "count_nonzero"
    /\ op # "count_nonzero" => AsDouble(NumPyResult) = NumPyResult
    /\ op = "mean" => arr # <<>> /\ NumPyResult \in Int64
    /\ op = "count_nonzero" => Len(arr) <= Finite

\* Sums[A]: the terms of the set A of elements folded, in whatever order. Element 0
\* is none.
Sums ==
    CHOOSE S : SumsOf(S, Count, Int64, FoldOp(op), Identity(op),
                      [i \in 0 .. Count |-> IF i = 0 THEN Identity(op) ELSE Terms[i]])

\* Where the term of an element can be.
Rest    == <<"rest", 0>>        \* not handed out
Todo(w) == <<"todo", w>>        \* in worker w's chunk, to be folded
Held(w) == <<"held", w>>        \* in its accumulator
Part(j) == <<"part", j>>        \* in the j-th of the results to be merged
Folded  == <<"total", 0>>       \* in the reduction variable

Owned(n, own, h) == {i \in 1 .. n : own[i] = h}

\* Each accumulator that counts is the sum of the terms it owns, and each term has
\* one owner.
Running(own) ==
    /\ \A i \in 1 .. Count : \/ own[i] \in {Rest, Folded}
                             \/ \E w \in Workers : own[i] \in {Todo(w), Held(w)}
                             \/ \E j \in DOMAIN parts : own[i] = Part(j)
    /\ \A i \in 1 .. Count : own[i] = Rest <=> i > next
    /\ \A w \in Workers, i \in 1 .. Count : own[i] = Todo(w) <=> chunk[w].lo < i /\ i <= chunk[w].hi
    /\ \A w \in Workers :
            IF chunked /\ Idle(w) THEN Owned(Count, own, Held(w)) = {}
            ELSE acc[w] = Sums[Owned(Count, own, Held(w))]
    /\ \A j \in DOMAIN parts : parts[j] = Sums[Owned(Count, own, Part(j))]
    /\ result = Sums[Owned(Count, own, Folded)]

Merging(own) ==
    /\ \A i \in 1 .. Count : own[i] = Folded \/ \E j \in DOMAIN parts : own[i] = Part(j)
    /\ \A j \in DOMAIN parts : parts[j] = Sums[Owned(Count, own, Part(j))]
    /\ result = Sums[Owned(Count, own, Folded)]

SumInv ==
    Summed =>
        /\ pc = "run" => \E own : Running(own)
        /\ pc = "join" => \E own : Merging(own)
        /\ ReturnsNumPy

LEMMA Owners ==
    /\ Rest # Folded
    /\ \A w : Rest # Todo(w) /\ Rest # Held(w) /\ Rest # Part(w)
              /\ Folded # Todo(w) /\ Folded # Held(w) /\ Folded # Part(w)
    /\ \A w, v : /\ Todo(w) # Held(v) /\ Todo(w) # Part(v) /\ Held(w) # Part(v)
                 /\ (Todo(w) = Todo(v) <=> w = v) /\ (Held(w) = Held(v) <=> w = v)
                 /\ (Part(w) = Part(v) <=> w = v)
BY DEF Rest, Todo, Held, Part, Folded

\* A term of a sum is an int64.
LEMMA TermInt64 ==
    ASSUME WellFormed, op \in Summing, ~floating \/ op = "count_nonzero",
           op = "dot" => Len(arr) = Len(other)
    PROVE  /\ Count = Len(arr) /\ Count \in Nat
           /\ \A i \in 1 .. Count : Terms[i] = Term(i) /\ Terms[i] \in Int64
<1>1. TypeOK /\ Count = Len(arr) /\ Count \in Nat
  <2>1. TypeOK /\ op # "is_sorted"
    BY DEF WellFormed, Summing
  <2> QED
    BY <2>1, Sizes
<1>2. \A i \in 1 .. Count : Terms[i] = Term(i) /\ Term(i) \in Int /\ arr[i] \in Int
  BY <1>1, TermInt, Sizes
<1> SUFFICES ASSUME NEW i \in 1 .. Count PROVE Term(i) \in Int64
  BY <1>1, <1>2
<1>3. CASE op = "count_nonzero"
  <2>1. Term(i) \in {0, 1}
    BY <1>3 DEF Term
  <2> QED
    BY <2>1, Bounds DEF Int64
<1>4. CASE op = "dot"
  <2>1. Term(i) = Wrap(arr[i] * other[i]) /\ i \in 1 .. Len(other)
    BY <1>1, <1>4 DEF Term
  <2>2. arr[i] \in Int /\ other[i] \in Int
    BY <1>1, <1>2, <2>1, ElementOfSeq DEF TypeOK
  <2>3. arr[i] * other[i] \in Int
    BY <2>2
  <2> QED
    BY <2>1, <2>3, Wraps
<1>5. CASE op \in {"sum", "prod", "mean"}
  <2>1. Term(i) = arr[i]
    BY <1>5 DEF Term
  <2>2. arr \in Seq(Int64) /\ i \in 1 .. Len(arr)
    BY <1>1, <1>5 DEF TypeOK, Int64
  <2>3. arr[i] \in Int64
    BY <2>2, ElementOfSeq
  <2> QED
    BY <2>1, <2>3
<1> QED
  BY <1>3, <1>4, <1>5 DEF Summing

\* Sums are of the terms, and add up.
LEMMA SumsAdd ==
    ASSUME WellFormed, Summed, op = "dot" => Len(arr) = Len(other)
    PROVE  /\ Count = Len(arr) /\ Count \in Nat
           /\ Sums[{}] = Identity(op)
           /\ \A i \in 1 .. Count : Sums[{i}] = Terms[i] /\ Terms[i] = Term(i)
           /\ \A A, B \in SUBSET (1 .. Count) :
                    /\ Sums[A] \in Int64
                    /\ A \cap B = {} => Sums[A \cup B] = Merge(op, Sums[A], Sums[B])
<1> DEFINE v == [i \in 0 .. Count |-> IF i = 0 THEN Identity(op) ELSE Terms[i]]
<1>1. op \in Summing /\ (~floating \/ op = "count_nonzero")
  BY DEF Summed
<1>2. Count = Len(arr) /\ Count \in Nat /\ \A i \in 1 .. Count : Terms[i] = Term(i) /\ Terms[i] \in Int64
  BY <1>1, TermInt64
<1>3. Monoid(Int64, FoldOp(op), Identity(op))
  BY <1>1, MergeMonoid
<1>4. v \in [0 .. Count -> Int64]
  <2>1. Identity(op) \in Int64
    BY <1>3 DEF Monoid
  <2> QED
    BY <1>2, <2>1
<1>5. \E S : SumsOf(S, Count, Int64, FoldOp(op), Identity(op), v)
  <2> HIDE DEF v
  <2> QED
    BY <1>2, <1>3, <1>4, SumsExist
<1>6. SumsOf(Sums, Count, Int64, FoldOp(op), Identity(op), v)
  BY <1>5 DEF Sums
<1>7. \A i \in 1 .. Count : v[i] = Terms[i] /\ i \in 0 .. Count
  BY <1>2
<1> HIDE DEF v
<1>8. /\ Sums \in [SUBSET (0 .. Count) -> Int64] /\ Sums[{}] = Identity(op)
      /\ \A i \in 0 .. Count : Sums[{i}] = v[i]
      /\ \A A, B \in SUBSET (0 .. Count) :
            A \cap B = {} => Sums[A \cup B] = FoldOp(op)[<<Sums[A], Sums[B]>>]
  BY <1>6 DEF SumsOf
<1>9. ASSUME NEW A \in SUBSET (1 .. Count), NEW B \in SUBSET (1 .. Count)
      PROVE  /\ Sums[A] \in Int64
             /\ A \cap B = {} => Sums[A \cup B] = Merge(op, Sums[A], Sums[B])
  <2>1. A \in SUBSET (0 .. Count) /\ B \in SUBSET (0 .. Count)
    BY <1>2
  <2>2. Sums[A] \in Int64 /\ Sums[B] \in Int64
    BY <1>8, <2>1
  <2>3. FoldOp(op)[<<Sums[A], Sums[B]>>] = Merge(op, Sums[A], Sums[B])
    BY <2>2 DEF FoldOp
  <2> QED
    BY <1>8, <2>1, <2>2, <2>3
<1> QED
  BY <1>2, <1>7, <1>8, <1>9

-----------------------------------------------------------------------------
(* NumPy's left fold is the sum of all the terms *)

\* The first k + 1 elements are the first k and one more.
LEMMA Prefix ==
    ASSUME NEW n \in Nat, NEW k \in 0 .. n - 1
    PROVE  /\ 1 .. k + 1 \in SUBSET (1 .. n) /\ 1 .. k \in SUBSET (1 .. n) /\ k + 1 \in 1 .. n
           /\ 1 .. k + 1 # {} /\ Max(1 .. k + 1) = k + 1
           /\ (1 .. k + 1) \ {k + 1} = 1 .. k /\ 1 .. k + 1 = (1 .. k) \cup {k + 1}
           /\ (1 .. k) \cap {k + 1} = {}
<1>1. k \in Nat /\ k + 1 \in 1 .. k + 1 /\ \A x \in 1 .. k + 1 : x <= k + 1
  OBVIOUS
<1>2. 1 .. k + 1 \in SUBSET (0 .. k + 1) /\ k + 1 \in Nat /\ 1 .. k + 1 # {}
  BY <1>1
<1>3. Max(1 .. k + 1) \in 1 .. k + 1 /\ \A x \in 1 .. k + 1 : x <= Max(1 .. k + 1)
  BY <1>2, GreatestMember
<1>4. Max(1 .. k + 1) = k + 1
  <2> DEFINE m == Max(1 .. k + 1)
  <2>1. m \in 1 .. k + 1 /\ k + 1 <= m
    BY <1>1, <1>3
  <2> HIDE DEF m
  <2>2. m = k + 1
    BY <1>1, <2>1
  <2> QED
    BY <2>2 DEF m
<1>5. /\ 1 .. k + 1 \in SUBSET (1 .. n) /\ 1 .. k \in SUBSET (1 .. n) /\ k + 1 \in 1 .. n
      /\ (1 .. k + 1) \ {k + 1} = 1 .. k /\ 1 .. k + 1 = (1 .. k) \cup {k + 1}
      /\ (1 .. k) \cap {k + 1} = {}
  OBVIOUS
<1> QED
  BY <1>2, <1>4, <1>5

\* A fold of the members of the sets s up to n, the greatest last.
LastIs(h, n, base, F) ==
    \A s \in SUBSET (1 .. n) : h[s] = IF s = {} THEN base ELSE F[<<Max(s), h[s \ {Max(s)}]>>]
LEMMA FoldSolved ==
    ASSUME NEW n \in Nat, NEW base \in Int, NEW F \in [(1 .. n) \X Int -> Int]
    PROVE  \E h \in [SUBSET (1 .. n) -> Int] : LastIs(h, n, base, F)
<1> DEFINE G == [p \in (0 .. n) \X Int |-> IF p[1] = 0 THEN base ELSE F[p]]
<1>1. G \in [(0 .. n) \X Int -> Int]
  OBVIOUS
<1>2. PICK g \in [SUBSET (0 .. n) -> Int] : Greatest(n, base, G, g)
  <2> HIDE DEF G
  <2> QED
    BY <1>1, FoldDefined
<1> DEFINE h == [s \in SUBSET (1 .. n) |-> g[s]]
<1>3. \A s \in SUBSET (1 .. n) : s \in SUBSET (0 .. n) /\ h[s] = g[s] /\ g[s] \in Int
  BY <1>2
<1>4. h \in [SUBSET (1 .. n) -> Int]
  BY <1>3
<1> HIDE DEF h
<1>5. ASSUME NEW s \in SUBSET (1 .. n), s # {}
      PROVE  h[s] = F[<<Max(s), h[s \ {Max(s)}]>>]
  <2>1. Max(s) \in s /\ Max(s) \in 1 .. n /\ s \ {Max(s)} \in SUBSET (1 .. n)
    <3>1. Max(s) \in s
      BY <1>3, <1>5, WithoutGreatest
    <3> QED
      BY <3>1
  <2>2. g[s] = G[<<Max(s), g[s \ {Max(s)}]>>]
    BY <1>2, <1>3, <1>5 DEF Greatest
  <2>3. g[s \ {Max(s)}] = h[s \ {Max(s)}] /\ h[s \ {Max(s)}] \in Int /\ h[s] = g[s]
    BY <1>3, <2>1
  <2>4. Max(s) # 0
    BY <2>1
  <2> QED
    BY <2>1, <2>2, <2>3, <2>4
<1>6. \A s \in SUBSET (1 .. n) : s = {} => h[s] = base
  BY <1>2, <1>3 DEF Greatest
<1> QED
  BY <1>4, <1>5, <1>6 DEF LastIs

\* One element more in NumPy's fold.
Onto(o, s, t, x, i) ==
    CASE o = "sum"  -> Wrap(x + s[i])
      [] o = "prod" -> Wrap(x * s[i])
      [] o = "mean" -> x + s[i]
      [] o = "dot"  -> Wrap(x + s[i] * t[i])

Start(o) == IF o = "prod" THEN 1 ELSE 0

\* NumPyResult of the sums and products: the prefixes' folds are those of one less,
\* and one element more.
FoldsInOrder(g, o, s, t) ==
    g = [A \in SUBSET (DOMAIN s) |->
            IF A = {} THEN Start(o) ELSE Onto(o, s, t, g[A \ {Max(A)}], Max(A))]

LEMMA NumPyFolds ==
    ASSUME op \in Summing \ {"count_nonzero"}, arr \in Seq(Int), op = "mean" => arr # <<>>
    PROVE  NumPyResult = (CHOOSE g : FoldsInOrder(g, op, arr, other))[DOMAIN arr]
<1> DEFINE Folds(g) == FoldsInOrder(g, op, arr, other)
<1>1. CASE op = "sum"
  <2> DEFINE Own(g) == g = [s \in SUBSET (DOMAIN arr) |->
                                IF s = {} THEN 0 ELSE Wrap(g[s \ {Max(s)}] + arr[Max(s)])]
  <2>1. NumPyResult = (CHOOSE g : Own(g))[DOMAIN arr]
    BY <1>1 DEF NumPyResult, Total, FoldLeft, MapThenFoldSet
  <2>2. Start(op) = 0 /\ \A x, i : Onto(op, arr, other, x, i) = Wrap(x + arr[i])
    BY <1>1 DEF Start, Onto
  <2>3. \A g : Own(g) <=> Folds(g)
    BY <2>2 DEF FoldsInOrder
  <2> HIDE DEF Own, Folds
  <2>4. (CHOOSE g : Own(g)) = (CHOOSE g : Folds(g))
    BY <2>3
  <2> QED
    BY <2>1, <2>4 DEF Folds
<1>2. CASE op = "prod"
  <2> DEFINE Own(g) == g = [s \in SUBSET (DOMAIN arr) |->
                                IF s = {} THEN 1 ELSE Wrap(g[s \ {Max(s)}] * arr[Max(s)])]
  <2>1. NumPyResult = (CHOOSE g : Own(g))[DOMAIN arr]
    BY <1>2 DEF NumPyResult, Total, FoldLeft, MapThenFoldSet
  <2>2. Start(op) = 1 /\ \A x, i : Onto(op, arr, other, x, i) = Wrap(x * arr[i])
    BY <1>2 DEF Start, Onto
  <2>3. \A g : Own(g) <=> Folds(g)
    BY <2>2 DEF FoldsInOrder
  <2> HIDE DEF Own, Folds
  <2>4. (CHOOSE g : Own(g)) = (CHOOSE g : Folds(g))
    BY <2>3
  <2> QED
    BY <2>1, <2>4 DEF Folds
<1>3. CASE op = "mean"
  <2> DEFINE Own(g) == g = [s \in SUBSET (DOMAIN arr) |->
                                IF s = {} THEN 0 ELSE g[s \ {Max(s)}] + arr[Max(s)]]
  <2>1. NumPyResult = (CHOOSE g : Own(g))[DOMAIN arr]
    BY <1>3 DEF NumPyResult, Total, FoldLeft, MapThenFoldSet
  <2>2. Start(op) = 0 /\ \A x, i : Onto(op, arr, other, x, i) = x + arr[i]
    BY <1>3 DEF Start, Onto
  <2>3. \A g : Own(g) <=> Folds(g)
    BY <2>2 DEF FoldsInOrder
  <2> HIDE DEF Own, Folds
  <2>4. (CHOOSE g : Own(g)) = (CHOOSE g : Folds(g))
    BY <2>3
  <2> QED
    BY <2>1, <2>4 DEF Folds
<1>4. CASE op = "dot"
  <2> DEFINE ids == [i \in DOMAIN arr |-> i]
             Own(g) == g = [s \in SUBSET (DOMAIN ids) |->
                                IF s = {} THEN 0
                                ELSE Wrap(g[s \ {Max(s)}] + arr[ids[Max(s)]] * other[ids[Max(s)]])]
  <2>1. NumPyResult = (CHOOSE g : Own(g))[DOMAIN ids]
    BY <1>4 DEF NumPyResult, FoldLeft, MapThenFoldSet
  <2>2. Start(op) = 0 /\ \A x, i : Onto(op, arr, other, x, i) = Wrap(x + arr[i] * other[i])
    BY <1>4 DEF Start, Onto
  <2>3. DOMAIN ids = DOMAIN arr /\ \A i \in DOMAIN arr : ids[i] = i
    OBVIOUS
  <2>4. \A s \in SUBSET (DOMAIN arr) : s # {} => Max(s) \in DOMAIN arr
    <3> SUFFICES ASSUME NEW s \in SUBSET (DOMAIN arr), s # {} PROVE Max(s) \in DOMAIN arr
      OBVIOUS
    <3>1. s \in SUBSET (0 .. Len(arr)) /\ Len(arr) \in Nat
      BY LenProperties
    <3> QED
      BY <3>1, WithoutGreatest
  <2> HIDE DEF ids
  <2>5. ASSUME NEW g PROVE Own(g) <=> Folds(g)
    <3>1. \A s \in SUBSET (DOMAIN arr) :
            (IF s = {} THEN 0
             ELSE Wrap(g[s \ {Max(s)}] + arr[ids[Max(s)]] * other[ids[Max(s)]]))
            = IF s = {} THEN Start(op) ELSE Onto(op, arr, other, g[s \ {Max(s)}], Max(s))
      BY <2>2, <2>3, <2>4
    <3> QED
      BY <2>3, <3>1 DEF FoldsInOrder
  <2> HIDE DEF Own, Folds
  <2>6. (CHOOSE g : Own(g)) = (CHOOSE g : Folds(g))
    BY <2>5
  <2> QED
    BY <2>1, <2>3, <2>6 DEF Folds
<1> QED
  BY <1>1, <1>2, <1>3, <1>4 DEF Summing

LEMMA NumPyUnrolls ==
    ASSUME op \in Summing \ {"count_nonzero"}, arr \in Seq(Int), op = "mean" => arr # <<>>,
           op = "dot" => \A i \in 1 .. Len(arr) : other[i] \in Int
    PROVE  \E f : /\ f[{}] = Identity(op) /\ NumPyResult = f[1 .. Len(arr)]
                  /\ \A k \in 0 .. Len(arr) - 1 : f[1 .. k + 1] = Onto(op, arr, other, f[1 .. k], k + 1)
<1> DEFINE n == Len(arr)
           Value(g, s) == IF s = {} THEN Start(op) ELSE Onto(op, arr, other, g[s \ {Max(s)}], Max(s))
           it == CHOOSE g : FoldsInOrder(g, op, arr, other)
           F == [p \in (1 .. n) \X Int |-> Onto(op, arr, other, p[2], p[1])]
<1>1. n \in Nat /\ DOMAIN arr = 1 .. n /\ \A i \in 1 .. n : arr[i] \in Int
  BY LenProperties, ElementOfSeq
<1>2. NumPyResult = it[DOMAIN arr]
  BY NumPyFolds
<1>3. F \in [(1 .. n) \X Int -> Int]
  <2>1. \A x \in Int : Wrap(x) \in Int
    BY Wraps, Bounds DEF Int64
  <2>2. ASSUME NEW i \in 1 .. n, NEW x \in Int PROVE Onto(op, arr, other, x, i) \in Int
    <3>1. arr[i] \in Int /\ (op = "dot" => other[i] \in Int)
      BY <1>1
    <3>2. x + arr[i] \in Int /\ x * arr[i] \in Int /\ (op = "dot" => x + arr[i] * other[i] \in Int)
      BY <3>1
    <3> QED
      BY <2>1, <3>2 DEF Onto, Summing
  <2> QED
    BY <2>2
<1>4. PICK h \in [SUBSET (1 .. n) -> Int] : LastIs(h, n, Start(op), F)
  <2>1. Start(op) \in Int
    BY DEF Start, Summing
  <2> HIDE DEF F, n
  <2> QED
    BY <1>1, <1>3, <2>1, FoldSolved
<1>5. h = [s \in SUBSET (DOMAIN arr) |-> Value(h, s)]
  <2> HIDE DEF n
  <2>1. ASSUME NEW s \in SUBSET (1 .. n) PROVE h[s] = Value(h, s)
    <3>1. CASE s = {}
      BY <1>4, <3>1 DEF LastIs
    <3>2. CASE s # {}
      <4>1. Max(s) \in s /\ s \ {Max(s)} \in SUBSET (1 .. n)
        <5>1. s \in SUBSET (0 .. n)
          BY <1>1
        <5> QED
          BY <1>1, <3>2, <5>1, WithoutGreatest
      <4>2. Max(s) \in 1 .. n /\ h[s \ {Max(s)}] \in Int
        BY <4>1
      <4> QED
        BY <1>4, <3>2, <4>1, <4>2 DEF LastIs
    <3> QED
      BY <3>1, <3>2
  <2> QED
    BY <1>1, <2>1
<1>6. it = [s \in SUBSET (DOMAIN arr) |-> Value(it, s)]
  BY <1>5 DEF FoldsInOrder
<1> HIDE DEF it
<1>7. \A s \in SUBSET (1 .. n) : it[s] = Value(it, s)
  BY <1>1, <1>6
<1>8. it[{}] = Start(op)
  BY <1>7
<1>9. ASSUME NEW k \in 0 .. n - 1 PROVE it[1 .. k + 1] = Onto(op, arr, other, it[1 .. k], k + 1)
  <2> HIDE DEF n
  <2>1. /\ 1 .. k + 1 \in SUBSET (1 .. n) /\ 1 .. k + 1 # {} /\ Max(1 .. k + 1) = k + 1
        /\ (1 .. k + 1) \ {k + 1} = 1 .. k
    BY <1>1, Prefix
  <2> QED
    BY <1>7, <2>1
<1>10. Identity(op) = Start(op)
  BY DEF Identity, Start, Summing
<1> QED
  BY <1>1, <1>2, <1>8, <1>9, <1>10

\* The sum of all the terms is what NumPy returns.
LEMMA SumIsNumPys ==
    ASSUME WellFormed, Summed, op = "dot" => Len(arr) = Len(other)
    PROVE  Sums[1 .. Count] = NumPyResult
<1> DEFINE n == Len(arr)
<1>1. /\ Count = n /\ Count \in Nat /\ Sums[{}] = Identity(op) /\ op \in Summing
      /\ \A i \in 1 .. n : Sums[{i}] = Term(i)
      /\ \A A \in SUBSET (1 .. n), B \in SUBSET (1 .. n) :
            Sums[A] \in Int64 /\ (A \cap B = {} => Sums[A \cup B] = Merge(op, Sums[A], Sums[B]))
  BY SumsAdd DEF Summed
<1>2. arr \in Seq(Int) /\ DOMAIN arr = 1 .. n /\ \A i \in 1 .. n : arr[i] \in Int
  BY Sizes DEF WellFormed
<1> HIDE DEF n
<1>3. ASSUME NEW k \in 0 .. n - 1
      PROVE  /\ Sums[1 .. k + 1] = Merge(op, Sums[1 .. k], Term(k + 1))
             /\ Sums[1 .. k] \in Int64 /\ k + 1 \in 1 .. n
  <2>1. /\ 1 .. k \in SUBSET (1 .. n) /\ {k + 1} \in SUBSET (1 .. n) /\ k + 1 \in 1 .. n
        /\ 1 .. k + 1 = (1 .. k) \cup {k + 1} /\ (1 .. k) \cap {k + 1} = {}
    BY <1>1, Prefix
  <2> QED
    BY <1>1, <2>1
<1>4. 1 .. 0 = {}
  OBVIOUS
<1>5. CASE op = "count_nonzero"
  <2> DEFINE NonZero(k) == {i \in 1 .. k : arr[i] # 0}
             T == {k \in 0 .. n : /\ IsFiniteSet(NonZero(k)) /\ Cardinality(NonZero(k)) <= k
                                  /\ Sums[1 .. k] = Cardinality(NonZero(k))}
  <2>1. 0 \in T
    <3>1. NonZero(0) = {} /\ Identity(op) = 0 /\ 0 \in 0 .. n
      BY <1>1, <1>5 DEF Identity
    <3> QED
      BY <1>1, <1>4, <3>1, FS_EmptySet
  <2>2. ASSUME NEW k \in 0 .. n - 1, k \in T PROVE k + 1 \in T
    <3> DEFINE c == Cardinality(NonZero(k))
    <3>1. /\ IsFiniteSet(NonZero(k)) /\ c <= k /\ c \in Nat /\ Sums[1 .. k] = c
          /\ n <= Finite /\ k + 1 \in 0 .. n
      BY <1>1, <1>5, <2>2, FS_CardinalityType DEF Summed, n
    <3>2. c + 1 \in Int64 /\ c \in Int64 /\ c + 0 = c
      BY <1>1, <3>1, Bounds DEF Int64
    <3>3. Merge(op, c, Term(k + 1)) = Wrap(c + Term(k + 1)) /\ Term(k + 1) = IF arr[k + 1] # 0 THEN 1 ELSE 0
      BY <1>5 DEF Merge, Term
    <3>4. CASE arr[k + 1] # 0
      <4>1. NonZero(k + 1) = NonZero(k) \cup {k + 1} /\ k + 1 \notin NonZero(k)
        BY <3>4
      <4>2. IsFiniteSet(NonZero(k + 1)) /\ Cardinality(NonZero(k + 1)) = c + 1
        <5> DEFINE s == NonZero(k)
        <5>1. IsFiniteSet(s) /\ c = Cardinality(s) /\ k + 1 \notin s
          BY <3>1, <4>1
        <5> HIDE DEF s, c
        <5>2. IsFiniteSet(s \cup {k + 1}) /\ Cardinality(s \cup {k + 1}) = c + 1
          BY <5>1, FS_AddElement
        <5> QED
          BY <4>1, <5>2 DEF s
      <4>3. Sums[1 .. k + 1] = c + 1
        BY <1>3, <3>1, <3>2, <3>3, <3>4, WrapInRange
      <4> HIDE DEF NonZero
      <4> QED
        BY <3>1, <4>2, <4>3
    <3>5. CASE arr[k + 1] = 0
      <4>1. NonZero(k + 1) = NonZero(k)
        BY <3>5
      <4>2. Sums[1 .. k + 1] = c
        BY <1>3, <3>1, <3>2, <3>3, <3>5, WrapInRange
      <4> HIDE DEF NonZero
      <4>3. c <= k + 1
        BY <3>1
      <4> QED
        BY <3>1, <4>1, <4>2, <4>3
    <3> QED
      BY <3>4, <3>5
  <2>3. n \in T
    <3> HIDE DEF T
    <3> QED
      BY <1>1, <2>1, <2>2, Reaches
  <2>4. NumPyResult = Cardinality({i \in DOMAIN arr : arr[i] # 0})
    BY <1>5 DEF NumPyResult
  <2> QED
    BY <1>1, <1>2, <2>3, <2>4
<1>6. CASE op # "count_nonzero"
  <2>1. op = "dot" => \A i \in 1 .. n : other[i] \in Int
    BY ElementOfSeq DEF WellFormed, TypeOK, n
  <2>2. PICK f : /\ f[{}] = Identity(op) /\ NumPyResult = f[1 .. n]
                 /\ \A k \in 0 .. n - 1 : f[1 .. k + 1] = Onto(op, arr, other, f[1 .. k], k + 1)
    <3>1. op = "mean" => arr # <<>>
      BY DEF Summed
    <3> QED
      BY <1>1, <1>2, <1>6, <2>1, <3>1, NumPyUnrolls DEF n
  <2> DEFINE T == {k \in 0 .. n : f[1 .. k] \in Int /\ Sums[1 .. k] = Wrap(f[1 .. k])
                                  /\ (op # "mean" => Sums[1 .. k] = f[1 .. k])}
  <2>3. 0 \in T
    <3>1. Identity(op) \in Int64 /\ Identity(op) \in Int /\ 0 \in 0 .. n
      BY <1>1, Bounds DEF Identity, Summing, Int64
    <3> QED
      BY <1>1, <1>4, <2>2, <3>1, WrapInRange
  <2>4. ASSUME NEW k \in 0 .. n - 1, k \in T PROVE k + 1 \in T
    <3> DEFINE x == f[1 .. k]
               a == arr[k + 1]
    <3>1. /\ x \in Int /\ Sums[1 .. k] = Wrap(x) /\ (op # "mean" => Wrap(x) = x)
          /\ k + 1 \in 1 .. n /\ k + 1 \in 0 .. n /\ a \in Int
          /\ f[1 .. k + 1] = Onto(op, arr, other, x, k + 1)
          /\ Sums[1 .. k + 1] = Merge(op, Wrap(x), Term(k + 1))
      BY <1>2, <1>3, <2>2, <2>4
    <3> HIDE DEF x, a, T
    <3>2. SUFFICES ASSUME TRUE
                   PROVE  /\ f[1 .. k + 1] \in Int /\ Sums[1 .. k + 1] = Wrap(f[1 .. k + 1])
                          /\ op # "mean" => Sums[1 .. k + 1] = f[1 .. k + 1]
      BY <3>1 DEF T
    <3>3. ASSUME NEW y \in Int PROVE Wrap(y) \in Int64 /\ Wrap(y) \in Int /\ Wrap(Wrap(y)) = Wrap(y)
      <4>1. Wrap(y) \in Int64
        BY Wraps
      <4> QED
        BY <4>1, WrapInRange, Bounds DEF Int64
    <3>4. CASE op = "sum"
      <4>1. f[1 .. k + 1] = Wrap(x + a) /\ Sums[1 .. k + 1] = Wrap(x + a)
        BY <3>1, <3>4 DEF Onto, Merge, Term, a
      <4>2. x + a \in Int
        BY <3>1
      <4> QED
        BY <3>3, <4>1, <4>2
    <3>5. CASE op = "prod"
      <4>1. f[1 .. k + 1] = Wrap(x * a) /\ Sums[1 .. k + 1] = Wrap(x * a)
        BY <3>1, <3>5 DEF Onto, Merge, Term, a
      <4>2. x * a \in Int
        BY <3>1
      <4> QED
        BY <3>3, <4>1, <4>2
    <3>6. CASE op = "mean"
      <4>1. f[1 .. k + 1] = x + a /\ Sums[1 .. k + 1] = Wrap(Wrap(x) + a)
        BY <3>1, <3>6 DEF Onto, Merge, Term, a
      <4>2. x + a \in Int /\ Wrap(Wrap(x) + a) = Wrap(x + a)
        BY <3>1, WrapOnce
      <4> QED
        BY <3>6, <4>1, <4>2
    <3>7. CASE op = "dot"
      <4> DEFINE p == a * other[k + 1]
      <4>1. f[1 .. k + 1] = Wrap(x + p) /\ Sums[1 .. k + 1] = Wrap(x + Wrap(p))
        BY <3>1, <3>7 DEF Onto, Merge, Term, a
      <4>2. p \in Int /\ x + p \in Int
        BY <2>1, <3>1, <3>7
      <4> HIDE DEF p
      <4>3. Wrap(p) + x = x + Wrap(p) /\ p + x = x + p
        BY <3>1, <3>3, <4>2
      <4>4. Wrap(Wrap(p) + x) = Wrap(p + x)
        BY <3>1, <4>2, WrapOnce
      <4>5. Wrap(x + Wrap(p)) = Wrap(x + p)
        BY <4>3, <4>4
      <4> QED
        BY <3>3, <4>1, <4>2, <4>5
    <3> QED
      BY <1>1, <1>6, <3>4, <3>5, <3>6, <3>7 DEF Summing
  <2>5. n \in T
    <3> HIDE DEF T
    <3> QED
      BY <1>1, <2>3, <2>4, Reaches
  <2>6. op = "mean" => NumPyResult \in Int64
    BY DEF Summed
  <2> QED
    BY <1>1, <2>2, <2>5, <2>6, WrapInRange
<1> QED
  BY <1>5, <1>6

-----------------------------------------------------------------------------
(* The steps of a sum *)

\* NumPyResult of a sum, from the operands.
NumPySum(o, s, t) ==
    IF o = "count_nonzero" THEN Cardinality({i \in DOMAIN s : s[i] # 0})
    ELSE IF o = "mean" /\ s = <<>> THEN NaN
    ELSE (CHOOSE g : FoldsInOrder(g, o, s, t))[DOMAIN s]

LEMMA NumPySums == op \in Summing /\ arr \in Seq(Int) => NumPyResult = NumPySum(op, arr, other)
<1>0. op = "mean" /\ arr = <<>> => NumPyResult = NumPySum(op, arr, other)
  BY DEF NumPyResult, NumPySum
<1>1. op = "count_nonzero" => NumPyResult = NumPySum(op, arr, other)
  BY DEF NumPyResult, NumPySum
<1> QED
  BY <1>0, <1>1, NumPyFolds DEF NumPySum

LEMMA FixedSum ==
    ASSUME UNCHANGED <<floating, arr, op, other, chunked>>, WellFormed
    PROVE  /\ Count' = Count /\ Sums' = Sums /\ Summed' = Summed /\ Undefined' = Undefined
           /\ Summed => NumPyResult' = NumPyResult
<1>1. Count' = Count /\ Terms' = Terms /\ Identity(op)' = Identity(op) /\ Undefined' = Undefined
  BY Fixed
<1>2. Sums' = Sums
  BY <1>1 DEF Sums
<1>3. ASSUME op \in Summing PROVE NumPyResult' = NumPyResult
  <2>1. (op \in Summing /\ arr \in Seq(Int) => NumPyResult = NumPySum(op, arr, other))'
    BY NumPySums, PTL
  <2>2. arr \in Seq(Int)
    BY Sizes DEF WellFormed
  <2> QED
    BY <1>3, <2>1, <2>2, NumPySums
<1>4. Summed' = Summed
  <2>1. CASE op \in Summing
    BY <1>3, <2>1 DEF Summed
  <2>2. CASE op \notin Summing
    BY <2>2 DEF Summed
  <2> QED
    BY <2>1, <2>2
<1> QED
  BY <1>1, <1>2, <1>3, <1>4 DEF Summed

\* The terms in X go to owner h.
Give(n, own, X, h) == [i \in 1 .. n |-> IF i \in X THEN h ELSE own[i]]

LEMMA CallSums == ASSUME WellFormed, SumInv, Summed, Call PROVE SumInv'
<1>1. /\ WellFormed' /\ pc = "call"
      /\ UNCHANGED <<floating, arr, op, other, chunked, next, chunk, acc, parts, result>>
      /\ \/ pc' = "thrown"
         \/ /\ pc' = "returned" /\ Count < 1
            /\ ret' = IF op = "mean" THEN NaN ELSE Identity(op)
            /\ op = "dot" => Len(arr) = Len(other)
         \/ pc' = "run" /\ Count >= 1 /\ ret' = ret
  BY CallDoes
<1>2. Count' = Count /\ Sums' = Sums /\ Summed' = Summed /\ NumPyResult' = NumPyResult
  BY <1>1, FixedSum
<1>3. CASE pc' = "thrown"
  BY <1>3 DEF SumInv, ReturnsNumPy
<1>4. CASE pc' = "returned"
  <2>1. Count < 1 /\ ret' = Identity(op) /\ (op = "dot" => Len(arr) = Len(other))
    <3>1. op # "mean"
      <4> SUFFICES ASSUME op = "mean" PROVE FALSE
        OBVIOUS
      <4>1. Len(arr) \in Nat /\ Count = Len(arr) /\ TypeOK
        BY Sizes DEF WellFormed
      <4>2. arr # <<>>
        BY DEF Summed
      <4>3. Len(arr) = 0
        BY <1>1, <1>4, <4>1
      <4> QED
        BY <4>1, <4>2, <4>3, Sizes, EmptySeq
    <3> QED
      BY <1>1, <1>4, <3>1
  <2>2. Sums[{}] = Identity(op) /\ Sums[1 .. Count] = NumPyResult /\ Count \in Nat
    BY <2>1, SumsAdd, SumIsNumPys
  <2>3. 1 .. Count = {}
    BY <2>1, <2>2
  <2> QED
    BY <1>2, <1>4, <2>1, <2>2, <2>3 DEF SumInv, ReturnsNumPy
<1>5. CASE pc' = "run"
  <2>0. PICK own : own = [i \in 1 .. Count |-> Rest]
    OBVIOUS
  <2>1. /\ next' = 0 /\ parts' = <<>> /\ result' = Identity(op) /\ chunked' = chunked
        /\ \A w \in Workers : acc'[w] = Identity(op) /\ chunk'[w] = [lo |-> 0, hi |-> 0]
    BY <1>1 DEF WellFormed, Fresh
  <2>2. Sums[{}] = Identity(op) /\ Count \in Nat
    <3>1. op = "dot" => Len(arr) = Len(other)
      BY <1>1, <1>5 DEF WellFormed, Chunks
    <3> QED
      BY <3>1, SumsAdd
  <2>3. \A h : h # Rest => Owned(Count, own, h) = {}
    BY <2>0 DEF Owned
  <2>4. /\ Owned(Count, own, Folded) = {} /\ \A w \in Workers : Owned(Count, own, Held(w)) = {}
    BY <2>3, Owners
  <2>6. \A i \in 1 .. Count : own[i] = Rest /\ i > 0
    BY <2>0, <2>2
  <2>7. \A w \in Workers, i \in 1 .. Count :
            own[i] # Todo(w) /\ ~(chunk'[w].lo < i /\ i <= chunk'[w].hi)
    <3> SUFFICES ASSUME NEW w \in Workers, NEW i \in 1 .. Count
                 PROVE  own[i] # Todo(w) /\ ~(i <= chunk'[w].hi)
      OBVIOUS
    <3>1. chunk'[w].hi = 0
      BY <2>1
    <3> QED
      BY <2>6, <3>1, Owners
  <2>8. \A w \in Workers : Owned(Count, own, Held(w)) = {} /\ acc'[w] = Sums[Owned(Count, own, Held(w))]
    BY <2>1, <2>2, <2>4
  <2>9. DOMAIN parts' = {} /\ result' = Sums[Owned(Count, own, Folded)]
    BY <2>1, <2>2, <2>4
  <2>10. Running(own)'
    BY <1>2, <2>1, <2>6, <2>7, <2>8, <2>9 DEF Running
  <2> QED
    BY <1>5, <2>10 DEF SumInv, ReturnsNumPy
<1> QED
  BY <1>1, <1>3, <1>4, <1>5

\* The terms of a chunk go to the worker, and the first to its accumulator, or to a
\* result, when hpx::reduce begins with it.
LEMMA TakeSums == ASSUME WellFormed, SumInv, Summed, NEW w \in Workers, Take(w) PROVE SumInv'
<1>1. /\ WellFormed' /\ pc = "run" /\ Idle(w)
      /\ UNCHANGED <<floating, arr, op, other, chunked, result, pc, ret>>
      /\ \A v \in Workers \ {w} : chunk'[v] = chunk[v] /\ acc'[v] = acc[v]
      /\ next' \in next + 1 .. Count /\ next + 1 \in 1 .. Count /\ next' \in 1 .. Count
      /\ chunk'[w] = [lo |-> IF chunked THEN next + 1 ELSE next, hi |-> next']
      /\ acc'[w] = IF chunked THEN Terms[next + 1] ELSE acc[w]
      /\ parts' = IF chunked /\ next' = next + 1 THEN Append(parts, Terms[next + 1])
                  ELSE parts
  BY TakeDoes
<1>2. Count' = Count /\ Sums' = Sums /\ Summed' = Summed
  BY <1>1, FixedSum
<1>3. op = "dot" => Len(arr) = Len(other)
  BY <1>1 DEF WellFormed, Chunks
<1>4. Sums[{next + 1}] = Terms[next + 1] /\ Terms[next + 1] \in Int /\ Count \in Nat
  BY <1>1, <1>3, SumsAdd, TermInt DEF WellFormed
<1>5. PICK own : Running(own)
  BY <1>1 DEF SumInv
<1>6. /\ next \in Nat /\ next' \in Nat /\ parts \in Seq(Int) /\ chunked \in BOOLEAN
      /\ chunk \in [Workers -> [lo : Nat, hi : Nat]]
  BY <1>1 DEF WellFormed, TypeOK
<1>7. /\ \A i \in 1 .. Count : \/ own[i] \in {Rest, Folded}
                               \/ \E v \in Workers : own[i] \in {Todo(v), Held(v)}
                               \/ \E j \in DOMAIN parts : own[i] = Part(j)
      /\ \A i \in 1 .. Count : own[i] = Rest <=> i > next
      /\ \A v \in Workers, i \in 1 .. Count : own[i] = Todo(v) <=> chunk[v].lo < i /\ i <= chunk[v].hi
      /\ \A v \in Workers :
            IF chunked /\ Idle(v) THEN Owned(Count, own, Held(v)) = {}
            ELSE acc[v] = Sums[Owned(Count, own, Held(v))]
      /\ \A j \in DOMAIN parts : parts[j] = Sums[Owned(Count, own, Part(j))]
      /\ result = Sums[Owned(Count, own, Folded)]
  BY <1>5 DEF Running
<1>8. /\ \A i \in 1 .. Count : own[i] # Todo(w)
      /\ \A v \in Workers \ {w} : chunk'[v] = chunk[v] /\ acc'[v] = acc[v] /\ Idle(v)' = Idle(v)
      /\ \A j \in DOMAIN parts : j \in Nat /\ j # Len(parts) + 1
      /\ Len(parts) \in Nat
  <2>1. \A i \in 1 .. Count : ~(chunk[w].lo < i /\ i <= chunk[w].hi)
    BY <1>1, <1>6 DEF Idle
  <2>2. \A j \in DOMAIN parts : j \in Nat /\ j # Len(parts) + 1
    BY <1>6, LenProperties
  <2> QED
    BY <1>1, <1>6, <1>7, <2>1, <2>2, LenProperties DEF Idle
<1> DEFINE X == next + 1 .. next'
           first == next + 1
<1>9. X \in SUBSET (1 .. Count) /\ first \in X /\ first \in 1 .. Count
      /\ \A i \in 1 .. Count : i \in X <=> next < i /\ i <= next'
  BY <1>1, <1>4, <1>6
<1> HIDE DEF X
<1>10. \A i \in X : own[i] = Rest
  BY <1>4, <1>6, <1>7, <1>9
<1>all. PICK all : all = Give(Count, own, X, Todo(w))
  OBVIOUS
<1>11. /\ \A i \in 1 .. Count : all[i] = IF i \in X THEN Todo(w) ELSE own[i]
       /\ \A h : h # Rest /\ h # Todo(w) => Owned(Count, all, h) = Owned(Count, own, h)
  <2>1. /\ \A h : h # Todo(w) => Owned(Count, all, h) = Owned(Count, own, h) \ X
        /\ \A i \in 1 .. Count : all[i] = IF i \in X THEN Todo(w) ELSE own[i]
    BY <1>9, <1>all DEF Give, Owned
  <2>2. \A h : h # Rest => Owned(Count, own, h) \cap X = {}
    BY <1>10 DEF Owned
  <2> QED
    BY <2>1, <2>2
<1> HIDE DEF first
<1>12. CASE ~chunked
  <2>1. /\ parts' = parts /\ acc'[w] = acc[w] /\ chunk'[w] = [lo |-> next, hi |-> next']
    BY <1>1, <1>12
  <2>3. \A i \in 1 .. Count : \/ all[i] \in {Rest, Folded}
                              \/ \E v \in Workers : all[i] \in {Todo(v), Held(v)}
                              \/ \E j \in DOMAIN parts : all[i] = Part(j)
    BY <1>7, <1>11
  <2>4. \A i \in 1 .. Count : all[i] = Rest <=> i > next'
    BY <1>6, <1>7, <1>9, <1>11, Owners
  <2>5. \A v \in Workers, i \in 1 .. Count : all[i] = Todo(v) <=> chunk'[v].lo < i /\ i <= chunk'[v].hi
    <3> SUFFICES ASSUME NEW v \in Workers, NEW i \in 1 .. Count
                 PROVE  all[i] = Todo(v) <=> chunk'[v].lo < i /\ i <= chunk'[v].hi
      OBVIOUS
    <3>1. CASE v = w
      BY <1>8, <1>9, <1>11, <2>1, <3>1
    <3>2. CASE v # w
      <4>1. i \in X => ~(chunk[v].lo < i /\ i <= chunk[v].hi)
        BY <1>7, <1>10, <3>2, Owners
      <4> QED
        BY <1>7, <1>8, <1>11, <3>2, <4>1, Owners
    <3> QED
      BY <3>1, <3>2
  <2>6. \A v \in Workers : acc'[v] = Sums[Owned(Count, all, Held(v))]
    BY <1>7, <1>8, <1>11, <1>12, <2>1, Owners
  <2>7. \A j \in DOMAIN parts : parts[j] = Sums[Owned(Count, all, Part(j))]
    BY <1>7, <1>11, Owners
  <2>8. result = Sums[Owned(Count, all, Folded)]
    BY <1>7, <1>11, Owners
  <2>9. Running(all)'
    BY <1>1, <1>2, <1>12, <2>1, <2>3, <2>4, <2>5, <2>6, <2>7, <2>8 DEF Running
  <2> QED
    BY <1>1, <2>9 DEF SumInv, ReturnsNumPy
<1>13. CASE chunked
  <2> DEFINE last == next' = next + 1
             to == IF last THEN Part(Len(parts) + 1) ELSE Held(w)
  <2>new. PICK new : new = Give(Count, all, {first}, to)
    OBVIOUS
  <2>1. /\ parts' = IF last THEN Append(parts, Terms[first]) ELSE parts
        /\ acc'[w] = Terms[first] /\ chunk'[w] = [lo |-> first, hi |-> next']
    BY <1>1, <1>13 DEF first
  <2>2. /\ Sums[{first}] = Terms[first]
        /\ Idle(w)' <=> last
    BY <1>4, <1>6, <2>1 DEF first, Idle
  <2>3. to # Rest /\ to # Folded /\ \A v : to # Todo(v) /\ (v # w => to # Held(v))
    BY Owners
  <2>4. /\ \A i \in 1 .. Count : new[i] = IF i = first THEN to ELSE all[i]
        /\ Owned(Count, new, to) = Owned(Count, all, to) \cup {first}
        /\ \A h : h # to => Owned(Count, new, h) = Owned(Count, all, h) \ {first}
    <3>1. {first} \in SUBSET (1 .. Count)
      BY <1>9
    <3> HIDE DEF to
    <3> QED
      BY <2>new, <3>1 DEF Give, Owned
  <2>5. \A h : h # Rest /\ h # to /\ h # Todo(w) => Owned(Count, new, h) = Owned(Count, own, h)
    <3>1. \A h : h # Rest /\ h # Todo(w) => first \notin Owned(Count, all, h)
      BY <1>9, <1>11 DEF Owned
    <3> QED
      BY <1>11, <2>4, <3>1
  <2>6. Owned(Count, new, to) = {first}
    <3>1. Owned(Count, own, to) = {}
      <4>1. CASE last
        <5>1. \A i \in 1 .. Count : own[i] # Part(Len(parts) + 1)
          BY <1>7, <1>8, Owners
        <5> QED
          BY <4>1, <5>1 DEF Owned
      <4>2. CASE ~last
        BY <1>1, <1>7, <1>13, <4>2
      <4> QED
        BY <4>1, <4>2
    <3> QED
      BY <1>11, <2>3, <2>4, <3>1
  <2>8. /\ ~last => parts' = parts /\ to = Held(w)
        /\ last => /\ to = Part(Len(parts) + 1) /\ DOMAIN parts' = DOMAIN parts \cup {Len(parts) + 1}
                   /\ parts'[Len(parts) + 1] = Terms[first]
                   /\ \A j \in DOMAIN parts : parts'[j] = parts[j]
    <3>1. ASSUME last
          PROVE  /\ DOMAIN parts' = DOMAIN parts \cup {Len(parts) + 1}
                 /\ parts'[Len(parts) + 1] = Terms[first]
                 /\ \A j \in DOMAIN parts : parts'[j] = parts[j]
      BY <1>4, <1>6, <2>1, <3>1, Extended DEF first
    <3> QED
      BY <2>1, <3>1
  <2> HIDE DEF last, to
  <2>9. \A i \in 1 .. Count : \/ new[i] \in {Rest, Folded}
                              \/ \E v \in Workers : new[i] \in {Todo(v), Held(v)}
                              \/ \E j \in DOMAIN parts' : new[i] = Part(j)
    <3>1. \A i \in 1 .. Count : \/ all[i] \in {Rest, Folded}
                                \/ \E v \in Workers : all[i] \in {Todo(v), Held(v)}
                                \/ \E j \in DOMAIN parts : all[i] = Part(j)
      BY <1>7, <1>11
    <3>2. DOMAIN parts \subseteq DOMAIN parts'
      BY <2>8
    <3>3. to = Held(w) \/ \E j \in DOMAIN parts' : to = Part(j)
      BY <2>8
    <3> QED
      BY <2>4, <3>1, <3>2, <3>3
  <2>10. \A i \in 1 .. Count : new[i] = Rest <=> i > next'
    BY <1>6, <1>7, <1>9, <1>11, <2>3, <2>4, Owners
  <2>11. \A v \in Workers, i \in 1 .. Count : new[i] = Todo(v) <=> chunk'[v].lo < i /\ i <= chunk'[v].hi
    <3> SUFFICES ASSUME NEW v \in Workers, NEW i \in 1 .. Count
                 PROVE  new[i] = Todo(v) <=> chunk'[v].lo < i /\ i <= chunk'[v].hi
      OBVIOUS
    <3>1. CASE v = w
      <4>1. i \in X /\ i # first <=> first < i /\ i <= next'
        BY <1>4, <1>6, <1>9 DEF first
      <4>2. new[i] = Todo(w) <=> i \in X /\ i # first
        BY <1>8, <1>11, <2>3, <2>4
      <4> QED
        BY <2>1, <3>1, <4>1, <4>2
    <3>2. CASE v # w
      <4>1. i \in X => ~(chunk[v].lo < i /\ i <= chunk[v].hi)
        BY <1>7, <1>10, <3>2, Owners
      <4>2. new[i] = Todo(v) <=> i \notin X /\ own[i] = Todo(v)
        BY <1>9, <1>11, <2>3, <2>4, <3>2, Owners
      <4> QED
        BY <1>7, <1>8, <3>2, <4>1, <4>2
    <3> QED
      BY <3>1, <3>2
  <2>12. \A v \in Workers :
            IF Idle(v)' THEN Owned(Count, new, Held(v)) = {} ELSE acc'[v] = Sums[Owned(Count, new, Held(v))]
    <3> SUFFICES ASSUME NEW v \in Workers
                 PROVE  IF Idle(v)' THEN Owned(Count, new, Held(v)) = {}
                        ELSE acc'[v] = Sums[Owned(Count, new, Held(v))]
      OBVIOUS
    <3>1. CASE v = w /\ last
      <4>1. Owned(Count, new, Held(w)) = Owned(Count, own, Held(w)) /\ Owned(Count, own, Held(w)) = {}
        BY <1>1, <1>7, <1>13, <2>5, <2>8, <3>1, Owners
      <4> QED
        BY <2>2, <3>1, <4>1
    <3>2. CASE v = w /\ ~last
      BY <2>1, <2>2, <2>6, <2>8, <3>2
    <3>3. CASE v # w
      <4>1. Owned(Count, new, Held(v)) = Owned(Count, own, Held(v))
        BY <2>3, <2>5, <3>3, Owners
      <4> QED
        BY <1>7, <1>8, <1>13, <3>3, <4>1
    <3> QED
      BY <3>1, <3>2, <3>3
  <2>13. \A j \in DOMAIN parts' : parts'[j] = Sums[Owned(Count, new, Part(j))]
    <3>1. \A j \in DOMAIN parts : to # Part(j)
      BY <1>8, <2>8, Owners
    <3>2. \A j \in DOMAIN parts : Owned(Count, new, Part(j)) = Owned(Count, own, Part(j))
      BY <2>5, <3>1, Owners
    <3> QED
      BY <1>7, <2>2, <2>6, <2>8, <3>2
  <2>14. result = Sums[Owned(Count, new, Folded)]
    BY <1>7, <2>3, <2>5, Owners
  <2>15. Running(new)'
    BY <1>1, <1>2, <1>13, <2>9, <2>10, <2>11, <2>12, <2>13, <2>14 DEF Running
  <2> QED
    BY <1>1, <2>15 DEF SumInv, ReturnsNumPy
<1> QED
  BY <1>6, <1>12, <1>13

\* One term of the chunk goes to the accumulator; the last, with all the accumulator
\* has, to a result of hpx::reduce.
LEMMA StepSums == ASSUME WellFormed, SumInv, Summed, NEW w \in Workers, Step(w) PROVE SumInv'
<1> DEFINE k == chunk[w].lo + 1
           last == chunked /\ k = chunk[w].hi
<1>1. /\ WellFormed' /\ pc = "run" /\ ~Idle(w)
      /\ UNCHANGED <<floating, arr, op, other, chunked, next, result, pc, ret>>
      /\ \A v \in Workers \ {w} : chunk'[v] = chunk[v] /\ acc'[v] = acc[v]
      /\ k \in 1 .. Count /\ k <= chunk[w].hi /\ chunk[w].hi <= next
      /\ chunk'[w] = [lo |-> k, hi |-> chunk[w].hi]
      /\ acc'[w] = Accumulate(op, acc[w], Terms[k])
      /\ parts' = IF last THEN Append(parts, acc'[w]) ELSE parts
  BY StepDoes
<1>2. Count' = Count /\ Sums' = Sums /\ Summed' = Summed
  BY <1>1, FixedSum
<1>3. op = "dot" => Len(arr) = Len(other)
  BY <1>1 DEF WellFormed, Chunks
<1>4. /\ Sums[{k}] = Terms[k] /\ Count \in Nat
      /\ \A A, B \in SUBSET (1 .. Count) :
            Sums[A] \in Int64 /\ (A \cap B = {} => Sums[A \cup B] = Merge(op, Sums[A], Sums[B]))
  BY <1>1, <1>3, SumsAdd
<1>5. PICK own : Running(own)
  BY <1>1 DEF SumInv
<1>6. /\ next \in Nat /\ parts \in Seq(Int) /\ chunked \in BOOLEAN /\ acc'[w] \in Int
      /\ chunk \in [Workers -> [lo : Nat, hi : Nat]]
  BY <1>1 DEF WellFormed, TypeOK
<1>7. /\ \A i \in 1 .. Count : \/ own[i] \in {Rest, Folded}
                               \/ \E v \in Workers : own[i] \in {Todo(v), Held(v)}
                               \/ \E j \in DOMAIN parts : own[i] = Part(j)
      /\ \A i \in 1 .. Count : own[i] = Rest <=> i > next
      /\ \A v \in Workers, i \in 1 .. Count : own[i] = Todo(v) <=> chunk[v].lo < i /\ i <= chunk[v].hi
      /\ \A v \in Workers :
            IF chunked /\ Idle(v) THEN Owned(Count, own, Held(v)) = {}
            ELSE acc[v] = Sums[Owned(Count, own, Held(v))]
      /\ \A j \in DOMAIN parts : parts[j] = Sums[Owned(Count, own, Part(j))]
      /\ result = Sums[Owned(Count, own, Folded)]
  BY <1>5 DEF Running
<1>8. /\ \A v \in Workers \ {w} : Idle(v)' = Idle(v)
      /\ \A j \in DOMAIN parts : j # Len(parts) + 1
      /\ own[k] = Todo(w)
      /\ Idle(w)' <=> k = chunk[w].hi
      /\ chunk[w].lo \in Nat /\ k \in Nat /\ chunk[w].hi \in Nat
  <2>1. chunk[w].lo \in Nat /\ k \in Nat /\ chunk[w].hi \in Nat /\ chunk[w].lo < k
    BY <1>6
  <2>2. \A j \in DOMAIN parts : j # Len(parts) + 1
    BY <1>6, LenProperties
  <2>3. own[k] = Todo(w)
    BY <1>1, <1>7, <2>1
  <2> QED
    BY <1>1, <2>1, <2>2, <2>3 DEF Idle
<1> DEFINE held == Owned(Count, own, Held(w))
           all == held \cup {k}
           to == IF last THEN Part(Len(parts) + 1) ELSE Held(w)
<1>9. /\ all \in SUBSET (1 .. Count) /\ acc'[w] = Sums[all]
  <2>1. held \in SUBSET (1 .. Count) /\ {k} \in SUBSET (1 .. Count) /\ held \cap {k} = {}
    BY <1>1, <1>8, Owners DEF Owned
  <2>2. acc[w] = Sums[held]
    BY <1>1, <1>7
  <2> HIDE DEF held, k
  <2>3. /\ Sums[held \cup {k}] = Merge(op, Sums[held], Sums[{k}])
        /\ Sums[{k} \cup held] = Merge(op, Sums[{k}], Sums[held])
    BY <1>4, <2>1
  <2>4. held \cup {k} = {k} \cup held /\ Sums[{k}] = Terms[k]
    BY <1>4
  <2>5. acc'[w] = Merge(op, Sums[held], Sums[{k}]) \/ acc'[w] = Merge(op, Sums[{k}], Sums[held])
    BY <1>1, <2>2, <2>4 DEF Accumulate
  <2> QED
    BY <2>1, <2>3, <2>4, <2>5
<1>10. \A i \in all : own[i] = Held(w) \/ (i = k /\ own[i] = Todo(w))
  BY <1>8 DEF Owned
<1>11. /\ to # Rest /\ to # Folded /\ \A v : to # Todo(v) /\ (v # w => to # Held(v))
       /\ \A j \in DOMAIN parts : to # Part(j)
  BY <1>8, Owners
<1>new. PICK new : new = Give(Count, own, all, to)
  OBVIOUS
<1>12. /\ \A i \in 1 .. Count : i \notin all => own[i] # Held(w)
       /\ k \in all
  BY DEF Owned
<1>13. /\ ~last => parts' = parts /\ to = Held(w)
       /\ last => /\ to = Part(Len(parts) + 1) /\ DOMAIN parts' = DOMAIN parts \cup {Len(parts) + 1}
                  /\ parts'[Len(parts) + 1] = acc'[w]
                  /\ \A j \in DOMAIN parts : parts'[j] = parts[j]
  BY <1>1, <1>6, Extended
<1>14. last <=> chunked /\ Idle(w)'
  BY <1>8
<1> HIDE DEF all, to, last
<1>15. /\ \A i \in 1 .. Count : new[i] = IF i \in all THEN to ELSE own[i]
       /\ Owned(Count, new, to) = Owned(Count, own, to) \cup all
       /\ \A h : h # to => Owned(Count, new, h) = Owned(Count, own, h) \ all
  BY <1>9, <1>new DEF Give, Owned
<1>16. Owned(Count, new, to) = all
  <2>1. CASE last
    <3>1. \A i \in 1 .. Count : own[i] # Part(Len(parts) + 1)
      BY <1>7, <1>8, Owners
    <3> QED
      BY <1>13, <1>15, <2>1, <3>1 DEF Owned
  <2>2. CASE ~last
    BY <1>13, <1>15, <2>2 DEF all
  <2> QED
    BY <2>1, <2>2
<1>17. \A h : h # to /\ h # Todo(w) /\ h # Held(w) => Owned(Count, new, h) = Owned(Count, own, h)
  BY <1>10, <1>15 DEF Owned
<1>18. \A i \in 1 .. Count : \/ new[i] \in {Rest, Folded}
                             \/ \E v \in Workers : new[i] \in {Todo(v), Held(v)}
                             \/ \E j \in DOMAIN parts' : new[i] = Part(j)
  <2>1. DOMAIN parts \subseteq DOMAIN parts'
    BY <1>13
  <2>2. to = Held(w) \/ \E j \in DOMAIN parts' : to = Part(j)
    BY <1>13
  <2> QED
    BY <1>7, <1>15, <2>1, <2>2
<1>19. \A i \in 1 .. Count : new[i] = Rest <=> i > next
  BY <1>7, <1>10, <1>11, <1>15, Owners
<1>20. \A v \in Workers, i \in 1 .. Count : new[i] = Todo(v) <=> chunk'[v].lo < i /\ i <= chunk'[v].hi
  <2> SUFFICES ASSUME NEW v \in Workers, NEW i \in 1 .. Count
               PROVE  new[i] = Todo(v) <=> chunk'[v].lo < i /\ i <= chunk'[v].hi
    OBVIOUS
  <2>1. CASE v = w
    <3>1. new[i] = Todo(w) <=> own[i] = Todo(w) /\ i # k
      BY <1>10, <1>11, <1>12, <1>15, Owners
    <3>2. own[i] = Todo(w) <=> chunk[w].lo < i /\ i <= chunk[w].hi
      BY <1>7
    <3>3. chunk[w].lo < i /\ i # k <=> k < i
      BY <1>8
    <3> QED
      BY <1>1, <2>1, <3>1, <3>2, <3>3
  <2>2. CASE v # w
    <3>1. new[i] = Todo(v) <=> own[i] = Todo(v)
      BY <1>10, <1>11, <1>15, <2>2, Owners
    <3> QED
      BY <1>1, <1>7, <2>2, <3>1
  <2> QED
    BY <2>1, <2>2
<1>21. \A v \in Workers :
            IF chunked /\ Idle(v)' THEN Owned(Count, new, Held(v)) = {}
            ELSE acc'[v] = Sums[Owned(Count, new, Held(v))]
  <2> SUFFICES ASSUME NEW v \in Workers
               PROVE  IF chunked /\ Idle(v)' THEN Owned(Count, new, Held(v)) = {}
                      ELSE acc'[v] = Sums[Owned(Count, new, Held(v))]
    OBVIOUS
  <2>1. CASE v = w /\ last
    <3>1. Held(w) # to
      BY <1>13, <2>1, Owners
    <3>2. Owned(Count, new, Held(w)) = {}
      BY <1>15, <3>1 DEF all
    <3> QED
      BY <1>14, <2>1, <3>2
  <2>2. CASE v = w /\ ~last
    BY <1>9, <1>13, <1>14, <1>16, <2>2
  <2>3. CASE v # w
    <3>1. Owned(Count, new, Held(v)) = Owned(Count, own, Held(v))
      BY <1>11, <1>17, <2>3, Owners
    <3> QED
      BY <1>1, <1>7, <1>8, <2>3, <3>1
  <2> QED
    BY <2>1, <2>2, <2>3
<1>22. \A j \in DOMAIN parts' : parts'[j] = Sums[Owned(Count, new, Part(j))]
  <2>1. \A j \in DOMAIN parts : Owned(Count, new, Part(j)) = Owned(Count, own, Part(j))
    BY <1>11, <1>17, Owners
  <2> QED
    BY <1>7, <1>9, <1>13, <1>16, <2>1
<1>23. result = Sums[Owned(Count, new, Folded)]
  BY <1>7, <1>11, <1>17, Owners
<1>24. Running(new)'
  BY <1>1, <1>2, <1>18, <1>19, <1>20, <1>21, <1>22, <1>23 DEF Running
<1> QED
  BY <1>1, <1>24 DEF SumInv, ReturnsNumPy

\* The results keep their terms; those of a worker's copy go to its place among the
\* results.
LEMMA JoinSums == ASSUME WellFormed, SumInv, Summed, Join PROVE SumInv'
<1>1. /\ WellFormed' /\ pc = "run" /\ pc' = "join" /\ next = Count /\ \A w \in Workers : Idle(w)
      /\ UNCHANGED <<floating, arr, op, other, chunked, next, chunk, acc, result, ret>>
      /\ chunked => parts' = parts
      /\ ~chunked =>
           \E order \in [DOMAIN parts' -> Workers] :
               /\ \A w \in Workers : \E i \in DOMAIN parts' : order[i] = w
               /\ \A i, j \in DOMAIN parts' : order[i] = order[j] => i = j
               /\ \A i \in DOMAIN parts' : parts'[i] = acc[order[i]]
  BY JoinDoes
<1>2. Count' = Count /\ Sums' = Sums /\ Summed' = Summed
  BY <1>1, FixedSum
<1>3. /\ \A w \in Workers, i \in 1 .. Count : ~(chunk[w].lo < i /\ i <= chunk[w].hi)
      /\ \A i \in 1 .. Count : ~(i > next)
      /\ ~chunked => parts = <<>>
  <2>1. /\ chunk \in [Workers -> [lo : Nat, hi : Nat]] /\ Count \in Int
        /\ ~chunked => parts = <<>>
    BY <1>1, Sizes DEF WellFormed, TypeOK, Chunks
  <2> QED
    BY <1>1, <2>1 DEF Idle
<1>4. PICK own : Running(own)
  BY <1>1 DEF SumInv
<1>5. /\ \A i \in 1 .. Count : \/ own[i] = Folded
                               \/ \E v \in Workers : own[i] = Held(v)
                               \/ \E j \in DOMAIN parts : own[i] = Part(j)
      /\ \A v \in Workers : IF chunked THEN Owned(Count, own, Held(v)) = {}
                            ELSE acc[v] = Sums[Owned(Count, own, Held(v))]
      /\ \A j \in DOMAIN parts : parts[j] = Sums[Owned(Count, own, Part(j))]
      /\ result = Sums[Owned(Count, own, Folded)]
  BY <1>1, <1>3, <1>4 DEF Running
<1>6. CASE chunked
  <2>1. \A i \in 1 .. Count, v \in Workers : own[i] # Held(v)
    BY <1>5, <1>6 DEF Owned
  <2>2. Merging(own)'
    BY <1>1, <1>2, <1>5, <1>6, <2>1 DEF Merging
  <2> QED
    BY <1>1, <2>2 DEF SumInv, ReturnsNumPy
<1>7. CASE ~chunked
  <2>1. PICK order \in [DOMAIN parts' -> Workers] :
               /\ \A w \in Workers : \E i \in DOMAIN parts' : order[i] = w
               /\ \A i, j \in DOMAIN parts' : order[i] = order[j] => i = j
               /\ \A i \in DOMAIN parts' : parts'[i] = acc[order[i]]
    BY <1>1, <1>7
  <2>2. \A i \in 1 .. Count : own[i] = Folded \/ \E j \in DOMAIN parts' : own[i] = Held(order[j])
    <3>1. DOMAIN parts = {}
      BY <1>3, <1>7
    <3> QED
      BY <1>5, <2>1, <3>1
  <2>3. PICK new : new = [i \in 1 .. Count |->
                            IF own[i] = Folded THEN Folded
                            ELSE Part(CHOOSE j \in DOMAIN parts' : own[i] = Held(order[j]))]
    OBVIOUS
  <2>4. ASSUME NEW i \in 1 .. Count
        PROVE  /\ own[i] = Folded <=> new[i] = Folded
               /\ \A j \in DOMAIN parts' : new[i] = Part(j) <=> own[i] = Held(order[j])
               /\ new[i] = Folded \/ \E j \in DOMAIN parts' : new[i] = Part(j)
    <3>1. CASE own[i] = Folded
      BY <2>3, <3>1, Owners
    <3>2. CASE own[i] # Folded
      <4>1. PICK j \in DOMAIN parts' : j = CHOOSE m \in DOMAIN parts' : own[i] = Held(order[m])
        BY <2>2, <3>2
      <4>2. new[i] = Part(j) /\ own[i] = Held(order[j])
        BY <2>2, <2>3, <3>2, <4>1
      <4>3. \A m \in DOMAIN parts' : Part(j) = Part(m) <=> j = m
        BY Owners
      <4>4. \A m \in DOMAIN parts' : Held(order[j]) = Held(order[m]) <=> j = m
        BY <2>1, Owners
      <4>5. \A m \in DOMAIN parts' : new[i] = Part(m) <=> own[i] = Held(order[m])
        BY <4>2, <4>3, <4>4
      <4>6. new[i] # Folded
        BY <4>2, Owners
      <4> QED
        BY <3>2, <4>2, <4>5, <4>6
    <3> QED
      BY <3>1, <3>2
  <2>5. /\ Owned(Count, new, Folded) = Owned(Count, own, Folded)
        /\ \A j \in DOMAIN parts' : Owned(Count, new, Part(j)) = Owned(Count, own, Held(order[j]))
    BY <2>4 DEF Owned
  <2>6. \A j \in DOMAIN parts' : parts'[j] = Sums[Owned(Count, new, Part(j))]
    BY <1>5, <1>7, <2>1, <2>5
  <2>7. Merging(new)'
    BY <1>1, <1>2, <1>5, <2>4, <2>5, <2>6 DEF Merging
  <2> QED
    BY <1>1, <2>7 DEF SumInv, ReturnsNumPy
<1> QED
  BY <1>6, <1>7

\* The terms of the result that is merged go to the reduction variable.
LEMMA MergeOneSums == ASSUME WellFormed, SumInv, Summed, MergeOne PROVE SumInv'
<1>1. /\ WellFormed' /\ pc = "join"
      /\ UNCHANGED <<floating, arr, op, other, chunked, next, chunk, acc, pc, ret>>
      /\ \E k \in DOMAIN parts : result' = Merge(op, result, parts[k]) /\ parts' = RemoveAt(parts, k)
  BY MergeOneDoes
<1>2. PICK k \in DOMAIN parts : result' = Merge(op, result, parts[k]) /\ parts' = RemoveAt(parts, k)
  BY <1>1
<1>3. Count' = Count /\ Sums' = Sums /\ Summed' = Summed
  BY <1>1, FixedSum
<1>4. \A A, B \in SUBSET (1 .. Count) : A \cap B = {} => Sums[A \cup B] = Merge(op, Sums[A], Sums[B])
  <2>1. op = "dot" => Len(arr) = Len(other)
    BY <1>1 DEF WellFormed, Chunks
  <2> QED
    BY <2>1, SumsAdd
<1>5. PICK own : Merging(own)
  BY <1>1 DEF SumInv
<1>6. /\ \A i \in 1 .. Count : own[i] = Folded \/ \E j \in DOMAIN parts : own[i] = Part(j)
      /\ \A j \in DOMAIN parts : parts[j] = Sums[Owned(Count, own, Part(j))]
      /\ result = Sums[Owned(Count, own, Folded)]
  BY <1>5 DEF Merging
<1> DEFINE old(j) == IF j < k THEN j ELSE j + 1
<1>7. /\ \A j \in DOMAIN parts' : old(j) \in DOMAIN parts \ {k} /\ parts'[j] = parts[old(j)]
      /\ \A i, j \in DOMAIN parts' : old(i) = old(j) => i = j
      /\ \A m \in DOMAIN parts \ {k} : \E j \in DOMAIN parts' : old(j) = m
  <2>1. parts \in Seq(Int)
    BY <1>1 DEF WellFormed, TypeOK
  <2> QED
    BY <1>2, <2>1, RemovedAt
<1> HIDE DEF old
<1>8. PICK new : new = [i \in 1 .. Count |->
                          IF own[i] \in {Folded, Part(k)} THEN Folded
                          ELSE Part(CHOOSE j \in DOMAIN parts' : own[i] = Part(old(j)))]
  OBVIOUS
<1>9. ASSUME NEW i \in 1 .. Count
      PROVE  /\ own[i] \in {Folded, Part(k)} <=> new[i] = Folded
             /\ \A j \in DOMAIN parts' : new[i] = Part(j) <=> own[i] = Part(old(j))
             /\ new[i] = Folded \/ \E j \in DOMAIN parts' : new[i] = Part(j)
  <2>1. CASE own[i] \in {Folded, Part(k)}
    <3>1. \A j \in DOMAIN parts' : own[i] # Part(old(j))
      BY <1>7, <2>1, Owners
    <3> QED
      BY <1>8, <2>1, <3>1, Owners
  <2>2. CASE own[i] \notin {Folded, Part(k)}
    <3>1. \E j \in DOMAIN parts' : own[i] = Part(old(j))
      BY <1>6, <1>7, <2>2
    <3>2. PICK j \in DOMAIN parts' : j = CHOOSE m \in DOMAIN parts' : own[i] = Part(old(m))
      BY <3>1
    <3>3. new[i] = Part(j) /\ own[i] = Part(old(j))
      BY <1>8, <2>2, <3>1, <3>2
    <3>4. \A m \in DOMAIN parts' : Part(j) = Part(m) <=> j = m
      BY Owners
    <3>5. \A m \in DOMAIN parts' : Part(old(j)) = Part(old(m)) <=> j = m
      BY <1>7, Owners
    <3>6. own[i] \in {Folded, Part(k)} <=> new[i] = Folded
      BY <2>2, <3>3, Owners
    <3>7. \A m \in DOMAIN parts' : new[i] = Part(m) <=> own[i] = Part(old(m))
      BY <3>2, <3>3, <3>4, <3>5
    <3>8. \E m \in DOMAIN parts' : new[i] = Part(m)
      BY <3>2, <3>3
    <3> QED
      BY <3>6, <3>7, <3>8
  <2> QED
    BY <2>1, <2>2
<1>10. /\ Owned(Count, new, Folded) = Owned(Count, own, Folded) \cup Owned(Count, own, Part(k))
       /\ \A j \in DOMAIN parts' : Owned(Count, new, Part(j)) = Owned(Count, own, Part(old(j)))
  BY <1>9 DEF Owned
<1>11. result' = Sums[Owned(Count, new, Folded)]
  <2> DEFINE A == Owned(Count, own, Folded)
             B == Owned(Count, own, Part(k))
  <2>1. A \in SUBSET (1 .. Count) /\ B \in SUBSET (1 .. Count) /\ A \cap B = {}
    BY Owners DEF Owned
  <2>2. result = Sums[A] /\ parts[k] = Sums[B]
    BY <1>6
  <2> HIDE DEF A, B
  <2>3. Sums[A \cup B] = Merge(op, Sums[A], Sums[B])
    BY <1>4, <2>1
  <2> QED
    BY <1>2, <1>10, <2>2, <2>3 DEF A, B
<1>12. \A j \in DOMAIN parts' : parts'[j] = Sums[Owned(Count, new, Part(j))]
  BY <1>6, <1>7, <1>10
<1>13. Merging(new)'
  BY <1>3, <1>9, <1>11, <1>12 DEF Merging
<1> QED
  BY <1>1, <1>13 DEF SumInv, ReturnsNumPy

\* The reduction variable has all the terms.
LEMMA ReturnSums == ASSUME WellFormed, SumInv, Summed, Return PROVE SumInv'
<1>1. /\ WellFormed' /\ pc = "join" /\ parts = <<>> /\ pc' = "returned"
      /\ UNCHANGED <<floating, arr, op, other, chunked, next, chunk, acc, parts, result>>
      /\ op = "dot" => Len(arr) = Len(other)
  BY ReturnDoes
<1>2. Count' = Count /\ Summed' = Summed /\ NumPyResult' = NumPyResult
  BY <1>1, FixedSum
<1>3. PICK own : Merging(own)
  BY <1>1 DEF SumInv
<1>4. result = NumPyResult
  <2>1. \A i \in 1 .. Count : own[i] = Folded
    BY <1>1, <1>3 DEF Merging
  <2>2. Owned(Count, own, Folded) = 1 .. Count
    BY <2>1 DEF Owned
  <2> QED
    BY <1>1, <1>3, <2>2, SumIsNumPys DEF Merging
<1>5. ret' = result
  <2>1. CASE op = "count_nonzero"
    BY <2>1, ReturnDoes
  <2>2. CASE op # "count_nonzero"
    <3>1. AsDouble(result) = result
      BY <1>4, <2>2 DEF Summed
    <3>2. ~(op = "prod" /\ AsDouble(result) > Finite)
      <4>1. result \in Int64
        <5>1. Owned(Count, own, Folded) \in SUBSET (1 .. Count) /\ result = Sums[Owned(Count, own, Folded)]
          BY <1>3 DEF Merging, Owned
        <5> QED
          BY <1>1, <5>1, SumsAdd
      <4>2. result <= Finite /\ result \in Int /\ Finite \in Int
        BY <4>1, Bounds DEF Int64
      <4> HIDE DEF Finite
      <4> QED
        BY <3>1, <4>2
    <3> QED
      BY <3>1, <3>2, ReturnDoes
  <2> QED
    BY <2>1, <2>2
<1> QED
  BY <1>1, <1>2, <1>4, <1>5 DEF SumInv, ReturnsNumPy

LEMMA NextSums == ASSUME WellFormed, SumInv, [Next]_vars PROVE SumInv'
<1>1. UNCHANGED <<floating, arr, op, other, chunked>>
  BY DEF vars, Next, Call, Take, Step, Join, MergeOne, Return
<1>2. Count' = Count /\ Sums' = Sums /\ Summed' = Summed
  BY <1>1, FixedSum
<1>3. CASE ~Summed
  BY <1>2, <1>3 DEF SumInv
<1>4. CASE Summed /\ Next
  BY <1>4, CallSums, TakeSums, StepSums, JoinSums, MergeOneSums, ReturnSums DEF Next
<1>5. CASE Summed /\ UNCHANGED vars
  <2>1. /\ UNCHANGED <<chunked, next, chunk, acc, parts, result, pc, ret>>
        /\ NumPyResult' = NumPyResult /\ Undefined' = Undefined /\ Unordered' = Unordered
    BY <1>1, <1>5, FixedSum DEF vars, Unordered
  <2>2. \A own : (Running(own)' <=> Running(own)) /\ (Merging(own)' <=> Merging(own))
    BY <1>2, <2>1 DEF Running, Merging, Idle
  <2> QED
    BY <1>2, <2>1, <2>2 DEF SumInv, ReturnsNumPy
<1> QED
  BY <1>3, <1>4, <1>5

\* sum, prod, mean, dot and count_nonzero of integers return what NumPy's do, wrapping
\* at 64 bits where NumPy does, on any number of workers, however hpx::reduce,
\* transform_reduce or for_loop cut the array, hand out the chunks and fold the
\* results: no element is folded twice or left out (array.hpp's full reductions).
THEOREM SumsReturnNumPy == Spec => [](Summed => ReturnsNumPy)
<1>1. Init => SumInv
  BY DEF Init, SumInv, ReturnsNumPy
<1>2. WellFormed /\ SumInv /\ [Next]_vars => SumInv'
  BY NextSums
<1>3. SumInv => (Summed => ReturnsNumPy)
  BY DEF SumInv
<1> QED
  BY <1>1, <1>2, <1>3, TypeCorrect, PTL DEF Spec
=============================================================================
