--------------------------- MODULE ArrayView_proofs ---------------------------
(***************************************************************************)
(* Proofs about ArrayView: whatever chain of views and copies derived an   *)
(* array, its size is exact, its elements lie in the buffer it shares, no  *)
(* two of them are the same cell, and a flat loop reads it right when it   *)
(* is contiguous - for every first shape, reshape request, key and rank.   *)
(* The one condition is NoWrap: no count of elements reaches 2^w.          *)
(*                                                                         *)
(* The argument: a layout is sound when distinct multi-indices have        *)
(* distinct offsets, all of them in the buffer. Row-major layouts are      *)
(* sound because their strides are the volumes below each axis, a mixed    *)
(* radix numbering. A view is sound because each of its elements is one    *)
(* element of the array it was taken from: slices select inside an axis,   *)
(* transposition, unit axes and integer indices permute, add or fix axes.  *)
(* FlatToOffset unravels a flat index in the same numbering, so what holds *)
(* of multi-indices holds of the indices 0 .. size - 1 the kernels use.    *)
(*                                                                         *)
(* The reads of an array follow: a view that broadcasting, matmul or a     *)
(* reduction takes with the strides of its axes dropped, doubled or set to *)
(* 0 is the same numbering, with some of its digits left out or repeated.  *)
(*                                                                         *)
(* Last, the array that getitem and to_numpy show implements NumpyArray,   *)
(* call for call with the same arguments.                                  *)
(* A view's element is the element of the array that its strides lead to,  *)
(* and the index of that one is NumPy's: the positions a slice takes are   *)
(* those that PySlice_AdjustIndices steps through, whatever the signs and  *)
(* bounds, and the items of a key fall on the axes NumPy gives them.       *)
(***************************************************************************)
EXTENDS ArrayCalls, FoldTheorems, FunctionTheorems, SequenceTheorems,
        FiniteSetTheorems, TLAPS

-----------------------------------------------------------------------------
(* The folds of NDLayout, as recurrences over the prefixes of a sequence *)

\* The folds: a sum, a product, a product that wraps (a size), a list of axes.
Kinds == {"sum", "product", "size", "axes"}

Step(op, axes, x, y) ==
    CASE op = "sum"     -> x + y
      [] op = "product" -> x * y
      [] op = "size"    -> Mul(x, y)
      [] op = "axes"    -> IF y \in axes THEN Append(x, y) ELSE x

Base(op) == CASE op = "sum" -> 0 [] op = "axes" -> <<>> [] OTHER -> 1

Values(op) == IF op = "axes" THEN Seq(Int) ELSE Int

Folds(g, op, axes, seq) ==
    g = [s \in SUBSET (DOMAIN seq) |->
            IF s = {} THEN Base(op) ELSE Step(op, axes, g[s \ {Max(s)}], seq[Max(s)])]

Folded(op, axes, seq) == (CHOOSE g : Folds(g, op, axes, seq))[DOMAIN seq]

\* The three products and sums of a layout, and its lists of axes, are such folds.
LEMMA SumFolds == ASSUME NEW seq PROVE SumOf(seq) = Folded("sum", {}, seq)
<1> DEFINE Own(g) == g = [s \in SUBSET (DOMAIN seq) |->
                            IF s = {} THEN 0 ELSE g[s \ {Max(s)}] + seq[Max(s)]]
<1>1. SumOf(seq) = (CHOOSE g : Own(g))[DOMAIN seq]
  BY DEF SumOf, FoldLeft, MapThenFoldSet
<1>2. Base("sum") = 0 /\ \A x, y : Step("sum", {}, x, y) = x + y
  BY DEF Base, Step
<1>3. \A g : Own(g) <=> Folds(g, "sum", {}, seq)
  BY <1>2 DEF Folds
<1> HIDE DEF Own
<1>4. (CHOOSE g : Own(g)) = (CHOOSE g : Folds(g, "sum", {}, seq))
  BY <1>3
<1> QED
  BY <1>1, <1>4 DEF Folded

\* The product that does not wrap.
LEMMA CountFolds == ASSUME NEW seq PROVE Count(seq) = Folded("product", {}, seq)
<1> DEFINE Own(g) == g = [s \in SUBSET (DOMAIN seq) |->
                            IF s = {} THEN 1 ELSE g[s \ {Max(s)}] * seq[Max(s)]]
<1>1. Count(seq) = (CHOOSE g : Own(g))[DOMAIN seq]
  BY DEF Count, FoldLeft, MapThenFoldSet
<1>2. Base("product") = 1 /\ \A x, y : Step("product", {}, x, y) = x * y
  BY DEF Base, Step
<1>3. \A g : Own(g) <=> Folds(g, "product", {}, seq)
  BY <1>2 DEF Folds
<1> HIDE DEF Own
<1>4. (CHOOSE g : Own(g)) = (CHOOSE g : Folds(g, "product", {}, seq))
  BY <1>3
<1> QED
  BY <1>1, <1>4 DEF Folded

\* The product that wraps.
LEMMA SizeFolds == ASSUME NEW seq PROVE Product(seq) = Folded("size", {}, seq)
<1> DEFINE Own(g) == g = [s \in SUBSET (DOMAIN seq) |->
                            IF s = {} THEN 1 ELSE Mul(g[s \ {Max(s)}], seq[Max(s)])]
<1>1. Product(seq) = (CHOOSE g : Own(g))[DOMAIN seq]
  BY DEF Product, FoldLeft, MapThenFoldSet
<1>2. Base("size") = 1 /\ \A x, y : Step("size", {}, x, y) = Mul(x, y)
  BY DEF Base, Step
<1>3. \A g : Own(g) <=> Folds(g, "size", {}, seq)
  BY <1>2 DEF Folds
<1> HIDE DEF Own
<1>4. (CHOOSE g : Own(g)) = (CHOOSE g : Folds(g, "size", {}, seq))
  BY <1>3
<1> QED
  BY <1>1, <1>4 DEF Folded

\* The list of a set's axes.
LEMMA AxesFold ==
    ASSUME NEW a, NEW axes
    PROVE  AxesOf(a, axes) = Folded("axes", axes, [k \in DOMAIN a.shape |-> k])
<1> DEFINE seq == [k \in DOMAIN a.shape |-> k]
           Own(g) == g = [s \in SUBSET (DOMAIN seq) |->
                            IF s = {} THEN <<>>
                            ELSE IF seq[Max(s)] \in axes THEN Append(g[s \ {Max(s)}], seq[Max(s)])
                                 ELSE g[s \ {Max(s)}]]
<1>1. AxesOf(a, axes) = (CHOOSE g : Own(g))[DOMAIN seq]
  BY DEF AxesOf, FoldLeft, MapThenFoldSet
<1>2. Base("axes") = <<>>
      /\ \A x, y : Step("axes", axes, x, y) = IF y \in axes THEN Append(x, y) ELSE x
  BY DEF Base, Step
<1> HIDE DEF seq
<1>3. \A g : Own(g) <=> Folds(g, "axes", axes, seq)
  BY <1>2 DEF Folds
<1> HIDE DEF Own
<1>4. (CHOOSE g : Own(g)) = (CHOOSE g : Folds(g, "axes", axes, seq))
  BY <1>3
<1> QED
  BY <1>1, <1>4 DEF Folded, seq

\* A step of a fold stays among its values.
LEMMA StepTakes ==
    ASSUME NEW op \in Kinds, NEW axes, NEW x \in Values(op), NEW y \in Int
    PROVE  Step(op, axes, x, y) \in Values(op) /\ Base(op) \in Values(op)
<1>1. CASE op = "axes"
  <2>1. x \in Seq(Int) /\ Values(op) = Seq(Int) /\ <<>> \in Seq(Int)
    BY <1>1 DEF Values
  <2>2. Append(x, y) \in Seq(Int)
    BY <2>1, AppendProperties
  <2> QED
    BY <1>1, <2>1, <2>2 DEF Step, Base
<1>2. CASE op # "axes"
  <2>1. x \in Int /\ Values(op) = Int
    BY <1>2 DEF Values
  <2>2. x + y \in Int /\ x * y \in Int
    BY <2>1
  <2>3. Mul(x, y) \in Int
    BY <2>2, WordSizeAssumption DEF Mul
  <2> QED
    BY <1>2, <2>1, <2>2, <2>3 DEF Step, Base, Kinds
<1> QED
  BY <1>1, <1>2

\* The fold of a sequence, one element after the other.
Unrolling(f, op, axes, n, seq) ==
    /\ f \in [0 .. n -> Values(op)]
    /\ f[0] = Base(op)
    /\ \A k \in 0 .. n - 1 : f[k + 1] = Step(op, axes, f[k], seq[k + 1])

\* Every fold is its recurrence.
LEMMA Unrolls ==
    ASSUME NEW op \in Kinds, NEW axes, NEW n \in Nat,
           NEW seq, DOMAIN seq = 1 .. n, IntsOn(1 .. n, seq)
    PROVE  \E f : Unrolling(f, op, axes, n, seq) /\ f[n] = Folded(op, axes, seq)
<1> DEFINE D == Values(op)
           Value(g, s) == IF s = {} THEN Base(op) ELSE Step(op, axes, g[s \ {Max(s)}], seq[Max(s)])
           it == CHOOSE g : Folds(g, op, axes, seq)
           F == [p \in (0 .. n) \X D |->
                   IF p[1] = 0 THEN Base(op) ELSE Step(op, axes, p[2], seq[p[1]])]
<1>1. \A i \in 1 .. n : seq[i] \in Int
  BY DEF IntsOn
<1>2. Base(op) \in D
  <2>1. <<>> \in Seq(Int) /\ 0 \in Int /\ 1 \in Int
    OBVIOUS
  <2>2. CASE op = "axes"
    BY <2>1, <2>2 DEF Base, Values
  <2>3. CASE op # "axes"
    <3>1. Base(op) \in {0, 1} /\ Values(op) = Int
      BY <2>3 DEF Base, Values
    <3> QED
      BY <2>1, <3>1
  <2> QED
    BY <2>2, <2>3
<1> HIDE DEF D
<1>3. F \in [(0 .. n) \X D -> D]
  <2>1. ASSUME NEW i \in 0 .. n, NEW x \in D
        PROVE  (IF i = 0 THEN Base(op) ELSE Step(op, axes, x, seq[i])) \in D
    <3>1. CASE i = 0
      BY <1>2, <3>1
    <3>2. CASE i # 0
      <4>1. seq[i] \in Int
        BY <1>1, <3>2
      <4> QED
        BY <3>2, <4>1, StepTakes DEF D
    <3> QED
      BY <3>1, <3>2
  <2> QED
    BY <2>1
<1>4. PICK g \in [SUBSET (0 .. n) -> D] : Greatest(n, Base(op), F, g)
  <2> HIDE DEF F
  <2> QED
    BY <1>2, <1>3, FoldDefined
<1> DEFINE h == [s \in SUBSET (1 .. n) |-> g[s]]
<1>5. ASSUME NEW s \in SUBSET (1 .. n) PROVE h[s] = Value(h, s) /\ h[s] \in D
  <2>1. s \in SUBSET (0 .. n) /\ h[s] = g[s] /\ g[s] \in D
    BY <1>4
  <2>2. CASE s = {}
    BY <1>4, <2>1, <2>2 DEF Greatest
  <2>3. CASE s # {}
    <3>1. Max(s) \in s
      BY <2>1, <2>3, WithoutGreatest
    <3> DEFINE r == s \ {Max(s)}
    <3>2. Max(s) \in 1 .. n
      BY <3>1
    <3>5. r \in SUBSET (1 .. n)
      OBVIOUS
    <3>6. r \in SUBSET (0 .. n) /\ h[r] = g[r] /\ g[r] \in D
      BY <1>4, <3>5
    <3>7. Max(s) # 0 /\ Max(s) \in 0 .. n
      BY <3>2
    <3>3. g[s] = F[<<Max(s), g[r]>>]
      BY <1>4, <2>1, <2>3 DEF Greatest
    <3>4. g[s] = Step(op, axes, g[r], seq[Max(s)])
      BY <3>3, <3>6, <3>7
    <3> QED
      BY <2>1, <2>3, <3>4, <3>6
  <2> QED
    BY <2>2, <2>3
<1> HIDE DEF F
<1>6. Folds(h, op, axes, seq)
  <2>1. h = [s \in SUBSET (1 .. n) |-> h[s]]
    OBVIOUS
  <2> HIDE DEF h
  <2> QED
    BY <1>5, <2>1 DEF Folds
<1>7. Folds(it, op, axes, seq)
  <2> HIDE DEF h
  <2> QED
    BY <1>6
<1> HIDE DEF h, it
<1>8. \A s \in SUBSET (1 .. n) : it[s] = Value(it, s)
  BY <1>7 DEF Folds
<1> DEFINE f == [k \in 0 .. n |-> it[1 .. k]]
<1>9. 1 .. 0 = {} /\ {} \in SUBSET (1 .. n)
  OBVIOUS
<1>10. f[0] = Base(op)
  <2>1. f[0] = it[{}]
    BY <1>9
  <2> QED
    BY <1>8, <1>9, <2>1
<1>11. ASSUME NEW k \in 0 .. n - 1
       PROVE  f[k + 1] = Step(op, axes, f[k], seq[k + 1]) /\ (f[k] \in D => f[k + 1] \in D)
  <2> DEFINE s == 1 .. k + 1
  <2>0. k \in Nat /\ k + 1 <= n
    OBVIOUS
  <2>1. s \in SUBSET (1 .. n) /\ s \in SUBSET (0 .. n) /\ k + 1 \in s /\ s # {}
        /\ \A i \in s : i <= k + 1 /\ i \in Int
    <3>1. k + 1 \in s
      BY <2>0
    <3>2. \A i \in s : i \in 1 .. n /\ i \in 0 .. n /\ i <= k + 1 /\ i \in Int
      BY <2>0
    <3> HIDE DEF s
    <3> QED
      BY <3>1, <3>2
  <2>2. Max(s) = k + 1
    <3> HIDE DEF s
    <3>1. Max(s) \in s /\ \A i \in s : i <= Max(s)
      BY <2>1, GreatestMember
    <3> DEFINE x == Max(s)
    <3>2. x \in s /\ k + 1 <= x
      BY <2>1, <3>1
    <3> HIDE DEF x
    <3>3. x = k + 1
      BY <2>0, <2>1, <3>2
    <3> QED
      BY <3>3 DEF x
  <2>3. s \ {k + 1} = 1 .. k
    BY <2>0
  <2>4. f[k] = it[1 .. k] /\ f[k + 1] = it[s]
    OBVIOUS
  <2> HIDE DEF s, f
  <2>5. f[k + 1] = Step(op, axes, f[k], seq[k + 1])
    BY <1>8, <2>1, <2>2, <2>3, <2>4
  <2>6. seq[k + 1] \in Int
    BY <1>1
  <2> QED
    BY <2>5, <2>6, StepTakes DEF D
<1>12. \A k \in 0 .. n : f[k] \in D
  <2> SUFFICES ASSUME NEW m \in 0 .. n PROVE f[m] \in D
    OBVIOUS
  <2> DEFINE T == {k \in 0 .. n : f[k] \in D}
  <2> HIDE DEF f
  <2>1. 0 \in T
    BY <1>2, <1>10
  <2>2. \A k \in 0 .. m - 1 : k \in T => k + 1 \in T
    BY <1>11
  <2> HIDE DEF T
  <2>3. m \in T
    BY <2>1, <2>2, Reaches
  <2> QED
    BY <2>3 DEF T
<1>13. f \in [0 .. n -> D] /\ f[n] = it[1 .. n]
  <2>1. f = [k \in 0 .. n |-> f[k]] /\ f[n] = it[1 .. n]
    OBVIOUS
  <2> HIDE DEF f
  <2> QED
    BY <1>12, <2>1
<1> HIDE DEF f
<1>14. Unrolling(f, op, axes, n, seq)
  BY <1>10, <1>11, <1>13 DEF Unrolling, D
<1> QED
  BY <1>13, <1>14 DEF Folded, it

-----------------------------------------------------------------------------
(* Sums and products do not depend on the order of their terms *)

Times == [p \in Int \X Int |-> p[1] * p[2]]

Monoidal == {"sum", "product"}

Adder(op) == IF op = "sum" THEN Adding ELSE Times

\* Sums and products are commutative monoids on the integers.
LEMMA Monoids ==
    ASSUME NEW op \in Monoidal
    PROVE  /\ Monoid(Int, Adder(op), Base(op)) /\ op \in Kinds /\ Values(op) = Int
           /\ \A x, y \in Int : Adder(op)[<<x, y>>] = Step(op, {}, x, y)
<1>1. CASE op = "sum"
  <2>1. \A x, y \in Int : Adding[<<x, y>>] = x + y
    BY DEF Adding
  <2>2. Adding \in [Int \X Int -> Int]
    BY DEF Adding
  <2>3. \A x, y \in Int : x + y = y + x /\ 0 + x = x /\ x + y \in Int
    OBVIOUS
  <2>4. \A x, y, z \in Int : (x + y) + z = x + (y + z)
    OBVIOUS
  <2>5. Monoid(Int, Adding, 0)
    BY <2>1, <2>2, <2>3, <2>4 DEF Monoid
  <2>6. Adder(op) = Adding /\ Base(op) = 0 /\ \A x, y : Step(op, {}, x, y) = x + y
    BY <1>1 DEF Adder, Base, Step
  <2> QED
    BY <1>1, <2>1, <2>5, <2>6 DEF Kinds, Values
<1>2. CASE op = "product"
  <2>1. \A x, y \in Int : Times[<<x, y>>] = x * y
    BY DEF Times
  <2>2. Times \in [Int \X Int -> Int]
    BY DEF Times
  <2>3. \A x, y \in Int : x * y = y * x /\ 1 * x = x /\ x * y \in Int
    OBVIOUS
  <2>4. \A x, y, z \in Int : (x * y) * z = x * (y * z)
    OBVIOUS
  <2>5. Monoid(Int, Times, 1)
    BY <2>1, <2>2, <2>3, <2>4 DEF Monoid
  <2>6. Adder(op) = Times /\ Base(op) = 1 /\ \A x, y : Step(op, {}, x, y) = x * y
    BY <1>2 DEF Adder, Base, Step
  <2> QED
    BY <1>2, <2>1, <2>5, <2>6 DEF Kinds, Values
<1> QED
  BY <1>1, <1>2 DEF Monoidal

\* S gives the sum (or the product) of v over every set of indices up to n.
Over(S, op, n, v) == SumsOf(S, n, Int, Adder(op), Base(op), v)

Among(A, n) == A \in SUBSET (0 .. n)
Meetless(A, B) == A \cap B = {}

\* Over no indices, S is the neutral element.
LEMMA OverNone ==
    ASSUME NEW op \in Monoidal, NEW n \in Nat, NEW v, NEW S, Over(S, op, n, v)
    PROVE  S[{}] = Base(op)
BY DEF Over, SumsOf

\* Over two disjoint sets of indices, S is the sum (the product) of the parts.
LEMMA OverBoth ==
    ASSUME NEW op \in Monoidal, NEW n \in Nat, NEW v, NEW S, Over(S, op, n, v),
           NEW A, NEW B, Among(A, n), Among(B, n), Meetless(A, B)
    PROVE  S[A \cup B] = Step(op, {}, S[A], S[B]) /\ S[A] \in Int /\ S[B] \in Int
<1>1. /\ S \in [SUBSET (0 .. n) -> Int] /\ S[{}] = Base(op)
      /\ \A i \in 0 .. n : S[{i}] = v[i]
      /\ \A X, Y \in SUBSET (0 .. n) : X \cap Y = {} => S[X \cup Y] = Adder(op)[<<S[X], S[Y]>>]
  BY DEF Over, SumsOf
<1>2. \A x, y \in Int : Adder(op)[<<x, y>>] = Step(op, {}, x, y)
  BY Monoids
<1>3. A \in SUBSET (0 .. n) /\ B \in SUBSET (0 .. n) /\ A \cap B = {}
  BY DEF Among, Meetless
<1>4. S[A] \in Int /\ S[B] \in Int /\ S[A \cup B] = Adder(op)[<<S[A], S[B]>>]
  BY <1>1, <1>3
<1> QED
  BY <1>2, <1>4

\* Over one index more, S has one term more.
LEMMA OverOne ==
    ASSUME NEW op \in Monoidal, NEW n \in Nat, NEW v, NEW S, Over(S, op, n, v),
           NEW A, NEW i \in 0 .. n, Among(A, n), i \notin A
    PROVE  S[A \cup {i}] = Step(op, {}, S[A], v[i]) /\ S[A] \in Int
<1>1. Among({i}, n) /\ Meetless(A, {i})
  BY DEF Among, Meetless
<1>2. S[{i}] = v[i]
  BY DEF Over, SumsOf
<1> QED
  BY <1>1, <1>2, OverBoth

\* Every v has its sums over sets of indices.
LEMMA OverExists ==
    ASSUME NEW op \in Monoidal, NEW n \in Nat, NEW v \in [0 .. n -> Int]
    PROVE  \E S : Over(S, op, n, v)
BY Monoids, SumsExist DEF Over

\* The members of s are those of v at distinct places p, in some order.
Places(p, m, n) ==
    /\ p \in [1 .. m -> 0 .. n]
    /\ \A i, j \in 1 .. m : p[i] = p[j] => i = j

Follows(u, m, v, p) == DOMAIN u = 1 .. m /\ \A j \in 1 .. m : u[j] = v[p[j]]

Image(p, m) == {p[j] : j \in 1 .. m}

\* A fold over some members of v, in any order, is S of where they stand.
LEMMA Gathers ==
    ASSUME NEW op \in Monoidal, NEW n \in Nat, NEW v, IntsOn(0 .. n, v),
           NEW S, Over(S, op, n, v), NEW m \in Nat, NEW p, Places(p, m, n),
           NEW u, Follows(u, m, v, p)
    PROVE  Folded(op, {}, u) = S[Image(p, m)] /\ Among(Image(p, m), n)
<1>one. ASSUME NEW A, NEW i \in 0 .. n, Among(A, n), i \notin A
        PROVE  S[A \cup {i}] = Step(op, {}, S[A], v[i])
  BY <1>one, OverOne
<1>1. \A j \in 1 .. m : p[j] \in 0 .. n /\ u[j] = v[p[j]] /\ u[j] \in Int
  BY DEF Places, Follows, IntsOn
<1>2. IntsOn(1 .. m, u) /\ DOMAIN u = 1 .. m /\ op \in Kinds
  BY <1>1, Monoids DEF IntsOn, Follows
<1>3. PICK f : Unrolling(f, op, {}, m, u) /\ f[m] = Folded(op, {}, u)
  BY <1>2, Unrolls
<1>4. /\ f[0] = Base(op)
      /\ \A k \in 0 .. m - 1 : f[k + 1] = Step(op, {}, f[k], u[k + 1])
  BY <1>3 DEF Unrolling
<1> DEFINE part(k) == {p[j] : j \in 1 .. k}
           T == {k \in 0 .. m : f[k] = S[part(k)]}
<1>5. 0 \in T
  <2>1. part(0) = {}
    OBVIOUS
  <2>2. f[0] = S[part(0)]
    BY <1>4, <2>1, OverNone
  <2> QED
    BY <2>2
<1>6. ASSUME NEW k \in 0 .. m - 1, k \in T PROVE k + 1 \in T
  <2>1. k \in Nat /\ k + 1 \in 1 .. m /\ k + 1 \in 0 .. m
    OBVIOUS
  <2>2. Among(part(k), n)
    <3>1. \A j \in 1 .. k : j \in 1 .. m
      BY <2>1
    <3> QED
      BY <1>1, <3>1 DEF Among
  <2>3. p[k + 1] \in 0 .. n /\ p[k + 1] \notin part(k)
    <3>1. \A j \in 1 .. k : j \in 1 .. m /\ j # k + 1
      BY <2>1
    <3>2. \A j \in 1 .. k : p[j] # p[k + 1]
      BY <2>1, <3>1 DEF Places
    <3> QED
      BY <1>1, <2>1, <3>2
  <2>4. part(k + 1) = part(k) \cup {p[k + 1]}
    <3>1. 1 .. k + 1 = (1 .. k) \cup {k + 1}
      BY <2>1
    <3> QED
      BY <3>1
  <2>5. u[k + 1] = v[p[k + 1]] /\ f[k] = S[part(k)]
    BY <1>1, <1>6, <2>1
  <2>6. f[k + 1] = Step(op, {}, f[k], u[k + 1])
    BY <1>4
  <2> HIDE DEF part
  <2>7. S[part(k) \cup {p[k + 1]}] = Step(op, {}, S[part(k)], v[p[k + 1]])
    <3> DEFINE A == part(k)
               i == p[k + 1]
    <3>1. Among(A, n) /\ i \in 0 .. n /\ i \notin A
      BY <2>2, <2>3
    <3> HIDE DEF A, i
    <3>2. S[A \cup {i}] = Step(op, {}, S[A], v[i])
      BY <1>one, <3>1
    <3> QED
      BY <3>2 DEF A, i
  <2> QED
    BY <2>1, <2>4, <2>5, <2>6, <2>7
<1>7. m \in T
  <2> HIDE DEF T
  <2> QED
    BY <1>5, <1>6, Reaches
<1>8. Among(Image(p, m), n)
  BY <1>1 DEF Image, Among
<1> QED
  BY <1>3, <1>7, <1>8 DEF Image

\* Terms that add nothing.
Idle(A, v, op) == \A i \in A : v[i] = Base(op)

\* Neutral terms add nothing.
LEMMA Nothing ==
    ASSUME NEW op \in Monoidal, NEW n \in Nat, NEW v,
           NEW S, Over(S, op, n, v), NEW A, Among(A, n), Idle(A, v, op)
    PROVE  S[A] = Base(op)
<1> DEFINE part(k) == {i \in A : i < k}
           T == {k \in 0 .. n + 1 : S[part(k)] = Base(op)}
<1>0. \A i \in A : i \in 0 .. n /\ i \in Nat /\ i >= 0 /\ i <= n /\ v[i] = Base(op)
  BY DEF Among, Idle
<1>1. 0 \in T
  <2>1. part(0) = {}
    BY <1>0
  <2>2. S[part(0)] = Base(op)
    BY <2>1, OverNone
  <2> QED
    BY <2>2
<1>2. ASSUME NEW k \in 0 .. n, k \in T PROVE k + 1 \in T
  <2>1. k \in Nat /\ k + 1 \in 0 .. n + 1 /\ k \in 0 .. n
    OBVIOUS
  <2>4. Among(part(k), n) /\ k \notin part(k)
    <3>1. k \notin part(k)
      BY <2>1
    <3>2. \A i \in part(k) : i \in 0 .. n
      BY <1>0
    <3> HIDE DEF part
    <3> QED
      BY <3>1, <3>2 DEF Among
  <2>2. CASE k \in A
    <3>1. part(k + 1) = part(k) \cup {k}
      <4>1. \A i \in A : i < k + 1 <=> (i < k \/ i = k)
        BY <1>0, <2>1
      <4> QED
        BY <2>2, <4>1
    <3>2. S[part(k)] = Base(op) /\ v[k] = Base(op)
      BY <1>0, <1>2, <2>2
    <3>3. S[part(k) \cup {k}] = Step(op, {}, S[part(k)], v[k])
      <4> HIDE DEF part
      <4> QED
        BY <2>1, <2>4, OverOne
    <3>4. Step(op, {}, Base(op), Base(op)) = Base(op)
      BY DEF Step, Base, Monoidal
    <3> QED
      BY <2>1, <3>1, <3>2, <3>3, <3>4
  <2>3. CASE k \notin A
    <3>1. part(k + 1) = part(k)
      <4>1. \A i \in A : i < k + 1 <=> i < k
        BY <1>0, <2>1, <2>3
      <4> QED
        BY <4>1
    <3> QED
      BY <1>2, <2>1, <3>1
  <2> QED
    BY <2>2, <2>3
<1>3. n + 1 \in T
  <2>1. n + 1 \in Nat /\ (n + 1) - 1 = n
    OBVIOUS
  <2> HIDE DEF T
  <2> QED
    BY <1>1, <1>2, <2>1, Reaches
<1>4. part(n + 1) = A
  <2>1. \A i \in A : i < n + 1
    BY <1>0
  <2> QED
    BY <2>1
<1> QED
  BY <1>3, <1>4

\* v with a term 0 that adds nothing.
Padded(op, n, v) == [i \in 0 .. n |-> IF i = 0 THEN Base(op) ELSE v[i]]

\* What a sequence is with a neutral term before its first.
LEMMA Padding ==
    ASSUME NEW op \in Monoidal, NEW n \in Nat, NEW v, IntsOn(1 .. n, v)
    PROVE  /\ Padded(op, n, v) \in [0 .. n -> Int]
           /\ IntsOn(0 .. n, Padded(op, n, v))
           /\ Padded(op, n, v)[0] = Base(op)
           /\ \A i \in 1 .. n : Padded(op, n, v)[i] = v[i]
<1>1. Base(op) \in Int
  BY DEF Base, Monoidal
<1>2. \A i \in 0 .. n : i # 0 => v[i] \in Int
  BY DEF IntsOn
<1> QED
  BY <1>1, <1>2 DEF Padded, IntsOn

\* No place is the added term 0.
Within(p, m, n) == \A j \in 1 .. m : p[j] \in 1 .. n

\* The members of u are those of v but for the terms that add nothing.
Shuffles(u, m, v, n, p, op) ==
    /\ DOMAIN v = 1 .. n
    /\ IntsOn(1 .. n, v)
    /\ Places(p, m, n)
    /\ Within(p, m, n)
    /\ Follows(u, m, v, p)
    /\ Idle((1 .. n) \ Image(p, m), v, op)

\* Such terms need not be counted, and the others in any order.
LEMMA Rearranged ==
    ASSUME NEW op \in Monoidal, NEW n \in Nat, NEW m \in Nat,
           NEW u, NEW v, NEW p, Shuffles(u, m, v, n, p, op)
    PROVE  Folded(op, {}, u) = Folded(op, {}, v)
<1>0. /\ DOMAIN v = 1 .. n /\ IntsOn(1 .. n, v) /\ Places(p, m, n) /\ Within(p, m, n)
      /\ Follows(u, m, v, p) /\ Idle((1 .. n) \ Image(p, m), v, op)
  BY DEF Shuffles
<1> DEFINE w == Padded(op, n, v)
           q == [k \in 1 .. n |-> k]
<1>1. /\ w \in [0 .. n -> Int] /\ IntsOn(0 .. n, w) /\ w[0] = Base(op)
      /\ \A i \in 1 .. n : w[i] = v[i]
  BY <1>0, Padding
<1> HIDE DEF w
<1>2. PICK S : Over(S, op, n, w)
  BY <1>1, OverExists
<1>3. Follows(u, m, w, p)
  BY <1>0, <1>1 DEF Follows, Within
<1>4. Folded(op, {}, u) = S[Image(p, m)] /\ Among(Image(p, m), n)
  BY <1>0, <1>1, <1>2, <1>3, Gathers
<1>5. Places(q, n, n) /\ Follows(v, n, w, q) /\ Image(q, n) = 1 .. n
  <2>1. \A k \in 1 .. n : k \in 0 .. n /\ q[k] = k
    OBVIOUS
  <2>2. Places(q, n, n)
    BY <2>1 DEF Places
  <2> HIDE DEF q
  <2> QED
    BY <1>0, <1>1, <2>1, <2>2 DEF Follows, Image
<1> HIDE DEF q
<1>6. Folded(op, {}, v) = S[1 .. n]
  BY <1>1, <1>2, <1>5, Gathers
<1> DEFINE A == Image(p, m)
           B == (1 .. n) \ A
<1>7. A \in SUBSET (1 .. n)
  BY <1>0 DEF Image, Within
<1>8. S[B] = Base(op)
  <2>1. Among(B, n)
    BY DEF Among
  <2>2. Idle(B, w, op)
    BY <1>0, <1>1 DEF Idle
  <2> HIDE DEF A, B
  <2> QED
    BY <1>2, <2>1, <2>2, Nothing
<1>9. S[A \cup B] = Step(op, {}, S[A], S[B]) /\ S[A] \in Int
  <2>1. Among(B, n) /\ Among(A, n) /\ Meetless(A, B)
    BY <1>4 DEF Among, Meetless
  <2> HIDE DEF A, B
  <2> QED
    BY <1>2, <2>1, OverBoth
<1>10. A \cup B = 1 .. n
  BY <1>7
<1>11. \A x \in Int : Step(op, {}, x, Base(op)) = x
  BY DEF Step, Base, Monoidal
<1> QED
  BY <1>4, <1>6, <1>8, <1>9, <1>10, <1>11

-----------------------------------------------------------------------------
(* Division, and sizes that do not wrap *)

\* Quotient and remainder.
LEMMA Division ==
    ASSUME NEW x \in Int, NEW w \in Nat, w > 0
    PROVE  /\ x \div w \in Int /\ x % w \in Int
           /\ x = (x \div w) * w + (x % w) /\ 0 <= x % w /\ x % w < w
  OBVIOUS

\* There is no other quotient and remainder.
LEMMA DivisionUnique ==
    ASSUME NEW x \in Int, NEW w \in Nat, w > 0, NEW q \in Int, NEW r \in Int,
           x = q * w + r, 0 <= r, r < w
    PROVE  x \div w = q /\ x % w = r
<1> DEFINE Q == x \div w
           P == x % w
<1>1. Q \in Int /\ P \in Int /\ x = Q * w + P /\ 0 <= P /\ P < w
  BY Division
<1> HIDE DEF Q, P
<1>2. (q - Q) * w = P - r /\ -w < P - r /\ P - r < w
  BY <1>1
<1>3. q - Q = 0
  <2> DEFINE d == q - Q
  <2>1. d \in Int /\ d * w = P - r
    BY <1>1, <1>2
  <2> HIDE DEF d
  <2>2. d >= 1 => d * w >= w
    BY <2>1
  <2>3. d <= -1 => d * w <= -w
    BY <2>1
  <2>4. d = 0
    BY <1>1, <1>2, <2>1, <2>2, <2>3
  <2> QED
    BY <2>4 DEF d
<1>4. q = Q /\ P = r
  BY <1>1, <1>2, <1>3
<1> QED
  BY <1>4 DEF Q, P

\* Reducing a factor first does not change a product modulo w.
LEMMA ModOfMod ==
    ASSUME NEW x \in Int, NEW y \in Int, NEW w \in Nat, w > 0
    PROVE  ((x % w) * y) % w = (x * y) % w
<1> DEFINE q == x \div w
           r == x % w
           Q == (r * y) \div w
           P == (r * y) % w
<1>1. q \in Int /\ r \in Int /\ x = q * w + r
  BY Division
<1> HIDE DEF q, r
<1>2. r * y \in Int
  BY <1>1
<1>3. Q \in Int /\ P \in Int /\ r * y = Q * w + P /\ 0 <= P /\ P < w
  BY <1>2, Division
<1> HIDE DEF Q, P
<1>4. x * y = (q * y + Q) * w + P
  <2>1. x * y = (q * w + r) * y
    BY <1>1
  <2>2. (q * w + r) * y = (q * y) * w + r * y
    BY <1>1
  <2>3. q * y \in Int
    BY <1>1
  <2>4. (q * y) * w + (Q * w + P) = (q * y + Q) * w + P
    BY <1>3, <2>3
  <2> QED
    BY <1>3, <2>1, <2>2, <2>4
<1>5. q * y + Q \in Int /\ x * y \in Int
  BY <1>1, <1>3
<1>6. (x * y) % w = P
  BY <1>3, <1>4, <1>5, DivisionUnique
<1> QED
  BY <1>6 DEF P, r

\* Numbers of elements below 2^w are counted exactly.
LEMMA ProductExact ==
    ASSUME NEW shape \in Seq(Nat), Count(shape) < WordSize
    PROVE  Product(shape) = Count(shape) /\ Count(shape) \in Nat
<1> DEFINE n == Len(shape)
<1>1. n \in Nat /\ DOMAIN shape = 1 .. n /\ \A i \in 1 .. n : shape[i] \in Nat
  BY LenProperties, ElementOfSeq
<1> HIDE DEF n
<1>2. IntsOn(1 .. n, shape)
  BY <1>1 DEF IntsOn
<1>3. "product" \in Kinds /\ "size" \in Kinds /\ Values("product") = Int /\ Values("size") = Int
  BY DEF Kinds, Values
<1>4. PICK f : Unrolling(f, "product", {}, n, shape) /\ f[n] = Count(shape)
  BY <1>1, <1>2, <1>3, Unrolls, CountFolds
<1>5. PICK g : Unrolling(g, "size", {}, n, shape) /\ g[n] = Product(shape)
  BY <1>1, <1>2, <1>3, Unrolls, SizeFolds
<1>6. /\ f \in [0 .. n -> Int] /\ g \in [0 .. n -> Int] /\ f[0] = 1 /\ g[0] = 1
      /\ \A k \in 0 .. n - 1 : /\ f[k + 1] = f[k] * shape[k + 1]
                               /\ g[k + 1] = (g[k] * shape[k + 1]) % WordSize
  BY <1>3, <1>4, <1>5 DEF Unrolling, Step, Base, Mul
<1>7. WordSize \in Nat /\ WordSize > 0
  BY WordSizeAssumption
<1> DEFINE T == {k \in 0 .. n : f[k] \in Nat /\ g[k] \in Int /\ g[k] % WordSize = f[k] % WordSize
                                /\ (k > 0 => g[k] \in 0 .. WordSize - 1)}
<1>8. 0 \in T
  BY <1>1, <1>6
<1>9. ASSUME NEW k \in 0 .. n - 1, k \in T PROVE k + 1 \in T
  <2> DEFINE d == shape[k + 1]
             x == f[k]
             y == g[k]
             z == f[k + 1]
             u == g[k + 1]
  <2>1. d \in Nat /\ x \in Nat /\ y \in Int /\ z = x * d /\ u = (y * d) % WordSize
        /\ y % WordSize = x % WordSize /\ k + 1 \in 0 .. n
    <3>1. k + 1 \in 1 .. n /\ k + 1 \in 0 .. n
      BY <1>1
    <3> QED
      BY <1>1, <1>6, <1>9, <3>1
  <2> HIDE DEF d, x, y, z, u
  <2>2. z \in Nat /\ y * d \in Int
    BY <2>1
  <2>3. u \in Int /\ 0 <= u /\ u < WordSize
    BY <1>7, <2>1, <2>2, Division
  <2>4. u % WordSize = u
    <3>1. u = 0 * WordSize + u /\ 0 \in Int
      BY <1>7, <2>3
    <3> QED
      BY <1>7, <2>3, <3>1, DivisionUnique
  <2>5. u = z % WordSize
    <3>1. (y * d) % WordSize = ((y % WordSize) * d) % WordSize
      BY <1>7, <2>1, ModOfMod
    <3>2. (x * d) % WordSize = ((x % WordSize) * d) % WordSize
      BY <1>7, <2>1, ModOfMod
    <3> QED
      BY <2>1, <3>1, <3>2
  <2>6. u \in 0 .. WordSize - 1
    BY <1>7, <2>3
  <2> QED
    BY <2>1, <2>2, <2>3, <2>4, <2>5, <2>6 DEF z, u
<1>10. n \in T
  <2> HIDE DEF T
  <2> QED
    BY <1>1, <1>8, <1>9, Reaches
<1> DEFINE x == f[n]
           y == g[n]
<1>11. x \in Nat /\ y \in Int /\ y % WordSize = x % WordSize /\ x < WordSize
       /\ (n > 0 => y \in 0 .. WordSize - 1) /\ (n = 0 => y = x)
  BY <1>4, <1>6, <1>10
<1> HIDE DEF x, y
<1>12. x % WordSize = x
  <2>1. x = 0 * WordSize + x /\ 0 \in Int /\ x \in Int /\ 0 <= x
    BY <1>7, <1>11
  <2> QED
    BY <1>7, <1>11, <2>1, DivisionUnique
<1>13. x = y
  <2>1. CASE n > 0
    <3>1. y = 0 * WordSize + y /\ 0 \in Int /\ 0 <= y /\ y < WordSize
      BY <1>7, <1>11, <2>1
    <3>2. y % WordSize = y
      BY <1>7, <1>11, <3>1, DivisionUnique
    <3> QED
      BY <1>11, <1>12, <3>2
  <2> QED
    BY <1>1, <1>11, <2>1
<1> QED
  BY <1>4, <1>5, <1>11, <1>13 DEF x, y

-----------------------------------------------------------------------------
(* The volumes below each axis *)

Radix(R, n, shape) ==
    /\ R \in [0 .. n -> Nat]
    /\ R[n] = 1
    /\ \A k \in 1 .. n : R[k - 1] = shape[k] * R[k]

\* Every shape has its volumes, and they are what row-major strides are.
LEMMA Radices ==
    ASSUME NEW shape \in Seq(Nat)
    PROVE  \E R : /\ Radix(R, Len(shape), shape)
                  /\ R[0] = Count(shape)
                  /\ \A k \in 1 .. Len(shape) : Count(SubSeq(shape, k + 1, Len(shape))) = R[k]
<1> DEFINE n == Len(shape)
           w == Padded("product", n, shape)
           q == [k \in 1 .. n |-> k]
<1>1. n \in Nat /\ DOMAIN shape = 1 .. n /\ \A i \in 1 .. n : shape[i] \in Nat /\ shape[i] \in Int
  BY LenProperties, ElementOfSeq
<1> HIDE DEF n
<1>2. "product" \in Monoidal /\ Base("product") = 1 /\ \A x, y : Step("product", {}, x, y) = x * y
  BY DEF Monoidal, Base, Step
<1>3. /\ w \in [0 .. n -> Int] /\ IntsOn(0 .. n, w)
      /\ \A i \in 1 .. n : w[i] = shape[i]
  <2>1. IntsOn(1 .. n, shape)
    BY <1>1 DEF IntsOn
  <2> QED
    BY <1>1, <1>2, <2>1, Padding
<1> HIDE DEF w
<1>4. PICK S : Over(S, "product", n, w)
  BY <1>1, <1>2, <1>3, OverExists
<1> DEFINE R == [k \in 0 .. n |-> S[k + 1 .. n]]
<1>5. R[n] = 1
  <2>1. n + 1 .. n = {} /\ n \in 0 .. n
    BY <1>1
  <2>2. S[{}] = 1
    BY <1>1, <1>2, <1>4, OverNone
  <2> QED
    BY <2>1, <2>2
<1>6. ASSUME NEW k \in 1 .. n PROVE R[k - 1] = shape[k] * R[k] /\ R[k] \in Int
  <2> DEFINE A == k + 1 .. n
  <2>1. Among(A, n) /\ k \in 0 .. n /\ k \notin A
    BY <1>1 DEF Among
  <2>2. A \cup {k} = (k - 1) + 1 .. n /\ k - 1 \in 0 .. n
    BY <1>1
  <2>3. R[k] = S[A] /\ R[k - 1] = S[A \cup {k}]
    BY <2>1, <2>2
  <2> HIDE DEF A, R
  <2>4. S[A \cup {k}] = Step("product", {}, S[A], w[k]) /\ S[A] \in Int
    BY <1>1, <1>2, <1>4, <2>1, OverOne
  <2>5. w[k] = shape[k] /\ shape[k] \in Int
    BY <1>1, <1>3
  <2>6. S[A] * shape[k] = shape[k] * S[A]
    BY <2>4, <2>5
  <2> QED
    BY <1>2, <2>3, <2>4, <2>5, <2>6
<1>7. \A k \in 0 .. n : R[k] \in Nat
  <2> SUFFICES ASSUME NEW m \in 0 .. n PROVE R[m] \in Nat
    OBVIOUS
  <2> HIDE DEF R
  <2> DEFINE T == {j \in 0 .. n : R[n - j] \in Nat}
  <2>1. 0 \in T
    BY <1>1, <1>5
  <2>2. ASSUME NEW j \in 0 .. (n - m) - 1, j \in T PROVE j + 1 \in T
    <3> DEFINE k == n - j
    <3>1. k \in 1 .. n /\ k - 1 = n - (j + 1) /\ R[k] \in Nat /\ j + 1 \in 0 .. n
      BY <1>1, <2>2
    <3>2. R[k - 1] = shape[k] * R[k] /\ shape[k] \in Nat
      BY <1>1, <1>6, <3>1
    <3> HIDE DEF k
    <3>3. R[k - 1] \in Nat
      BY <3>1, <3>2
    <3> QED
      BY <3>1, <3>3
  <2>3. n - m \in Nat
    BY <1>1
  <2>4. n - m \in T
    <3> HIDE DEF T
    <3> QED
      BY <2>1, <2>2, <2>3, Reaches
  <2> QED
    BY <1>1, <2>4
<1>8. Radix(R, n, shape)
  <2>1. R = [k \in 0 .. n |-> R[k]]
    OBVIOUS
  <2> HIDE DEF R
  <2> QED
    BY <1>5, <1>6, <1>7, <2>1 DEF Radix
<1>9. R[0] = Count(shape)
  <2>1. Places(q, n, n) /\ Follows(shape, n, w, q) /\ Image(q, n) = 1 .. n
    BY <1>1, <1>3 DEF Places, Follows, Image
  <2> HIDE DEF q
  <2>2. Folded("product", {}, shape) = S[1 .. n]
    BY <1>1, <1>2, <1>3, <1>4, <2>1, Gathers
  <2>3. R[0] = S[1 .. n]
    BY <1>1
  <2> QED
    BY <2>2, <2>3, CountFolds
<1>10. ASSUME NEW k \in 1 .. n PROVE Count(SubSeq(shape, k + 1, n)) = R[k]
  <2> DEFINE u == SubSeq(shape, k + 1, n)
             m == n - k
             p == [j \in 1 .. m |-> k + j]
  <2>1. k \in Nat /\ k <= n /\ m \in Nat
    BY <1>1
  <2>2. \A i \in k + 1 .. n : i \in 1 .. n
    BY <2>1
  <2>3. /\ u \in Seq(Nat) /\ Len(u) = IF k + 1 <= n THEN n - (k + 1) + 1 ELSE 0
        /\ \A i \in 1 .. n - (k + 1) + 1 : u[i] = shape[(k + 1) + i - 1]
    <3>1. k + 1 \in Int /\ n \in Int /\ \A i \in k + 1 .. n : shape[i] \in Nat
      BY <1>1, <2>1, <2>2
    <3> QED
      BY <3>1, SubSeqProperties
  <2> HIDE DEF u
  <2>4. DOMAIN u = 1 .. m
    <3>1. Len(u) = m
      BY <1>1, <2>1, <2>3
    <3> QED
      BY <2>3, <3>1, LenProperties
  <2>5. ASSUME NEW j \in 1 .. m PROVE p[j] = k + j /\ k + j \in 1 .. n /\ u[j] = w[k + j]
    <3>1. j \in 1 .. n - (k + 1) + 1 /\ (k + 1) + j - 1 = k + j /\ k + j \in 1 .. n
      BY <1>1, <2>1
    <3> QED
      BY <1>3, <2>3, <3>1
  <2>6. Follows(u, m, w, p)
    BY <2>4, <2>5 DEF Follows
  <2>7. Places(p, m, n)
    <3>1. \A j \in 1 .. m : k + j \in 0 .. n
      BY <1>1, <2>1
    <3> QED
      BY <2>1, <3>1 DEF Places
  <2>8. Image(p, m) = k + 1 .. n
    <3>1. \A i \in k + 1 .. n : i - k \in 1 .. m /\ k + (i - k) = i
      BY <1>1, <2>1
    <3>2. \A j \in 1 .. m : k + j \in k + 1 .. n
      BY <1>1, <2>1
    <3> QED
      BY <3>1, <3>2 DEF Image
  <2> HIDE DEF m, p
  <2>9. Folded("product", {}, u) = S[k + 1 .. n]
    BY <1>1, <1>2, <1>3, <1>4, <2>1, <2>6, <2>7, <2>8, Gathers
  <2>10. R[k] = S[k + 1 .. n]
    BY <1>1
  <2> QED
    BY <2>9, <2>10, CountFolds DEF u
<1> HIDE DEF R
<1> QED
  BY <1>8, <1>9, <1>10 DEF n

\* The multi-indices of a shape.
Box(shape) == {c \in [1 .. Len(shape) -> Nat] : \A k \in 1 .. Len(shape) : c[k] < shape[k]}

\* Each coordinate of a multi-index is below its extent.
LEMMA BoxTakes ==
    ASSUME NEW shape \in Seq(Nat), NEW c \in Box(shape)
    PROVE  /\ DOMAIN c = 1 .. Len(shape) /\ Len(shape) \in Nat
           /\ \A k \in 1 .. Len(shape) : c[k] \in Nat /\ shape[k] \in Nat /\ c[k] < shape[k]
<1>1. Len(shape) \in Nat /\ \A k \in 1 .. Len(shape) : shape[k] \in Nat
  BY LenProperties, ElementOfSeq
<1> QED
  BY <1>1 DEF Box

\* A sum of products, one axis after the other.
Along(f, n, c, strides) ==
    /\ f \in [0 .. n -> Int]
    /\ f[0] = 0
    /\ \A k \in 1 .. n : f[k] = f[k - 1] + c[k] * strides[k]

\* A linear offset is such a sum.
LEMMA OffsetAlong ==
    ASSUME NEW n \in Nat, NEW c, DOMAIN c = 1 .. n, IntsOn(1 .. n, c),
           NEW strides, IntsOn(1 .. n, strides)
    PROVE  \E f : Along(f, n, c, strides) /\ f[n] = LinearOffset(c, strides)
<1> DEFINE u == [k \in DOMAIN c |-> c[k] * strides[k]]
<1>1. DOMAIN u = 1 .. n /\ IntsOn(1 .. n, u) /\ \A k \in 1 .. n : u[k] = c[k] * strides[k]
  <2>1. \A k \in 1 .. n : c[k] \in Int /\ strides[k] \in Int
    BY DEF IntsOn
  <2>2. \A k \in 1 .. n : c[k] * strides[k] \in Int
    BY <2>1
  <2> QED
    BY <2>2 DEF IntsOn
<1>2. LinearOffset(c, strides) = Folded("sum", {}, u)
  BY SumFolds DEF LinearOffset
<1> HIDE DEF u
<1>3. "sum" \in Kinds /\ Values("sum") = Int /\ Base("sum") = 0
      /\ \A x, y : Step("sum", {}, x, y) = x + y
  BY DEF Kinds, Values, Base, Step
<1>4. PICK f : Unrolling(f, "sum", {}, n, u) /\ f[n] = Folded("sum", {}, u)
  BY <1>1, <1>3, Unrolls
<1>5. f \in [0 .. n -> Int] /\ f[0] = 0 /\ \A k \in 0 .. n - 1 : f[k + 1] = f[k] + u[k + 1]
  BY <1>3, <1>4 DEF Unrolling
<1>6. ASSUME NEW k \in 1 .. n PROVE f[k] = f[k - 1] + c[k] * strides[k]
  <2>1. k - 1 \in 0 .. n - 1 /\ (k - 1) + 1 = k
    OBVIOUS
  <2> QED
    BY <1>1, <1>5, <2>1
<1>7. Along(f, n, c, strides)
  BY <1>5, <1>6 DEF Along
<1> QED
  BY <1>2, <1>4, <1>7

\* A shape with elements has positive extents and volumes.
LEMMA RadixGrows ==
    ASSUME NEW n \in Nat, NEW R, NEW shape \in Seq(Nat), Len(shape) = n,
           Radix(R, n, shape), R[0] > 0
    PROVE  /\ \A k \in 0 .. n : R[k] \in Nat /\ R[k] > 0 /\ R[k] <= R[0]
           /\ \A k \in 1 .. n : shape[k] \in Nat /\ shape[k] > 0
<1>1. \A k \in 1 .. n : shape[k] \in Nat
  BY ElementOfSeq
<1>2. R \in [0 .. n -> Nat] /\ \A k \in 1 .. n : R[k - 1] = shape[k] * R[k]
  BY DEF Radix
<1>3. ASSUME NEW k \in 1 .. n, R[k - 1] > 0
      PROVE  shape[k] > 0 /\ R[k] > 0 /\ R[k] <= R[k - 1]
  <2> DEFINE d == shape[k]
             x == R[k]
             y == R[k - 1]
  <2>1. d \in Nat /\ x \in Nat /\ y = d * x /\ y > 0 /\ y \in Nat
    <3>1. k \in 0 .. n /\ k - 1 \in 0 .. n
      OBVIOUS
    <3> QED
      BY <1>1, <1>2, <1>3, <3>1
  <2> HIDE DEF d, x, y
  <2>2. d # 0 /\ x # 0
    BY <2>1
  <2>3. d > 0 /\ x > 0 /\ d * x >= x
    BY <2>1, <2>2
  <2> QED
    BY <2>1, <2>3 DEF d, x, y
<1> DEFINE T == {k \in 0 .. n : R[k] > 0 /\ R[k] <= R[0]}
<1>4. 0 \in T
  BY <1>2
<1>5. ASSUME NEW k \in 0 .. n - 1, k \in T PROVE k + 1 \in T
  <2>1. k + 1 \in 1 .. n /\ (k + 1) - 1 = k /\ k + 1 \in 0 .. n /\ k \in 0 .. n /\ 0 \in 0 .. n
    OBVIOUS
  <2>2. R[k + 1] > 0 /\ R[k + 1] <= R[k]
    BY <1>3, <1>5, <2>1
  <2>3. R[k + 1] \in Nat /\ R[k] \in Nat /\ R[0] \in Nat /\ R[k] <= R[0]
    BY <1>2, <1>5, <2>1
  <2> QED
    BY <2>1, <2>2, <2>3
<1>6. ASSUME NEW m \in 0 .. n PROVE m \in T
  <2>1. m \in Nat /\ \A k \in 0 .. m - 1 : k \in 0 .. n - 1
    OBVIOUS
  <2>2. \A k \in 0 .. m - 1 : k \in T => k + 1 \in T
    BY <1>5, <2>1
  <2> HIDE DEF T
  <2> QED
    BY <1>4, <2>1, <2>2, Reaches
<1>7. \A k \in 0 .. n : R[k] \in Nat /\ R[k] > 0 /\ R[k] <= R[0]
  BY <1>2, <1>6
<1>8. ASSUME NEW k \in 1 .. n PROVE shape[k] > 0
  <2>1. k - 1 \in 0 .. n
    OBVIOUS
  <2> QED
    BY <1>3, <1>7, <2>1
<1> QED
  BY <1>1, <1>7, <1>8

\* (x % (s * w)) % w is x % w.
LEMMA ModOfMultiple ==
    ASSUME NEW x \in Int, NEW s \in Nat, NEW w \in Nat, s > 0, w > 0
    PROVE  (x % (s * w)) % w = x % w
<1> DEFINE v == s * w
           Q == x \div v
           P == x % v
           a == P \div w
           b == P % w
<1>1. v \in Nat /\ v > 0
  BY DEF v
<1> HIDE DEF v
<1>2. Q \in Int /\ P \in Int /\ x = Q * v + P
  BY <1>1, Division
<1> HIDE DEF Q, P
<1>3. a \in Int /\ b \in Int /\ P = a * w + b /\ 0 <= b /\ b < w
  BY <1>2, Division
<1> HIDE DEF a, b
<1>4. x = (Q * s + a) * w + b
  <2>1. Q * v = (Q * s) * w
    BY <1>2 DEF v
  <2>2. Q * s \in Int
    BY <1>2
  <2>3. (Q * s) * w + (a * w + b) = (Q * s + a) * w + b
    BY <1>3, <2>2
  <2> QED
    BY <1>2, <1>3, <2>1, <2>3
<1>5. Q * s + a \in Int
  BY <1>2, <1>3
<1>6. x % w = b
  BY <1>3, <1>4, <1>5, DivisionUnique
<1> QED
  BY <1>6 DEF b, P, v

\* What is left of flat index i below axis k.
Rest(i, n, R, rem) ==
    rem = [k \in 1 .. n |-> IF k = 1 THEN i ELSE rem[k - 1] % R[k - 1]]

\* What the outer axes left of a flat index, axis by axis.
LEMMA RestExists ==
    ASSUME NEW n \in Nat, NEW R, NEW shape \in Seq(Nat), Len(shape) = n,
           Radix(R, n, shape), R[0] > 0, NEW i \in Nat
    PROVE  \E rem : Rest(i, n, R, rem)
<1> DEFINE h == [k \in 1 .. n |-> IF k = 1 THEN i ELSE i % R[k - 1]]
<1>1. /\ \A k \in 0 .. n : R[k] \in Nat /\ R[k] > 0
      /\ \A k \in 1 .. n : shape[k] \in Nat /\ shape[k] > 0
  BY RadixGrows
<1>2. \A k \in 1 .. n : R[k - 1] = shape[k] * R[k]
  BY DEF Radix
<1>3. ASSUME NEW k \in 1 .. n, k # 1 PROVE h[k - 1] % R[k - 1] = i % R[k - 1]
  <2>1. k - 1 \in 1 .. n /\ k - 1 \in 0 .. n /\ (k - 1) - 1 = k - 2
    BY <1>3
  <2>2. CASE k = 2
    <3>1. h[k - 1] = i
      BY <2>1, <2>2
    <3> QED
      BY <3>1
  <2>3. CASE k # 2
    <3> DEFINE w == R[k - 1]
               d == shape[k - 1]
    <3>1. h[k - 1] = i % R[k - 2]
      BY <1>3, <2>1, <2>3
    <3>2. R[k - 2] = d * w
      BY <1>2, <2>1
    <3>3. d \in Nat /\ d > 0 /\ w \in Nat /\ w > 0 /\ i \in Int
      BY <1>1, <2>1
    <3> HIDE DEF d, w, h
    <3>4. (i % (d * w)) % w = i % w
      BY <3>3, ModOfMultiple
    <3> QED
      BY <3>1, <3>2, <3>4 DEF w
  <2> QED
    BY <2>2, <2>3
<1>4. \A k \in 1 .. n : h[k] = IF k = 1 THEN i ELSE h[k - 1] % R[k - 1]
  <2> SUFFICES ASSUME NEW k \in 1 .. n
               PROVE  h[k] = IF k = 1 THEN i ELSE h[k - 1] % R[k - 1]
    OBVIOUS
  <2>1. h[k] = IF k = 1 THEN i ELSE i % R[k - 1]
    OBVIOUS
  <2> HIDE DEF h
  <2> QED
    BY <1>3, <2>1
<1>5. h = [k \in 1 .. n |-> h[k]]
  OBVIOUS
<1> HIDE DEF h
<1>6. Rest(i, n, R, h)
  BY <1>4, <1>5 DEF Rest
<1> QED
  BY <1>6

\* The multi-index of flat index i, and its offset.
Unravels(c, i, n, R, shape, aux) ==
    /\ c \in Box(shape)
    /\ LinearOffset(c, aux) = i
    /\ \A strides : FlatToOffset(i, strides, aux) = LinearOffset(c, strides)

\* Each flat index has coordinates, those that FlatToOffset divides out.
LEMMA Unravel ==
    ASSUME NEW n \in Nat, NEW R, NEW shape \in Seq(Nat), Len(shape) = n,
           Radix(R, n, shape), R[0] > 0, NEW i \in 0 .. R[0] - 1,
           NEW aux, DOMAIN aux = 1 .. n, \A k \in 1 .. n : aux[k] = R[k]
    PROVE  \E c : Unravels(c, i, n, R, shape, aux)
<1> DEFINE Own(g) == g = [k \in DOMAIN aux |-> IF k = 1 THEN i ELSE g[k - 1] % aux[k - 1]]
           rem == CHOOSE g : Own(g)
           c == [k \in 1 .. n |-> rem[k] \div aux[k]]
           r == [k \in 0 .. n |-> IF k = 0 THEN i ELSE rem[k] % aux[k]]
<1>1. /\ \A k \in 0 .. n : R[k] \in Nat /\ R[k] > 0
      /\ \A k \in 1 .. n : shape[k] \in Nat /\ shape[k] > 0
  BY RadixGrows
<1>2. R[n] = 1 /\ \A k \in 1 .. n : R[k - 1] = shape[k] * R[k]
  BY DEF Radix
<1>i. i \in Nat /\ i < R[0]
  BY <1>1
<1>3. Own(rem)
  <2>1. ASSUME NEW g, Rest(i, n, R, g) PROVE Own(g)
    <3>1. \A k \in 1 .. n : k # 1 => aux[k - 1] = R[k - 1]
      OBVIOUS
    <3>2. [k \in 1 .. n |-> IF k = 1 THEN i ELSE g[k - 1] % R[k - 1]]
          = [k \in DOMAIN aux |-> IF k = 1 THEN i ELSE g[k - 1] % aux[k - 1]]
      BY <3>1
    <3> QED
      BY <2>1, <3>2 DEF Rest
  <2>2. \E g : Rest(i, n, R, g)
    BY <1>i, RestExists
  <2> HIDE DEF Own
  <2> QED
    BY <2>1, <2>2
<1>4. \A strides : FlatToOffset(i, strides, aux)
                     = SumOf([k \in DOMAIN aux |-> (rem[k] \div aux[k]) * strides[k]])
  BY DEF FlatToOffset
<1> HIDE DEF rem
<1>5. \A k \in 1 .. n : rem[k] = IF k = 1 THEN i ELSE rem[k - 1] % aux[k - 1]
  BY <1>3
<1>6. ASSUME NEW k \in 1 .. n PROVE rem[k] = r[k - 1]
  <2>1. k - 1 \in 0 .. n /\ (k # 1 => k - 1 # 0)
    OBVIOUS
  <2> QED
    BY <1>5, <2>1
<1>7. r[0] = i /\ \A k \in 1 .. n : r[k] = r[k - 1] % R[k] /\ c[k] = r[k - 1] \div R[k]
  <2>1. \A k \in 1 .. n : k \in 0 .. n /\ k # 0
    OBVIOUS
  <2>2. \A k \in 1 .. n : r[k] = rem[k] % aux[k] /\ c[k] = rem[k] \div aux[k]
    BY <2>1
  <2>3. r[0] = i
    OBVIOUS
  <2> HIDE DEF r, c
  <2> QED
    BY <1>6, <2>2, <2>3
<1>c. c = [k \in 1 .. n |-> c[k]] /\ DOMAIN c = 1 .. n
  OBVIOUS
<1>8. \A strides : FlatToOffset(i, strides, aux) = LinearOffset(c, strides)
  <2> SUFFICES ASSUME NEW strides PROVE FlatToOffset(i, strides, aux) = LinearOffset(c, strides)
    OBVIOUS
  <2>1. [k \in DOMAIN aux |-> (rem[k] \div aux[k]) * strides[k]]
        = [k \in DOMAIN c |-> c[k] * strides[k]]
    OBVIOUS
  <2> HIDE DEF c
  <2> QED
    BY <1>4, <2>1 DEF LinearOffset
<1> HIDE DEF r, c
<1>9. ASSUME NEW k \in 1 .. n, r[k - 1] \in Int, 0 <= r[k - 1], r[k - 1] < R[k - 1]
      PROVE  /\ r[k] \in Int /\ 0 <= r[k] /\ r[k] < R[k]
             /\ c[k] \in Nat /\ c[k] < shape[k]
             /\ r[k - 1] = c[k] * R[k] + r[k]
  <2> DEFINE x == r[k - 1]
             w == R[k]
             d == shape[k]
             q == c[k]
             y == r[k]
  <2>1. x \in Int /\ 0 <= x /\ x < d * w /\ w \in Nat /\ w > 0 /\ d \in Nat
        /\ q = x \div w /\ y = x % w
    <3>1. k \in 0 .. n
      OBVIOUS
    <3> QED
      BY <1>1, <1>2, <1>7, <1>9, <3>1
  <2> HIDE DEF x, w, d, q, y
  <2>2. q \in Int /\ y \in Int /\ x = q * w + y /\ 0 <= y /\ y < w
    BY <2>1, Division
  <2>3. q < d
    <3> SUFFICES ASSUME q >= d PROVE FALSE
      BY <2>1, <2>2
    <3>1. q * w >= d * w
      BY <2>1, <2>2
    <3> QED
      BY <2>1, <2>2, <3>1
  <2>4. q >= 0
    <3> SUFFICES ASSUME q <= -1 PROVE FALSE
      BY <2>2
    <3>1. q * w <= -w
      BY <2>1, <2>2
    <3> QED
      BY <2>1, <2>2, <3>1
  <2> QED
    BY <2>2, <2>3, <2>4 DEF x, w, d, q, y
<1> DEFINE T == {k \in 0 .. n : r[k] \in Int /\ 0 <= r[k] /\ r[k] < R[k]}
<1>10. 0 \in T
  BY <1>1, <1>7, <1>i
<1>11. ASSUME NEW m \in 0 .. n PROVE m \in T
  <2>1. m \in Nat /\ \A k \in 0 .. m - 1 : k + 1 \in 1 .. n /\ (k + 1) - 1 = k /\ k + 1 \in 0 .. n
    OBVIOUS
  <2>2. ASSUME NEW k \in 0 .. m - 1, k \in T PROVE k + 1 \in T
    <3>1. r[k + 1] \in Int /\ 0 <= r[k + 1] /\ r[k + 1] < R[k + 1]
      BY <1>9, <2>1, <2>2
    <3> QED
      BY <2>1, <3>1
  <2> HIDE DEF T
  <2> QED
    BY <1>10, <2>1, <2>2, Reaches
<1>12. ASSUME NEW k \in 1 .. n
       PROVE  /\ c[k] \in Nat /\ c[k] < shape[k]
              /\ r[k - 1] = c[k] * R[k] + r[k] /\ r[k] \in Int /\ r[k - 1] \in Int
  <2>1. k - 1 \in 0 .. n
    OBVIOUS
  <2>2. k - 1 \in T
    BY <1>11, <2>1
  <2> QED
    BY <1>9, <2>2
<1>13. c \in Box(shape)
  BY <1>12, <1>c DEF Box
<1>14. LinearOffset(c, aux) = i
  <2>1. IntsOn(1 .. n, c) /\ IntsOn(1 .. n, aux)
    <3>1. \A k \in 1 .. n : c[k] \in Int /\ aux[k] \in Int
      <4> SUFFICES ASSUME NEW k \in 1 .. n PROVE c[k] \in Int /\ aux[k] \in Int
        OBVIOUS
      <4>1. k \in 0 .. n /\ aux[k] = R[k]
        OBVIOUS
      <4>2. R[k] \in Int /\ c[k] \in Int
        BY <1>1, <1>12, <4>1
      <4> QED
        BY <4>1, <4>2
    <3> QED
      BY <3>1 DEF IntsOn
  <2>2. PICK f : Along(f, n, c, aux) /\ f[n] = LinearOffset(c, aux)
    <3>1. DOMAIN c = 1 .. n
      BY <1>c
    <3> QED
      BY <2>1, <3>1, OffsetAlong
  <2>3. f \in [0 .. n -> Int] /\ f[0] = 0 /\ \A k \in 1 .. n : f[k] = f[k - 1] + c[k] * R[k]
    BY <2>2 DEF Along
  <2> DEFINE U == {k \in 0 .. n : f[k] + r[k] = i}
  <2>4. 0 \in U
    BY <1>7, <1>i, <2>3
  <2>5. ASSUME NEW k \in 0 .. n - 1, k \in U PROVE k + 1 \in U
    <3>1. k + 1 \in 1 .. n /\ (k + 1) - 1 = k /\ k + 1 \in 0 .. n /\ k \in 0 .. n
      OBVIOUS
    <3>2. f[k + 1] = f[k] + c[k + 1] * R[k + 1] /\ r[k] = c[k + 1] * R[k + 1] + r[k + 1]
          /\ r[k] \in Int /\ r[k + 1] \in Int /\ c[k + 1] \in Nat
      BY <1>12, <2>3, <3>1
    <3>3. R[k + 1] \in Nat /\ f[k] \in Int
      BY <1>1, <2>3, <3>1
    <3> DEFINE t == c[k + 1] * R[k + 1]
    <3>4. t \in Int /\ f[k + 1] = f[k] + t /\ r[k] = t + r[k + 1] /\ f[k] + r[k] = i
      BY <2>5, <3>2, <3>3
    <3> HIDE DEF t
    <3>5. f[k + 1] + r[k + 1] = i
      BY <3>2, <3>3, <3>4
    <3> QED
      BY <3>1, <3>5
  <2>6. n \in U
    <3> HIDE DEF U
    <3> QED
      BY <2>4, <2>5, Reaches
  <2>7. r[n] = 0
    <3>1. n \in T
      BY <1>11
    <3> QED
      BY <1>2, <3>1
  <2>8. f[n] \in Int
    BY <2>3
  <2> QED
    BY <2>2, <2>6, <2>7, <2>8
<1> QED
  BY <1>8, <1>13, <1>14 DEF Unravels

\* The row-major offset of a multi-index is a flat index.
LEMMA Ravel ==
    ASSUME NEW n \in Nat, NEW R, NEW shape \in Seq(Nat), Len(shape) = n,
           Radix(R, n, shape), NEW c \in Box(shape),
           NEW aux, DOMAIN aux = 1 .. n, \A k \in 1 .. n : aux[k] = R[k]
    PROVE  LinearOffset(c, aux) \in 0 .. R[0] - 1
<1>1. R \in [0 .. n -> Nat] /\ R[n] = 1 /\ \A k \in 1 .. n : R[k - 1] = shape[k] * R[k]
  BY DEF Radix
<1>2. DOMAIN c = 1 .. n /\ \A k \in 1 .. n : c[k] \in Nat /\ shape[k] \in Nat /\ c[k] < shape[k]
  BY BoxTakes
<1>3. IntsOn(1 .. n, c) /\ IntsOn(1 .. n, aux)
  <2>1. \A k \in 1 .. n : k \in 0 .. n
    OBVIOUS
  <2>2. \A k \in 1 .. n : c[k] \in Int /\ R[k] \in Int
    BY <1>1, <1>2, <2>1
  <2> QED
    BY <2>2 DEF IntsOn
<1>4. PICK f : Along(f, n, c, aux) /\ f[n] = LinearOffset(c, aux)
  BY <1>2, <1>3, OffsetAlong
<1>5. f \in [0 .. n -> Int] /\ f[0] = 0 /\ \A k \in 1 .. n : f[k] = f[k - 1] + c[k] * R[k]
  BY <1>4 DEF Along
<1> DEFINE T == {k \in 0 .. n : 0 <= f[k] /\ f[k] + R[k] <= R[0]}
<1>6. 0 \in T
  BY <1>1, <1>5
<1>7. ASSUME NEW k \in 0 .. n - 1, k \in T PROVE k + 1 \in T
  <2>1. k + 1 \in 1 .. n /\ (k + 1) - 1 = k /\ k + 1 \in 0 .. n /\ k \in 0 .. n
    OBVIOUS
  <2> DEFINE x == c[k + 1]
             d == shape[k + 1]
             w == R[k + 1]
             y == f[k]
             z == f[k + 1]
  <2>2. x \in Nat /\ d \in Nat /\ x < d /\ w \in Nat /\ R[k] = d * w
        /\ y \in Int /\ z = y + x * w
    BY <1>1, <1>2, <1>5, <2>1
  <2>3. 0 <= y /\ y + d * w <= R[0] /\ R[0] \in Nat
    BY <1>1, <1>7, <2>1, <2>2
  <2> HIDE DEF x, d, w, y, z
  <2>4. x * w + w <= d * w /\ x * w >= 0 /\ x * w \in Int /\ d * w \in Int
    <3>1. (d - x - 1) * w >= 0
      <4>1. d - x - 1 \in Nat
        BY <2>2
      <4> QED
        BY <2>2, <4>1
    <3>2. (d - x - 1) * w = d * w - x * w - w
      BY <2>2
    <3>3. x * w \in Nat /\ d * w \in Nat
      BY <2>2
    <3> QED
      BY <2>2, <3>1, <3>2, <3>3
  <2>5. 0 <= z /\ z + w <= R[0]
    <3> DEFINE s == x * w
               t == d * w
               r == R[0]
    <3>1. /\ s \in Int /\ t \in Int /\ w \in Nat /\ y \in Int /\ r \in Nat /\ z = y + s
          /\ s + w <= t /\ s >= 0 /\ 0 <= y /\ y + t <= r
      BY <2>2, <2>3, <2>4
    <3> HIDE DEF s, t, r
    <3>2. 0 <= z /\ z + w <= r
      BY <3>1
    <3> QED
      BY <3>2 DEF r
  <2> QED
    BY <2>1, <2>5 DEF z, w
<1>8. n \in T
  <2> HIDE DEF T
  <2> QED
    BY <1>6, <1>7, Reaches
<1>9. f[n] \in Int /\ R[0] \in Nat /\ R[n] = 1
  BY <1>1, <1>5
<1> QED
  BY <1>4, <1>8, <1>9

\* Distinct multi-indices have distinct row-major positions.
LEMMA RavelUnique ==
    ASSUME NEW n \in Nat, NEW R, NEW shape \in Seq(Nat), Len(shape) = n,
           Radix(R, n, shape), NEW c \in Box(shape), NEW d \in Box(shape),
           NEW aux, DOMAIN aux = 1 .. n, \A k \in 1 .. n : aux[k] = R[k],
           LinearOffset(c, aux) = LinearOffset(d, aux)
    PROVE  c = d
<1>1. R \in [0 .. n -> Nat] /\ R[n] = 1 /\ \A k \in 1 .. n : R[k - 1] = shape[k] * R[k]
  BY DEF Radix
<1>2. /\ DOMAIN c = 1 .. n /\ \A k \in 1 .. n : c[k] \in Nat /\ shape[k] \in Nat /\ c[k] < shape[k]
      /\ DOMAIN d = 1 .. n /\ \A k \in 1 .. n : d[k] \in Nat /\ d[k] < shape[k]
  BY BoxTakes
<1>3. IntsOn(1 .. n, c) /\ IntsOn(1 .. n, d) /\ IntsOn(1 .. n, aux)
  <2>1. \A k \in 1 .. n : k \in 0 .. n
    OBVIOUS
  <2>2. \A k \in 1 .. n : c[k] \in Int /\ d[k] \in Int /\ R[k] \in Int
    BY <1>1, <1>2, <2>1
  <2> QED
    BY <2>2 DEF IntsOn
<1>4. PICK f : Along(f, n, c, aux) /\ f[n] = LinearOffset(c, aux)
  BY <1>2, <1>3, OffsetAlong
<1>5. PICK g : Along(g, n, d, aux) /\ g[n] = LinearOffset(d, aux)
  BY <1>2, <1>3, OffsetAlong
<1>6. /\ f \in [0 .. n -> Int] /\ f[0] = 0 /\ \A k \in 1 .. n : f[k] = f[k - 1] + c[k] * R[k]
      /\ g \in [0 .. n -> Int] /\ g[0] = 0 /\ \A k \in 1 .. n : g[k] = g[k - 1] + d[k] * R[k]
  BY <1>4, <1>5 DEF Along
<1> DEFINE Same(k) == f[k] = g[k] /\ \A j \in 1 .. k : c[j] = d[j]
           T == {k \in 0 .. n : \/ Same(k)
                                \/ f[k] + R[k] <= g[k]
                                \/ g[k] + R[k] <= f[k]}
\* The one ahead by a whole block stays ahead.
<1>ahead. ASSUME NEW w \in Nat, NEW s \in Nat, NEW x \in Nat, NEW y \in Nat, x < s,
                 NEW u \in Int, NEW v \in Int, u + s * w <= v
          PROVE  (u + x * w) + w <= v + y * w
  <2>1. (s - x - 1) * w >= 0
    <3>1. s - x - 1 \in Nat
      BY <1>ahead
    <3> QED
      BY <3>1
  <2>2. (s - x - 1) * w = s * w - x * w - w
    OBVIOUS
  <2> DEFINE p == x * w
             q == s * w
             r == y * w
  <2>3. p \in Nat /\ q \in Nat /\ r \in Nat /\ q - p - w >= 0 /\ u + q <= v
    BY <1>ahead, <2>1, <2>2
  <2> HIDE DEF p, q, r
  <2>4. (u + p) + w <= v + r
    BY <2>3
  <2> QED
    BY <2>4 DEF p, r
<1>less. ASSUME NEW w \in Nat, NEW x \in Nat, NEW y \in Nat, x < y, NEW u \in Int
         PROVE  (u + x * w) + w <= u + y * w
  <2>1. (y - x - 1) * w >= 0
    <3>1. y - x - 1 \in Nat
      BY <1>less
    <3> QED
      BY <3>1
  <2>2. (y - x - 1) * w = y * w - x * w - w
    OBVIOUS
  <2>3. x * w \in Nat /\ y * w \in Nat
    OBVIOUS
  <2> QED
    BY <2>1, <2>2, <2>3
<1>7. 0 \in T
  BY <1>6
<1>8. ASSUME NEW k \in 0 .. n - 1, k \in T PROVE k + 1 \in T
  <2>1. k + 1 \in 1 .. n /\ (k + 1) - 1 = k /\ k + 1 \in 0 .. n /\ k \in 0 .. n /\ k \in Nat
    OBVIOUS
  <2> DEFINE x == c[k + 1]
             y == d[k + 1]
             s == shape[k + 1]
             w == R[k + 1]
             u == f[k]
             v == g[k]
  <2>2. x \in Nat /\ y \in Nat /\ s \in Nat /\ x < s /\ y < s /\ w \in Nat /\ R[k] = s * w
        /\ u \in Int /\ v \in Int /\ f[k + 1] = u + x * w /\ g[k + 1] = v + y * w
    BY <1>1, <1>2, <1>6, <2>1
  <2>3. Same(k) \/ u + s * w <= v \/ v + s * w <= u
    BY <1>8, <2>2
  <2>4. Same(k) => u = v
    OBVIOUS
  <2>5. Same(k) /\ x = y => Same(k + 1)
    <3> SUFFICES ASSUME Same(k), x = y PROVE Same(k + 1)
      OBVIOUS
    <3>1. \A j \in 1 .. k + 1 : j \in 1 .. k \/ j = k + 1
      BY <2>1
    <3>2. f[k + 1] = g[k + 1]
      BY <2>2, <2>4
    <3> QED
      BY <3>1, <3>2
  <2> HIDE DEF x, y, s, w, u, v, Same
  <2>6. Same(k + 1) \/ (u + x * w) + w <= v + y * w \/ (v + y * w) + w <= u + x * w
    <3>1. CASE Same(k) /\ x = y
      BY <2>5, <3>1
    <3>2. CASE Same(k) /\ x < y
      BY <1>less, <2>2, <2>4, <3>2
    <3>3. CASE Same(k) /\ y < x
      BY <1>less, <2>2, <2>4, <3>3
    <3>4. CASE u + s * w <= v
      BY <1>ahead, <2>2, <3>4
    <3>5. CASE v + s * w <= u
      BY <1>ahead, <2>2, <3>5
    <3> QED
      BY <2>2, <2>3, <3>1, <3>2, <3>3, <3>4, <3>5
  <2> QED
    BY <2>1, <2>2, <2>6 DEF w
<1>9. n \in T
  <2> HIDE DEF T
  <2> QED
    BY <1>7, <1>8, Reaches
<1>10. f[n] = g[n] /\ f[n] \in Int /\ R[n] = 1
  BY <1>1, <1>4, <1>5, <1>6
<1>11. \A j \in 1 .. n : c[j] = d[j]
  BY <1>9, <1>10
<1>12. c = [j \in 1 .. n |-> c[j]] /\ d = [j \in 1 .. n |-> d[j]]
  BY <1>2 DEF Box
<1> QED
  BY <1>11, <1>12

\* The volumes a flat index is unravelled with are the row-major strides, unless
\* the shape is empty.
LEMMA VolumesAreStrides ==
    ASSUME NEW shape \in Seq(Nat), Count(shape) < WordSize, Count(shape) > 0
    PROVE  InnerVolumes(shape) = RowMajor(shape)
<1> DEFINE n == Len(shape)
           aux == RowMajor(shape)
           volumes == InnerVolumes(shape)
<1>1. n \in Nat /\ DOMAIN shape = 1 .. n /\ \A k \in 1 .. n : shape[k] \in Nat
  BY LenProperties, ElementOfSeq
<1>2. PICK R : /\ Radix(R, n, shape) /\ R[0] = Count(shape)
               /\ \A k \in 1 .. n : Count(SubSeq(shape, k + 1, n)) = R[k]
  BY Radices
<1>3. R \in [0 .. n -> Nat] /\ R[0] > 0
  BY <1>2 DEF Radix
<1>4. aux = [k \in 1 .. n |-> R[k]]
  BY <1>1, <1>2 DEF RowMajor
<1>5. ASSUME NEW k \in 1 .. n PROVE Product(SubSeq(shape, k + 1, n)) = R[k]
  <2> DEFINE u == SubSeq(shape, k + 1, n)
  <2>1. R[k] \in Nat /\ R[k] <= R[0]
    <3>1. k \in 0 .. n
      OBVIOUS
    <3> HIDE DEF n
    <3> QED
      BY <1>1, <1>2, <3>1, RadixGrows DEF n
  <2>2. u \in Seq(Nat)
    <3>1. k + 1 \in Int /\ n \in Int /\ \A i \in k + 1 .. n : shape[i] \in Nat
      <4>1. \A i \in k + 1 .. n : i \in 1 .. n
        BY <1>1
      <4> QED
        BY <1>1, <4>1
    <3> QED
      BY <3>1, SubSeqProperties
  <2>3. Count(u) = R[k]
    BY <1>2
  <2>4. Count(u) < WordSize
    <3>1. WordSize \in Nat /\ R[0] \in Nat
      BY <1>1, <1>3, WordSizeAssumption
    <3> QED
      BY <1>2, <2>1, <2>3, <3>1
  <2> HIDE DEF u
  <2>5. Product(u) = Count(u)
    BY <2>2, <2>4, ProductExact
  <2> QED
    BY <2>3, <2>5 DEF u
<1>6. volumes = [k \in 1 .. n |-> Product(SubSeq(shape, k + 1, n))]
  BY <1>1 DEF InnerVolumes
<1> HIDE DEF volumes, n, aux
<1>7. volumes = aux
  BY <1>4, <1>5, <1>6
<1> QED
  BY <1>7 DEF volumes, aux

\* Row-major strides give the elements of a shape the flat indices, and each
\* flat index is unravelled to its element.
LEMMA RowMajorStrides ==
    ASSUME NEW shape \in Seq(Nat)
    PROVE  /\ RowMajor(shape) \in Seq(Int) /\ Len(RowMajor(shape)) = Len(shape)
           /\ Count(shape) \in Nat
           /\ \A c \in Box(shape) : LinearOffset(c, RowMajor(shape)) \in 0 .. Count(shape) - 1
           /\ \A c, d \in Box(shape) :
                LinearOffset(c, RowMajor(shape)) = LinearOffset(d, RowMajor(shape)) => c = d
           /\ Count(shape) < WordSize =>
                \A i \in 0 .. Count(shape) - 1 : \E c \in Box(shape) :
                    /\ LinearOffset(c, RowMajor(shape)) = i
                    /\ \A strides : FlatToOffset(i, strides, InnerVolumes(shape))
                                      = LinearOffset(c, strides)
<1> DEFINE n == Len(shape)
           aux == RowMajor(shape)
           volumes == InnerVolumes(shape)
<1>1. n \in Nat /\ DOMAIN shape = 1 .. n /\ \A k \in 1 .. n : shape[k] \in Nat
  BY LenProperties, ElementOfSeq
<1>2. PICK R : /\ Radix(R, n, shape) /\ R[0] = Count(shape)
               /\ \A k \in 1 .. n : Count(SubSeq(shape, k + 1, n)) = R[k]
  BY Radices
<1>3. R \in [0 .. n -> Nat]
  BY <1>2 DEF Radix
<1>4. DOMAIN aux = 1 .. n /\ \A k \in 1 .. n : aux[k] = R[k]
  BY <1>1, <1>2 DEF RowMajor
<1>5. aux = [k \in 1 .. n |-> R[k]]
  BY <1>1, <1>2 DEF RowMajor
<1>6. aux \in Seq(Int) /\ Len(aux) = n
  <2>1. \A k \in 1 .. n : R[k] \in Int
    <3>1. \A k \in 1 .. n : k \in 0 .. n
      OBVIOUS
    <3> QED
      BY <1>3, <3>1
  <2>2. aux \in [1 .. n -> Int]
    BY <1>5, <2>1
  <2> QED
    BY <1>1, <2>2, LenProperties
<1>8. Count(shape) < WordSize /\ R[0] > 0 => volumes = aux
  BY <1>2, VolumesAreStrides
<1> HIDE DEF n, aux, volumes
<1>len. Len(shape) = n
  BY DEF n
<1>9. R[0] \in Nat
  BY <1>1, <1>3
<1>10. \A c \in Box(shape) : LinearOffset(c, aux) \in 0 .. R[0] - 1
  BY <1>1, <1>2, <1>4, <1>len, Ravel
<1>11. \A c, d \in Box(shape) : LinearOffset(c, aux) = LinearOffset(d, aux) => c = d
  <2> SUFFICES ASSUME NEW c \in Box(shape), NEW d \in Box(shape),
                      LinearOffset(c, aux) = LinearOffset(d, aux)
               PROVE  c = d
    OBVIOUS
  <2>1. Radix(R, n, shape) /\ n \in Nat
    BY <1>1, <1>2
  <2> QED
    BY <1>4, <1>len, <2>1, RavelUnique
<1>12. ASSUME Count(shape) < WordSize, NEW i \in 0 .. R[0] - 1
       PROVE  \E c \in Box(shape) :
                /\ LinearOffset(c, aux) = i
                /\ \A strides : FlatToOffset(i, strides, volumes) = LinearOffset(c, strides)
  <2>1. R[0] > 0
    BY <1>9
  <2>2. PICK c : Unravels(c, i, n, R, shape, aux)
    BY <1>1, <1>2, <1>4, <1>len, <2>1, Unravel
  <2>3. volumes = aux
    BY <1>2, <1>8, <1>12, <2>1
  <2> QED
    BY <2>2, <2>3 DEF Unravels
<1> QED
  BY <1>2, <1>6, <1>9, <1>10, <1>11, <1>12, <1>len DEF aux, volumes

\* A contiguous array has row-major strides.
LEMMA ContiguousStrides ==
    ASSUME NEW a, a.shape \in Seq(Nat), a.strides \in Seq(Int),
           Len(a.strides) = Len(a.shape), IsContiguous(a)
    PROVE  a.strides = RowMajor(a.shape)
<1> DEFINE shape == a.shape
           strides == a.strides
           n == Len(shape)
<1>1. n \in Nat /\ DOMAIN shape = 1 .. n /\ DOMAIN strides = 1 .. n
      /\ (\A k \in 1 .. n : shape[k] \in Nat /\ strides[k] \in Int)
      /\ strides = [k \in 1 .. n |-> strides[k]]
  <2>1. n \in Nat /\ DOMAIN shape = 1 .. n /\ DOMAIN strides = 1 .. n
    BY LenProperties
  <2>2. strides = [k \in DOMAIN strides |-> strides[k]]
    BY LenProperties
  <2>3. \A k \in 1 .. n : shape[k] \in Nat /\ strides[k] \in Int
    BY ElementOfSeq
  <2> QED
    BY <2>1, <2>2, <2>3
<1>2. n > 0 => strides[n] = 1 /\ \A k \in 1 .. n - 1 : strides[k] = shape[k + 1] * strides[k + 1]
  <2>1. n > 0 => strides # <<>>
    BY <1>1
  <2> QED
    BY <2>1 DEF IsContiguous, Last
<1>3. shape \in Seq(Nat)
  OBVIOUS
<1> HIDE DEF strides
<1>4. PICK R : /\ Radix(R, n, shape) /\ R[0] = Count(shape)
               /\ \A k \in 1 .. n : Count(SubSeq(shape, k + 1, n)) = R[k]
  <2> HIDE DEF shape
  <2> QED
    BY <1>3, Radices
<1>5. RowMajor(shape) = [k \in 1 .. n |-> R[k]]
  BY <1>1, <1>4 DEF RowMajor
<1> HIDE DEF shape, n
<1>6. R[n] = 1 /\ \A k \in 1 .. n : R[k - 1] = shape[k] * R[k]
  BY <1>4 DEF Radix
<1> DEFINE T == {j \in 0 .. n - 1 : strides[n - j] = R[n - j]}
<1>7. n > 0 => 0 \in T
  BY <1>1, <1>2, <1>6
<1>8. ASSUME NEW j \in 0 .. n - 2, j \in T PROVE j + 1 \in T
  <2> DEFINE k == n - (j + 1)
  <2>1. /\ k \in 1 .. n - 1 /\ k + 1 \in 1 .. n /\ k + 1 = n - j
        /\ (k + 1) - 1 = k /\ j + 1 \in 0 .. n - 1
        /\ n > 0
    BY <1>1
  <2>2. strides[k + 1] = R[k + 1]
    BY <1>8, <2>1
  <2> HIDE DEF k
  <2>3. strides[k] = R[k]
    <3>1. R[(k + 1) - 1] = shape[k + 1] * R[k + 1]
      BY <1>6, <2>1
    <3> QED
      BY <1>2, <2>1, <2>2, <3>1
  <2> QED
    BY <2>1, <2>3 DEF k
<1>9. ASSUME NEW k \in 1 .. n PROVE strides[k] = R[k]
  <2> DEFINE m == n - k
  <2>1. m \in Nat /\ n > 0 /\ n - m = k /\ \A j \in 0 .. m - 1 : j \in 0 .. n - 2
    BY <1>1
  <2> HIDE DEF T, m
  <2>2. m \in T
    <3>1. \A j \in 0 .. m - 1 : j \in T => j + 1 \in T
      BY <1>8, <2>1
    <3> QED
      BY <1>7, <2>1, <3>1, Reaches
  <2> QED
    BY <2>1, <2>2 DEF T
<1> QED
  BY <1>1, <1>5, <1>9 DEF strides, shape

-----------------------------------------------------------------------------
(* What is true of every array *)

Layouts == [base : Int, shape : Seq(Nat), strides : Seq(Int), size : Nat]

\* Every axis has a stride, and size_ counts the elements.
Exact(a) ==
    /\ a \in Layouts
    /\ Len(a.strides) = Len(a.shape)
    /\ a.size = Count(a.shape)
    /\ a.size < WordSize

\* Every element has a place in the buffer.
Reach(a, cells) == \A c \in Box(a.shape) : a.base + LinearOffset(c, a.strides) \in cells

\* No two elements have the same place.
Distinct(a) ==
    \A c, d \in Box(a.shape) : LinearOffset(c, a.strides) = LinearOffset(d, a.strides) => c = d

Sound(a, cells) == Exact(a) /\ Reach(a, cells) /\ Distinct(a)

\* The fields of a layout.
LEMMA LayoutTakes ==
    ASSUME NEW base \in Int, NEW shape \in Seq(Nat), NEW strides \in Seq(Int), NEW size \in Nat
    PROVE  /\ Layout(base, shape, strides, size) \in Layouts
           /\ Layout(base, shape, strides, size).base = base
           /\ Layout(base, shape, strides, size).shape = shape
           /\ Layout(base, shape, strides, size).strides = strides
           /\ Layout(base, shape, strides, size).size = size
  BY DEF Layout, Layouts

\* Dimensions, elements and strides of a sound layout.
LEMMA ExactTakes ==
    ASSUME NEW a, Exact(a)
    PROVE  /\ a.shape \in Seq(Nat) /\ a.strides \in Seq(Int) /\ a.base \in Int /\ a.size \in Nat
           /\ Len(a.shape) \in Nat /\ Len(a.strides) = Len(a.shape)
           /\ DOMAIN a.shape = 1 .. Len(a.shape) /\ DOMAIN a.strides = 1 .. Len(a.shape)
           /\ IntsOn(1 .. Len(a.shape), a.shape) /\ IntsOn(1 .. Len(a.shape), a.strides)
<1>1. a.shape \in Seq(Nat) /\ a.strides \in Seq(Int) /\ Len(a.strides) = Len(a.shape)
      /\ a.base \in Int /\ a.size \in Nat
  BY DEF Exact, Layouts
<1>2. /\ Len(a.shape) \in Nat /\ DOMAIN a.shape = 1 .. Len(a.shape)
      /\ DOMAIN a.strides = 1 .. Len(a.strides)
  BY <1>1, LenProperties
<1>3. \A k \in 1 .. Len(a.shape) : a.shape[k] \in Int
  BY <1>1, ElementOfSeq
<1>4. \A k \in 1 .. Len(a.strides) : a.strides[k] \in Int
  BY <1>1, ElementOfSeq
<1> QED
  BY <1>1, <1>2, <1>3, <1>4 DEF IntsOn

\* What the code reads of a sound layout.
LEMMA SoundMeans ==
    ASSUME NEW a, NEW cells, Sound(a, cells)
    PROVE  /\ \A i \in 0 .. a.size - 1 : Offset(a, i) \in cells
           /\ \A i, j \in 0 .. a.size - 1 : Offset(a, i) = Offset(a, j) => i = j
           /\ IsContiguous(a) => \A i \in 0 .. a.size - 1 : Offset(a, i) = a.base + i
<1> DEFINE shape == a.shape
           strides == a.strides
           order == RowMajor(shape)
           Names(c, i) == /\ c \in Box(shape) /\ LinearOffset(c, order) = i
                          /\ Offset(a, i) = a.base + LinearOffset(c, strides)
<1>1. /\ shape \in Seq(Nat) /\ strides \in Seq(Int) /\ Len(strides) = Len(shape)
      /\ a.base \in Int /\ a.size = Count(shape) /\ a.size < WordSize
  BY ExactTakes DEF Sound, Exact
<1>2. ASSUME NEW i \in 0 .. a.size - 1 PROVE \E c : Names(c, i)
  <2>1. PICK c \in Box(shape) :
           /\ LinearOffset(c, order) = i
           /\ \A s : FlatToOffset(i, s, InnerVolumes(shape)) = LinearOffset(c, s)
    <3> HIDE DEF shape
    <3> QED
      BY <1>1, RowMajorStrides
  <2>2. Offset(a, i) = a.base + LinearOffset(c, strides)
    BY <2>1 DEF Offset
  <2> QED
    BY <2>1, <2>2
<1>3. ASSUME NEW c \in Box(shape) PROVE LinearOffset(c, strides) \in Int
  <2>1. DOMAIN c = 1 .. Len(shape) /\ Len(shape) \in Nat /\ IntsOn(1 .. Len(shape), c)
    <3> HIDE DEF shape
    <3> QED
      BY <1>1, BoxTakes DEF IntsOn
  <2>2. IntsOn(1 .. Len(shape), strides)
    BY ExactTakes DEF Sound
  <2>3. PICK f : Along(f, Len(shape), c, strides) /\ f[Len(shape)] = LinearOffset(c, strides)
    <3> HIDE DEF shape, strides
    <3> QED
      BY <2>1, <2>2, OffsetAlong
  <2> HIDE DEF shape
  <2> QED
    BY <2>1, <2>3 DEF Along
<1>4. Reach(a, cells) /\ Distinct(a)
  BY DEF Sound
<1>5. \A c \in Box(shape) : a.base + LinearOffset(c, strides) \in cells
  BY <1>4 DEF Reach
<1>6. \A c, d \in Box(shape) : LinearOffset(c, strides) = LinearOffset(d, strides) => c = d
  BY <1>4 DEF Distinct
<1>7. IsContiguous(a) => strides = order
  BY <1>1, ContiguousStrides
<1> HIDE DEF shape, strides, order
<1>8. \A i \in 0 .. a.size - 1 : Offset(a, i) \in cells
  BY <1>2, <1>5
<1>9. ASSUME NEW i \in 0 .. a.size - 1, NEW j \in 0 .. a.size - 1, Offset(a, i) = Offset(a, j)
      PROVE  i = j
  <2>1. PICK c : Names(c, i)
    BY <1>2
  <2>2. PICK d : Names(d, j)
    BY <1>2
  <2> DEFINE x == LinearOffset(c, strides)
             y == LinearOffset(d, strides)
  <2>3. x \in Int /\ y \in Int /\ a.base + x = a.base + y
    BY <1>3, <1>9, <2>1, <2>2
  <2> HIDE DEF x, y
  <2>4. x = y
    BY <1>1, <2>3
  <2>5. c = d
    BY <1>6, <2>1, <2>2, <2>4 DEF x, y
  <2> QED
    BY <2>1, <2>2, <2>5
<1>10. IsContiguous(a) => \A i \in 0 .. a.size - 1 : Offset(a, i) = a.base + i
  BY <1>2, <1>7
<1> QED
  BY <1>8, <1>9, <1>10

\* n cells in a row, from base on.
Room(base, n, cells) == \A o \in 0 .. n - 1 : base + o \in cells

\* An array in row-major order at a place with room for its elements.
LEMMA RowMajorSound ==
    ASSUME NEW base \in Int, NEW shape \in Seq(Nat), Count(shape) < WordSize,
           NEW cells, Room(base, Count(shape), cells)
    PROVE  Sound(Layout(base, shape, RowMajor(shape), Count(shape)), cells)
<1> DEFINE a == Layout(base, shape, RowMajor(shape), Count(shape))
<1>1. /\ RowMajor(shape) \in Seq(Int) /\ Len(RowMajor(shape)) = Len(shape) /\ Count(shape) \in Nat
      /\ \A c \in Box(shape) : LinearOffset(c, RowMajor(shape)) \in 0 .. Count(shape) - 1
      /\ \A c, d \in Box(shape) :
           LinearOffset(c, RowMajor(shape)) = LinearOffset(d, RowMajor(shape)) => c = d
  BY RowMajorStrides
<1>2. a \in Layouts /\ a.base = base /\ a.shape = shape /\ a.strides = RowMajor(shape)
      /\ a.size = Count(shape)
  BY <1>1, LayoutTakes
<1> HIDE DEF a
<1>3. Exact(a)
  BY <1>1, <1>2 DEF Exact
<1>4. Reach(a, cells)
  BY <1>1, <1>2 DEF Reach, Room
<1>5. Distinct(a)
  BY <1>1, <1>2 DEF Distinct
<1> QED
  BY <1>3, <1>4, <1>5 DEF Sound, a

-----------------------------------------------------------------------------
(* Views *)

\* Sums of three terms each, one of them the sum of the others.
Adds(n, w, u, v) == \A k \in 1 .. n : w[k] = u[k] + v[k]

\* The sum of such terms is the sum of the two sums.
LEMMA SumsAdd ==
    ASSUME NEW n \in Nat, NEW u, DOMAIN u = 1 .. n, IntsOn(1 .. n, u),
           NEW v, DOMAIN v = 1 .. n, IntsOn(1 .. n, v),
           NEW w, DOMAIN w = 1 .. n, Adds(n, w, u, v)
    PROVE  SumOf(w) = SumOf(u) + SumOf(v) /\ SumOf(u) \in Int /\ SumOf(v) \in Int
<1>1. "sum" \in Kinds /\ Values("sum") = Int /\ Base("sum") = 0
      /\ \A x, y : Step("sum", {}, x, y) = x + y
  BY DEF Kinds, Values, Base, Step
<1>2. \A k \in 1 .. n : u[k] \in Int /\ v[k] \in Int
  BY DEF IntsOn
<1>add. \A k \in 1 .. n : w[k] = u[k] + v[k]
  BY DEF Adds
<1>3. IntsOn(1 .. n, w)
  BY <1>2, <1>add DEF IntsOn
<1>4. PICK f : Unrolling(f, "sum", {}, n, u) /\ f[n] = SumOf(u)
  BY <1>1, Unrolls, SumFolds
<1>5. PICK g : Unrolling(g, "sum", {}, n, v) /\ g[n] = SumOf(v)
  BY <1>1, Unrolls, SumFolds
<1>6. PICK h : Unrolling(h, "sum", {}, n, w) /\ h[n] = SumOf(w)
  BY <1>1, <1>3, Unrolls, SumFolds
<1>7. /\ f \in [0 .. n -> Int] /\ f[0] = 0 /\ \A k \in 0 .. n - 1 : f[k + 1] = f[k] + u[k + 1]
      /\ g \in [0 .. n -> Int] /\ g[0] = 0 /\ \A k \in 0 .. n - 1 : g[k + 1] = g[k] + v[k + 1]
      /\ h \in [0 .. n -> Int] /\ h[0] = 0 /\ \A k \in 0 .. n - 1 : h[k + 1] = h[k] + w[k + 1]
  BY <1>1, <1>4, <1>5, <1>6 DEF Unrolling
<1> DEFINE T == {k \in 0 .. n : h[k] = f[k] + g[k]}
<1>8. 0 \in T
  BY <1>7
<1>9. ASSUME NEW k \in 0 .. n - 1, k \in T PROVE k + 1 \in T
  <2>1. k + 1 \in 1 .. n /\ k + 1 \in 0 .. n /\ k \in 0 .. n
    OBVIOUS
  <2>2. /\ f[k] \in Int /\ g[k] \in Int /\ u[k + 1] \in Int /\ v[k + 1] \in Int
        /\ f[k + 1] = f[k] + u[k + 1] /\ g[k + 1] = g[k] + v[k + 1]
        /\ h[k + 1] = h[k] + w[k + 1] /\ w[k + 1] = u[k + 1] + v[k + 1] /\ h[k] = f[k] + g[k]
    BY <1>2, <1>7, <1>9, <1>add, <2>1
  <2>3. h[k + 1] = f[k + 1] + g[k + 1]
    BY <2>2
  <2> QED
    BY <2>1, <2>3
<1>10. n \in T
  <2> HIDE DEF T
  <2> QED
    BY <1>8, <1>9, Reaches
<1>11. f[n] \in Int /\ g[n] \in Int
  BY <1>7
<1> QED
  BY <1>4, <1>5, <1>6, <1>10, <1>11

\* Element ix of the view is element jx of the array: axis j of the view steps
\* along axis p[j], and every axis starts somewhere.
Source(jx, ix, p, m, n, from, step) ==
    /\ \A j \in 1 .. m : jx[p[j]] = from[p[j]] + step[j] * ix[j]
    /\ \A k \in (1 .. n) \ Image(p, m) : jx[k] = from[k]

Selects(a, b, p, from, step) ==
    /\ p \in [1 .. Len(b.shape) -> 1 .. Len(a.shape)]
    /\ Places(p, Len(b.shape), Len(a.shape))
    /\ DOMAIN from = 1 .. Len(a.shape) /\ IntsOn(1 .. Len(a.shape), from)
    /\ IntsOn(1 .. Len(b.shape), step)
    /\ \A j \in 1 .. Len(b.shape) : step[j] # 0 /\ b.strides[j] = a.strides[p[j]] * step[j]
    /\ b.base = a.base + LinearOffset(from, a.strides)

\* A view's element is where its source is.
LEMMA SourceOffset ==
    ASSUME NEW a, Exact(a), NEW b, Exact(b), NEW p, NEW from, NEW step,
           Selects(a, b, p, from, step), NEW ix \in Box(b.shape), NEW jx \in Box(a.shape),
           Source(jx, ix, p, Len(b.shape), Len(a.shape), from, step)
    PROVE  /\ b.base + LinearOffset(ix, b.strides) = a.base + LinearOffset(jx, a.strides)
           /\ b.base \in Int /\ LinearOffset(ix, b.strides) \in Int
           /\ a.base \in Int /\ LinearOffset(jx, a.strides) \in Int
<1> DEFINE m == Len(b.shape)
           n == Len(a.shape)
           s == a.strides
           t == b.strides
           u == [j \in 1 .. m |-> ix[j] * t[j]]
           w == [k \in 1 .. n |-> (jx[k] - from[k]) * s[k]]
           e == [k \in 1 .. n |-> from[k] * s[k]]
           v == [k \in 1 .. n |-> jx[k] * s[k]]
<1>1. /\ m \in Nat /\ n \in Nat /\ a.base \in Int /\ b.base \in Int
      /\ \A k \in 1 .. n : s[k] \in Int
      /\ \A j \in 1 .. m : t[j] \in Int
  BY ExactTakes DEF IntsOn
<1>2. /\ DOMAIN ix = 1 .. m /\ \A j \in 1 .. m : ix[j] \in Int
      /\ DOMAIN jx = 1 .. n /\ \A k \in 1 .. n : jx[k] \in Int
  <2>1. a.shape \in Seq(Nat) /\ b.shape \in Seq(Nat)
    BY ExactTakes
  <2> QED
    BY <2>1, BoxTakes
<1>3. /\ p \in [1 .. m -> 1 .. n] /\ Places(p, m, n)
      /\ DOMAIN from = 1 .. n
      /\ (\A k \in 1 .. n : from[k] \in Int)
      /\ \A j \in 1 .. m : step[j] \in Int /\ t[j] = s[p[j]] * step[j]
      /\ b.base = a.base + LinearOffset(from, s)
  BY DEF Selects, IntsOn
<1>4. /\ \A j \in 1 .. m : jx[p[j]] = from[p[j]] + step[j] * ix[j]
      /\ \A k \in (1 .. n) \ Image(p, m) : jx[k] = from[k]
  BY DEF Source
<1>5. /\ LinearOffset(ix, t) = SumOf(u) /\ LinearOffset(from, s) = SumOf(e)
      /\ LinearOffset(jx, s) = SumOf(v)
  <2>1. /\ u = [j \in DOMAIN ix |-> ix[j] * t[j]] /\ e = [k \in DOMAIN from |-> from[k] * s[k]]
        /\ v = [k \in DOMAIN jx |-> jx[k] * s[k]]
    BY <1>2, <1>3
  <2> HIDE DEF u, e, v, s, t
  <2> QED
    BY <2>1 DEF LinearOffset
<1> HIDE DEF m, n, s, t
<1>6. ASSUME NEW j \in 1 .. m PROVE u[j] = w[p[j]]
  <2> DEFINE x == ix[j]
             y == step[j]
             z == s[p[j]]
             f == from[p[j]]
  <2>1. x \in Int /\ y \in Int /\ z \in Int /\ f \in Int /\ p[j] \in 1 .. n
        /\ jx[p[j]] = f + y * x /\ t[j] = z * y
    BY <1>1, <1>2, <1>3, <1>4
  <2>2. u[j] = x * (z * y) /\ w[p[j]] = ((f + y * x) - f) * z
    BY <2>1
  <2> HIDE DEF x, y, z, f, u, w
  <2>3. x * (z * y) = ((f + y * x) - f) * z
    <3> DEFINE q == y * x
    <3>1. q \in Int /\ x * (z * y) = q * z
      BY <2>1
    <3> HIDE DEF q
    <3>2. (f + q) - f = q
      BY <2>1, <3>1
    <3> QED
      BY <3>1, <3>2 DEF q
  <2> QED
    BY <2>2, <2>3
<1>7. \A k \in (1 .. n) \ Image(p, m) : w[k] = 0
  <2> SUFFICES ASSUME NEW k \in (1 .. n) \ Image(p, m) PROVE w[k] = 0
    OBVIOUS
  <2>1. k \in 1 .. n /\ jx[k] = from[k] /\ from[k] \in Int /\ s[k] \in Int
    BY <1>1, <1>3, <1>4
  <2>2. jx[k] - from[k] = 0
    BY <2>1
  <2> QED
    BY <2>1, <2>2
<1>8. /\ DOMAIN u = 1 .. m /\ DOMAIN w = 1 .. n /\ DOMAIN e = 1 .. n /\ DOMAIN v = 1 .. n
      /\ \A k \in 1 .. n : w[k] \in Int /\ e[k] \in Int /\ v[k] = e[k] + w[k]
  <2>1. ASSUME NEW k \in 1 .. n PROVE w[k] \in Int /\ e[k] \in Int /\ v[k] = e[k] + w[k]
    <3> DEFINE x == jx[k]
               f == from[k]
               z == s[k]
    <3>1. x \in Int /\ f \in Int /\ z \in Int /\ w[k] = (x - f) * z /\ e[k] = f * z /\ v[k] = x * z
      BY <1>1, <1>2, <1>3
    <3> HIDE DEF x, f, z, u, w, e, v
    <3>2. (x - f) * z \in Int /\ f * z \in Int /\ x * z = f * z + (x - f) * z
      BY <3>1
    <3> QED
      BY <3>1, <3>2
  <2> QED
    BY <2>1
<1> HIDE DEF u, w, e, v
<1>9. SumOf(u) = SumOf(w)
  <2>1. IntsOn(1 .. n, w) /\ Follows(u, m, w, p)
    BY <1>6, <1>8 DEF IntsOn, Follows
  <2>2. "sum" \in Monoidal /\ Base("sum") = 0
    BY DEF Monoidal, Base
  <2>3. Idle((1 .. n) \ Image(p, m), w, "sum")
    BY <1>7, <2>2 DEF Idle
  <2>4. Folded("sum", {}, u) = Folded("sum", {}, w)
    <3>1. Places(p, m, n) /\ Within(p, m, n) /\ m \in Nat /\ n \in Nat /\ DOMAIN w = 1 .. n
      BY <1>1, <1>3, <1>8 DEF Within
    <3>2. Shuffles(u, m, w, n, p, "sum")
      BY <2>1, <2>3, <3>1 DEF Shuffles
    <3> QED
      BY <2>2, <3>1, <3>2, Rearranged
  <2> QED
    BY <2>4, SumFolds
<1>10. SumOf(v) = SumOf(e) + SumOf(w) /\ SumOf(e) \in Int /\ SumOf(w) \in Int
  <2>1. IntsOn(1 .. n, w) /\ IntsOn(1 .. n, e) /\ Adds(n, v, e, w)
    BY <1>8 DEF IntsOn, Adds
  <2> QED
    BY <1>1, <1>8, <2>1, SumsAdd
<1> QED
  BY <1>1, <1>3, <1>5, <1>9, <1>10 DEF s, t

\* What each axis of the view takes of its axis of the array lies inside it, and
\* so does the start of an axis that the view has not.
Covers(a, b, p, from, step) ==
    /\ \A j \in 1 .. Len(b.shape) : \A x \in Nat :
          x < b.shape[j] => /\ 0 <= from[p[j]] + step[j] * x
                            /\ from[p[j]] + step[j] * x < a.shape[p[j]]
    /\ \A k \in (1 .. Len(a.shape)) \ Image(p, Len(b.shape)) :
          0 <= from[k] /\ from[k] < a.shape[k]

\* Every element of the view has its source in the array.
LEMMA SourceExists ==
    ASSUME NEW a, Exact(a), NEW b, Exact(b), NEW p, NEW from, NEW step,
           Selects(a, b, p, from, step), Covers(a, b, p, from, step), NEW ix \in Box(b.shape)
    PROVE  \E jx \in Box(a.shape) : Source(jx, ix, p, Len(b.shape), Len(a.shape), from, step)
<1> DEFINE m == Len(b.shape)
           n == Len(a.shape)
           inv(k) == CHOOSE j \in 1 .. m : p[j] = k
           jx == [k \in 1 .. n |-> IF k \in Image(p, m)
                                   THEN from[k] + step[inv(k)] * ix[inv(k)] ELSE from[k]]
<1>1. \A j \in 1 .. m : ix[j] \in Nat /\ ix[j] < b.shape[j]
  <2>1. b.shape \in Seq(Nat)
    BY ExactTakes
  <2> QED
    BY <2>1, BoxTakes
<1>2. /\ \A j \in 1 .. m : p[j] \in 1 .. n /\ step[j] \in Int
      /\ \A i, j \in 1 .. m : p[i] = p[j] => i = j
      /\ \A k \in 1 .. n : from[k] \in Int
  BY DEF Selects, Places, IntsOn
<1>3. /\ \A j \in 1 .. m : \A x \in Nat :
          x < b.shape[j] => /\ 0 <= from[p[j]] + step[j] * x
                            /\ from[p[j]] + step[j] * x < a.shape[p[j]]
      /\ \A k \in (1 .. n) \ Image(p, m) : 0 <= from[k] /\ from[k] < a.shape[k]
  BY DEF Covers
<1> HIDE DEF m, n
<1>4. ASSUME NEW j \in 1 .. m PROVE p[j] \in Image(p, m) /\ inv(p[j]) = j
  <2>1. p[j] \in Image(p, m)
    BY DEF Image
  <2>2. inv(p[j]) \in 1 .. m /\ p[inv(p[j])] = p[j]
    OBVIOUS
  <2> HIDE DEF inv
  <2> QED
    BY <1>2, <2>1, <2>2
<1>5. ASSUME NEW j \in 1 .. m
      PROVE  jx[p[j]] = from[p[j]] + step[j] * ix[j]
  BY <1>2, <1>4
<1>6. \A k \in (1 .. n) \ Image(p, m) : jx[k] = from[k]
  OBVIOUS
<1>7. jx = [k \in 1 .. n |-> jx[k]]
  OBVIOUS
<1> HIDE DEF jx, inv
<1>8. ASSUME NEW k \in 1 .. n PROVE jx[k] \in Nat /\ jx[k] < a.shape[k]
  <2>1. CASE k \in Image(p, m)
    <3>1. PICK j \in 1 .. m : p[j] = k
      BY <2>1 DEF Image
    <3> DEFINE x == ix[j]
               y == step[j]
               f == from[k]
    <3>2. x \in Nat /\ y \in Int /\ f \in Int /\ jx[k] = f + y * x
          /\ 0 <= f + y * x /\ f + y * x < a.shape[k]
      BY <1>1, <1>2, <1>3, <1>5, <3>1
    <3> HIDE DEF x, y, f
    <3>3. f + y * x \in Int
      BY <3>2
    <3> QED
      BY <3>2, <3>3
  <2>2. CASE k \notin Image(p, m)
    BY <1>2, <1>3, <1>6, <2>2
  <2> QED
    BY <2>1, <2>2
<1>9. jx \in Box(a.shape)
  BY <1>7, <1>8 DEF Box, n
<1>10. Source(jx, ix, p, m, n, from, step)
  BY <1>5, <1>6 DEF Source
<1> QED
  BY <1>9, <1>10 DEF m, n

\* Different elements of the view have different sources.
LEMMA SourceUnique ==
    ASSUME NEW b, Exact(b), NEW a, NEW p, NEW from, NEW step,
           Selects(a, b, p, from, step), NEW ix \in Box(b.shape), NEW iy \in Box(b.shape), NEW jx,
           Source(jx, ix, p, Len(b.shape), Len(a.shape), from, step),
           Source(jx, iy, p, Len(b.shape), Len(a.shape), from, step)
    PROVE  ix = iy
<1> DEFINE m == Len(b.shape)
<1>1. b.shape \in Seq(Nat)
  BY ExactTakes
<1>2. \A j \in 1 .. m : ix[j] \in Nat /\ iy[j] \in Nat
  BY <1>1, BoxTakes
<1>3. \A j \in 1 .. m : /\ p[j] \in 1 .. Len(a.shape) /\ step[j] \in Int /\ step[j] # 0
  BY DEF Selects, IntsOn
<1>4. \A k \in 1 .. Len(a.shape) : from[k] \in Int
  BY DEF Selects, IntsOn
<1>7. /\ \A j \in 1 .. m : jx[p[j]] = from[p[j]] + step[j] * ix[j]
      /\ \A j \in 1 .. m : jx[p[j]] = from[p[j]] + step[j] * iy[j]
  BY DEF Source
<1> HIDE DEF m
<1>5. ASSUME NEW j \in 1 .. m PROVE ix[j] = iy[j]
  <2> DEFINE x == ix[j]
             y == iy[j]
             s == step[j]
             f == from[p[j]]
  <2>1. x \in Int /\ y \in Int /\ s \in Int /\ s # 0 /\ f \in Int /\ f + s * x = f + s * y
    BY <1>2, <1>3, <1>4, <1>7
  <2> HIDE DEF x, y, s, f
  <2>2. s * x = s * y
    <3> DEFINE q == s * x
               r == s * y
    <3>1. q \in Int /\ r \in Int /\ f + q = f + r
      BY <2>1
    <3> HIDE DEF q, r
    <3>2. q = r
      BY <2>1, <3>1
    <3> QED
      BY <3>2 DEF q, r
  <2>3. s * (x - y) = 0
    BY <2>1, <2>2
  <2>4. x = y
    <3> DEFINE d == x - y
    <3>1. d \in Int /\ s * d = 0
      BY <2>1, <2>3
    <3> HIDE DEF d
    <3>2. d = 0
      BY <2>1, <3>1
    <3> QED
      BY <2>1, <3>2 DEF d
  <2> QED
    BY <2>4 DEF x, y
<1>6. ix = [j \in 1 .. m |-> ix[j]] /\ iy = [j \in 1 .. m |-> iy[j]]
  BY DEF Box, m
<1> QED
  BY <1>5, <1>6

\* A view of elements of a sound array is sound.
LEMMA ViewSound ==
    ASSUME NEW a, NEW cells, Sound(a, cells), NEW b, Exact(b), NEW p, NEW from, NEW step,
           Selects(a, b, p, from, step), Covers(a, b, p, from, step)
    PROVE  Sound(b, cells)
<1> DEFINE At1(jx, ix) == Source(jx, ix, p, Len(b.shape), Len(a.shape), from, step)
<1>1. Exact(a) /\ Reach(a, cells) /\ Distinct(a)
  BY DEF Sound
<1>2. ASSUME NEW ix \in Box(b.shape)
      PROVE  \E jx \in Box(a.shape) :
                /\ At1(jx, ix)
                /\ b.base + LinearOffset(ix, b.strides) = a.base + LinearOffset(jx, a.strides)
                /\ b.base \in Int /\ LinearOffset(ix, b.strides) \in Int
                /\ a.base \in Int /\ LinearOffset(jx, a.strides) \in Int
  <2>1. PICK jx \in Box(a.shape) : At1(jx, ix)
    BY <1>1, SourceExists
  <2>2. /\ b.base + LinearOffset(ix, b.strides) = a.base + LinearOffset(jx, a.strides)
        /\ b.base \in Int /\ LinearOffset(ix, b.strides) \in Int
        /\ a.base \in Int /\ LinearOffset(jx, a.strides) \in Int
    BY <1>1, <2>1, SourceOffset
  <2> QED
    BY <2>1, <2>2
<1>3. ASSUME NEW ix \in Box(b.shape), NEW iy \in Box(b.shape), NEW jx, At1(jx, ix), At1(jx, iy)
      PROVE  ix = iy
  BY <1>3, SourceUnique
<1>same. \A ix, iy \in Box(b.shape) : \A jx : At1(jx, ix) /\ At1(jx, iy) => ix = iy
  BY <1>3
<1> HIDE DEF At1
<1>4. Reach(b, cells)
  <2> SUFFICES ASSUME NEW ix \in Box(b.shape)
               PROVE  b.base + LinearOffset(ix, b.strides) \in cells
    BY DEF Reach
  <2>1. PICK jx \in Box(a.shape) :
          b.base + LinearOffset(ix, b.strides) = a.base + LinearOffset(jx, a.strides)
    BY <1>2
  <2> QED
    BY <1>1, <2>1 DEF Reach
<1>5. Distinct(b)
  <2> SUFFICES ASSUME NEW ix \in Box(b.shape), NEW iy \in Box(b.shape),
                      LinearOffset(ix, b.strides) = LinearOffset(iy, b.strides)
               PROVE  ix = iy
    BY DEF Distinct
  <2>1. PICK jx \in Box(a.shape) :
                /\ At1(jx, ix)
                /\ b.base + LinearOffset(ix, b.strides) = a.base + LinearOffset(jx, a.strides)
                /\ a.base \in Int /\ LinearOffset(jx, a.strides) \in Int
    BY <1>2
  <2>2. PICK jy \in Box(a.shape) :
                /\ At1(jy, iy)
                /\ b.base + LinearOffset(iy, b.strides) = a.base + LinearOffset(jy, a.strides)
                /\ a.base \in Int /\ LinearOffset(jy, a.strides) \in Int
    BY <1>2
  <2> DEFINE x == LinearOffset(jx, a.strides)
             y == LinearOffset(jy, a.strides)
             z == a.base
  <2>3. z + x = z + y /\ x \in Int /\ y \in Int /\ z \in Int
    BY <2>1, <2>2
  <2> HIDE DEF x, y, z
  <2>4. x = y
    BY <2>3
  <2>5. jx = jy
    BY <1>1, <2>4 DEF x, y, Distinct
  <2> QED
    BY <1>same, <2>1, <2>2, <2>5
<1> QED
  BY <1>4, <1>5 DEF Sound

\* b is a with further axes of one element.
Extends(a, b, p) ==
    /\ p \in [1 .. Len(a.shape) -> 1 .. Len(b.shape)]
    /\ Places(p, Len(a.shape), Len(b.shape))
    /\ \A j \in 1 .. Len(a.shape) : b.shape[p[j]] = a.shape[j] /\ b.strides[p[j]] = a.strides[j]
    /\ \A k \in (1 .. Len(b.shape)) \ Image(p, Len(a.shape)) : b.shape[k] = 1
    /\ b.base = a.base

\* A layout that only adds unit axes to a sound one is sound.
LEMMA UnitSound ==
    ASSUME NEW a, NEW cells, Sound(a, cells), NEW b, Exact(b), NEW p, Extends(a, b, p)
    PROVE  Sound(b, cells)
<1> DEFINE m == Len(a.shape)
           n == Len(b.shape)
           s == a.strides
           t == b.strides
           own(c) == [j \in 1 .. m |-> c[p[j]]]
<1>1. Exact(a) /\ Reach(a, cells) /\ Distinct(a)
  BY DEF Sound
<1>2. /\ m \in Nat /\ n \in Nat /\ a.shape \in Seq(Nat) /\ b.shape \in Seq(Nat)
      /\ \A k \in 1 .. n : t[k] \in Int
  BY <1>1, ExactTakes DEF IntsOn
<1>3. /\ \A j \in 1 .. m : p[j] \in 1 .. n /\ b.shape[p[j]] = a.shape[j] /\ t[p[j]] = s[j]
      /\ Places(p, m, n)
      /\ \A k \in (1 .. n) \ Image(p, m) : b.shape[k] = 1
  BY DEF Extends
<1>4. ASSUME NEW c \in Box(b.shape)
      PROVE  /\ own(c) \in Box(a.shape)
             /\ LinearOffset(c, t) = LinearOffset(own(c), s)
             /\ \A k \in (1 .. n) \ Image(p, m) : c[k] = 0
             /\ c = [k \in 1 .. n |-> c[k]]
  <2>1. DOMAIN c = 1 .. n /\ \A k \in 1 .. n : c[k] \in Nat /\ c[k] < b.shape[k]
    BY <1>2, BoxTakes
  <2>2. own(c) \in Box(a.shape)
    <3>1. \A j \in 1 .. m : c[p[j]] \in Nat /\ c[p[j]] < a.shape[j]
      BY <1>3, <2>1
    <3> QED
      BY <3>1 DEF Box
  <2>3. ASSUME NEW k \in (1 .. n) \ Image(p, m) PROVE c[k] = 0
    <3>1. c[k] \in Nat /\ c[k] < 1
      BY <1>3, <2>1
    <3> QED
      BY <3>1
  <2>4. c = [k \in 1 .. n |-> c[k]]
    BY DEF Box
  <2> DEFINE u == [j \in DOMAIN own(c) |-> own(c)[j] * s[j]]
             v == [k \in DOMAIN c |-> c[k] * t[k]]
  <2>5. DOMAIN u = 1 .. m /\ \A j \in 1 .. m : u[j] = c[p[j]] * s[j]
    OBVIOUS
  <2>6. DOMAIN v = 1 .. n /\ \A k \in 1 .. n : v[k] = c[k] * t[k]
    BY <2>1
  <2>7. LinearOffset(c, t) = SumOf(v) /\ LinearOffset(own(c), s) = SumOf(u)
    BY DEF LinearOffset
  <2> HIDE DEF u, v, m, n, s, t, own
  <2>8. IntsOn(1 .. n, v)
    <3>1. ASSUME NEW k \in 1 .. n PROVE v[k] \in Int
      <4> DEFINE x == c[k]
                 y == t[k]
      <4>1. x \in Int /\ y \in Int /\ v[k] = x * y
        BY <1>2, <2>1, <2>6
      <4> HIDE DEF x, y
      <4>2. x * y \in Int
        BY <4>1
      <4> QED
        BY <4>1, <4>2
    <3> QED
      BY <3>1 DEF IntsOn
  <2>9. Follows(u, m, v, p)
    BY <1>3, <2>5, <2>6 DEF Follows
  <2>10. "sum" \in Monoidal /\ Base("sum") = 0
    BY DEF Monoidal, Base
  <2>11. Idle((1 .. n) \ Image(p, m), v, "sum")
    <3>1. ASSUME NEW k \in (1 .. n) \ Image(p, m) PROVE v[k] = 0
      <4>1. k \in 1 .. n /\ c[k] = 0 /\ v[k] = c[k] * t[k] /\ t[k] \in Int
        BY <1>2, <2>3, <2>6
      <4> QED
        BY <4>1
    <3> QED
      BY <2>10, <3>1 DEF Idle
  <2>12. Shuffles(u, m, v, n, p, "sum")
    BY <1>3, <2>6, <2>8, <2>9, <2>11 DEF Shuffles, Within
  <2>13. SumOf(u) = SumOf(v)
    <3>1. Folded("sum", {}, u) = Folded("sum", {}, v)
      BY <1>2, <2>10, <2>12, Rearranged
    <3> QED
      BY <3>1, SumFolds
  <2> QED
    BY <2>2, <2>3, <2>4, <2>7, <2>13
<1>own. \A c : \A j \in 1 .. m : own(c)[j] = c[p[j]]
  OBVIOUS
<1> HIDE DEF own
<1>5. Reach(b, cells)
  <2> SUFFICES ASSUME NEW c \in Box(b.shape) PROVE b.base + LinearOffset(c, t) \in cells
    BY DEF Reach
  <2>1. b.base = a.base
    BY DEF Extends
  <2> QED
    BY <1>1, <1>4, <2>1 DEF Reach
<1>6. Distinct(b)
  <2> SUFFICES ASSUME NEW c \in Box(b.shape), NEW d \in Box(b.shape),
                      LinearOffset(c, t) = LinearOffset(d, t)
               PROVE  c = d
    BY DEF Distinct
  <2>1. own(c) = own(d)
    BY <1>1, <1>4 DEF Distinct
  <2>2. ASSUME NEW k \in 1 .. n PROVE c[k] = d[k]
    <3>1. CASE k \in Image(p, m)
      <4>1. PICK j \in 1 .. m : p[j] = k
        BY <3>1 DEF Image
      <4> QED
        BY <1>own, <2>1, <4>1
    <3>2. CASE k \notin Image(p, m)
      BY <1>4, <3>2
    <3> QED
      BY <3>1, <3>2
  <2> QED
    BY <1>4, <2>2
<1> QED
  BY <1>5, <1>6 DEF Sound

-----------------------------------------------------------------------------
(* What the operations compute their views from *)

\* A sum without terms, and a product without factors.
LEMMA FoldNone ==
    ASSUME NEW op \in Monoidal
    PROVE  Folded(op, {}, <<>>) = Base(op)
<1>1. DOMAIN <<>> = 1 .. 0 /\ IntsOn(1 .. 0, <<>>) /\ op \in Kinds
  <2>1. op \in Kinds
    BY Monoids
  <2> QED
    BY <2>1 DEF IntsOn
<1>2. PICK f : Unrolling(f, op, {}, 0, <<>>) /\ f[0] = Folded(op, {}, <<>>)
  BY <1>1, Unrolls
<1> QED
  BY <1>2 DEF Unrolling

\* All terms add nothing.
LEMMA FoldIdle ==
    ASSUME NEW op \in Monoidal, NEW n \in Nat, NEW v, DOMAIN v = 1 .. n, IntsOn(1 .. n, v),
           Idle(1 .. n, v, op)
    PROVE  Folded(op, {}, v) = Base(op)
<1>1. Image(<<>>, 0) = {}
  BY DEF Image
<1>2. Places(<<>>, 0, n) /\ Within(<<>>, 0, n) /\ Follows(<<>>, 0, v, <<>>)
  <2>1. 1 .. 0 = {} /\ DOMAIN <<>> = {}
    OBVIOUS
  <2>2. <<>> \in [{} -> 0 .. n]
    OBVIOUS
  <2> QED
    BY <2>1, <2>2 DEF Places, Within, Follows
<1>3. Shuffles(<<>>, 0, v, n, <<>>, op)
  <2>1. (1 .. n) \ Image(<<>>, 0) = 1 .. n
    BY <1>1
  <2> QED
    BY <1>2, <2>1 DEF Shuffles
<1>4. Folded(op, {}, <<>>) = Folded(op, {}, v)
  BY <1>3, Rearranged
<1> QED
  BY <1>4, FoldNone

\* The first element of an array lies at its base.
LEMMA OffsetOfFirst ==
    ASSUME NEW n \in Nat, NEW c, DOMAIN c = 1 .. n, \A k \in 1 .. n : c[k] = 0,
           NEW strides, IntsOn(1 .. n, strides)
    PROVE  LinearOffset(c, strides) = 0
<1> DEFINE v == [k \in DOMAIN c |-> c[k] * strides[k]]
<1>1. DOMAIN v = 1 .. n /\ \A k \in 1 .. n : v[k] = 0
  BY DEF IntsOn
<1>2. LinearOffset(c, strides) = Folded("sum", {}, v)
  BY SumFolds DEF LinearOffset
<1> HIDE DEF v
<1>3. "sum" \in Monoidal /\ Base("sum") = 0
  BY DEF Monoidal, Base
<1>4. IntsOn(1 .. n, v) /\ Idle(1 .. n, v, "sum")
  BY <1>1, <1>3 DEF IntsOn, Idle
<1> QED
  BY <1>1, <1>2, <1>3, <1>4, FoldIdle

\* AxesOf gives each of the axes once.
Lists(kept, axes) ==
    /\ kept \in Seq(Int)
    /\ \A j \in 1 .. Len(kept) : kept[j] \in axes
    /\ \A k \in axes : \E j \in 1 .. Len(kept) : kept[j] = k
    /\ \A i, j \in 1 .. Len(kept) : kept[i] = kept[j] => i = j
    /\ \A i, j \in 1 .. Len(kept) : i < j => kept[i] < kept[j]

Above(k, axes) == k \in Int /\ \A x \in axes : x \in Int /\ x < k

\* A larger axis goes at the end of the list.
LEMMA ListsAppend ==
    ASSUME NEW kept, NEW axes, Lists(kept, axes), NEW k, Above(k, axes)
    PROVE  Lists(Append(kept, k), axes \cup {k})
<1> DEFINE l == Append(kept, k)
           n == Len(kept)
<1>1. kept \in Seq(Int) /\ n \in Nat
  BY LenProperties DEF Lists
<1>k. k \in Int /\ k \notin axes /\ \A x \in axes : x < k
  BY DEF Above
<1>2. l \in Seq(Int) /\ Len(l) = n + 1 /\ (\A i \in 1 .. n : l[i] = kept[i]) /\ l[n + 1] = k
  BY <1>1, <1>k, AppendProperties
<1>3. /\ \A j \in 1 .. n : kept[j] \in axes
      /\ \A i \in axes : \E j \in 1 .. n : kept[j] = i
      /\ \A i, j \in 1 .. n : kept[i] = kept[j] => i = j
      /\ \A i, j \in 1 .. n : i < j => kept[i] < kept[j]
  BY DEF Lists
<1> HIDE DEF l, n
<1>4. \A j \in 1 .. n + 1 : j \in 1 .. n \/ j = n + 1
  BY <1>1
<1>5. n + 1 \in 1 .. n + 1 /\ \A j \in 1 .. n : j \in 1 .. n + 1
  BY <1>1
<1>6. \A j \in 1 .. n + 1 : l[j] \in axes \cup {k}
  BY <1>2, <1>3, <1>4
<1>7. \A i \in axes \cup {k} : \E j \in 1 .. n + 1 : l[j] = i
  BY <1>2, <1>3, <1>5
<1>8. \A i, j \in 1 .. n + 1 : l[i] = l[j] => i = j
  BY <1>k, <1>2, <1>3, <1>4
<1>9. ASSUME NEW i \in 1 .. n + 1, NEW j \in 1 .. n + 1, i < j PROVE l[i] < l[j]
  <2>1. i \in 1 .. n
    BY <1>1, <1>9
  <2>2. CASE j \in 1 .. n
    BY <1>2, <1>3, <1>9, <2>1, <2>2
  <2>3. CASE j = n + 1
    BY <1>k, <1>2, <1>3, <2>1, <2>3
  <2> QED
    BY <1>4, <2>2, <2>3
<1> QED
  BY <1>2, <1>6, <1>7, <1>8, <1>9 DEF Lists, l

\* AxesOf lists each of the axes once.
LEMMA AxesListed ==
    ASSUME NEW a, NEW n \in Nat, DOMAIN a.shape = 1 .. n, NEW axes
    PROVE  Lists(AxesOf(a, axes), (1 .. n) \cap axes)
<1> DEFINE seq == [k \in 1 .. n |-> k]
           part(k) == (1 .. k) \cap axes
<1>1. AxesOf(a, axes) = Folded("axes", axes, seq)
  BY AxesFold
<1>2. DOMAIN seq = 1 .. n /\ IntsOn(1 .. n, seq) /\ \A k \in 1 .. n : seq[k] = k
  BY DEF IntsOn
<1> HIDE DEF seq
<1>3. "axes" \in Kinds /\ Base("axes") = <<>>
      /\ \A x, y : Step("axes", axes, x, y) = IF y \in axes THEN Append(x, y) ELSE x
  BY DEF Kinds, Base, Step
<1>4. PICK f : Unrolling(f, "axes", axes, n, seq) /\ f[n] = Folded("axes", axes, seq)
  BY <1>2, <1>3, Unrolls
<1>5. f[0] = <<>> /\ \A k \in 0 .. n - 1 :
                        f[k + 1] = IF seq[k + 1] \in axes THEN Append(f[k], seq[k + 1]) ELSE f[k]
  BY <1>3, <1>4 DEF Unrolling
<1> DEFINE T == {k \in 0 .. n : Lists(f[k], part(k))}
<1>6. 0 \in T
  <2>1. part(0) = {} /\ Len(<<>>) = 0 /\ 1 .. 0 = {} /\ <<>> \in Seq(Int)
    OBVIOUS
  <2> HIDE DEF part
  <2>2. Lists(<<>>, {})
    BY <2>1 DEF Lists
  <2>3. Lists(f[0], part(0))
    BY <1>5, <2>1, <2>2
  <2> QED
    BY <2>3
<1>7. ASSUME NEW k \in 0 .. n - 1, k \in T PROVE k + 1 \in T
  <2>1. k \in Nat /\ k + 1 \in 1 .. n /\ k + 1 \in 0 .. n /\ k + 1 \in Int
    OBVIOUS
  <2>2. f[k + 1] = IF k + 1 \in axes THEN Append(f[k], k + 1) ELSE f[k]
    BY <1>2, <1>5, <2>1
  <2>3. 1 .. k + 1 = (1 .. k) \cup {k + 1} /\ k + 1 \notin 1 .. k
    BY <2>1
  <2>4. CASE k + 1 \in axes
    <3>1. part(k + 1) = part(k) \cup {k + 1}
      BY <2>3, <2>4
    <3>a. Above(k + 1, part(k))
      <4>1. \A x \in 1 .. k : x \in Int /\ x < k + 1
        BY <2>1
      <4> QED
        BY <2>1, <4>1 DEF Above
    <3>2. Lists(f[k], part(k))
      BY <1>7
    <3> HIDE DEF part
    <3>3. Lists(Append(f[k], k + 1), part(k) \cup {k + 1})
      BY <2>1, <3>1, <3>a, <3>2, ListsAppend
    <3> QED
      BY <2>1, <2>2, <2>4, <3>1, <3>3
  <2>5. CASE k + 1 \notin axes
    <3>1. part(k + 1) = part(k)
      BY <2>3, <2>5
    <3>2. Lists(f[k], part(k))
      BY <1>7
    <3> HIDE DEF part
    <3> QED
      BY <2>1, <2>2, <2>5, <3>1, <3>2
  <2> QED
    BY <2>4, <2>5
<1>8. n \in T
  <2> HIDE DEF T
  <2> QED
    BY <1>6, <1>7, Reaches
<1> QED
  BY <1>1, <1>4, <1>8

\* A product of smaller factors.
Below(n, u, v) == \A k \in 1 .. n : 0 <= u[k] /\ u[k] <= v[k]

\* Smaller factors have no larger product.
LEMMA ProductsBelow ==
    ASSUME NEW n \in Nat, NEW u, DOMAIN u = 1 .. n, IntsOn(1 .. n, u),
           NEW v, DOMAIN v = 1 .. n, IntsOn(1 .. n, v), Below(n, u, v)
    PROVE  /\ Folded("product", {}, u) \in Nat /\ Folded("product", {}, v) \in Nat
           /\ Folded("product", {}, u) <= Folded("product", {}, v)
<1>1. "product" \in Kinds /\ Values("product") = Int /\ Base("product") = 1
      /\ \A x, y : Step("product", {}, x, y) = x * y
  BY DEF Kinds, Values, Base, Step
<1>2. \A k \in 1 .. n : u[k] \in Int /\ v[k] \in Int /\ 0 <= u[k] /\ u[k] <= v[k]
  BY DEF IntsOn, Below
<1>3. PICK f : Unrolling(f, "product", {}, n, u) /\ f[n] = Folded("product", {}, u)
  BY <1>1, Unrolls
<1>4. PICK g : Unrolling(g, "product", {}, n, v) /\ g[n] = Folded("product", {}, v)
  BY <1>1, Unrolls
<1>5. /\ f \in [0 .. n -> Int] /\ f[0] = 1 /\ \A k \in 0 .. n - 1 : f[k + 1] = f[k] * u[k + 1]
      /\ g \in [0 .. n -> Int] /\ g[0] = 1 /\ \A k \in 0 .. n - 1 : g[k + 1] = g[k] * v[k + 1]
  BY <1>1, <1>3, <1>4 DEF Unrolling
<1> DEFINE T == {k \in 0 .. n : 0 <= f[k] /\ f[k] <= g[k]}
<1>6. 0 \in T
  BY <1>5
<1>7. ASSUME NEW k \in 0 .. n - 1, k \in T PROVE k + 1 \in T
  <2> DEFINE x == f[k]
             y == g[k]
             p == u[k + 1]
             q == v[k + 1]
  <2>1. k + 1 \in 1 .. n /\ k + 1 \in 0 .. n /\ k \in 0 .. n
    OBVIOUS
  <2>2. x \in Int /\ y \in Int /\ p \in Int /\ q \in Int /\ 0 <= x /\ x <= y /\ 0 <= p /\ p <= q
        /\ f[k + 1] = x * p /\ g[k + 1] = y * q
    BY <1>2, <1>5, <1>7, <2>1
  <2> HIDE DEF x, y, p, q
  <2>3. 0 <= x * p /\ x * p <= x * q /\ x * q <= y * q
    <3>1. 0 <= x * p
      BY <2>2
    <3>2. x * (q - p) >= 0 /\ (y - x) * q >= 0
      <4>1. q - p \in Nat /\ y - x \in Nat /\ x \in Nat /\ q \in Nat
        BY <2>2
      <4> QED
        BY <4>1
    <3>3. x * (q - p) = x * q - x * p /\ (y - x) * q = y * q - x * q
      BY <2>2
    <3> DEFINE r == x * p
               s == x * q
               t == y * q
    <3>4. r \in Int /\ s \in Int /\ t \in Int /\ s - r >= 0 /\ t - s >= 0
      BY <2>2, <3>2, <3>3
    <3> HIDE DEF r, s, t
    <3>5. r <= s /\ s <= t
      BY <3>4
    <3> QED
      BY <3>1, <3>5 DEF r, s, t
  <2>4. x * p \in Int /\ x * q \in Int /\ y * q \in Int
    BY <2>2
  <2>5. 0 <= f[k + 1] /\ f[k + 1] <= g[k + 1]
    BY <2>2, <2>3, <2>4
  <2> QED
    BY <2>1, <2>5
<1>8. n \in T
  <2> HIDE DEF T
  <2> QED
    BY <1>6, <1>7, Reaches
<1>9. f[n] \in Int /\ g[n] \in Int
  BY <1>5
<1> QED
  BY <1>3, <1>4, <1>8, <1>9

-----------------------------------------------------------------------------
(* Slices *)

\* An adjusted slice takes elements of its axis only, and at most all of them.
Inside(r, n) ==
    /\ r.start \in Int /\ r.step \in Int /\ r.step # 0 /\ r.len \in Nat /\ r.len <= n
    /\ \A x \in Nat : x < r.len => 0 <= r.start + r.step * x /\ r.start + r.step * x < n

\* A clipped bound is a position on the axis, or just past one of its ends.
LEMMA ClipTakes ==
    ASSUME NEW v \in Int, NEW n \in Nat, NEW low \in Int, NEW high \in Int,
           low <= high, low \in {-1, 0}, high \in {n - 1, n}
    PROVE  Clip(v, n, low, high) \in low .. high
<1>1. CASE v < 0
  BY <1>1 DEF Clip
<1>2. CASE v >= 0
  BY <1>2 DEF Clip
<1> QED
  BY <1>1, <1>2

\* How often s fits into d.
LEMMA Fits ==
    ASSUME NEW d \in Nat, NEW s \in Nat, s > 0
    PROVE  /\ d \div s \in Nat /\ d \div s <= d
           /\ \A x \in Nat : x <= d \div s => s * x \in Nat /\ s * x <= d
<1> DEFINE q == d \div s
           m == d % s
<1>1. q \in Int /\ m \in Int /\ d = q * s + m /\ 0 <= m /\ m < s
  BY Division
<1> HIDE DEF q, m
<1>2. q >= 0
  <2> SUFFICES ASSUME q <= -1 PROVE FALSE
    BY <1>1
  <2>1. q * s <= -s
    <3>1. (-1 - q) \in Nat
      BY <1>1
    <3>2. (-1 - q) * s >= 0
      BY <3>1
    <3>3. (-1 - q) * s = -s - q * s
      BY <1>1
    <3> QED
      BY <1>1, <3>2, <3>3
  <2> QED
    BY <1>1, <2>1
<1>3. ASSUME NEW x \in Nat, x <= q PROVE s * x \in Nat /\ s * x <= d
  <2>1. (q - x) * s >= 0 /\ s * x \in Nat /\ q * s \in Nat
    <3>1. q - x \in Nat /\ q \in Nat
      BY <1>1, <1>2, <1>3
    <3> QED
      BY <3>1
  <2>2. (q - x) * s = q * s - s * x
    BY <1>1
  <2> QED
    BY <1>1, <2>1, <2>2
<1>4. q <= d
  <2>1. s * q <= d /\ s * q \in Nat
    BY <1>1, <1>2, <1>3
  <2>2. (s - 1) * q >= 0
    <3>1. s - 1 \in Nat /\ q \in Nat
      BY <1>1, <1>2
    <3> QED
      BY <3>1
  <2>3. (s - 1) * q = s * q - q
    BY <1>1
  <2> QED
    BY <1>1, <2>1, <2>2, <2>3
<1> QED
  BY <1>1, <1>2, <1>3, <1>4 DEF q

\* A slice upwards.
LEMMA UpInside ==
    ASSUME NEW n \in Nat, NEW i \in 0 .. n, NEW j \in 0 .. n, NEW s \in Nat, s > 0,
           NEW r, r.start = i, r.step = s,
           r.len = IF i < j THEN (j - i - 1) \div s + 1 ELSE 0
    PROVE  Inside(r, n)
<1>1. CASE i < j
  <2> DEFINE d == j - i - 1
             q == d \div s
  <2>1. d \in Nat /\ d + 1 <= n /\ i + d < n
    BY <1>1
  <2>2. r.len = q + 1
    BY <1>1
  <2> HIDE DEF d
  <2>3. q \in Nat /\ q <= d /\ \A x \in Nat : x <= q => s * x \in Nat /\ s * x <= d
    BY <2>1, Fits
  <2> HIDE DEF q
  <2>4. ASSUME NEW x \in Nat, x < r.len PROVE 0 <= i + s * x /\ i + s * x < n
    <3> DEFINE t == s * x
    <3>1. x <= q
      BY <2>2, <2>3, <2>4
    <3>2. t \in Nat /\ t <= d
      BY <2>3, <3>1
    <3> HIDE DEF t
    <3>3. 0 <= i + t /\ i + t < n
      BY <2>1, <3>2
    <3> QED
      BY <3>3 DEF t
  <2>5. r.len \in Nat /\ r.len <= n
    BY <2>1, <2>2, <2>3
  <2> QED
    BY <2>4, <2>5 DEF Inside
<1>2. CASE ~(i < j)
  <2>1. r.len = 0 /\ i \in Int /\ s \in Int
    BY <1>2
  <2> QED
    BY <2>1 DEF Inside
<1> QED
  BY <1>1, <1>2

\* A slice downwards, by s.
LEMMA DownInside ==
    ASSUME NEW n \in Nat, NEW i \in -1 .. n - 1, NEW j \in -1 .. n - 1, NEW s \in Nat, s > 0,
           NEW r, r.start = i, r.step = -s,
           r.len = IF j < i THEN (i - j - 1) \div s + 1 ELSE 0
    PROVE  Inside(r, n)
<1>1. CASE j < i
  <2> DEFINE d == i - j - 1
             q == d \div s
  <2>1. d \in Nat /\ d + 1 <= n /\ i - d >= 0
    BY <1>1
  <2>2. r.len = q + 1
    BY <1>1
  <2> HIDE DEF d
  <2>3. q \in Nat /\ q <= d /\ \A x \in Nat : x <= q => s * x \in Nat /\ s * x <= d
    BY <2>1, Fits
  <2> HIDE DEF q
  <2>4. ASSUME NEW x \in Nat, x < r.len PROVE 0 <= i + (-s) * x /\ i + (-s) * x < n
    <3> DEFINE t == s * x
    <3>1. x <= q
      BY <2>2, <2>3, <2>4
    <3>2. t \in Nat /\ t <= d
      BY <2>3, <3>1
    <3>3. (-s) * x = -t
      OBVIOUS
    <3> HIDE DEF t
    <3>4. 0 <= i + (-t) /\ i + (-t) < n
      BY <2>1, <3>2
    <3> QED
      BY <3>3, <3>4
  <2>5. r.len \in Nat /\ r.len <= n
    BY <2>1, <2>2, <2>3
  <2> QED
    BY <2>4, <2>5 DEF Inside
<1>2. CASE ~(j < i)
  <2>1. r.len = 0 /\ i \in Int /\ -s \in Int /\ -s # 0
    BY <1>2
  <2> QED
    BY <2>1 DEF Inside
<1> QED
  BY <1>1, <1>2

\* A slice, whatever its bounds and step, selects elements inside its axis.
LEMMA AdjustInside ==
    ASSUME NEW n \in Nat, NEW s \in SliceItems
    PROVE  Inside(AdjustSlice(s, n), n) /\ AdjustSlice(s, n).kind = "slice"
<1> DEFINE r == AdjustSlice(s, n)
           low  == IF s.step > 0 THEN 0 ELSE -1
           high == IF s.step > 0 THEN n ELSE n - 1
           i == IF s.start # NoBound THEN Clip(s.start, n, low, high)
                ELSE IF s.step > 0 THEN 0 ELSE n - 1
           j == IF s.stop # NoBound THEN Clip(s.stop, n, low, high)
                ELSE IF s.step > 0 THEN n ELSE -1
<1>1. s.start \in Bounds /\ s.stop \in Bounds /\ s.step \in Int /\ s.step # 0
  BY DEF SliceItems, Steps
<1>2. (s.start # NoBound => s.start \in Int) /\ (s.stop # NoBound => s.stop \in Int)
  BY <1>1 DEF Bounds
<1>3. i \in low .. high /\ j \in low .. high
  <2>1. low \in Int /\ high \in Int /\ low <= high /\ low \in {-1, 0} /\ high \in {n - 1, n}
    OBVIOUS
  <2>2. \A v \in Int : Clip(v, n, low, high) \in low .. high
    <3> HIDE DEF low, high
    <3> QED
      BY <2>1, ClipTakes
  <2>3. (s.step > 0 => 0 \in low .. high /\ n \in low .. high)
        /\ (~(s.step > 0) => -1 \in low .. high /\ n - 1 \in low .. high)
    OBVIOUS
  <2> HIDE DEF low, high
  <2> QED
    BY <1>2, <2>2, <2>3
<1>4. /\ r.kind = "slice" /\ r.start = i /\ r.step = s.step
      /\ r.len = IF s.step > 0 THEN (IF i < j THEN (j - i - 1) \div s.step + 1 ELSE 0)
                 ELSE (IF j < i THEN (i - j - 1) \div (-s.step) + 1 ELSE 0)
  <2>1. r = [kind |-> "slice", start |-> i, step |-> s.step,
             len |-> IF s.step > 0 THEN (IF i < j THEN (j - i - 1) \div s.step + 1 ELSE 0)
                     ELSE (IF j < i THEN (i - j - 1) \div (-s.step) + 1 ELSE 0)]
    BY Zenon DEF AdjustSlice
  <2> HIDE DEF r, i, j
  <2> QED
    BY <2>1
<1> HIDE DEF r, i, j
<1> DEFINE t == s.step
<1>5. CASE t > 0
  <2>1. t \in Nat /\ i \in 0 .. n /\ j \in 0 .. n /\ r.start = i /\ r.step = t
        /\ r.len = IF i < j THEN (j - i - 1) \div t + 1 ELSE 0
    BY <1>1, <1>3, <1>4, <1>5
  <2> HIDE DEF t
  <2>2. Inside(r, n)
    BY <1>5, <2>1, UpInside
  <2> QED
    BY <1>4, <2>2 DEF r
<1>6. CASE ~(t > 0)
  <2> DEFINE u == -t
  <2>1. t \in Int /\ u \in Nat /\ u > 0 /\ i \in -1 .. n - 1 /\ j \in -1 .. n - 1 /\ r.start = i
        /\ r.step = t /\ r.len = IF j < i THEN (i - j - 1) \div u + 1 ELSE 0
    BY <1>1, <1>3, <1>4, <1>6
  <2>2. t = -u
    BY <2>1
  <2> HIDE DEF t, u
  <2>3. Inside(r, n)
    BY <2>1, <2>2, DownInside
  <2> QED
    BY <1>4, <2>3 DEF r
<1> QED
  BY <1>5, <1>6

-----------------------------------------------------------------------------
(* Keys *)

\* Every axis gets an item of the key, or a full slice: the one NumPy gives it.
LEMMA ItemsAre ==
    ASSUME NEW a, NEW n \in Nat, Len(a.shape) = n,
           NEW key \in Seq(KeyItems),
           Cardinality({k \in DOMAIN key : key[k] = Ellipsis}) <= 1, Named(key) <= n
    PROVE  \A k \in 1 .. n : /\ Items(a, key)[k] \in IndexItems \cup SliceItems
                            /\ Items(a, key)[k] = Numpy!AxisItem(key, k, n)
<1> DEFINE D == IndexItems \cup SliceItems
           m == Len(key)
           Dots == {k \in DOMAIN key : key[k] = Ellipsis}
           Others == {k \in DOMAIN key : key[k] # Ellipsis}
           c == Named(key)
           fill == [k \in 1 .. n - c |-> FullAxis]
           where == SelectInSeq(key, LAMBDA it : it = Ellipsis)
           dots == {j \in DOMAIN key : key[j].kind = "ellipsis"}
<1>1. m \in Nat /\ DOMAIN key = 1 .. m /\ \A k \in 1 .. m : key[k] \in KeyItems
  BY LenProperties, ElementOfSeq
<1>2. IsFiniteSet(1 .. m) /\ Cardinality(1 .. m) = m
  <2> HIDE DEF m
  <2> QED
    BY <1>1, FS_Interval
<1>3. FullAxis \in D
  BY DEF FullAxis, Slice, SliceItems, Bounds, Steps
<1>4. \A k \in 1 .. m : key[k] # Ellipsis => key[k] \in D
  BY <1>1 DEF KeyItems
<1>dots. dots = Dots
  <2>1. \A k \in 1 .. m : key[k].kind = "ellipsis" <=> key[k] = Ellipsis
    BY <1>1 DEF KeyItems, IndexItems, SliceItems, Ellipsis
  <2> QED
    BY <1>1, <2>1
<1>full. [kind |-> "slice", start |-> NoBound, stop |-> NoBound, step |-> 1] = FullAxis
  BY DEF FullAxis, Slice
<1>axis. ASSUME NEW k
         PROVE  Numpy!AxisItem(key, k, n)
                  = IF Dots = {} THEN IF k <= m THEN key[k] ELSE FullAxis
                    ELSE LET e == CHOOSE j \in Dots : TRUE
                         IN  IF k < e THEN key[k]
                             ELSE IF k > n - (m - e) THEN key[m - (n - k)] ELSE FullAxis
  <2> HIDE DEF Dots
  <2> QED
    BY <1>dots, <1>full, Zenon DEF Numpy!AxisItem
<1>5. Items(a, key) = IF where = 0 THEN key \o fill
                      ELSE SubSeq(key, 1, where - 1) \o fill \o SubSeq(key, where + 1, m)
  BY DEF Items
<1>6. where = IF Dots # {} THEN Min(Dots) ELSE 0
  <2>1. DOMAIN key = 1 .. Len(key)
    BY LenProperties
  <2> QED
    BY <2>1 DEF SelectInSeq
<1>7. c = Cardinality(Others) /\ c <= n /\ Cardinality(Dots) <= 1
  BY DEF Named
<1> HIDE DEF D, where
<1>8. IsFiniteSet(Dots) /\ IsFiniteSet(Others)
  <2>1. Dots \in SUBSET (1 .. m) /\ Others \in SUBSET (1 .. m)
    BY <1>1
  <2> HIDE DEF Dots, Others
  <2> QED
    BY <1>2, <2>1, FS_Subset
<1>9. c \in Nat
  <2> HIDE DEF Others
  <2> QED
    BY <1>7, <1>8, FS_CardinalityType
<1> HIDE DEF c
<1>10. fill \in Seq(D) /\ Len(fill) = n - c /\ \A k \in 1 .. n - c : fill[k] = FullAxis
  <2>1. n - c \in Nat
    BY <1>7, <1>9
  <2>2. fill \in [1 .. n - c -> D]
    BY <1>3
  <2> QED
    BY <2>1, <2>2, LenProperties
<1> HIDE DEF fill
<1>cat. \A y, z \in Seq(D) :
          /\ y \o z \in Seq(D) /\ Len(y \o z) = Len(y) + Len(z)
          /\ \A k \in 1 .. Len(y) + Len(z) : (y \o z)[k] = IF k <= Len(y) THEN y[k] ELSE z[k - Len(y)]
  BY ConcatProperties
<1>11. CASE Dots = {}
  <2>1. Others = 1 .. m /\ c = m
    <3>1. Others = 1 .. m
      BY <1>1, <1>11
    <3> HIDE DEF Others
    <3> QED
      BY <1>2, <1>7, <3>1
  <2>2. \A k \in 1 .. m : key[k] \in D
    BY <1>1, <1>4, <1>11
  <2>3. key \in Seq(D)
    <3>1. key = [k \in 1 .. m |-> key[k]]
      BY <1>1
    <3>2. key \in [1 .. m -> D]
      BY <2>2, <3>1
    <3> QED
      BY <1>1, <3>2
  <2>4. Items(a, key) = key \o fill
    BY <1>5, <1>6, <1>11
  <2> HIDE DEF m
  <2>5. \A k \in 1 .. m + (n - c) : (key \o fill)[k] = IF k <= m THEN key[k] ELSE fill[k - m]
    BY <1>10, <2>3, ConcatProperties DEF m
  <2>6. ASSUME NEW k \in 1 .. n
        PROVE  /\ (key \o fill)[k] \in D
               /\ (key \o fill)[k] = IF k <= m THEN key[k] ELSE FullAxis
    <3>1. k \in 1 .. m + (n - c) /\ (k <= m => k \in 1 .. m) /\ (~(k <= m) => k - m \in 1 .. n - c)
      BY <1>1, <1>7, <1>9, <2>1
    <3> QED
      BY <1>3, <1>10, <2>2, <2>5, <3>1
  <2>7. \A k \in 1 .. n : Numpy!AxisItem(key, k, n) = IF k <= m THEN key[k] ELSE FullAxis
    BY <1>11, <1>axis
  <2> QED
    BY <2>4, <2>6, <2>7 DEF D
<1>12. CASE Dots # {}
  <2>1. PICK e : Dots = {e}
    <3> HIDE DEF Dots
    <3>1. Cardinality(Dots) \in Nat /\ Cardinality(Dots) # 0
      BY <1>8, <1>12, FS_CardinalityType, FS_EmptySet
    <3>2. Cardinality(Dots) = 1
      BY <1>7, <3>1
    <3> QED
      BY <1>8, <3>2, FS_Singleton
  <2>2. e \in 1 .. m /\ key[e] = Ellipsis /\ \A k \in 1 .. m : k # e => key[k] # Ellipsis
    BY <1>1, <2>1
  <2>3. where = e
    <3>1. Min({e}) = e
      BY <2>2 DEF Min
    <3> QED
      BY <1>6, <1>12, <2>1, <3>1
  <2>4. c = m - 1
    <3>1. Others = (1 .. m) \ {e}
      BY <1>1, <2>2
    <3>2. Cardinality((1 .. m) \ {e}) = m - 1
      <4> HIDE DEF m
      <4> QED
        BY <1>2, <2>2, FS_RemoveElement
    <3> HIDE DEF Others
    <3> QED
      BY <1>7, <3>1, <3>2
  <2> DEFINE u == SubSeq(key, 1, e - 1)
             v == SubSeq(key, e + 1, m)
             x == u \o fill
  <2>5. u \in Seq(D) /\ Len(u) = e - 1 /\ \A k \in 1 .. e - 1 : u[k] = key[k]
    <3>1. \A i \in 1 .. e - 1 : key[i] \in D
      <4>1. \A i \in 1 .. e - 1 : i \in 1 .. m /\ i # e
        BY <1>1, <2>2
      <4> QED
        BY <1>4, <2>2, <4>1
    <3>2. e - 1 \in Int /\ 1 \in Int
      BY <2>2
    <3>3. /\ u \in Seq(D) /\ Len(u) = IF 1 <= e - 1 THEN (e - 1) - 1 + 1 ELSE 0
          /\ \A k \in 1 .. (e - 1) - 1 + 1 : u[k] = key[1 + k - 1]
      BY <3>1, <3>2, SubSeqProperties
    <3>4. ASSUME NEW k \in 1 .. e - 1 PROVE u[k] = key[k]
      <4>1. k \in 1 .. (e - 1) - 1 + 1 /\ 1 + k - 1 = k
        BY <2>2
      <4> HIDE DEF u
      <4> QED
        BY <3>3, <4>1
    <3> HIDE DEF u
    <3> QED
      BY <2>2, <3>3, <3>4
  <2>6. v \in Seq(D) /\ Len(v) = m - e /\ \A k \in 1 .. m - e : v[k] = key[e + k]
    <3>1. \A i \in e + 1 .. m : key[i] \in D
      <4>1. \A i \in e + 1 .. m : i \in 1 .. m /\ i # e
        BY <1>1, <2>2
      <4> QED
        BY <1>4, <2>2, <4>1
    <3>2. e + 1 \in Int /\ m \in Int
      BY <1>1, <2>2
    <3>3. /\ v \in Seq(D) /\ Len(v) = IF e + 1 <= m THEN m - (e + 1) + 1 ELSE 0
          /\ \A k \in 1 .. m - (e + 1) + 1 : v[k] = key[(e + 1) + k - 1]
      <4> HIDE DEF m
      <4> QED
        BY <3>1, <3>2, SubSeqProperties
    <3> HIDE DEF v, m
    <3>4. ASSUME NEW k \in 1 .. m - e PROVE v[k] = key[e + k]
      <4>1. k \in 1 .. m - (e + 1) + 1 /\ (e + 1) + k - 1 = e + k
        BY <1>1, <2>2
      <4> QED
        BY <3>3, <4>1
    <3> QED
      BY <1>1, <2>2, <3>3, <3>4
  <2>7. Items(a, key) = x \o v
    <3>1. where # 0
      BY <2>2, <2>3
    <3> HIDE DEF m
    <3> QED
      BY <1>5, <2>3, <3>1
  <2> HIDE DEF u, v, m
  <2>8. /\ x \in Seq(D) /\ Len(x) = (e - 1) + (n - c)
        /\ \A k \in 1 .. (e - 1) + (n - c) : x[k] = IF k <= e - 1 THEN u[k] ELSE fill[k - (e - 1)]
    <3>1. Len(u) = e - 1 /\ Len(fill) = n - c
      BY <1>10, <2>5
    <3>2. /\ x \in Seq(D) /\ Len(x) = Len(u) + Len(fill)
          /\ \A k \in 1 .. Len(u) + Len(fill) :
               x[k] = IF k <= Len(u) THEN u[k] ELSE fill[k - Len(u)]
      <4>1. u \in Seq(D) /\ fill \in Seq(D)
        BY <1>10, <2>5
      <4> QED
        BY <1>cat, <4>1, Zenon
    <3> HIDE DEF x
    <3> QED
      BY <3>1, <3>2, Zenon
  <2> HIDE DEF x
  <2>9. /\ x \o v \in Seq(D) /\ Len(x \o v) = ((e - 1) + (n - c)) + (m - e)
        /\ \A k \in 1 .. ((e - 1) + (n - c)) + (m - e) :
             (x \o v)[k] = IF k <= (e - 1) + (n - c) THEN x[k] ELSE v[k - ((e - 1) + (n - c))]
    <3>1. Len(x) = (e - 1) + (n - c) /\ Len(v) = m - e
      BY <2>6, <2>8
    <3> DEFINE y == x \o v
    <3>2. /\ y \in Seq(D) /\ Len(y) = Len(x) + Len(v)
          /\ \A k \in 1 .. Len(x) + Len(v) :
               y[k] = IF k <= Len(x) THEN x[k] ELSE v[k - Len(x)]
      BY <2>6, <2>8, ConcatProperties
    <3> HIDE DEF y
    <3>3. /\ y \in Seq(D) /\ Len(y) = ((e - 1) + (n - c)) + (m - e)
          /\ \A k \in 1 .. ((e - 1) + (n - c)) + (m - e) :
             y[k] = IF k <= (e - 1) + (n - c) THEN x[k] ELSE v[k - ((e - 1) + (n - c))]
      BY <3>1, <3>2, Zenon
    <3> QED
      BY <3>3 DEF y
  <2>10. Len(x \o v) = n
    BY <1>1, <1>7, <1>9, <2>2, <2>4, <2>9
  <2>11. \A k \in 1 .. n : (x \o v)[k] \in D
    BY <2>9, <2>10, ElementOfSeq
  <2>12. (CHOOSE j \in Dots : TRUE) = e
    BY <2>1
  <2>13. ASSUME NEW k \in 1 .. n
         PROVE  (x \o v)[k] = IF k < e THEN key[k]
                               ELSE IF k > n - (m - e) THEN key[m - (n - k)] ELSE FullAxis
    <3> DEFINE w == (e - 1) + (n - c)
    <3>0. m \in Int /\ e \in Int /\ c \in Int /\ c = m - 1 /\ c <= n
      BY <1>1, <1>7, <1>9, <2>2, <2>4
    <3>1. w = n - (m - e) /\ w \in Int /\ k \in 1 .. w + (m - e) /\ e \in Int /\ m \in Int
      BY <3>0
    <3>2. (x \o v)[k] = IF k <= w THEN x[k] ELSE v[k - w]
      BY <2>9, <3>1
    <3>3. \A h \in 1 .. w : x[h] = IF h <= e - 1 THEN u[h] ELSE fill[h - (e - 1)]
      BY <2>8
    <3>4. w = (e - 1) + (n - c)
      OBVIOUS
    <3> HIDE DEF w
    <3>5. CASE k < e
      <4>1. k \in 1 .. e - 1 /\ k <= w /\ k \in 1 .. w /\ k <= e - 1
        BY <3>0, <3>1, <3>4, <3>5
      <4>2. x[k] = u[k] /\ u[k] = key[k]
        BY <2>5, <3>3, <4>1
      <4> QED
        BY <3>2, <3>5, <4>1, <4>2
    <3>6. CASE ~(k < e) /\ k <= w
      <4>1. k \in 1 .. w /\ ~(k <= e - 1) /\ k - (e - 1) \in 1 .. n - c /\ ~(k > n - (m - e))
        BY <3>0, <3>1, <3>4, <3>6
      <4>2. x[k] = FullAxis
        BY <1>10, <3>3, <4>1
      <4> QED
        BY <3>2, <3>6, <4>1, <4>2
    <3>7. CASE ~(k < e) /\ ~(k <= w)
      <4>1. k - w \in 1 .. m - e /\ e + (k - w) = m - (n - k) /\ k > n - (m - e)
        BY <3>1, <3>7
      <4>2. v[k - w] = key[m - (n - k)]
        BY <2>6, <4>1
      <4> QED
        BY <3>2, <3>7, <4>1, <4>2
    <3> QED
      BY <3>5, <3>6, <3>7
  <2>14. ASSUME NEW k \in 1 .. n
         PROVE  Numpy!AxisItem(key, k, n)
                  = IF k < e THEN key[k]
                    ELSE IF k > n - (m - e) THEN key[m - (n - k)] ELSE FullAxis
    BY <1>12, <1>axis, <2>12
  <2> QED
    BY <2>7, <2>11, <2>13, <2>14 DEF D
<1> QED
  BY <1>11, <1>12

\* The normalised specifier of an axis of n elements.
Specified(it, n) ==
    \/ it.kind = "int" /\ it.index \in Int /\ 0 <= it.index /\ it.index < n
    \/ it.kind = "slice" /\ Inside(it, n)

\* Every specifier of an accepted key selects inside its axis.
LEMMA SpecsTake ==
    ASSUME NEW a, a.shape \in Seq(Nat), NEW key \in Seq(KeyItems), CanIndex(a, key)
    PROVE  /\ DOMAIN Specs(a, key) = 1 .. Len(a.shape)
           /\ \A k \in 1 .. Len(a.shape) : Specified(Specs(a, key)[k], a.shape[k])
           /\ \A k \in 1 .. Len(a.shape) :
                Items(a, key)[k].kind = "slice" => Specs(a, key)[k].kind = "slice"
<1> DEFINE n == Len(a.shape)
           items == Items(a, key)
           specs == Specs(a, key)
<1>1. n \in Nat /\ DOMAIN a.shape = 1 .. n /\ \A k \in 1 .. n : a.shape[k] \in Nat
  BY LenProperties, ElementOfSeq
<1>2. /\ Cardinality({k \in DOMAIN key : key[k] = Ellipsis}) <= 1 /\ Named(key) <= n
      /\ \A k \in 1 .. n : items[k].kind = "int" => items[k].index \in -a.shape[k] .. a.shape[k] - 1
  BY <1>1 DEF CanIndex
<1>3. \A k \in 1 .. n : items[k] \in IndexItems \cup SliceItems
  <2> HIDE DEF n
  <2> QED
    BY <1>1, <1>2, ItemsAre DEF n
<1>4. /\ DOMAIN specs = 1 .. n
      /\ \A k \in 1 .. n :
            specs[k] = IF items[k].kind = "int"
                       THEN At(IF items[k].index < 0 THEN items[k].index + a.shape[k]
                               ELSE items[k].index)
                       ELSE AdjustSlice(items[k], a.shape[k])
  BY <1>1 DEF Specs
<1> HIDE DEF items, specs, n
<1>5. ASSUME NEW k \in 1 .. n
      PROVE  /\ Specified(specs[k], a.shape[k])
             /\ items[k].kind = "slice" => specs[k].kind = "slice"
  <2> DEFINE it == items[k]
             d == a.shape[k]
  <2>1. d \in Nat /\ it \in IndexItems \cup SliceItems
    BY <1>1, <1>3
  <2>2. CASE it.kind = "int"
    <3> DEFINE i == it.index
    <3>1. i \in -d .. d - 1
      BY <1>2, <2>2
    <3>2. specs[k] = At(IF i < 0 THEN i + d ELSE i)
      BY <1>4, <2>2
    <3> HIDE DEF d, i
    <3>3. (IF i < 0 THEN i + d ELSE i) \in Int /\ 0 <= (IF i < 0 THEN i + d ELSE i)
          /\ (IF i < 0 THEN i + d ELSE i) < d
      BY <2>1, <3>1
    <3>4. specs[k].kind = "int" /\ specs[k].index = IF i < 0 THEN i + d ELSE i
      BY <3>2 DEF At
    <3> QED
      BY <2>2, <3>3, <3>4 DEF Specified, d
  <2>3. CASE it.kind # "int"
    <3>1. it \in SliceItems
      BY <2>1, <2>3 DEF IndexItems
    <3>2. specs[k] = AdjustSlice(it, d)
      BY <1>4, <2>3
    <3> HIDE DEF it, d
    <3>3. Inside(specs[k], d) /\ specs[k].kind = "slice"
      BY <2>1, <3>1, <3>2, AdjustInside
    <3> QED
      BY <3>3 DEF Specified, d
  <2> QED
    BY <2>2, <2>3
<1> QED
  BY <1>4, <1>5 DEF items, specs, n

-----------------------------------------------------------------------------
(* Each operation makes a sound layout of a sound layout *)

\* A function on 1 .. n is a sequence.
LEMMA SequenceOf ==
    ASSUME NEW S, NEW n \in Nat, NEW f \in [1 .. n -> S]
    PROVE  f \in Seq(S) /\ Len(f) = n /\ DOMAIN f = 1 .. n
<1>1. f \in Seq(S)
  OBVIOUS
<1>2. DOMAIN f = 1 .. n /\ Len(f) \in Nat /\ DOMAIN f = 1 .. Len(f)
  BY <1>1, LenProperties
<1> QED
  BY <1>1, <1>2

\* b has the axes p of a, and lacks only axes of one element.
Picks(a, b, p) ==
    /\ b \in Layouts /\ Len(b.strides) = Len(b.shape) /\ b.base = a.base /\ b.size = a.size
    /\ p \in [1 .. Len(b.shape) -> 1 .. Len(a.shape)]
    /\ Places(p, Len(b.shape), Len(a.shape))
    /\ \A j \in 1 .. Len(b.shape) : b.shape[j] = a.shape[p[j]] /\ b.strides[j] = a.strides[p[j]]
    /\ \A k \in (1 .. Len(a.shape)) \ Image(p, Len(b.shape)) : a.shape[k] = 1

\* A view that picks inside each axis of a sound layout is sound.
LEMMA PicksSound ==
    ASSUME NEW a, NEW cells, Sound(a, cells), NEW b, NEW p, Picks(a, b, p)
    PROVE  Sound(b, cells)
<1> DEFINE m == Len(b.shape)
           n == Len(a.shape)
           from == [k \in 1 .. n |-> 0]
           step == [j \in 1 .. m |-> 1]
<1>1. Exact(a)
  BY DEF Sound
<1>2. /\ n \in Nat /\ DOMAIN a.shape = 1 .. n /\ IntsOn(1 .. n, a.shape)
      /\ a.shape \in Seq(Nat) /\ IntsOn(1 .. n, a.strides) /\ a.base \in Int
      /\ a.size = Count(a.shape) /\ a.size < WordSize
  BY <1>1, ExactTakes DEF Exact
<1>3. /\ b \in Layouts /\ Len(b.strides) = m /\ b.base = a.base /\ b.size = a.size
      /\ p \in [1 .. m -> 1 .. n] /\ Places(p, m, n)
      /\ \A j \in 1 .. m : b.shape[j] = a.shape[p[j]] /\ b.strides[j] = a.strides[p[j]]
      /\ \A k \in (1 .. n) \ Image(p, m) : a.shape[k] = 1
  BY DEF Picks
<1>4. m \in Nat /\ DOMAIN b.shape = 1 .. m
  <2>1. b.shape \in Seq(Nat)
    BY <1>3 DEF Layouts
  <2> QED
    BY <2>1, LenProperties
<1>5. Count(b.shape) = Count(a.shape)
  <2> HIDE DEF m, n
  <2>1. Follows(b.shape, m, a.shape, p) /\ Within(p, m, n)
    BY <1>3, <1>4 DEF Follows, Within
  <2>2. "product" \in Monoidal /\ Base("product") = 1
    BY DEF Monoidal, Base
  <2>3. Idle((1 .. n) \ Image(p, m), a.shape, "product")
    BY <1>3, <2>2 DEF Idle
  <2>4. Shuffles(b.shape, m, a.shape, n, p, "product")
    BY <1>2, <1>3, <2>1, <2>3 DEF Shuffles
  <2>5. Folded("product", {}, b.shape) = Folded("product", {}, a.shape)
    <3> DEFINE u == b.shape
               v == a.shape
    <3>1. /\ Shuffles(u, m, v, n, p, "product")
          /\ n \in Nat /\ m \in Nat /\ "product" \in Monoidal
      BY <1>2, <1>4, <2>2, <2>4
    <3> HIDE DEF u, v
    <3>2. Folded("product", {}, u) = Folded("product", {}, v)
      BY <3>1, Rearranged
    <3> QED
      BY <3>2 DEF u, v
  <2> QED
    BY <2>5, CountFolds
<1>6. Exact(b)
  BY <1>2, <1>3, <1>5 DEF Exact
<1>7. DOMAIN from = 1 .. n /\ (\A k \in 1 .. n : from[k] = 0) /\ \A j \in 1 .. m : step[j] = 1
  OBVIOUS
<1> HIDE DEF from, step
<1>8. Selects(a, b, p, from, step)
  <2>1. IntsOn(1 .. n, from) /\ IntsOn(1 .. m, step)
    BY <1>7 DEF IntsOn
  <2>2. LinearOffset(from, a.strides) = 0
    <3> HIDE DEF n
    <3> QED
      BY <1>2, <1>7, OffsetOfFirst
  <2>3. \A j \in 1 .. m : step[j] # 0 /\ b.strides[j] = a.strides[p[j]] * step[j]
    <3> SUFFICES ASSUME NEW j \in 1 .. m
                 PROVE  step[j] # 0 /\ b.strides[j] = a.strides[p[j]] * step[j]
      OBVIOUS
    <3>1. a.strides[p[j]] \in Int /\ step[j] = 1
      BY <1>2, <1>3, <1>7 DEF IntsOn
    <3> QED
      BY <1>3, <3>1
  <2>4. b.base = a.base + LinearOffset(from, a.strides)
    BY <1>2, <1>3, <2>2
  <2> QED
    BY <1>3, <1>7, <2>1, <2>3, <2>4 DEF Selects
<1>9. Covers(a, b, p, from, step)
  <2>1. \A k \in 1 .. n : a.shape[k] \in Int
    BY <1>2 DEF IntsOn
  <2>2. ASSUME NEW j \in 1 .. m, NEW x \in Nat, x < b.shape[j]
        PROVE  0 <= from[p[j]] + step[j] * x /\ from[p[j]] + step[j] * x < a.shape[p[j]]
    <3>1. from[p[j]] = 0 /\ step[j] = 1 /\ b.shape[j] = a.shape[p[j]]
      BY <1>3, <1>7
    <3> QED
      BY <2>2, <3>1
  <2>3. ASSUME NEW k \in (1 .. n) \ Image(p, m) PROVE 0 <= from[k] /\ from[k] < a.shape[k]
    <3>1. from[k] = 0 /\ a.shape[k] = 1
      BY <1>3, <1>7
    <3> QED
      BY <3>1
  <2> QED
    BY <2>2, <2>3 DEF Covers
<1> QED
  BY <1>6, <1>8, <1>9, ViewSound

\* A permutation of the axes.
LEMMA TransposeSound ==
    ASSUME NEW a, NEW cells, Sound(a, cells), NEW axes, DOMAIN axes = 1 .. Len(a.shape),
           ToSet(axes) = DOMAIN a.shape
    PROVE  Sound(Transpose(a, axes), cells)
<1> DEFINE n == Len(a.shape)
           S == 1 .. n
           b == Transpose(a, axes)
           p == [k \in S |-> axes[k]]
<1>1. Exact(a)
  BY DEF Sound
<1>2. n \in Nat /\ DOMAIN a.shape = S /\ a.shape \in Seq(Nat) /\ a.strides \in Seq(Int)
      /\ a.base \in Int /\ a.size \in Nat /\ DOMAIN a.strides = S /\ Len(a.strides) = n
  BY <1>1, ExactTakes
<1>3. /\ \A k \in S : axes[k] \in S
      /\ \A i \in S : \E k \in S : axes[k] = i
  BY <1>2 DEF ToSet
<1>4. p \in Surjection(S, S)
  BY <1>3 DEF Surjection
<1>5. IsFiniteSet(S)
  <2> HIDE DEF n
  <2> QED
    BY <1>2, FS_Interval
<1>6. p \in Injection(S, S)
  <2> HIDE DEF S, p
  <2> QED
    BY <1>4, <1>5, FS_SurjSameCardinalityImpliesInj
<1>7. Places(p, n, n)
  <2>1. p \in [S -> S] /\ \A i, j \in S : p[i] = p[j] => i = j
    BY <1>6 DEF Injection, IsInjective
  <2>2. \A k \in S : p[k] \in 0 .. n
    BY <2>1
  <2>3. p \in [S -> 0 .. n]
    BY <2>2
  <2> QED
    BY <2>1, <2>3 DEF Places
<1> DEFINE shape == [k \in S |-> a.shape[axes[k]]]
           strides == [k \in S |-> a.strides[axes[k]]]
<1>8. shape \in Seq(Nat) /\ Len(shape) = n /\ strides \in Seq(Int) /\ Len(strides) = n
  <2>1. \A k \in S : a.shape[k] \in Nat /\ a.strides[k] \in Int
    BY <1>2, ElementOfSeq
  <2>2. shape \in [S -> Nat] /\ strides \in [S -> Int]
    BY <1>3, <2>1
  <2> HIDE DEF n, shape, strides
  <2> QED
    BY <1>2, <2>2, SequenceOf
<1>9. b = Layout(a.base, shape, strides, a.size)
  BY DEF Transpose
<1>10. (\A k \in S : shape[k] = a.shape[p[k]] /\ strides[k] = a.strides[p[k]])
       /\ p \in [S -> S]
  BY <1>3
<1>11. Image(p, n) = S
  BY <1>3 DEF Image
<1> HIDE DEF shape, strides, b, p
<1>12. b \in Layouts /\ b.base = a.base /\ b.shape = shape /\ b.strides = strides /\ b.size = a.size
  BY <1>2, <1>8, <1>9, LayoutTakes
<1>13. Picks(a, b, p)
  BY <1>7, <1>8, <1>10, <1>11, <1>12 DEF Picks
<1> QED
  BY <1>13, PicksSound DEF b

\* The axes left by a squeeze.
LEMMA SqueezeSound ==
    ASSUME NEW a, NEW cells, Sound(a, cells), NEW drop, drop \in SUBSET UnitAxes(a)
    PROVE  Sound(Squeeze(a, drop), cells)
<1> DEFINE n == Len(a.shape)
           left == DOMAIN a.shape \ drop
           kept == AxesOf(a, left)
           m == Len(kept)
           shape == Pick(a.shape, kept)
           strides == Pick(a.strides, kept)
           c == Layout(a.base, shape, strides, a.size)
<1>1. Exact(a)
  BY DEF Sound
<1>2. n \in Nat /\ DOMAIN a.shape = 1 .. n /\ a.shape \in Seq(Nat) /\ a.strides \in Seq(Int)
      /\ a.base \in Int /\ a.size \in Nat /\ Len(a.strides) = n
  BY <1>1, ExactTakes
<1>3. Lists(kept, left)
  <2>1. Lists(kept, (1 .. n) \cap left)
    <3> HIDE DEF n, left
    <3> QED
      BY <1>2, AxesListed
  <2>2. (1 .. n) \cap left = left
    BY <1>2
  <2> QED
    BY <2>1, <2>2
<1>4. \A k \in (1 .. n) \ left : a.shape[k] = 1
  BY <1>2 DEF UnitAxes
<1>5. left \in SUBSET (1 .. n)
  BY <1>2
<1>6. Squeeze(a, drop) = IF kept = <<>> THEN Layout(a.base, <<1>>, <<1>>, a.size) ELSE c
  BY DEF Squeeze
<1> HIDE DEF left, kept
<1>7. m \in Nat /\ DOMAIN kept = 1 .. m /\ kept = [j \in 1 .. m |-> kept[j]]
      /\ (m = 0 => kept = <<>>) /\ (kept = <<>> => m = 0)
  BY <1>3, LenProperties, EmptySeq DEF Lists
<1>8. /\ \A j \in 1 .. m : kept[j] \in 1 .. n /\ kept[j] \in left
      /\ \A k \in left : \E j \in 1 .. m : kept[j] = k
      /\ \A i, j \in 1 .. m : kept[i] = kept[j] => i = j
  BY <1>3, <1>5 DEF Lists
<1>9. shape = [j \in 1 .. m |-> a.shape[kept[j]]] /\ strides = [j \in 1 .. m |-> a.strides[kept[j]]]
  BY <1>7 DEF Pick
<1> HIDE DEF m, shape, strides
<1>10. /\ shape \in Seq(Nat) /\ Len(shape) = m /\ strides \in Seq(Int) /\ Len(strides) = m
       /\ \A j \in 1 .. m : shape[j] = a.shape[kept[j]] /\ strides[j] = a.strides[kept[j]]
  <2>1. \A k \in 1 .. n : a.shape[k] \in Nat /\ a.strides[k] \in Int
    BY <1>2, ElementOfSeq
  <2>2. shape \in [1 .. m -> Nat] /\ strides \in [1 .. m -> Int]
    BY <1>8, <1>9, <2>1
  <2>3. \A j \in 1 .. m : shape[j] = a.shape[kept[j]] /\ strides[j] = a.strides[kept[j]]
    BY <1>9
  <2> QED
    BY <1>7, <2>2, <2>3, SequenceOf
<1>11. c \in Layouts /\ c.base = a.base /\ c.shape = shape /\ c.strides = strides /\ c.size = a.size
  BY <1>2, <1>10, LayoutTakes
<1>12. Sound(c, cells)
  <2>1. Places(kept, m, n)
    <3>1. \A j \in 1 .. m : kept[j] \in 0 .. n
      BY <1>8
    <3>2. kept \in [1 .. m -> 0 .. n]
      BY <1>7, <3>1
    <3> QED
      BY <1>8, <3>2 DEF Places
  <2>2. kept \in [1 .. m -> 1 .. n]
    BY <1>7, <1>8
  <2>3. \A k \in (1 .. n) \ Image(kept, m) : a.shape[k] = 1
    <3>1. left \in SUBSET Image(kept, m)
      BY <1>8 DEF Image
    <3> QED
      BY <1>4, <3>1
  <2> HIDE DEF c
  <2>4. Picks(a, c, kept)
    BY <1>10, <1>11, <2>1, <2>2, <2>3 DEF Picks
  <2> QED
    BY <2>4, PicksSound
<1> HIDE DEF c
<1>13. CASE kept # <<>>
  BY <1>6, <1>12, <1>13
<1>14. CASE kept = <<>>
  <2> DEFINE one == <<1>>
             b == Layout(a.base, one, one, a.size)
  <2>1. m = 0 /\ Len(c.shape) = 0
    BY <1>7, <1>10, <1>11, <1>14
  <2>2. one \in Seq(Nat) /\ one \in Seq(Int) /\ Len(one) = 1 /\ one[1] = 1 /\ DOMAIN one = 1 .. 1
    OBVIOUS
  <2>9. Squeeze(a, drop) = b
    BY <1>6, <1>14
  <2> HIDE DEF one
  <2>3. b \in Layouts /\ b.base = a.base /\ b.shape = one /\ b.strides = one /\ b.size = a.size
    BY <1>2, <2>2, LayoutTakes
  <2>4. a.size = 1
    <3>1. c.size = Count(c.shape)
      BY <1>12 DEF Sound, Exact
    <3>2. c.shape = <<>>
      BY <1>10, <1>11, <2>1, EmptySeq
    <3>3. Count(<<>>) = 1
      <4>1. "product" \in Monoidal /\ Base("product") = 1
        BY DEF Monoidal, Base
      <4> QED
        BY <4>1, FoldNone, CountFolds
    <3> QED
      BY <1>11, <3>1, <3>2, <3>3
  <2>5. Count(one) = 1
    <3>1. "product" \in Monoidal /\ Base("product") = 1
      BY DEF Monoidal, Base
    <3>2. DOMAIN one = 1 .. 1 /\ \A k \in 1 .. 1 : one[k] = 1
      BY <2>2
    <3>3. IntsOn(1 .. 1, one) /\ Idle(1 .. 1, one, "product")
      BY <3>1, <3>2 DEF IntsOn, Idle
    <3>4. Folded("product", {}, one) = 1
      BY <3>1, <3>2, <3>3, FoldIdle
    <3> QED
      BY <3>4, CountFolds
  <2> HIDE DEF b
  <2>6. Exact(b)
    <3>1. a.size < WordSize
      BY <1>1 DEF Exact
    <3> QED
      BY <2>2, <2>3, <2>4, <2>5, <3>1 DEF Exact
  <2>7. Extends(c, b, <<>>)
    <3>1. Len(b.shape) = 1 /\ b.shape[1] = 1 /\ b.base = c.base
      BY <1>11, <2>2, <2>3
    <3>2. 1 .. 0 = {} /\ <<>> \in [{} -> 1 .. 1] /\ <<>> \in [{} -> 0 .. 1]
      OBVIOUS
    <3>3. Places(<<>>, 0, 1)
      BY <3>2 DEF Places
    <3>4. \A k \in 1 .. 1 : b.shape[k] = 1
      BY <3>1
    <3> QED
      BY <2>1, <3>1, <3>2, <3>3, <3>4 DEF Extends
  <2>8. Sound(b, cells)
    BY <1>12, <2>6, <2>7, UnitSound
  <2> QED
    BY <2>8, <2>9
<1> QED
  BY <1>13, <1>14

\* Where the insertion at i leaves the k-th element.
Moved(i, k) == IF k < i THEN k ELSE k + 1

Inserted(t, S, s, n, i, e) ==
    /\ t \in Seq(S) /\ Len(t) = n + 1 /\ t[i] = e
    /\ \A k \in 1 .. n : t[Moved(i, k)] = s[k]

\* What InsertAt makes of a sequence.
LEMMA InsertTakes ==
    ASSUME NEW S, NEW s \in Seq(S), NEW e \in S,
           NEW n \in Nat, Len(s) = n, NEW i \in Nat, 1 <= i, i <= n + 1
    PROVE  Inserted(InsertAt(s, i, e), S, s, n, i, e)
<1> DEFINE u == SubSeq(s, 1, i - 1)
           v == SubSeq(s, i, n)
           one == <<e>>
           x == u \o one
<1>1. n \in Nat /\ i \in Nat /\ i >= 1 /\ i <= n + 1 /\ \A k \in 1 .. n : s[k] \in S
  BY ElementOfSeq
<1>2. InsertAt(s, i, e) = x \o v
  BY DEF InsertAt
<1>3. one \in Seq(S) /\ Len(one) = 1 /\ one[1] = e
  OBVIOUS
<1> HIDE DEF one
<1>4. /\ u \in Seq(S) /\ Len(u) = i - 1 /\ \A k \in 1 .. i - 1 : u[k] = s[k]
  <2>1. \A k \in 1 .. i - 1 : s[k] \in S
    <3>1. \A k \in 1 .. i - 1 : k \in 1 .. n
      BY <1>1
    <3> QED
      BY <1>1, <3>1
  <2>2. i - 1 \in Int /\ 1 \in Int
    BY <1>1
  <2>3. /\ u \in Seq(S) /\ Len(u) = IF 1 <= i - 1 THEN (i - 1) - 1 + 1 ELSE 0
        /\ \A k \in 1 .. (i - 1) - 1 + 1 : u[k] = s[1 + k - 1]
    BY <2>1, <2>2, SubSeqProperties
  <2> HIDE DEF u
  <2>4. Len(u) = i - 1
    BY <1>1, <2>3
  <2>5. ASSUME NEW k \in 1 .. i - 1 PROVE u[k] = s[k]
    <3>1. k \in 1 .. (i - 1) - 1 + 1 /\ 1 + k - 1 = k
      BY <1>1
    <3> QED
      BY <2>3, <3>1
  <2> QED
    BY <2>3, <2>4, <2>5
<1>5. /\ v \in Seq(S) /\ Len(v) = n - i + 1 /\ \A k \in 1 .. n - i + 1 : v[k] = s[i + k - 1]
  <2>1. \A k \in i .. n : s[k] \in S
    <3>1. \A k \in i .. n : k \in 1 .. n
      BY <1>1
    <3> QED
      BY <1>1, <3>1
  <2>2. i \in Int /\ n \in Int
    BY <1>1
  <2>3. /\ v \in Seq(S) /\ Len(v) = IF i <= n THEN n - i + 1 ELSE 0
        /\ \A k \in 1 .. n - i + 1 : v[k] = s[i + k - 1]
    BY <2>1, <2>2, SubSeqProperties
  <2> HIDE DEF v
  <2> QED
    BY <1>1, <2>3
<1> HIDE DEF u, v
<1>6. /\ x \in Seq(S) /\ Len(x) = i
      /\ \A k \in 1 .. i : x[k] = IF k <= i - 1 THEN u[k] ELSE one[k - (i - 1)]
  <2>1. /\ x \in Seq(S) /\ Len(x) = Len(u) + Len(one)
        /\ \A k \in 1 .. Len(u) + Len(one) : x[k] = IF k <= Len(u) THEN u[k] ELSE one[k - Len(u)]
    BY <1>3, <1>4, ConcatProperties
  <2>2. Len(u) + Len(one) = i /\ Len(u) = i - 1
    BY <1>1, <1>3, <1>4
  <2> HIDE DEF x
  <2> QED
    BY <2>1, <2>2
<1> HIDE DEF x
<1>7. /\ x \o v \in Seq(S) /\ Len(x \o v) = n + 1
      /\ \A k \in 1 .. n + 1 : (x \o v)[k] = IF k <= i THEN x[k] ELSE v[k - i]
  <2>1. /\ x \o v \in Seq(S) /\ Len(x \o v) = Len(x) + Len(v)
        /\ \A k \in 1 .. Len(x) + Len(v) : (x \o v)[k] = IF k <= Len(x) THEN x[k] ELSE v[k - Len(x)]
    BY <1>5, <1>6, ConcatProperties
  <2>2. Len(x) + Len(v) = n + 1 /\ Len(x) = i
    BY <1>1, <1>5, <1>6
  <2> QED
    BY <2>1, <2>2
<1> DEFINE z == x \o v
<1>8. z[i] = e
  <2>1. i \in 1 .. n + 1 /\ i \in 1 .. i /\ i - (i - 1) = 1 /\ i <= i /\ ~(i <= i - 1)
    BY <1>1
  <2>2. z[i] = x[i]
    BY <1>7, <2>1
  <2>3. x[i] = one[i - (i - 1)]
    BY <1>6, <2>1
  <2> QED
    BY <1>3, <2>1, <2>2, <2>3
<1>9. ASSUME NEW k \in 1 .. n PROVE z[Moved(i, k)] = s[k]
  <2>1. CASE k < i
    <3>1. k \in 1 .. n + 1 /\ k <= i /\ k \in 1 .. i /\ k <= i - 1 /\ k \in 1 .. i - 1
      BY <1>1, <2>1
    <3>2. z[k] = x[k]
      BY <1>7, <3>1
    <3>3. x[k] = u[k] /\ u[k] = s[k]
      BY <1>4, <1>6, <3>1
    <3> QED
      BY <2>1, <3>2, <3>3 DEF Moved
  <2>2. CASE ~(k < i)
    <3> DEFINE j == (k + 1) - i
    <3>1. k + 1 \in 1 .. n + 1 /\ ~(k + 1 <= i) /\ j \in 1 .. n - i + 1 /\ i + j - 1 = k
      BY <1>1, <2>2
    <3>2. z[k + 1] = v[j]
      BY <1>7, <3>1
    <3> HIDE DEF j, z
    <3>3. v[j] = s[k]
      BY <1>5, <3>1
    <3> QED
      BY <2>2, <3>2, <3>3 DEF Moved
  <2> QED
    BY <2>1, <2>2
<1> QED
  BY <1>2, <1>7, <1>8, <1>9 DEF Inserted

\* A further axis of one element.
LEMMA ExpandSound ==
    ASSUME NEW a, NEW cells, Sound(a, cells), NEW axis \in 1 .. Len(a.shape) + 1
    PROVE  Sound(ExpandDims(a, axis), cells)
<1> DEFINE n == Len(a.shape)
           p == [j \in 1 .. n |-> Moved(axis, j)]
           stride == IF axis <= n THEN a.strides[axis] ELSE 1
           shape == InsertAt(a.shape, axis, 1)
           strides == InsertAt(a.strides, axis, stride)
           b == Layout(a.base, shape, strides, a.size)
<1>1. Exact(a)
  BY DEF Sound
<1>2. n \in Nat /\ DOMAIN a.shape = 1 .. n /\ a.shape \in Seq(Nat) /\ a.strides \in Seq(Int)
      /\ a.base \in Int /\ a.size \in Nat /\ Len(a.strides) = n
      /\ a.size = Count(a.shape) /\ a.size < WordSize /\ IntsOn(1 .. n, a.shape)
  BY <1>1, ExactTakes DEF Exact
<1>3. axis \in Nat /\ 1 <= axis /\ axis <= n + 1
  BY <1>2
<1>4. stride \in Int
  <2>1. \A k \in 1 .. n : a.strides[k] \in Int
    BY <1>2, ElementOfSeq
  <2>2. axis <= n => axis \in 1 .. n
    BY <1>2, <1>3
  <2> QED
    BY <2>1, <2>2
<1>5. ExpandDims(a, axis) = b
  BY DEF ExpandDims
<1> HIDE DEF stride
<1>ins. /\ Inserted(shape, Nat, a.shape, n, axis, 1)
        /\ Inserted(strides, Int, a.strides, n, axis, stride)
  <2> HIDE DEF n
  <2>1. Len(a.shape) = n /\ 1 \in Nat
    BY DEF n
  <2> QED
    BY <1>2, <1>3, <1>4, <2>1, InsertTakes
<1>6. /\ shape \in Seq(Nat) /\ Len(shape) = n + 1 /\ shape[axis] = 1
      /\ \A k \in 1 .. n : shape[Moved(axis, k)] = a.shape[k]
  BY <1>ins DEF Inserted
<1>7. /\ strides \in Seq(Int) /\ Len(strides) = n + 1
      /\ \A k \in 1 .. n : strides[Moved(axis, k)] = a.strides[k]
  BY <1>ins DEF Inserted
<1> HIDE DEF shape, strides
<1>8. b \in Layouts /\ b.base = a.base /\ b.shape = shape /\ b.strides = strides /\ b.size = a.size
  <2>1. a.base \in Int /\ shape \in Seq(Nat) /\ strides \in Seq(Int) /\ a.size \in Nat
    BY <1>2, <1>6, <1>7
  <2> QED
    BY <2>1, LayoutTakes
<1>9. \A j \in 1 .. n : /\ p[j] = Moved(axis, j) /\ p[j] \in 1 .. n + 1
                        /\ p[j] # axis /\ p[j] \in 0 .. n + 1
                        /\ p[j] = j \/ p[j] = j + 1
                        /\ p[j] = IF j < axis THEN j ELSE j + 1
  BY <1>2, <1>3 DEF Moved
<1>10. p \in [1 .. n -> 1 .. n + 1] /\ p \in [1 .. n -> 0 .. n + 1]
  <2>1. p = [j \in 1 .. n |-> p[j]]
    OBVIOUS
  <2> HIDE DEF p, n
  <2> QED
    BY <1>9, <2>1
<1> HIDE DEF p
<1>11. Places(p, n, n + 1)
  <2>1. \A i, j \in 1 .. n : p[i] = p[j] => i = j
    <3> SUFFICES ASSUME NEW i \in 1 .. n, NEW j \in 1 .. n, p[i] = p[j] PROVE i = j
      OBVIOUS
    <3>1. (IF i < axis THEN i ELSE i + 1) = (IF j < axis THEN j ELSE j + 1)
      BY <1>9
    <3>2. i \in Nat /\ j \in Nat
      BY <1>2
    <3> QED
      BY <1>3, <3>1, <3>2
  <2> QED
    BY <1>10, <2>1 DEF Places
<1>12. \A k \in (1 .. n + 1) \ Image(p, n) : k = axis
  <2> SUFFICES ASSUME NEW k \in 1 .. n + 1, k # axis PROVE k \in Image(p, n)
    OBVIOUS
  <2>1. CASE k < axis
    <3>1. k \in 1 .. n
      BY <1>2, <1>3, <2>1
    <3>2. p[k] = k
      BY <1>9, <2>1, <3>1
    <3> QED
      BY <3>1, <3>2 DEF Image
  <2>2. CASE ~(k < axis)
    <3>1. k - 1 \in 1 .. n /\ ~(k - 1 < axis) /\ (k - 1) + 1 = k
      BY <1>2, <1>3, <2>2
    <3>2. p[k - 1] = k
      BY <1>9, <3>1
    <3> QED
      BY <3>1, <3>2 DEF Image
  <2> QED
    BY <2>1, <2>2
<1>13. \A j \in 1 .. n : shape[p[j]] = a.shape[j] /\ strides[p[j]] = a.strides[j]
  BY <1>6, <1>7, <1>9
<1>14. Extends(a, b, p)
  <2> HIDE DEF b
  <2>1. Len(b.shape) = n + 1
    BY <1>6, <1>8
  <2>2. \A k \in (1 .. n + 1) \ Image(p, n) : b.shape[k] = 1
    BY <1>6, <1>8, <1>12
  <2> QED
    <3>1. /\ p \in [1 .. n -> 1 .. Len(b.shape)] /\ Places(p, n, Len(b.shape))
          /\ \A j \in 1 .. n : b.shape[p[j]] = a.shape[j] /\ b.strides[p[j]] = a.strides[j]
          /\ \A k \in (1 .. Len(b.shape)) \ Image(p, n) : b.shape[k] = 1
          /\ b.base = a.base
      BY <1>8, <1>10, <1>11, <1>13, <2>1, <2>2
    <3> QED
      BY <3>1 DEF Extends
<1>15. Count(shape) = Count(a.shape)
  <2> DEFINE u == a.shape
  <2>1. "product" \in Monoidal /\ Base("product") = 1
    BY DEF Monoidal, Base
  <2>2. DOMAIN shape = 1 .. n + 1 /\ IntsOn(1 .. n + 1, shape)
    <3>1. DOMAIN shape = 1 .. n + 1
      BY <1>6, LenProperties
    <3>2. \A k \in 1 .. n + 1 : shape[k] \in Nat
      BY <1>6, ElementOfSeq
    <3> QED
      BY <3>1, <3>2 DEF IntsOn
  <2>3. Follows(u, n, shape, p) /\ Within(p, n, n + 1)
    BY <1>2, <1>9, <1>13 DEF Follows, Within
  <2>4. Idle((1 .. n + 1) \ Image(p, n), shape, "product")
    BY <1>6, <1>12, <2>1 DEF Idle
  <2> HIDE DEF u, n
  <2>5. Shuffles(u, n, shape, n + 1, p, "product")
    BY <1>11, <2>2, <2>3, <2>4 DEF Shuffles
  <2>6. n + 1 \in Nat
    BY <1>2
  <2>7. Folded("product", {}, u) = Folded("product", {}, shape)
    BY <1>2, <2>1, <2>5, <2>6, Rearranged
  <2> QED
    BY <2>7, CountFolds DEF u
<1>16. Exact(b)
  <2> HIDE DEF b
  <2> QED
    BY <1>2, <1>6, <1>7, <1>8, <1>15 DEF Exact
<1> QED
  BY <1>5, <1>14, <1>16, UnitSound

\* A product of one factor.
LEMMA CountOne ==
    ASSUME NEW s, DOMAIN s = 1 .. 1, s[1] \in Int
    PROVE  Count(s) = s[1]
<1>1. "product" \in Kinds /\ Values("product") = Int /\ Base("product") = 1
      /\ \A x, y : Step("product", {}, x, y) = x * y
  BY DEF Kinds, Values, Base, Step
<1>2. IntsOn(1 .. 1, s)
  BY DEF IntsOn
<1>3. PICK f : Unrolling(f, "product", {}, 1, s) /\ f[1] = Count(s)
  <2> DEFINE n == 1
  <2>1. n \in Nat /\ DOMAIN s = 1 .. n /\ IntsOn(1 .. n, s)
    BY <1>2
  <2> HIDE DEF n
  <2>2. \E f : Unrolling(f, "product", {}, n, s) /\ f[n] = Folded("product", {}, s)
    BY <1>1, <2>1, Unrolls
  <2>3. Folded("product", {}, s) = Count(s)
    BY CountFolds
  <2> QED
    BY <2>2, <2>3 DEF n
<1>4. f[0] = 1 /\ f[0 + 1] = f[0] * s[0 + 1]
  <2>1. /\ f[0] = Base("product")
        /\ \A k \in 0 .. 1 - 1 : f[k + 1] = Step("product", {}, f[k], s[k + 1])
    BY <1>3 DEF Unrolling
  <2>2. 0 \in 0 .. 1 - 1
    OBVIOUS
  <2> QED
    BY <1>1, <2>1, <2>2
<1> DEFINE x == s[1]
<1>5. x \in Int /\ f[1] = 1 * x
  BY <1>4
<1> HIDE DEF x
<1>6. f[1] = x
  BY <1>5
<1> QED
  BY <1>3, <1>6 DEF x

\* A sum of one product.
LEMMA OffsetOne ==
    ASSUME NEW c, DOMAIN c = 1 .. 1, c[1] \in Int, NEW s, s[1] \in Int
    PROVE  LinearOffset(c, s) = c[1] * s[1]
<1>1. IntsOn(1 .. 1, c) /\ IntsOn(1 .. 1, s)
  BY DEF IntsOn
<1>2. PICK f : Along(f, 1, c, s) /\ f[1] = LinearOffset(c, s)
  BY <1>1, OffsetAlong
<1>3. f[0] = 0 /\ f[1] = f[1 - 1] + c[1] * s[1]
  BY <1>2 DEF Along
<1> DEFINE x == c[1] * s[1]
<1>4. x \in Int /\ f[1] = 0 + x
  BY <1>3
<1> HIDE DEF x
<1>5. f[1] = x
  BY <1>4
<1> QED
  BY <1>2, <1>5 DEF x

\* a[i:j:k] of a 1-D array.
LEMMA StridedSound ==
    ASSUME NEW a, NEW cells, Sound(a, cells), Len(a.shape) = 1, NEW s, Inside(s, a.size)
    PROVE  Sound(ViewStrided(a, s.start, s.len, s.step), cells)
<1> DEFINE d == a.shape[1]
           t == a.strides[1]
           i == s.start
           l == s.len
           e == s.step
           shape == <<l>>
           strides == <<t * e>>
           b == Layout(a.base + i * t, shape, strides, l)
           p == <<1>>
           from == <<i>>
           step == <<e>>
<1>1. Exact(a)
  BY DEF Sound
<1>2. DOMAIN a.shape = 1 .. 1 /\ a.shape \in Seq(Nat) /\ a.strides \in Seq(Int) /\ a.base \in Int
      /\ a.size = Count(a.shape) /\ a.size < WordSize /\ a.size \in Nat
      /\ IntsOn(1 .. 1, a.strides)
  BY <1>1, ExactTakes DEF Exact
<1>3. d \in Nat /\ t \in Int
  BY <1>2, ElementOfSeq DEF IntsOn
<1>4. a.size = d
  BY <1>2, <1>3, CountOne
<1>5. /\ i \in Int /\ e \in Int /\ e # 0 /\ l \in Nat /\ l <= d
      /\ \A x \in Nat : x < l => 0 <= i + e * x /\ i + e * x < d
  BY <1>4 DEF Inside
<1>6. ViewStrided(a, s.start, s.len, s.step) = b
  BY DEF ViewStrided
<1>7. /\ DOMAIN shape = 1 .. 1 /\ shape[1] = l /\ strides[1] = t * e
      /\ DOMAIN from = 1 .. 1 /\ from[1] = i /\ step[1] = e
      /\ p \in [1 .. 1 -> 1 .. 1] /\ p \in [1 .. 1 -> 0 .. 1] /\ p[1] = 1
  OBVIOUS
<1>8. t * e \in Int /\ i * t \in Int
  BY <1>3, <1>5
<1>9. shape \in Seq(Nat) /\ Len(shape) = 1 /\ strides \in Seq(Int) /\ Len(strides) = 1
  BY <1>5, <1>8
<1>10. a.base + i * t \in Int
  BY <1>2, <1>8
<1>11. a.base + i * t = a.base + LinearOffset(from, a.strides)
  <2> HIDE DEF from
  <2> QED
    BY <1>3, <1>5, <1>7, OffsetOne
<1> HIDE DEF shape, strides, p, from, step, d, i, l, e
<1>12. /\ b \in Layouts /\ b.base = a.base + i * t /\ b.shape = shape
       /\ b.strides = strides /\ b.size = l
  <2> HIDE DEF t
  <2> QED
    BY <1>5, <1>9, <1>10, LayoutTakes
<1>13. Count(shape) = l
  BY <1>5, <1>7, CountOne
<1> HIDE DEF b
<1>14. Exact(b)
  <2>1. l < WordSize
    <3>1. WordSize \in Nat
      BY WordSizeAssumption
    <3> QED
      BY <1>2, <1>3, <1>4, <1>5, <3>1
  <2> QED
    BY <1>9, <1>12, <1>13, <2>1 DEF Exact
<1>15. Selects(a, b, p, from, step)
  <2>1. Places(p, 1, 1) /\ IntsOn(1 .. 1, from) /\ IntsOn(1 .. 1, step)
    BY <1>5, <1>7 DEF Places, IntsOn
  <2>2. \A j \in 1 .. 1 : step[j] # 0 /\ b.strides[j] = a.strides[p[j]] * step[j]
    BY <1>5, <1>7, <1>12
  <2>3. Len(b.shape) = 1 /\ b.base = a.base + LinearOffset(from, a.strides)
    BY <1>9, <1>11, <1>12
  <2> QED
    BY <1>7, <2>1, <2>2, <2>3 DEF Selects
<1>16. Covers(a, b, p, from, step)
  <2>1. Len(b.shape) = 1 /\ b.shape[1] = l /\ d = a.shape[1]
    BY <1>7, <1>9, <1>12 DEF d
  <2>2. Image(p, 1) = 1 .. 1
    BY <1>7 DEF Image
  <2>3. ASSUME NEW j \in 1 .. 1, NEW x \in Nat, x < b.shape[j]
        PROVE  0 <= from[p[j]] + step[j] * x /\ from[p[j]] + step[j] * x < a.shape[p[j]]
    <3>1. j = 1
      OBVIOUS
    <3>2. x < l /\ from[p[j]] = i /\ step[j] = e /\ a.shape[p[j]] = d
      BY <1>7, <2>1, <2>3, <3>1
    <3> QED
      BY <1>5, <3>2
  <2> QED
    BY <2>1, <2>2, <2>3 DEF Covers
<1> QED
  BY <1>6, <1>14, <1>15, <1>16, ViewSound

\* The axes a slice keeps, the index it starts at, and its steps.
Kept(a, specs) == AxesOf(a, {k \in DOMAIN specs : specs[k].kind = "slice"})
Origin(specs)  == [k \in DOMAIN specs |->
                     IF specs[k].kind = "int" THEN specs[k].index ELSE specs[k].start]
Paces(a, specs) == [j \in 1 .. Len(Kept(a, specs)) |-> specs[Kept(a, specs)[j]].step]
Extents(a, specs) == [j \in 1 .. Len(Kept(a, specs)) |-> specs[Kept(a, specs)[j]].len]

\* What a slice makes of an array, axis by axis.
LEMMA SliceNdSelects ==
    ASSUME NEW a, NEW cells, Sound(a, cells),
           NEW specs, DOMAIN specs = 1 .. Len(a.shape),
           \A k \in 1 .. Len(a.shape) : Specified(specs[k], a.shape[k]),
           \E k \in 1 .. Len(a.shape) : specs[k].kind = "slice"
    PROVE  /\ Exact(SliceNd(a, specs))
           /\ Selects(a, SliceNd(a, specs), Kept(a, specs), Origin(specs), Paces(a, specs))
           /\ Covers(a, SliceNd(a, specs), Kept(a, specs), Origin(specs), Paces(a, specs))
           /\ SliceNd(a, specs).shape = Extents(a, specs)
<1> DEFINE n == Len(a.shape)
           left == {k \in DOMAIN specs : specs[k].kind = "slice"}
           kept == AxesOf(a, left)
           m == Len(kept)
           shape == [j \in DOMAIN kept |-> specs[kept[j]].len]
           strides == [j \in DOMAIN kept |-> a.strides[kept[j]] * specs[kept[j]].step]
           from == [k \in DOMAIN specs |->
                      IF specs[k].kind = "int" THEN specs[k].index ELSE specs[k].start]
           step == [j \in 1 .. m |-> specs[kept[j]].step]
           b == Layout(a.base + SliceBase(a, specs), shape, strides, Product(shape))
<1>names. Kept(a, specs) = kept /\ Origin(specs) = from /\ Paces(a, specs) = step
  BY DEF Kept, Origin, Paces
<1>extents. Extents(a, specs) = [j \in 1 .. m |-> specs[kept[j]].len]
  BY DEF Kept, Extents
<1>1. Exact(a)
  BY DEF Sound
<1>2. n \in Nat /\ DOMAIN a.shape = 1 .. n /\ a.shape \in Seq(Nat) /\ a.strides \in Seq(Int)
      /\ a.base \in Int /\ a.size \in Nat /\ Len(a.strides) = n
      /\ a.size = Count(a.shape) /\ a.size < WordSize
      /\ IntsOn(1 .. n, a.shape) /\ IntsOn(1 .. n, a.strides)
  BY <1>1, ExactTakes DEF Exact
<1>3. \A k \in 1 .. n : a.shape[k] \in Nat /\ a.strides[k] \in Int
  BY <1>2, ElementOfSeq
<1>4. Lists(kept, left)
  <2>1. Lists(kept, (1 .. n) \cap left)
    <3> HIDE DEF n, left
    <3> QED
      BY <1>2, AxesListed
  <2>2. (1 .. n) \cap left = left
    OBVIOUS
  <2> QED
    BY <2>1, <2>2
<1>5. left \in SUBSET (1 .. n) /\ left # {}
      /\ \A k \in 1 .. n : k \in left <=> specs[k].kind = "slice"
  OBVIOUS
<1>6. SliceNd(a, specs) = Layout(a.base + SliceBase(a, specs), IF kept = <<>> THEN <<1>> ELSE shape,
                                 IF kept = <<>> THEN <<1>> ELSE strides,
                                 Product(IF kept = <<>> THEN <<1>> ELSE shape))
  BY DEF SliceNd
<1>7. ASSUME NEW k \in 1 .. n
      PROVE  /\ k \in left => Inside(specs[k], a.shape[k]) /\ from[k] = specs[k].start
             /\ k \notin left => /\ from[k] = specs[k].index /\ specs[k].index \in Int
                                 /\ 0 <= specs[k].index /\ specs[k].index < a.shape[k]
  <2>1. Specified(specs[k], a.shape[k])
    OBVIOUS
  <2> QED
    BY <1>5, <2>1 DEF Specified
<1>from. DOMAIN from = 1 .. n
  OBVIOUS
<1>8. SliceBase(a, specs) = LinearOffset(from, a.strides)
  <2>1. [k \in DOMAIN specs |->
           (IF specs[k].kind = "int" THEN specs[k].index ELSE specs[k].start) * a.strides[k]]
        = [k \in DOMAIN from |-> from[k] * a.strides[k]]
    OBVIOUS
  <2> HIDE DEF from
  <2> QED
    BY <2>1 DEF SliceBase, LinearOffset
<1> HIDE DEF left, kept, from
<1>9. m \in Nat /\ DOMAIN kept = 1 .. m /\ kept = [j \in 1 .. m |-> kept[j]] /\ kept # <<>>
  <2>1. m \in Nat /\ DOMAIN kept = 1 .. m /\ kept = [j \in 1 .. m |-> kept[j]]
    BY <1>4, LenProperties DEF Lists
  <2>2. kept # <<>>
    BY <1>4, <1>5 DEF Lists
  <2> QED
    BY <2>1, <2>2
<1>10. /\ \A j \in 1 .. m : kept[j] \in 1 .. n /\ kept[j] \in left
       /\ \A k \in left : \E j \in 1 .. m : kept[j] = k
       /\ \A i, j \in 1 .. m : kept[i] = kept[j] => i = j
  BY <1>4, <1>5 DEF Lists
<1>11. SliceNd(a, specs) = b
  BY <1>6, <1>9
<1>12. ASSUME NEW k \in left
       PROVE  /\ k \in 1 .. n /\ specs[k].len \in Nat /\ specs[k].len <= a.shape[k]
              /\ specs[k].step \in Int /\ specs[k].step # 0 /\ specs[k].start \in Int
              /\ from[k] = specs[k].start
              /\ \A x \in Nat : x < specs[k].len =>
                    /\ 0 <= from[k] + specs[k].step * x
                    /\ from[k] + specs[k].step * x < a.shape[k]
  <2>1. k \in 1 .. n
    BY <1>5
  <2>2. Inside(specs[k], a.shape[k]) /\ from[k] = specs[k].start
    BY <1>7, <2>1
  <2> QED
    BY <2>1, <2>2 DEF Inside
<1>13. /\ DOMAIN shape = 1 .. m /\ DOMAIN strides = 1 .. m
       /\ \A j \in 1 .. m : /\ shape[j] = specs[kept[j]].len /\ step[j] = specs[kept[j]].step
                            /\ strides[j] = a.strides[kept[j]] * step[j]
  BY <1>9
<1>final. shape = Extents(a, specs)
  BY <1>9, <1>extents
<1> HIDE DEF m, n, shape, strides, step
<1>14. \A j \in 1 .. m : shape[j] \in Nat /\ strides[j] \in Int /\ step[j] \in Int /\ step[j] # 0
  <2> SUFFICES ASSUME NEW j \in 1 .. m
               PROVE  shape[j] \in Nat /\ strides[j] \in Int /\ step[j] \in Int /\ step[j] # 0
    OBVIOUS
  <2>1. kept[j] \in left /\ a.strides[kept[j]] \in Int
    BY <1>3, <1>10
  <2>2. shape[j] \in Nat /\ step[j] \in Int /\ step[j] # 0
    BY <1>12, <1>13, <2>1
  <2>3. strides[j] \in Int
    BY <1>13, <2>1, <2>2
  <2> QED
    BY <2>2, <2>3
<1>15. shape \in Seq(Nat) /\ Len(shape) = m /\ strides \in Seq(Int) /\ Len(strides) = m
  <2>1. shape \in [1 .. m -> Nat] /\ strides \in [1 .. m -> Int]
    <3>1. shape = [j \in 1 .. m |-> shape[j]] /\ strides = [j \in 1 .. m |-> strides[j]]
      BY <1>9 DEF shape, strides
    <3> QED
      BY <1>14, <3>1
  <2> QED
    BY <1>9, <2>1, SequenceOf
<1>16. \A k \in 1 .. n : from[k] \in Int
  BY <1>7, <1>12
<1>17. Places(kept, m, n) /\ Within(kept, m, n) /\ kept \in [1 .. m -> 1 .. n]
  <2>1. \A j \in 1 .. m : kept[j] \in 0 .. n
    BY <1>10
  <2>2. kept \in [1 .. m -> 0 .. n] /\ kept \in [1 .. m -> 1 .. n]
    BY <1>9, <1>10, <2>1
  <2> QED
    BY <1>10, <2>2 DEF Places, Within
<1>18. \A k \in (1 .. n) \ Image(kept, m) : k \notin left
  BY <1>10 DEF Image
<1>19. Count(shape) \in Nat /\ Count(shape) <= a.size
  <2> DEFINE v == [k \in 1 .. n |-> IF k \in left THEN specs[k].len ELSE 1]
             u == a.shape
  <2>1. DOMAIN v = 1 .. n /\ \A k \in 1 .. n : v[k] = IF k \in left THEN specs[k].len ELSE 1
    OBVIOUS
  <2> HIDE DEF v
  <2>2. ASSUME NEW k \in 1 .. n PROVE v[k] \in Nat /\ v[k] <= u[k]
    <3>1. CASE k \in left
      BY <1>12, <2>1, <3>1
    <3>2. CASE k \notin left
      <4>1. v[k] = 1 /\ u[k] \in Nat /\ \E i \in Int : 0 <= i /\ i < u[k]
        BY <1>3, <1>7, <2>1, <3>2
      <4> QED
        BY <4>1
    <3> QED
      BY <3>1, <3>2
  <2>3. IntsOn(1 .. n, v) /\ Below(n, v, u)
    BY <2>2 DEF IntsOn, Below
  <2>4. "product" \in Monoidal /\ Base("product") = 1
    BY DEF Monoidal, Base
  <2>5. Follows(shape, m, v, kept)
    <3>1. \A j \in 1 .. m : shape[j] = v[kept[j]]
      BY <1>10, <1>13, <2>1
    <3> QED
      BY <1>13, <3>1 DEF Follows
  <2>6. Idle((1 .. n) \ Image(kept, m), v, "product")
    BY <1>18, <2>1, <2>4 DEF Idle
  <2>7. Shuffles(shape, m, v, n, kept, "product")
    BY <1>17, <2>1, <2>3, <2>5, <2>6 DEF Shuffles
  <2>8. Count(shape) = Folded("product", {}, v)
    BY <1>2, <1>9, <2>4, <2>7, Rearranged, CountFolds
  <2>9. DOMAIN u = 1 .. n /\ IntsOn(1 .. n, u) /\ a.size = Folded("product", {}, u)
    BY <1>2, CountFolds
  <2> HIDE DEF u
  <2> QED
    BY <1>2, <2>1, <2>3, <2>8, <2>9, ProductsBelow
<1>20. Count(shape) < WordSize
  <2>1. WordSize \in Nat
    BY WordSizeAssumption
  <2> QED
    BY <1>2, <1>19, <2>1
<1>21. Product(shape) = Count(shape)
  BY <1>15, <1>20, ProductExact
<1>22. a.base + LinearOffset(from, a.strides) \in Int
  <2> DEFINE s == a.strides
  <2>1. IntsOn(1 .. n, s) /\ IntsOn(1 .. n, from)
    BY <1>2, <1>16 DEF IntsOn
  <2> HIDE DEF s
  <2>2. PICK f : Along(f, n, from, s) /\ f[n] = LinearOffset(from, s)
    BY <1>2, <1>from, <2>1, OffsetAlong
  <2>3. LinearOffset(from, s) \in Int
    BY <1>2, <2>2 DEF Along
  <2> QED
    BY <1>2, <2>3 DEF s
<1>23. /\ b \in Layouts /\ b.base = a.base + LinearOffset(from, a.strides) /\ b.shape = shape
       /\ b.strides = strides /\ b.size = Count(shape)
  BY <1>8, <1>15, <1>19, <1>21, <1>22, LayoutTakes
<1> HIDE DEF b
<1>24. Exact(b)
  BY <1>15, <1>20, <1>23 DEF Exact
<1>25. Selects(a, b, kept, from, step)
  <2>1. IntsOn(1 .. n, from) /\ IntsOn(1 .. m, step)
    BY <1>14, <1>16 DEF IntsOn
  <2>2. \A j \in 1 .. m : step[j] # 0 /\ b.strides[j] = a.strides[kept[j]] * step[j]
    BY <1>13, <1>14, <1>23
  <2>3. Len(b.shape) = m /\ Len(a.shape) = n
    BY <1>15, <1>23 DEF n
  <2> QED
    BY <1>17, <1>23, <1>from, <2>1, <2>2, <2>3 DEF Selects
<1>26. Covers(a, b, kept, from, step)
  <2>1. Len(b.shape) = m /\ Len(a.shape) = n
    BY <1>15, <1>23 DEF n
  <2>2. ASSUME NEW j \in 1 .. m, NEW x \in Nat, x < b.shape[j]
        PROVE  /\ 0 <= from[kept[j]] + step[j] * x
               /\ from[kept[j]] + step[j] * x < a.shape[kept[j]]
    <3>1. x < specs[kept[j]].len /\ kept[j] \in left /\ step[j] = specs[kept[j]].step
      BY <1>10, <1>13, <1>23, <2>2
    <3> QED
      BY <1>12, <3>1
  <2>3. ASSUME NEW k \in (1 .. n) \ Image(kept, m) PROVE 0 <= from[k] /\ from[k] < a.shape[k]
    <3>1. k \in 1 .. n /\ k \notin left
      BY <1>18
    <3> QED
      BY <1>7, <3>1
  <2> QED
    BY <2>1, <2>2, <2>3 DEF Covers
<1> QED
  BY <1>11, <1>23, <1>24, <1>25, <1>26, <1>names, <1>final

\* A slice or an integer per axis, at least one of them a slice.
LEMMA SliceNdSound ==
    ASSUME NEW a, NEW cells, Sound(a, cells),
           NEW specs, DOMAIN specs = 1 .. Len(a.shape),
           \A k \in 1 .. Len(a.shape) : Specified(specs[k], a.shape[k]),
           \E k \in 1 .. Len(a.shape) : specs[k].kind = "slice"
    PROVE  Sound(SliceNd(a, specs), cells)
  BY SliceNdSelects, ViewSound

-----------------------------------------------------------------------------
(* Reshape *)

\* One factor 1 of a product replaced by q.
LEMMA ProductWith ==
    ASSUME NEW n \in Nat, NEW u, DOMAIN u = 1 .. n, IntsOn(1 .. n, u),
           NEW v, DOMAIN v = 1 .. n, IntsOn(1 .. n, v),
           NEW e \in 1 .. n, NEW q \in Int, u[e] = q, v[e] = 1,
           \A k \in 1 .. n : k # e => u[k] = v[k]
    PROVE  Count(u) = q * Count(v) /\ Count(v) \in Int
<1>1. "product" \in Kinds /\ Values("product") = Int /\ Base("product") = 1
      /\ \A x, y : Step("product", {}, x, y) = x * y
  BY DEF Kinds, Values, Base, Step
<1>2. PICK f : Unrolling(f, "product", {}, n, u) /\ f[n] = Count(u)
  BY <1>1, Unrolls, CountFolds
<1>3. PICK g : Unrolling(g, "product", {}, n, v) /\ g[n] = Count(v)
  BY <1>1, Unrolls, CountFolds
<1>4. /\ f \in [0 .. n -> Int] /\ f[0] = 1 /\ \A k \in 0 .. n - 1 : f[k + 1] = f[k] * u[k + 1]
      /\ g \in [0 .. n -> Int] /\ g[0] = 1 /\ \A k \in 0 .. n - 1 : g[k + 1] = g[k] * v[k + 1]
  BY <1>1, <1>2, <1>3 DEF Unrolling
<1>5. \A k \in 1 .. n : u[k] \in Int /\ v[k] \in Int
  BY DEF IntsOn
<1> DEFINE T == {k \in 0 .. n : f[k] = IF k < e THEN g[k] ELSE q * g[k]}
<1>6. 0 \in T
  BY <1>4
<1>7. ASSUME NEW k \in 0 .. n - 1, k \in T PROVE k + 1 \in T
  <2> DEFINE x == f[k]
             y == g[k]
             a == u[k + 1]
             b == v[k + 1]
  <2>1. k \in 0 .. n /\ k + 1 \in 0 .. n /\ k + 1 \in 1 .. n /\ k \in Nat
    OBVIOUS
  <2>2. /\ x \in Int /\ y \in Int /\ a \in Int /\ b \in Int
        /\ f[k + 1] = x * a /\ g[k + 1] = y * b
        /\ x = IF k < e THEN y ELSE q * y
    BY <1>4, <1>5, <1>7, <2>1
  <2>3. IF k + 1 = e THEN a = q /\ b = 1 ELSE a = b
    BY <2>1
  <2> HIDE DEF x, y, a, b
  <2>4. x * a = IF k + 1 < e THEN y * b ELSE q * (y * b)
    <3>1. CASE k + 1 < e
      <4>1. x = y /\ a = b
        BY <2>1, <2>2, <2>3, <3>1
      <4> QED
        BY <3>1, <4>1
    <3>2. CASE k + 1 = e
      <4>1. x = y /\ a = q /\ b = 1
        BY <2>1, <2>2, <2>3, <3>2
      <4>2. y * q = q * (y * 1)
        BY <2>2
      <4> QED
        BY <3>2, <4>1, <4>2
    <3>3. CASE k + 1 > e
      <4>1. x = q * y /\ a = b
        BY <2>1, <2>2, <2>3, <3>3
      <4>2. (q * y) * b = q * (y * b)
        BY <2>2
      <4> QED
        BY <3>3, <4>1, <4>2
    <3> QED
      BY <2>1, <3>1, <3>2, <3>3
  <2> QED
    BY <2>1, <2>2, <2>4
<1>8. n \in T
  <2> HIDE DEF T
  <2> QED
    BY <1>6, <1>7, Reaches
<1>9. ~(n < e) /\ g[n] \in Int
  BY <1>4
<1> QED
  BY <1>2, <1>3, <1>8, <1>9

\* The inferred shape has the elements of the array.
LEMMA InferredTakes ==
    ASSUME NEW a, Exact(a), NEW request \in Seq(Int), Count(Given(request)) < WordSize,
           CanReshape(a, request)
    PROVE  Inferred(a, request) \in Seq(Nat) /\ Count(Inferred(a, request)) = a.size
<1> DEFINE n == Len(request)
           S == 1 .. n
           v == Given(request)
           u == Inferred(a, request)
           infer == {k \in DOMAIN request : request[k] = -1}
           q == a.size \div Known(request)
<1>1. n \in Nat /\ DOMAIN request = S /\ \A k \in S : request[k] \in Int
  BY LenProperties, ElementOfSeq
<1>2. a.size \in Nat
  BY ExactTakes
<1>3. /\ Cardinality(infer) <= 1
      /\ \A k \in S : request[k] >= -1
      /\ infer # {} => Known(request) # 0 /\ a.size % Known(request) = 0
      /\ Product(u) = a.size
  BY <1>1 DEF CanReshape
<1>4. v = [k \in S |-> IF request[k] = -1 THEN 1 ELSE request[k]]
  BY <1>1 DEF Given
<1>5. \A k \in S : v[k] \in Nat /\ v[k] = IF request[k] = -1 THEN 1 ELSE request[k]
  BY <1>1, <1>3, <1>4
<1>6. v \in Seq(Nat) /\ DOMAIN v = S
  <2>1. v \in [S -> Nat]
    <3>1. v = [k \in S |-> v[k]]
      BY <1>4
    <3> HIDE DEF v
    <3> QED
      BY <1>5, <3>1
  <2> HIDE DEF v, n
  <2> QED
    BY <1>1, <2>1, SequenceOf
<1>7. u = [k \in S |-> IF request[k] = -1 THEN q ELSE request[k]]
  BY <1>1 DEF Inferred
<1>8. Known(request) = Count(v) /\ Count(v) \in Nat
  BY <1>6, ProductExact DEF Known
<1> HIDE DEF v, u, q, n
<1>9. CASE infer = {}
  <2>1. u = v
    <3>1. \A k \in S : request[k] # -1
      BY <1>1, <1>9
    <3> QED
      BY <1>4, <1>7, <3>1
  <2> QED
    BY <1>3, <1>6, <1>8, <2>1 DEF u, v, Known
<1>10. CASE infer # {}
  <2>1. PICK e \in S : infer = {e}
    <3>1. IsFiniteSet(infer)
      <4>1. infer \in SUBSET S
        BY <1>1
      <4>2. IsFiniteSet(S)
        BY <1>1, FS_Interval
      <4> HIDE DEF infer, S
      <4> QED
        BY <4>1, <4>2, FS_Subset
    <3>2. infer \subseteq S
      BY <1>1
    <3> HIDE DEF infer
    <3>3. Cardinality(infer) \in Nat /\ Cardinality(infer) # 0
      BY <1>10, <3>1, FS_CardinalityType, FS_EmptySet
    <3>4. Cardinality(infer) = 1
      BY <1>3, <3>3
    <3>5. PICK e : infer = {e}
      BY <3>1, <3>4, FS_Singleton
    <3> QED
      BY <3>2, <3>5
  <2>2. request[e] = -1 /\ \A k \in S : k # e => request[k] # -1
    BY <1>1, <2>1
  <2>3. q \in Nat /\ q * Count(v) = a.size
    <3> DEFINE w == Count(v)
               z == a.size
    <3>1. w \in Nat /\ w # 0 /\ z \in Nat /\ z % w = 0 /\ q = z \div w
      BY <1>2, <1>3, <1>8, <1>10 DEF q
    <3> HIDE DEF w, z
    <3>2. q \in Int /\ z = q * w + (z % w)
      BY <3>1, Division
    <3>3. q \in Nat
      BY <3>1, Fits
    <3> QED
      BY <3>1, <3>2, <3>3 DEF w, z
  <2>4. \A k \in S : u[k] \in Nat /\ u[k] = IF k = e THEN q ELSE v[k]
    <3> SUFFICES ASSUME NEW k \in S PROVE u[k] \in Nat /\ u[k] = IF k = e THEN q ELSE v[k]
      OBVIOUS
    <3>1. u[k] = IF request[k] = -1 THEN q ELSE request[k]
      BY <1>7
    <3> QED
      BY <1>5, <2>2, <2>3, <3>1
  <2>5. u \in Seq(Nat) /\ DOMAIN u = S
    <3>1. u = [k \in S |-> u[k]]
      BY <1>7
    <3>2. u \in [1 .. n -> Nat]
      BY <2>4, <3>1
    <3> QED
      BY <1>1, <3>2, SequenceOf
  <2>6. Count(u) = q * Count(v)
    <3>1. IntsOn(1 .. n, u) /\ IntsOn(1 .. n, v)
      BY <1>5, <2>4 DEF IntsOn
    <3>2. u[e] = q /\ v[e] = 1 /\ \A k \in 1 .. n : k # e => u[k] = v[k]
      BY <1>5, <2>2, <2>4
    <3>3. q \in Int /\ e \in 1 .. n /\ DOMAIN u = 1 .. n /\ DOMAIN v = 1 .. n
      BY <1>6, <2>3, <2>5
    <3> QED
      BY <1>1, <3>1, <3>2, <3>3, ProductWith
  <2> QED
    BY <2>3, <2>5, <2>6 DEF u
<1> QED
  BY <1>9, <1>10

-----------------------------------------------------------------------------
(* The invariant *)

\* The inductive invariant: what the object says of its elements is exact, each
\* has a cell of the buffer, and no two have the same.
IInv == Sound(arr, DOMAIN mem)

\* The base of an empty buffer does not matter.
LEMMA EmptySound ==
    ASSUME NEW a, Sound(a, {})
    PROVE  Sound([a EXCEPT !.base = 0], {})
<1> DEFINE b == [a EXCEPT !.base = 0]
<1>1. Exact(a) /\ Reach(a, {}) /\ Distinct(a)
  BY DEF Sound
<1>2. b \in Layouts /\ b.shape = a.shape /\ b.strides = a.strides /\ b.size = a.size
  BY <1>1 DEF Exact, Layouts
<1> HIDE DEF b
<1>3. Exact(b)
  BY <1>1, <1>2 DEF Exact
<1>4. Reach(b, {})
  BY <1>1, <1>2 DEF Reach
<1>5. Distinct(b)
  BY <1>1, <1>2 DEF Distinct
<1> QED
  BY <1>3, <1>4, <1>5 DEF Sound, b

\* A zero-copy operation whose result is sound keeps the invariant.
LEMMA ViewKeeps ==
    ASSUME NEW a, Sound(a, DOMAIN mem), View(a)
    PROVE  IInv'
<1>1. mem' = mem /\ arr' = IF DOMAIN mem = {} THEN [a EXCEPT !.base = 0] ELSE a
  BY DEF View
<1>2. CASE DOMAIN mem = {}
  <2>1. Sound([a EXCEPT !.base = 0], {})
    BY <1>2, EmptySound
  <2> QED
    BY <1>1, <1>2, <2>1 DEF IInv
<1>3. CASE DOMAIN mem # {}
  BY <1>1, <1>3 DEF IInv
<1> QED
  BY <1>2, <1>3

\* A copy keeps it: its buffer has a cell per element.
LEMMA CopyKeeps ==
    ASSUME NEW shape \in Seq(Nat), Count(shape) = arr.size, arr.size < WordSize,
           NEW a, a = Layout(0, shape, RowMajor(shape), Count(shape)), Copied(a)
    PROVE  IInv'
<1>1. arr' = a /\ DOMAIN mem' = 0 .. arr.size - 1
  BY DEF Copied, Gathered
<1> DEFINE cells == 0 .. arr.size - 1
<1>2. Room(0, Count(shape), cells) /\ Count(shape) < WordSize
  BY DEF Room
<1> HIDE DEF cells
<1>3. Sound(a, cells)
  BY <1>2, RowMajorSound
<1> QED
  BY <1>1, <1>3 DEF IInv, cells

\* The first array is sound.
LEMMA InitSound == ASSUME NoWrap, Init PROVE IInv
<1>1. PICK s \in Shapes : arr = Fresh(s)
  BY DEF Init
<1>2. s \in Seq(Nat) /\ Count(s) < WordSize
  BY ArgumentsAssumption DEF NoWrap
<1>3. Product(s) = Count(s)
  BY <1>2, ProductExact
<1>4. arr = Layout(0, s, RowMajor(s), Count(s)) /\ arr.size = Count(s)
  BY <1>1, <1>3 DEF Fresh, Layout
<1>5. DOMAIN mem = 0 .. Count(s) - 1
  BY <1>4 DEF Init
<1>6. Room(0, Count(s), DOMAIN mem)
  BY <1>5 DEF Room
<1>7. Sound(Layout(0, s, RowMajor(s), Count(s)), DOMAIN mem)
  BY <1>2, <1>6, RowMajorSound
<1> QED
  BY <1>4, <1>7 DEF IInv

\* What reshape and ravel are asked for.
LEMMA RequestTakes ==
    ASSUME NoWrap, Exact(arr), NEW request \in Requests \cup {<<arr.size>>},
           CanReshape(arr, request)
    PROVE  /\ Inferred(arr, request) \in Seq(Nat)
           /\ Count(Inferred(arr, request)) = arr.size
<1>1. arr.size \in Nat /\ arr.size < WordSize
  BY ExactTakes DEF Exact
<1>2. request \in Seq(Int) /\ Count(Given(request)) < WordSize
  <2>1. CASE request \in Requests
    BY <2>1, ArgumentsAssumption DEF NoWrap
  <2>2. CASE request = <<arr.size>>
    <3>1. request \in Seq(Int) /\ DOMAIN request = 1 .. 1 /\ request[1] = arr.size
      BY <1>1, <2>2
    <3>2. DOMAIN Given(request) = 1 .. 1 /\ Given(request)[1] = arr.size
      BY <1>1, <3>1 DEF Given
    <3>3. Count(Given(request)) = arr.size
      BY <1>1, <3>2, CountOne
    <3> QED
      BY <1>1, <3>1, <3>3
  <2> QED
    BY <2>1, <2>2
<1> QED
  BY <1>2, InferredTakes

\* Every operation keeps the invariant.
LEMMA NextSound == ASSUME NoWrap, IInv, [Next]_vars PROVE IInv'
<1> DEFINE cells == DOMAIN mem
           n == Len(arr.shape)
<1>1. Sound(arr, cells) /\ Exact(arr)
  BY DEF IInv, Sound
<1>2. /\ arr.shape \in Seq(Nat) /\ arr.base \in Int /\ arr.size \in Nat /\ n \in Nat
      /\ DOMAIN arr.shape = 1 .. n /\ arr.size = Count(arr.shape) /\ arr.size < WordSize
  BY <1>1, ExactTakes DEF Exact
<1> HIDE DEF cells
<1>3. CASE DoCopy
  <2>1. Product(arr.shape) = Count(arr.shape)
    BY <1>2, ProductExact
  <2>2. Fresh(arr.shape) = Layout(0, arr.shape, RowMajor(arr.shape), Count(arr.shape))
    BY <2>1 DEF Fresh
  <2>3. Copied(Fresh(arr.shape))
    BY <1>3 DEF DoCopy
  <2> QED
    BY <1>2, <2>2, <2>3, CopyKeeps
<1>4. CASE \E axes \in Orders : DoTranspose(axes)
  <2>0. PICK given \in Orders : DoTranspose(given)
    BY <1>4
  <2> DEFINE axes == IF given = <<>> THEN Reversed(n) ELSE given
  <2>1. CanTranspose(arr, axes) /\ View(Transpose(arr, axes))
    BY <2>0 DEF DoTranspose
  <2>2. DOMAIN axes = 1 .. n /\ ToSet(axes) = DOMAIN arr.shape
    <3>1. CASE given = <<>>
      BY <2>1, <3>1 DEF Reversed, CanTranspose
    <3>2. CASE given # <<>>
      BY <1>2, <2>0, <2>1, <3>2 DEF Orders, CanTranspose
    <3> QED
      BY <3>1, <3>2
  <2> HIDE DEF axes
  <2>3. Sound(Transpose(arr, axes), cells)
    BY <1>1, <2>2, TransposeSound
  <2> QED
    BY <2>1, <2>3, ViewKeeps DEF cells
<1>5. CASE DoRavel \/ \E request \in Requests : DoReshape(request)
  <2>0. PICK request \in Requests \cup {<<arr.size>>} : DoReshape(request)
    BY <1>5 DEF DoRavel
  <2>1. /\ CanReshape(arr, request)
        /\ IF IsContiguous(arr) THEN View(Reshaped(arr.base, arr, request))
                                ELSE Copied(Reshaped(0, arr, request))
    BY <2>0 DEF DoReshape
  <2> DEFINE shape == Inferred(arr, request)
  <2>3. shape \in Seq(Nat) /\ Count(shape) = arr.size
    BY <1>1, <2>1, RequestTakes
  <2>4. \A base : Reshaped(base, arr, request) = Layout(base, shape, RowMajor(shape), arr.size)
    BY DEF Reshaped
  <2> HIDE DEF shape
  <2>5. CASE IsContiguous(arr)
    <3>1. Room(arr.base, Count(shape), cells)
      BY <1>1, <2>3, <2>5, SoundMeans DEF Room
    <3>2. Sound(Layout(arr.base, shape, RowMajor(shape), Count(shape)), cells)
      BY <1>2, <2>3, <3>1, RowMajorSound
    <3>3. View(Layout(arr.base, shape, RowMajor(shape), Count(shape)))
      BY <2>1, <2>3, <2>4, <2>5
    <3> QED
      BY <3>2, <3>3, ViewKeeps DEF cells
  <2>6. CASE ~IsContiguous(arr)
    <3>1. Copied(Layout(0, shape, RowMajor(shape), Count(shape)))
      BY <2>1, <2>3, <2>4, <2>6
    <3> QED
      BY <1>2, <2>3, <3>1, CopyKeeps
  <2> QED
    BY <2>5, <2>6
<1>6. CASE \E axes \in Drops : DoSqueeze(axes)
  <2>1. PICK drop \in SUBSET UnitAxes(arr) : View(Squeeze(arr, drop))
    <3>1. PICK axes \in Drops : DoSqueeze(axes)
      BY <1>6
    <3> DEFINE drop == IF axes = {} THEN UnitAxes(arr) ELSE axes
    <3>2. drop \in SUBSET UnitAxes(arr) /\ View(Squeeze(arr, drop))
      BY <3>1 DEF DoSqueeze
    <3> QED
      BY <3>2
  <2>2. Sound(Squeeze(arr, drop), cells)
    BY <1>1, SqueezeSound
  <2> QED
    BY <2>1, <2>2, ViewKeeps DEF cells
<1>7. CASE \E axis \in Slots : DoExpandDims(axis)
  <2>1. PICK axis \in 1 .. n + 1 : View(ExpandDims(arr, axis))
    BY <1>7 DEF DoExpandDims, Slots
  <2>2. Sound(ExpandDims(arr, axis), cells)
    BY <1>1, ExpandSound
  <2> QED
    BY <2>1, <2>2, ViewKeeps DEF cells
<1>8. CASE \E key \in Keys : DoSlice(key)
  <2>1. PICK key \in Keys :
          /\ n = 1 /\ Len(key) = 1 /\ key[1].kind = "slice"
          /\ LET s == AdjustSlice(key[1], arr.size)
             IN  View(ViewStrided(arr, s.start, s.len, s.step))
    BY <1>8 DEF DoSlice
  <2> DEFINE s == AdjustSlice(key[1], arr.size)
             b == ViewStrided(arr, s.start, s.len, s.step)
  <2>2. key[1] \in SliceItems
    <3>1. key[1] \in KeyItems
      <4> DEFINE k == key
      <4>1. k \in Seq(KeyItems) /\ Len(k) = 1 /\ 1 \in 1 .. Len(k)
        BY <2>1, ArgumentsAssumption
      <4> HIDE DEF k
      <4>2. k[1] \in KeyItems
        BY <4>1, ElementOfSeq
      <4> QED
        BY <4>2 DEF k
    <3> QED
      BY <2>1, <3>1 DEF KeyItems, IndexItems, Ellipsis
  <2>3. Inside(s, arr.size)
    BY <1>2, <2>2, AdjustInside
  <2>4. View(b)
    BY <2>1
  <2> HIDE DEF s
  <2>5. Sound(b, cells)
    BY <1>1, <2>1, <2>3, StridedSound
  <2> QED
    BY <2>4, <2>5, ViewKeeps DEF cells
<1>9. CASE \E key \in Keys : DoSliceNd(key)
  <2>1. PICK key \in Keys :
          /\ CanIndex(arr, key)
          /\ \E k \in DOMAIN arr.shape : Items(arr, key)[k].kind = "slice"
          /\ View(SliceNd(arr, Specs(arr, key)))
    BY <1>9 DEF DoSliceNd
  <2> DEFINE specs == Specs(arr, key)
  <2>2. key \in Seq(KeyItems)
    BY ArgumentsAssumption
  <2>3. /\ DOMAIN specs = 1 .. n
        /\ \A k \in 1 .. n : Specified(specs[k], arr.shape[k])
        /\ \A k \in 1 .. n : Items(arr, key)[k].kind = "slice" => specs[k].kind = "slice"
    BY <1>2, <2>1, <2>2, SpecsTake
  <2>4. \E k \in 1 .. n : specs[k].kind = "slice"
    BY <1>2, <2>1, <2>3
  <2>5. View(SliceNd(arr, specs))
    BY <2>1
  <2> HIDE DEF specs
  <2>6. Sound(SliceNd(arr, specs), cells)
    BY <1>1, <2>3, <2>4, SliceNdSound
  <2> QED
    BY <2>5, <2>6, ViewKeeps DEF cells
<1>10. CASE UNCHANGED vars
  BY <1>1, <1>10 DEF vars, IInv
<1> QED
  BY <1>3, <1>4, <1>5, <1>6, <1>7, <1>8, <1>9, <1>10 DEF Next

\* Whatever chain of views and copies led to an array, it is sound.
THEOREM Invariant == ASSUME NoWrap PROVE Spec => []IInv
<1>1. Init => IInv
  BY InitSound
<1>2. IInv /\ [Next]_vars => IInv'
  BY NextSound
<1> QED
  BY <1>1, <1>2, PTL DEF Spec

\* size_ counts the elements, and every axis has a stride.
THEOREM SizesExact == ASSUME NoWrap PROVE Spec => []LayoutOK
<1>1. IInv => LayoutOK
  BY DEF IInv, Sound, Exact, LayoutOK, SizeIsCount
<1>2. Spec => []IInv
  BY Invariant
<1> QED
  BY <1>1, <1>2, PTL

\* Every element of every view lies in the buffer the view shares.
THEOREM StaysInBounds == ASSUME NoWrap PROVE Spec => []InBounds
<1>1. IInv => InBounds
  BY SoundMeans DEF IInv, InBounds, Elements
<1>2. Spec => []IInv
  BY Invariant
<1> QED
  BY <1>1, <1>2, PTL

\* No view reaches one cell by two indices.
THEOREM NeverAliases == ASSUME NoWrap PROVE Spec => []NoSelfAlias
<1>1. IInv => NoSelfAlias
  BY SoundMeans DEF IInv, NoSelfAlias, Elements
<1>2. Spec => []IInv
  BY Invariant
<1> QED
  BY <1>1, <1>2, PTL

\* An array that is_contiguous calls contiguous is read right by a flat loop.
THEOREM FlatWhenContiguous == ASSUME NoWrap PROVE Spec => []ContiguousMeansFlat
<1>1. IInv => ContiguousMeansFlat
  BY SoundMeans DEF IInv, ContiguousMeansFlat, Elements
<1>2. Spec => []IInv
  BY Invariant
<1> QED
  BY <1>1, <1>2, PTL

-----------------------------------------------------------------------------
(* Row-major order, as nested loops visit the multi-indices *)

\* q sequences of m members each.
Blocks(blocks, q, m, S) ==
    /\ blocks \in [1 .. q -> Seq(S)]
    /\ \A i \in 1 .. q : Len(blocks[i]) = m

\* The first i blocks in one sequence.
Joined(blocks, i, m) == [x \in 1 .. i * m |-> blocks[((x - 1) \div m) + 1][((x - 1) % m) + 1]]

\* The place in such a sequence of the r-th member of block i.
LEMMA JoinedAt ==
    ASSUME NEW i \in Nat, NEW m \in Nat, NEW j \in 1 .. i, NEW r \in 1 .. m,
           NEW blocks
    PROVE  /\ (j - 1) * m + r \in 1 .. i * m
           /\ Joined(blocks, i, m)[(j - 1) * m + r] = blocks[j][r]
<1> DEFINE x == (j - 1) * m + r
<1>1. j - 1 \in Nat /\ (j - 1) * m \in Nat /\ r - 1 \in Nat /\ m > 0 /\ i * m \in Nat
  OBVIOUS
<1>2. x \in Int /\ x >= 1 /\ x - 1 = (j - 1) * m + (r - 1) /\ r - 1 < m
  BY <1>1
<1>3. x <= i * m
  <2>1. j <= i /\ (j - 1) * m + m = j * m
    OBVIOUS
  <2>2. j * m <= i * m
    <3>1. (i - j) * m >= 0
      BY <2>1, <1>1
    <3>2. i * m = j * m + (i - j) * m
      OBVIOUS
    <3>3. j * m \in Int /\ (i - j) * m \in Int
      OBVIOUS
    <3> HIDE DEF x
    <3> QED
      BY <3>1, <3>2, <3>3
  <2>3. x <= (j - 1) * m + m
    BY <1>1
  <2>4. j * m \in Int /\ i * m \in Int
    OBVIOUS
  <2> HIDE DEF x
  <2> QED
    BY <2>1, <2>2, <2>3, <2>4, <1>2
<1>4. (x - 1) \div m = j - 1 /\ (x - 1) % m = r - 1
  <2> HIDE DEF x
  <2>1. x - 1 \in Int /\ j - 1 \in Int /\ r - 1 \in Int /\ 0 <= r - 1
    BY <1>1, <1>2
  <2> QED
    BY <1>1, <1>2, <2>1, DivisionUnique
<1>5. x \in 1 .. i * m
  <2> HIDE DEF x
  <2> QED
    BY <1>1, <1>2, <1>3
<1> HIDE DEF x
<1>6. Joined(blocks, i, m)[x] = blocks[((x - 1) \div m) + 1][((x - 1) % m) + 1]
  BY <1>5 DEF Joined
<1>7. (j - 1) + 1 = j /\ (r - 1) + 1 = r
  OBVIOUS
<1> QED
  BY <1>4, <1>5, <1>6, <1>7 DEF x

\* Every place is the place of a member.
LEMMA JoinedPlace ==
    ASSUME NEW i \in Nat, NEW m \in Nat, NEW x \in 1 .. i * m
    PROVE  \E j \in 1 .. i, r \in 1 .. m : x = (j - 1) * m + r
<1>1. m > 0
  <2> SUFFICES ASSUME m = 0 PROVE FALSE
    OBVIOUS
  <2>1. i * m = 0
    OBVIOUS
  <2> QED
    BY <2>1
<1> DEFINE q == (x - 1) \div m
           r == (x - 1) % m
<1>2. q \in Int /\ r \in Int /\ x - 1 = q * m + r /\ 0 <= r /\ r < m
  <2>1. x - 1 \in Int
    OBVIOUS
  <2> QED
    BY <1>1, <2>1, Division
<1> HIDE DEF q, r
<1>3. x \in Nat /\ 1 <= x /\ x <= i * m
  OBVIOUS
<1>4. q >= 0
  <2> SUFFICES ASSUME q <= -1 PROVE FALSE
    BY <1>2
  <2>1. q * m <= -m
    BY <1>2
  <2> QED
    BY <1>2, <1>3, <2>1
<1>5. q < i
  <2> SUFFICES ASSUME q >= i PROVE FALSE
    BY <1>2
  <2>1. q * m >= i * m
    <3>1. (q - i) * m >= 0
      BY <1>2
    <3>2. q * m = i * m + (q - i) * m
      BY <1>2
    <3> QED
      BY <1>2, <3>1, <3>2
  <2> QED
    BY <1>2, <1>3, <2>1
<1>6. q + 1 \in 1 .. i /\ r + 1 \in 1 .. m /\ x = ((q + 1) - 1) * m + (r + 1)
  <2>1. (q + 1) - 1 = q
    BY <1>2
  <2> QED
    BY <1>2, <1>3, <1>4, <1>5, <2>1
<1> QED
  BY <1>6

\* The first i blocks are sequences over S.
LEMMA JoinedTakes ==
    ASSUME NEW S, NEW q \in Nat, NEW m \in Nat, NEW blocks, Blocks(blocks, q, m, S),
           NEW i \in 0 .. q
    PROVE  Joined(blocks, i, m) \in Seq(S) /\ Len(Joined(blocks, i, m)) = i * m
<1> DEFINE s == Joined(blocks, i, m)
<1>1. i \in Nat /\ i * m \in Nat
  OBVIOUS
<1>2. \A x \in 1 .. i * m : s[x] \in S
  <2> SUFFICES ASSUME NEW x \in 1 .. i * m PROVE s[x] \in S
    OBVIOUS
  <2>1. PICK j \in 1 .. i, r \in 1 .. m : x = (j - 1) * m + r
    BY <1>1, JoinedPlace
  <2>2. s[x] = blocks[j][r]
    BY <1>1, <2>1, JoinedAt
  <2>3. blocks[j] \in Seq(S) /\ Len(blocks[j]) = m
    BY DEF Blocks
  <2>4. blocks[j][r] \in S
    BY <2>3, ElementOfSeq
  <2> QED
    BY <2>2, <2>4
<1>3. s = [x \in 1 .. i * m |-> s[x]]
  BY DEF Joined
<1> HIDE DEF s
<1>4. s \in [1 .. i * m -> S]
  BY <1>2, <1>3
<1>5. s \in Seq(S) /\ Len(s) = i * m
  BY <1>1, <1>4, SequenceOf
<1> QED
  BY <1>5 DEF s

\* Block k goes at the end of the first i.
Adjoins(blocks, i, k, m) == Joined(blocks, k, m) = Joined(blocks, i, m) \o blocks[k]

LEMMA JoinedNext ==
    ASSUME NEW S, NEW q \in Nat, NEW m \in Nat, NEW blocks, Blocks(blocks, q, m, S),
           NEW i \in 0 .. q, NEW k \in 1 .. q, k = i + 1
    PROVE  Adjoins(blocks, i, k, m)
<1> DEFINE s == Joined(blocks, i, m)
           b == blocks[i + 1]
           t == Joined(blocks, i + 1, m)
           u == s \o b
<1>1. i \in 0 .. q /\ i + 1 \in 0 .. q /\ i + 1 \in 1 .. q /\ i \in Nat /\ i + 1 \in Nat /\ i + 1 = k
  OBVIOUS
<1>2. s \in Seq(S) /\ Len(s) = i * m /\ t \in Seq(S) /\ Len(t) = (i + 1) * m
  <2>1. s \in Seq(S) /\ Len(s) = i * m
    BY <1>1, JoinedTakes
  <2> DEFINE j == i + 1
  <2>2. j \in 0 .. q
    BY <1>1
  <2> HIDE DEF j
  <2>3. Joined(blocks, j, m) \in Seq(S) /\ Len(Joined(blocks, j, m)) = j * m
    BY <2>2, JoinedTakes
  <2> QED
    BY <2>1, <2>3 DEF j
<1>3. b \in Seq(S) /\ Len(b) = m
  BY <1>1 DEF Blocks
<1>4. /\ u \in Seq(S) /\ Len(u) = i * m + m
      /\ \A x \in 1 .. i * m + m : u[x] = IF x <= i * m THEN s[x] ELSE b[x - i * m]
  <2>1. s \in Seq(S) /\ b \in Seq(S)
    BY <1>2, <1>3
  <2> HIDE DEF s, b
  <2>2. /\ s \o b \in Seq(S) /\ Len(s \o b) = Len(s) + Len(b)
        /\ \A x \in 1 .. Len(s) + Len(b) : (s \o b)[x] = IF x <= Len(s) THEN s[x] ELSE b[x - Len(s)]
    BY <2>1, ConcatProperties
  <2>3. Len(s) = i * m /\ Len(b) = m
    BY <1>2, <1>3
  <2> QED
    BY <2>2, <2>3
<1>5. i * m + m = (i + 1) * m
  BY <1>1
<1>6. ASSUME NEW x \in 1 .. (i + 1) * m PROVE t[x] = u[x]
  <2>1. PICK j \in 1 .. i + 1, r \in 1 .. m : x = (j - 1) * m + r
    BY <1>1, JoinedPlace
  <2>2. t[x] = blocks[j][r]
    BY <1>1, <2>1, JoinedAt
  <2>3. CASE j \in 1 .. i
    <3>1. x \in 1 .. i * m /\ s[x] = blocks[j][r]
      BY <1>1, <2>1, <2>3, JoinedAt
    <3>2. i * m \in Int /\ x <= i * m
      BY <1>1, <3>1
    <3> HIDE DEF s, u, t
    <3>3. u[x] = s[x]
      BY <1>4, <1>5, <3>2
    <3> QED
      BY <2>2, <3>1, <3>3
  <2>4. CASE j = i + 1
    <3>1. j - 1 = i
      BY <1>1, <2>4
    <3>2. x = i * m + r
      BY <2>1, <3>1
    <3>3. i * m \in Nat /\ r \in Int /\ r >= 1
      BY <1>1
    <3>4. ~(x <= i * m) /\ x - i * m = r
      BY <3>2, <3>3
    <3> HIDE DEF s, u, t
    <3>5. u[x] = b[r]
      BY <1>4, <1>5, <3>4
    <3> QED
      BY <2>2, <2>4, <3>5
  <2>5. j \in 1 .. i \/ j = i + 1
    BY <1>1
  <2> QED
    BY <2>3, <2>4, <2>5
<1> HIDE DEF s, t, u, b
<1>7. t = u
  BY <1>2, <1>4, <1>5, <1>6, SeqEqual
<1> QED
  BY <1>1, <1>7 DEF s, t, u, b, Adjoins

\* f has the blocks in order.
Flattens(f, blocks, q, m, S) ==
    /\ f \in Seq(S) /\ Len(f) = q * m
    /\ \A j \in 1 .. q, r \in 1 .. m : f[(j - 1) * m + r] = blocks[j][r]

\* FlattenSeq joins blocks of one length.
LEMMA FlattenTakes ==
    ASSUME NEW S, NEW q \in Nat, NEW m \in Nat, NEW blocks, Blocks(blocks, q, m, S)
    PROVE  Flattens(FlattenSeq(blocks), blocks, q, m, S)
<1>1. blocks \in [1 .. q -> Seq(S)] /\ Len(blocks) = q
  <2>1. blocks \in [1 .. q -> Seq(S)]
    BY DEF Blocks
  <2> QED
    BY <2>1, SequenceOf
<1>2. CASE q = 0
  <2>1. FlattenSeq(blocks) = blocks
    BY <1>1, <1>2 DEF FlattenSeq
  <2>2. blocks \in [1 .. 0 -> S] /\ 0 * m = 0
    BY <1>1, <1>2
  <2>3. blocks \in Seq(S) /\ Len(blocks) = 0
    BY <2>2, SequenceOf
  <2> QED
    BY <1>2, <2>1, <2>2, <2>3 DEF Flattens
<1>3. CASE q # 0
  <2> DEFINE Own(f) == f = [i \in 1 .. q |-> IF i = 1 THEN blocks[i] ELSE f[i - 1] \o blocks[i]]
             it == CHOOSE f : Own(f)
             h == [i \in 1 .. q |-> Joined(blocks, i, m)]
  <2>1. FlattenSeq(blocks) = it[q]
    BY <1>1, <1>3 DEF FlattenSeq
  <2>2. Joined(blocks, 1, m) = blocks[1]
    <3>1. 0 \in 0 .. q - 1 /\ 0 \in 0 .. q /\ 0 + 1 = 1 /\ 1 \in 1 .. q
      BY <1>3
    <3>2. Joined(blocks, 1, m) = Joined(blocks, 0, m) \o blocks[1]
      <4> HIDE DEF Own, it, h
      <4>1. Adjoins(blocks, 0, 1, m)
        BY <3>1, JoinedNext
      <4> QED
        BY <4>1 DEF Adjoins
    <3>3. Joined(blocks, 0, m) \in Seq(S) /\ Len(Joined(blocks, 0, m)) = 0
      <4>1. 0 * m = 0
        OBVIOUS
      <4> QED
        BY <3>1, <4>1, JoinedTakes
    <3>4. Joined(blocks, 0, m) = <<>>
      BY <3>3, EmptySeq
    <3>5. blocks[1] \in Seq(S)
      BY <1>1, <3>1
    <3> QED
      BY <3>2, <3>4, <3>5, ConcatEmptySeq
  <2>3. ASSUME NEW i \in 1 .. q, i # 1
        PROVE  Joined(blocks, i, m) = Joined(blocks, i - 1, m) \o blocks[i]
    <3> DEFINE j == i - 1
    <3>1. j \in 0 .. q /\ i = j + 1
      BY <2>3
    <3> HIDE DEF j, Own, it, h
    <3>2. Adjoins(blocks, j, i, m)
      BY <3>1, JoinedNext
    <3> QED
      BY <3>2 DEF j, Adjoins
  <2>4. Own(h)
    <3>1. \A i \in 1 .. q : Joined(blocks, i, m) = IF i = 1 THEN blocks[i] ELSE h[i - 1] \o blocks[i]
      <4> SUFFICES ASSUME NEW i \in 1 .. q
                   PROVE  Joined(blocks, i, m) = IF i = 1 THEN blocks[i] ELSE h[i - 1] \o blocks[i]
        OBVIOUS
      <4>1. CASE i = 1
        BY <2>2, <4>1
      <4>2. CASE i # 1
        <5>1. i - 1 \in 1 .. q
          BY <4>2
        <5> QED
          BY <2>3, <4>2, <5>1
      <4> QED
        BY <4>1, <4>2
    <3> QED
      BY <3>1
  <2>5. Own(it)
    <3> HIDE DEF h
    <3>1. \E f : Own(f)
      BY <2>4
    <3> HIDE DEF Own
    <3> QED
      BY <3>1
  <2> HIDE DEF it, h
  <2> DEFINE T == {k \in 0 .. q - 1 : it[k + 1] = Joined(blocks, k + 1, m)}
  <2>6. 0 \in T
    <3>1. 0 + 1 = 1 /\ 1 \in 1 .. q /\ 0 \in 0 .. q - 1
      BY <1>3
    <3>2. it[1] = blocks[1]
      BY <2>5, <3>1
    <3> QED
      BY <2>2, <3>1, <3>2
  <2>7. ASSUME NEW k \in 0 .. (q - 1) - 1, k \in T PROVE k + 1 \in T
    <3> DEFINE i == (k + 1) + 1
    <3>1. i \in 1 .. q /\ i # 1 /\ i - 1 = k + 1 /\ k + 1 \in 0 .. q - 1
      BY <1>3
    <3>2. it[i] = it[i - 1] \o blocks[i]
      BY <2>5, <3>1
    <3>3. it[k + 1] = Joined(blocks, k + 1, m)
      BY <2>7
    <3>4. Joined(blocks, i, m) = Joined(blocks, i - 1, m) \o blocks[i]
      BY <2>3, <3>1
    <3> HIDE DEF Own
    <3>5. it[i] = Joined(blocks, i, m)
      BY <3>1, <3>2, <3>3, <3>4
    <3> QED
      BY <3>1, <3>5
  <2>8. q - 1 \in T
    <3> HIDE DEF T
    <3>1. q - 1 \in Nat
      BY <1>3
    <3> QED
      BY <2>6, <2>7, <3>1, Reaches
  <2>9. it[q] = Joined(blocks, q, m)
    <3>1. (q - 1) + 1 = q
      OBVIOUS
    <3> QED
      BY <2>8, <3>1
  <2>10. q \in 0 .. q
    OBVIOUS
  <2>11. Joined(blocks, q, m) \in Seq(S) /\ Len(Joined(blocks, q, m)) = q * m
    BY <2>10, JoinedTakes
  <2>12. \A j \in 1 .. q, r \in 1 .. m : Joined(blocks, q, m)[(j - 1) * m + r] = blocks[j][r]
    BY JoinedAt
  <2> QED
    BY <2>1, <2>9, <2>11, <2>12 DEF Flattens
<1> QED
  BY <1>2, <1>3

\* One loop more around the order of the axes inside it.
Layered(n, inner) ==
    FlattenSeq([i \in 1 .. n |-> [j \in DOMAIN inner |-> <<i - 1>> \o inner[j]]])

Nest(g, shape) ==
    g = [s \in SUBSET (DOMAIN shape) |->
            IF s = {} THEN << <<>> >> ELSE Layered(shape[Min(s)], g[s \ {Min(s)}])]

\* The row-major order is such a nest of loops.
LEMMA OrderNests ==
    ASSUME NEW shape
    PROVE  RowMajorOrder(shape) = (CHOOSE g : Nest(g, shape))[DOMAIN shape]
BY DEF RowMajorOrder, FoldRight, MapThenFoldSet, Nest, Layered

\* A loop runs the loops inside it once for each of its indices.
LEMMA LayeredTakes ==
    ASSUME NEW n \in Nat, NEW inner \in Seq(Seq(Int))
    PROVE  /\ Layered(n, inner) \in Seq(Seq(Int))
           /\ Len(Layered(n, inner)) = n * Len(inner)
           /\ \A i \in 1 .. n, j \in 1 .. Len(inner) :
                Layered(n, inner)[(i - 1) * Len(inner) + j] = <<i - 1>> \o inner[j]
<1> DEFINE m == Len(inner)
           b == [i \in 1 .. n |-> [j \in DOMAIN inner |-> <<i - 1>> \o inner[j]]]
<1>1. m \in Nat /\ DOMAIN inner = 1 .. m /\ \A j \in 1 .. m : inner[j] \in Seq(Int)
  BY LenProperties, ElementOfSeq
<1> HIDE DEF m
<1>2. ASSUME NEW i \in 1 .. n PROVE b[i] \in Seq(Seq(Int)) /\ Len(b[i]) = m
  <2>1. \A j \in 1 .. m : <<i - 1>> \o inner[j] \in Seq(Int)
    <3> SUFFICES ASSUME NEW j \in 1 .. m PROVE <<i - 1>> \o inner[j] \in Seq(Int)
      OBVIOUS
    <3>1. <<i - 1>> \in Seq(Int) /\ inner[j] \in Seq(Int)
      BY <1>1
    <3> QED
      BY <3>1, ConcatProperties
  <2>2. b[i] \in [1 .. m -> Seq(Int)]
    BY <1>1, <2>1
  <2> HIDE DEF b
  <2> QED
    BY <1>1, <2>2, SequenceOf
<1>3. \A i \in 1 .. n : \A j \in 1 .. m : b[i][j] = <<i - 1>> \o inner[j]
  BY <1>1
<1>4. b = [i \in 1 .. n |-> b[i]]
  OBVIOUS
<1> HIDE DEF b
<1>5. Blocks(b, n, m, Seq(Int))
  BY <1>2, <1>4 DEF Blocks
<1>6. /\ FlattenSeq(b) \in Seq(Seq(Int)) /\ Len(FlattenSeq(b)) = n * m
      /\ \A i \in 1 .. n, j \in 1 .. m : FlattenSeq(b)[(i - 1) * m + j] = b[i][j]
  <2>1. Flattens(FlattenSeq(b), b, n, m, Seq(Int))
    BY <1>1, <1>5, FlattenTakes
  <2> QED
    BY <2>1 DEF Flattens
<1>7. FlattenSeq(b) = Layered(n, inner)
  BY DEF Layered, b
<1> QED
  BY <1>3, <1>6, <1>7 DEF m

\* The least of some axes.
LEMMA LeastOf ==
    ASSUME NEW s, NEW x \in s, s \subseteq Int, \A y \in s : x <= y
    PROVE  Min(s) = x
<1> DEFINE Least(y) == y \in s /\ \A z \in s : y <= z
<1>1. Least(x)
  OBVIOUS
<1>2. \A y : Least(y) => y = x
  <2> SUFFICES ASSUME NEW y, Least(y) PROVE y = x
    OBVIOUS
  <2>1. x \in Int /\ y \in Int /\ x <= y /\ y <= x
    BY <1>1
  <2> QED
    BY <2>1
<1>3. Min(s) = CHOOSE y : Least(y)
  BY DEF Min
<1> HIDE DEF Least
<1>4. Least(CHOOSE y : Least(y))
  BY <1>1
<1> QED
  BY <1>2, <1>3, <1>4

\* The order of the axes after each axis, from the last one out.
Nested(o, n, shape) ==
    /\ o \in [0 .. n -> Seq(Seq(Int))]
    /\ o[n] = << <<>> >>
    /\ \A k \in 1 .. n : o[k - 1] = Layered(shape[k], o[k])

\* The order of a shape, one loop after the other.
LEMMA Nests ==
    ASSUME NEW shape \in Seq(Nat)
    PROVE  \E o : Nested(o, Len(shape), shape) /\ o[0] = RowMajorOrder(shape)
<1> DEFINE n == Len(shape)
           D == Seq(Seq(Int))
           one == << <<>> >>
           it == CHOOSE g : Nest(g, shape)
           F == [p \in (0 .. n) \X D |-> IF p[1] = n THEN one ELSE Layered(shape[n - p[1]], p[2])]
           Mirror(s) == {n - x : x \in s}
<1>1. n \in Nat /\ DOMAIN shape = 1 .. n /\ \A k \in 1 .. n : shape[k] \in Nat
  BY LenProperties, ElementOfSeq
<1>2. one \in D
  OBVIOUS
<1> HIDE DEF n, one
<1>3. F \in [(0 .. n) \X D -> D]
  <2>1. ASSUME NEW i \in 0 .. n, NEW x \in D
        PROVE  (IF i = n THEN one ELSE Layered(shape[n - i], x)) \in D
    <3>1. CASE i = n
      BY <1>2, <3>1
    <3>2. CASE i # n
      <4> DEFINE e == shape[n - i]
      <4>1. e \in Nat
        BY <1>1, <3>2
      <4> HIDE DEF e
      <4>2. Layered(e, x) \in D
        BY <4>1, LayeredTakes
      <4> QED
        BY <3>2, <4>2 DEF e
    <3> QED
      BY <3>1, <3>2
  <2> HIDE DEF D
  <2> QED
    BY <2>1
<1>4. PICK g \in [SUBSET (0 .. n) -> D] : Greatest(n, one, F, g)
  <2> HIDE DEF F, D
  <2> QED
    BY <1>1, <1>2, <1>3, FoldDefined
<1> HIDE DEF D
<1> DEFINE h == [s \in SUBSET (1 .. n) |-> g[Mirror(s)]]
<1>5. ASSUME NEW s \in SUBSET (1 .. n)
      PROVE  /\ h[s] \in D
             /\ h[s] = IF s = {} THEN one ELSE Layered(shape[Min(s)], h[s \ {Min(s)}])
             /\ s # {} => Min(s) \in s /\ \A y \in s : Min(s) <= y
  <2> DEFINE t == Mirror(s)
  <2>1. t \in SUBSET (0 .. n) /\ t \in SUBSET (0 .. n - 1)
    BY <1>1
  <2>2. h[s] = g[t] /\ g[t] \in D
    BY <1>4, <2>1
  <2>3. CASE s = {}
    <3>1. t = {}
      BY <2>3
    <3> HIDE DEF F, h, t
    <3>2. g[t] = one
      BY <1>4, <2>1, <3>1 DEF Greatest
    <3> QED
      BY <2>2, <2>3, <3>2
  <2>4. CASE s # {}
    <3>1. t # {}
      <4>1. PICK y \in s : TRUE
        BY <2>4
      <4>2. n - y \in t
        OBVIOUS
      <4> QED
        BY <4>2
    <3> DEFINE M == Max(t)
    <3>2. M \in t /\ \A y \in t : y <= M
      <4> HIDE DEF t
      <4> QED
        BY <1>1, <2>1, <3>1, GreatestMember
    <3>3. g[t] = F[<<M, g[t \ {M}]>>]
      <4> HIDE DEF t, F
      <4> QED
        BY <1>4, <2>1, <3>1 DEF Greatest
    <3> HIDE DEF M
    <3>4. PICK x \in s : M = n - x
      BY <3>2
    <3>5. x \in 1 .. n /\ n - M = x /\ M \in 0 .. n /\ M # n
      BY <1>1, <3>4
    <3>6. \A y \in s : x <= y
      <4> SUFFICES ASSUME NEW y \in s PROVE x <= y
        OBVIOUS
      <4>1. n - y \in t /\ y \in Int
        BY <1>1
      <4> HIDE DEF t
      <4>2. n - y <= n - x
        BY <3>2, <3>4, <4>1
      <4> QED
        BY <1>1, <3>5, <4>1, <4>2
    <3>7. Min(s) = x
      <4>1. s \subseteq Int
        OBVIOUS
      <4> QED
        BY <3>6, <4>1, LeastOf
    <3>8. t \ {M} = Mirror(s \ {x})
      <4>1. \A y \in s : y \in Int /\ n - y = n - x => y = x
        BY <1>1, <3>5
      <4> QED
        BY <3>4, <4>1
    <3> DEFINE r == s \ {x}
    <3>9. r \in SUBSET (1 .. n)
      OBVIOUS
    <3>10. Mirror(r) \in SUBSET (0 .. n)
      BY <1>1, <3>9
    <3>11. h[r] = g[Mirror(r)] /\ g[Mirror(r)] \in D
      BY <1>4, <3>9, <3>10
    <3>12. g[t] = Layered(shape[x], h[r])
      <4>1. g[t] = F[<<M, h[r]>>]
        BY <3>3, <3>8, <3>11
      <4>2. F[<<M, h[r]>>] = IF M = n THEN one ELSE Layered(shape[n - M], h[r])
        <5> HIDE DEF h, r, t
        <5> QED
          BY <3>5, <3>11
      <4> HIDE DEF F, h, r, t
      <4> QED
        BY <3>5, <4>1, <4>2
    <3> HIDE DEF h, t
    <3> QED
      BY <2>2, <2>4, <3>6, <3>7, <3>12
  <2> QED
    BY <2>3, <2>4
<1>6. Nest(h, shape)
  <2>1. h = [s \in SUBSET (1 .. n) |-> h[s]]
    OBVIOUS
  <2> HIDE DEF h, F
  <2> QED
    BY <1>1, <1>5, <2>1 DEF Nest, one
<1>7. Nest(it, shape)
  <2> HIDE DEF h, F
  <2> QED
    BY <1>6
<1> HIDE DEF h, it, F
<1>8. \A s \in SUBSET (1 .. n) : it[s] = IF s = {} THEN one ELSE Layered(shape[Min(s)], it[s \ {Min(s)}])
  BY <1>1, <1>7 DEF Nest, one
<1> DEFINE o == [k \in 0 .. n |-> it[k + 1 .. n]]
<1>9. o[n] = one
  <2>1. n \in 0 .. n /\ n + 1 .. n = {} /\ {} \in SUBSET (1 .. n)
    BY <1>1
  <2>2. it[{}] = one
    BY <1>8, <2>1
  <2> QED
    BY <2>1, <2>2
<1>10. ASSUME NEW k \in 1 .. n PROVE o[k - 1] = Layered(shape[k], o[k])
  <2> DEFINE s == k .. n
  <2>1. /\ k - 1 \in 0 .. n /\ (k - 1) + 1 .. n = s /\ s \in SUBSET (1 .. n) /\ k \in s
        /\ s \subseteq Int /\ (\A y \in s : k <= y) /\ s \ {k} = k + 1 .. n /\ k \in 0 .. n
    BY <1>1
  <2> HIDE DEF s
  <2>2. Min(s) = k
    BY <2>1, LeastOf
  <2>3. it[s] = Layered(shape[k], it[s \ {k}])
    BY <1>8, <2>1, <2>2
  <2>4. o[k - 1] = it[s] /\ o[k] = it[s \ {k}]
    BY <2>1
  <2> QED
    BY <2>3, <2>4
<1>11. o[0] = RowMajorOrder(shape)
  <2>1. 0 \in 0 .. n /\ 0 + 1 .. n = 1 .. n
    BY <1>1
  <2>2. RowMajorOrder(shape) = it[1 .. n]
    BY <1>1, OrderNests DEF it
  <2> QED
    BY <2>1, <2>2
<1>12. \A k \in 0 .. n : o[k] \in D
  <2> SUFFICES ASSUME NEW m \in 0 .. n PROVE o[m] \in D
    OBVIOUS
  <2> HIDE DEF o
  <2> DEFINE T == {j \in 0 .. n : o[n - j] \in D}
  <2>1. 0 \in T
    <3>1. n - 0 = n /\ 0 \in 0 .. n
      BY <1>1
    <3> QED
      BY <1>2, <1>9, <3>1
  <2>2. ASSUME NEW j \in 0 .. (n - m) - 1, j \in T PROVE j + 1 \in T
    <3> DEFINE k == n - j
    <3>1. k \in 1 .. n /\ k - 1 = n - (j + 1) /\ o[k] \in D /\ j + 1 \in 0 .. n
      BY <1>1, <2>2
    <3> HIDE DEF k
    <3>2. shape[k] \in Nat
      BY <1>1, <3>1
    <3>3. Layered(shape[k], o[k]) \in D
      BY <3>1, <3>2, LayeredTakes DEF D
    <3>4. o[k - 1] \in D
      BY <1>10, <3>1, <3>3
    <3> QED
      BY <3>1, <3>4
  <2>3. n - m \in Nat
    BY <1>1
  <2>4. n - m \in T
    <3> HIDE DEF T
    <3> QED
      BY <2>1, <2>2, <2>3, Reaches
  <2>5. n - (n - m) = m
    BY <1>1
  <2> QED
    BY <2>4, <2>5
<1>13. Nested(o, n, shape)
  <2>1. o = [k \in 0 .. n |-> o[k]]
    OBVIOUS
  <2> HIDE DEF o
  <2>2. o \in [0 .. n -> D]
    BY <1>12, <2>1
  <2> QED
    BY <1>9, <1>10, <2>2 DEF Nested, D, one
<1> HIDE DEF o
<1> QED
  BY <1>11, <1>13 DEF n

\* A term more at the front of a sum.
Prepends(u, n, x, w) == u[1] = x /\ \A k \in 1 .. n : u[k + 1] = w[k]

\* It is added to the sum of the others.
LEMMA SumPrepends ==
    ASSUME NEW n \in Nat, NEW w, DOMAIN w = 1 .. n, IntsOn(1 .. n, w), NEW x \in Int,
           NEW u, DOMAIN u = 1 .. n + 1, Prepends(u, n, x, w)
    PROVE  SumOf(u) = x + SumOf(w) /\ SumOf(w) \in Int
<1>1. /\ "sum" \in Kinds /\ Base("sum") = 0 /\ Values("sum") = Int
      /\ \A a, b : Step("sum", {}, a, b) = a + b
  BY DEF Kinds, Base, Values, Step
<1>2. \A k \in 1 .. n : w[k] \in Int /\ u[k + 1] = w[k]
  BY DEF IntsOn, Prepends
<1>3. u[1] = x
  BY DEF Prepends
<1>4. IntsOn(1 .. n + 1, u)
  <2> SUFFICES ASSUME NEW k \in 1 .. n + 1 PROVE u[k] \in Int
    BY DEF IntsOn
  <2>1. CASE k = 1
    BY <1>3, <2>1
  <2>2. CASE k # 1
    <3> DEFINE j == k - 1
    <3>1. j \in 1 .. n /\ j + 1 = k
      BY <2>2
    <3> HIDE DEF j
    <3> QED
      BY <1>2, <3>1
  <2> QED
    BY <2>1, <2>2
<1>5. PICK f : Unrolling(f, "sum", {}, n + 1, u) /\ f[n + 1] = Folded("sum", {}, u)
  <2> DEFINE m == n + 1
  <2>1. m \in Nat /\ DOMAIN u = 1 .. m /\ IntsOn(1 .. m, u)
    BY <1>4
  <2> HIDE DEF m
  <2>2. \E f : Unrolling(f, "sum", {}, m, u) /\ f[m] = Folded("sum", {}, u)
    BY <1>1, <2>1, Unrolls
  <2> QED
    BY <2>2 DEF m
<1>6. PICK g : Unrolling(g, "sum", {}, n, w) /\ g[n] = Folded("sum", {}, w)
  BY <1>1, Unrolls
<1>7. f[0] = 0 /\ \A k \in 0 .. (n + 1) - 1 : f[k] \in Int /\ f[k + 1] = f[k] + u[k + 1]
  BY <1>1, <1>5 DEF Unrolling
<1>8. g[0] = 0 /\ g[n] \in Int /\ \A k \in 0 .. n - 1 : g[k] \in Int /\ g[k + 1] = g[k] + w[k + 1]
  BY <1>1, <1>6 DEF Unrolling
<1> DEFINE T == {k \in 0 .. n : f[k + 1] = x + g[k]}
<1>9. 0 \in T
  <2>1. 0 \in 0 .. n /\ 0 \in 0 .. (n + 1) - 1 /\ 0 + 1 = 1
    OBVIOUS
  <2>2. f[1] = f[0] + u[1]
    BY <1>7, <2>1
  <2> QED
    BY <1>3, <1>7, <1>8, <2>1, <2>2
<1>10. ASSUME NEW k \in 0 .. n - 1, k \in T PROVE k + 1 \in T
  <2> DEFINE j == k + 1
  <2>1. j \in 0 .. (n + 1) - 1 /\ j \in 1 .. n /\ j \in 0 .. n
    OBVIOUS
  <2>2. f[j] = x + g[k]
    BY <1>10
  <2>3. g[j] = g[k] + w[j] /\ g[k] \in Int
    BY <1>8
  <2>4. f[j + 1] = f[j] + u[j + 1]
    <3> HIDE DEF j
    <3> QED
      BY <1>7, <2>1
  <2>5. u[j + 1] = w[j] /\ w[j] \in Int
    <3> HIDE DEF j
    <3> QED
      BY <1>2, <2>1
  <2> HIDE DEF j
  <2>6. f[j + 1] = x + g[j]
    BY <2>2, <2>3, <2>4, <2>5
  <2>7. j \in T
    BY <2>1, <2>6
  <2> QED
    BY <2>7 DEF j
<1>11. n \in T
  <2> HIDE DEF T
  <2> QED
    BY <1>9, <1>10, Reaches
<1> QED
  BY <1>5, <1>6, <1>8, <1>11, SumFolds

\* c is the index of its place in row-major order among the indices of the axes
\* after axis k, with volumes V.
Numbered(c, i, k, n, shape, V) ==
    /\ c \in Seq(Int) /\ Len(c) = n - k
    /\ \A j \in 1 .. n - k : 0 <= c[j] /\ c[j] < shape[k + j]
    /\ LinearOffset(c, [j \in 1 .. n - k |-> V[k + j]]) = i

\* An index one axis longer.
LEMMA NumberedNext ==
    ASSUME NEW n \in Nat, NEW shape \in Seq(Nat), Len(shape) = n, NEW V, Radix(V, n, shape),
           NEW k \in 1 .. n, NEW x \in Nat, x < shape[k], NEW c, NEW i, Numbered(c, i, k, n, shape, V)
    PROVE  Numbered(<<x>> \o c, x * V[k] + i, k - 1, n, shape, V) /\ i \in Int
<1> DEFINE d == <<x>> \o c
           m == n - k
           e == k - 1
           aux == [j \in 1 .. m |-> V[k + j]]
           bux == [j \in 1 .. m + 1 |-> V[e + j]]
           w == [j \in DOMAIN c |-> c[j] * aux[j]]
           u == [j \in DOMAIN d |-> d[j] * bux[j]]
<1>1. m \in Nat /\ e \in Nat /\ e = k - 1 /\ n - e = m + 1 /\ k + m = n /\ e + 1 = k
  OBVIOUS
<1>2. c \in Seq(Int) /\ Len(c) = m /\ DOMAIN c = 1 .. m /\ \A j \in 1 .. m : c[j] \in Int
  <2>1. c \in Seq(Int) /\ Len(c) = m
    BY DEF Numbered
  <2> HIDE DEF m
  <2> QED
    BY <2>1, LenProperties, ElementOfSeq
<1>3. \A j \in 0 .. n : V[j] \in Int
  BY DEF Radix
<1>4. \A j \in 1 .. m : 0 <= c[j] /\ c[j] < shape[k + j]
  BY DEF Numbered
<1>5. LinearOffset(c, aux) = i
  BY DEF Numbered
<1>6. /\ d \in Seq(Int) /\ Len(d) = m + 1 /\ DOMAIN d = 1 .. m + 1
      /\ d[1] = x /\ \A j \in 1 .. m : d[j + 1] = c[j]
  <2> DEFINE s == <<x>>
  <2>1. s \in Seq(Int) /\ Len(s) = 1 /\ s[1] = x
    OBVIOUS
  <2> HIDE DEF s, m
  <2>2. /\ s \o c \in Seq(Int) /\ Len(s \o c) = 1 + m
        /\ \A y \in 1 .. 1 + m : (s \o c)[y] = IF y <= 1 THEN s[y] ELSE c[y - 1]
    <3>1. c \in Seq(Int) /\ s \in Seq(Int)
      BY <1>2, <2>1
    <3>2. /\ s \o c \in Seq(Int) /\ Len(s \o c) = Len(s) + Len(c)
          /\ \A y \in 1 .. Len(s) + Len(c) : (s \o c)[y] = IF y <= Len(s) THEN s[y] ELSE c[y - Len(s)]
      BY <3>1, ConcatProperties
    <3>3. Len(s) = 1 /\ Len(c) = m
      BY <1>2, <2>1
    <3> QED
      BY <3>2, <3>3
  <2>3. d = s \o c
    BY DEF s
  <2> HIDE DEF d
  <2>4. 1 + m = m + 1 /\ 1 \in 1 .. 1 + m
    BY <1>1
  <2>5. d[1] = x
    <3> DEFINE f == s \o c
    <3> HIDE DEF f
    <3>1. f[1] = IF 1 <= 1 THEN s[1] ELSE c[1 - 1]
      BY <2>2, <2>4 DEF f
    <3>2. f[1] = s[1]
      BY <3>1
    <3> QED
      BY <2>1, <2>3, <3>2 DEF f
  <2>6. ASSUME NEW j \in 1 .. m PROVE d[j + 1] = c[j]
    <3> DEFINE y == j + 1
    <3>1. y \in 1 .. 1 + m /\ ~(y <= 1) /\ y - 1 = j
      BY <1>1
    <3> HIDE DEF y
    <3>2. d[y] = c[y - 1]
      BY <2>2, <2>3, <3>1
    <3> QED
      BY <3>1, <3>2 DEF y
  <2>7. DOMAIN d = 1 .. Len(d)
    BY <2>2, <2>3, LenProperties
  <2> QED
    BY <2>2, <2>3, <2>4, <2>5, <2>6, <2>7
<1> HIDE DEF d, m, e
<1>7. \A j \in 1 .. m : aux[j] \in Int /\ aux[j] = V[k + j]
  BY <1>1, <1>3
<1>8. bux[1] = V[k] /\ \A j \in 1 .. m : bux[j + 1] = aux[j]
  <2>1. 1 \in 1 .. m + 1
    BY <1>1
  <2>2. ASSUME NEW j \in 1 .. m PROVE bux[j + 1] = aux[j]
    <3>1. j + 1 \in 1 .. m + 1 /\ e + (j + 1) = k + j
      BY <1>1
    <3> QED
      BY <3>1
  <2> QED
    BY <1>1, <2>1, <2>2
<1> HIDE DEF aux, bux
<1>9. DOMAIN w = 1 .. m /\ IntsOn(1 .. m, w)
  <2>1. \A j \in 1 .. m : w[j] \in Int
    BY <1>2, <1>7
  <2> QED
    BY <1>2, <2>1 DEF IntsOn
<1>10. V[k] \in Int /\ x * V[k] \in Int
  BY <1>3
<1>11. DOMAIN u = 1 .. m + 1 /\ Prepends(u, m, x * V[k], w)
  <2>1. DOMAIN u = 1 .. m + 1
    BY <1>6
  <2>2. u[1] = x * V[k]
    <3>1. 1 \in 1 .. m + 1
      BY <1>1
    <3> QED
      BY <1>6, <1>8, <3>1
  <2>3. ASSUME NEW j \in 1 .. m PROVE u[j + 1] = w[j]
    <3>1. j + 1 \in 1 .. m + 1
      BY <1>1
    <3>2. u[j + 1] = d[j + 1] * bux[j + 1]
      BY <1>6, <3>1
    <3>3. w[j] = c[j] * aux[j]
      BY <1>2
    <3>4. d[j + 1] = c[j] /\ bux[j + 1] = aux[j]
      BY <1>6, <1>8
    <3> HIDE DEF u, w
    <3> QED
      BY <3>2, <3>3, <3>4
  <2> HIDE DEF u, w
  <2> QED
    BY <2>1, <2>2, <2>3 DEF Prepends
<1>12. LinearOffset(c, aux) = SumOf(w) /\ LinearOffset(d, bux) = SumOf(u)
  BY DEF LinearOffset
<1> HIDE DEF u, w
<1>13. SumOf(u) = x * V[k] + SumOf(w) /\ SumOf(w) \in Int
  <2> DEFINE z == x * V[k]
  <2>1. z \in Int /\ Prepends(u, m, z, w)
    BY <1>10, <1>11
  <2> HIDE DEF z
  <2>2. SumOf(u) = z + SumOf(w) /\ SumOf(w) \in Int
    BY <1>1, <1>9, <1>11, <2>1, SumPrepends
  <2> QED
    BY <2>2 DEF z
<1>14. ASSUME NEW y \in 1 .. m + 1 PROVE 0 <= d[y] /\ d[y] < shape[e + y]
  <2>1. CASE y = 1
    BY <1>1, <1>6, <2>1
  <2>2. CASE y # 1
    <3> DEFINE j == y - 1
    <3>1. j \in 1 .. m /\ j + 1 = y /\ e + y = k + j
      BY <1>1, <2>2
    <3> HIDE DEF j
    <3> QED
      BY <1>4, <1>6, <3>1
  <2> QED
    BY <2>1, <2>2
<1>15. bux = [j \in 1 .. n - e |-> V[e + j]]
  BY <1>1 DEF bux
<1>16. LinearOffset(d, bux) = x * V[k] + i
  BY <1>5, <1>12, <1>13
<1>17. Numbered(d, x * V[k] + i, e, n, shape, V)
  BY <1>1, <1>6, <1>14, <1>15, <1>16 DEF Numbered
<1> QED
  BY <1>5, <1>12, <1>13, <1>17 DEF d, e

\* The members of an order are its shape's multi-indices, each at its place.
Ordered(order, shape) ==
    /\ order \in Seq(Seq(Int)) /\ Len(order) = Count(shape) /\ DOMAIN order = 1 .. Count(shape)
    /\ \A i \in 1 .. Count(shape) :
          order[i] \in Box(shape) /\ LinearOffset(order[i], RowMajor(shape)) = i - 1

\* Nested loops visit the multi-indices in the order of their row-major offsets.
LEMMA OrderIs ==
    ASSUME NEW shape \in Seq(Nat)
    PROVE  /\ Ordered(RowMajorOrder(shape), shape)
           /\ Count(shape) \in Nat
           /\ Indices(shape) = Box(shape)
<1> DEFINE n == Len(shape)
           order == RowMajorOrder(shape)
<1>1. n \in Nat /\ DOMAIN shape = 1 .. n /\ \A k \in 1 .. n : shape[k] \in Nat
  BY LenProperties, ElementOfSeq
<1>2. PICK V : /\ Radix(V, n, shape) /\ V[0] = Count(shape)
               /\ \A k \in 1 .. n : Count(SubSeq(shape, k + 1, n)) = V[k]
  BY Radices
<1>3. PICK o : Nested(o, n, shape) /\ o[0] = order
  BY Nests
<1> HIDE DEF n, order
<1>n. n = Len(shape)
  BY DEF n
<1>4. V[n] = 1 /\ (\A k \in 0 .. n : V[k] \in Nat) /\ \A k \in 1 .. n : V[k - 1] = shape[k] * V[k]
  BY <1>2 DEF Radix
<1>5. o[n] = << <<>> >> /\ (\A k \in 0 .. n : o[k] \in Seq(Seq(Int)))
      /\ \A k \in 1 .. n : o[k - 1] = Layered(shape[k], o[k])
  BY <1>3 DEF Nested
<1> DEFINE All(k) == /\ Len(o[k]) = V[k]
                     /\ \A i \in 1 .. V[k] : Numbered(o[k][i], i - 1, k, n, shape, V)
           T == {j \in 0 .. n : All(n - j)}
<1>6. 0 \in T
  <2> DEFINE c == <<>>
             aux == [j \in 1 .. n - n |-> V[n + j]]
             w == [j \in DOMAIN c |-> c[j] * aux[j]]
  <2>1. n - 0 = n /\ 0 \in 0 .. n /\ n - n = 0
    BY <1>1
  <2>2. Len(o[n]) = V[n] /\ o[n][1] = c
    BY <1>4, <1>5
  <2>3. c \in Seq(Int) /\ Len(c) = n - n
    BY <2>1
  <2>4. LinearOffset(c, aux) = 0
    <3>1. DOMAIN c = {}
      OBVIOUS
    <3>2. w = <<>>
      BY <3>1
    <3>3. Folded("sum", {}, <<>>) = 0
      <4>1. "sum" \in Monoidal /\ Base("sum") = 0
        BY DEF Monoidal, Base
      <4> QED
        BY <4>1, FoldNone
    <3>4. LinearOffset(c, aux) = SumOf(w)
      BY DEF LinearOffset
    <3>5. SumOf(<<>>) = 0
      BY <3>3, SumFolds
    <3> HIDE DEF w
    <3> QED
      BY <3>2, <3>4, <3>5
  <2>5. \A j \in 1 .. n - n : 0 <= c[j] /\ c[j] < shape[n + j]
    BY <2>1
  <2>6. 1 - 1 = 0
    OBVIOUS
  <2>7. Numbered(c, 1 - 1, n, n, shape, V)
    <3> HIDE DEF c
    <3> QED
      BY <2>3, <2>4, <2>5, <2>6 DEF Numbered
  <2> HIDE DEF c
  <2>8. All(n)
    <3> SUFFICES ASSUME NEW i \in 1 .. V[n] PROVE Numbered(o[n][i], i - 1, n, n, shape, V)
      BY <2>2
    <3>1. i = 1
      BY <1>4
    <3> QED
      BY <2>2, <2>7, <3>1
  <2> HIDE DEF All
  <2> QED
    BY <2>1, <2>8
<1>7. ASSUME NEW k \in 1 .. n, All(k) PROVE All(k - 1)
  <2> DEFINE s == shape[k]
             v == V[k]
             inner == o[k]
             outer == o[k - 1]
  <2>1. s \in Nat /\ v \in Nat /\ V[k - 1] = s * v /\ k - 1 \in 0 .. n /\ inner \in Seq(Seq(Int))
    BY <1>1, <1>4, <1>5
  <2>2. Len(inner) = v /\ \A i \in 1 .. v : Numbered(inner[i], i - 1, k, n, shape, V)
    BY <1>7
  <2>3. outer = Layered(s, inner)
    BY <1>5
  <2>4. ASSUME NEW i \in 1 .. V[k - 1] PROVE Numbered(outer[i], i - 1, k - 1, n, shape, V)
    <3> HIDE DEF All, T, s, v, inner, outer
    <3>1. i \in 1 .. s * v
      BY <2>1
    <3>2. PICK a \in 1 .. s, r \in 1 .. v : i = (a - 1) * v + r
      BY <2>1, <3>1, JoinedPlace
    <3>3. outer[i] = <<a - 1>> \o inner[r]
      BY <2>1, <2>2, <2>3, <3>2, LayeredTakes
    <3> DEFINE x == a - 1
               y == r - 1
    <3>4. x \in Nat /\ x < s /\ y \in Int /\ r = y + 1
      BY <2>1
    <3> DEFINE c == inner[r]
    <3>5. Numbered(c, y, k, n, shape, V)
      BY <2>2
    <3>6. i - 1 = x * v + y
      <4> DEFINE z == x * v
      <4>1. z \in Int /\ i = z + r
        BY <2>1, <3>2, <3>4
      <4> HIDE DEF z, x, y
      <4>2. i - 1 = z + y
        BY <3>4, <4>1
      <4> QED
        BY <4>2 DEF z
    <3> HIDE DEF x, y, c
    <3>7. Numbered(<<x>> \o c, x * V[k] + y, k - 1, n, shape, V)
      <4>1. x < shape[k]
        BY <3>4 DEF s
      <4> QED
        BY <1>1, <1>2, <1>n, <3>4, <3>5, <4>1, NumberedNext
    <3>8. outer[i] = <<x>> \o c
      BY <3>3 DEF x, c
    <3> QED
      BY <3>6, <3>7, <3>8 DEF v
  <2>5. Len(outer) = V[k - 1]
    <3> HIDE DEF All, T, s, v, inner, outer
    <3> QED
      BY <2>1, <2>2, <2>3, LayeredTakes
  <2> QED
    BY <2>4, <2>5
<1>8. ASSUME NEW j \in 0 .. n - 1, j \in T PROVE j + 1 \in T
  <2> DEFINE k == n - j
  <2>1. k \in 1 .. n /\ k - 1 = n - (j + 1) /\ j + 1 \in 0 .. n
    BY <1>1
  <2>2. All(k)
    BY <1>8
  <2> HIDE DEF k, All
  <2>3. All(k - 1)
    BY <1>7, <2>1, <2>2
  <2> QED
    BY <2>1, <2>3
<1>9. All(0)
  <2>1. n \in T
    <3> HIDE DEF T
    <3> QED
      BY <1>1, <1>6, <1>8, Reaches
  <2>2. n - n = 0
    BY <1>1
  <2> HIDE DEF All
  <2> QED
    BY <2>1, <2>2
<1> DEFINE N == Count(shape)
<1>10. N \in Nat /\ Len(order) = N
  <2>1. 0 \in 0 .. n
    BY <1>1
  <2> QED
    BY <1>2, <1>3, <1>4, <1>9, <2>1
<1>11. order \in Seq(Seq(Int)) /\ DOMAIN order = 1 .. N
  <2>1. 0 \in 0 .. n
    BY <1>1
  <2>2. order \in Seq(Seq(Int))
    BY <1>3, <1>5, <2>1
  <2> QED
    BY <1>10, <2>2, LenProperties
<1>12. ASSUME NEW i \in 1 .. N
       PROVE  order[i] \in Box(shape) /\ LinearOffset(order[i], RowMajor(shape)) = i - 1
  <2> DEFINE c == order[i]
             aux == [j \in 1 .. n - 0 |-> V[0 + j]]
  <2>1. Numbered(c, i - 1, 0, n, shape, V)
    BY <1>2, <1>3, <1>9
  <2>2. n - 0 = n /\ \A j \in 1 .. n : 0 + j = j
    BY <1>1
  <2>3. c \in Seq(Int) /\ Len(c) = n /\ (\A j \in 1 .. n : 0 <= c[j] /\ c[j] < shape[j])
        /\ LinearOffset(c, aux) = i - 1
    BY <2>1, <2>2 DEF Numbered
  <2> HIDE DEF c
  <2>4. DOMAIN c = 1 .. n /\ c \in [1 .. n -> Nat]
    <3>1. DOMAIN c = 1 .. n /\ c = [j \in 1 .. n |-> c[j]] /\ \A j \in 1 .. n : c[j] \in Int
      BY <2>3, <1>1, LenProperties, ElementOfSeq
    <3>2. \A j \in 1 .. n : c[j] \in Nat
      BY <2>3, <3>1
    <3> QED
      BY <3>1, <3>2
  <2>5. c \in Box(shape)
    BY <2>3, <2>4, <1>n DEF Box
  <2>6. LinearOffset(c, RowMajor(shape)) = LinearOffset(c, aux)
    <3>1. \A j \in 1 .. n : RowMajor(shape)[j] = aux[j]
      <4>1. RowMajor(shape) = [j \in 1 .. n |-> Count(SubSeq(shape, j + 1, n))]
        BY <1>1, <1>n DEF RowMajor
      <4>2. \A j \in 1 .. n : aux[j] = V[j]
        BY <2>2
      <4> QED
        BY <1>2, <4>1, <4>2
    <3> HIDE DEF aux
    <3>2. [j \in DOMAIN c |-> c[j] * RowMajor(shape)[j]] = [j \in DOMAIN c |-> c[j] * aux[j]]
      BY <2>4, <3>1
    <3> QED
      BY <3>2 DEF LinearOffset
  <2> QED
    BY <2>3, <2>5, <2>6 DEF c
<1> HIDE DEF All, T
<1>13. Ordered(order, shape)
  BY <1>10, <1>11, <1>12 DEF Ordered
<1>14. Indices(shape) = Box(shape)
  <2>1. Indices(shape) = {order[i] : i \in 1 .. N}
    BY <1>11 DEF Indices, ToSet, order
  <2> HIDE DEF N
  <2>2. ASSUME NEW c \in Box(shape) PROVE \E i \in 1 .. N : c = order[i]
    <3> DEFINE v == LinearOffset(c, RowMajor(shape))
               i == v + 1
    <3>1. v \in 0 .. N - 1
      BY RowMajorStrides DEF N
    <3>2. i \in 1 .. N /\ i - 1 = v
      BY <1>10, <3>1
    <3> HIDE DEF v, i
    <3>3. order[i] \in Box(shape) /\ LinearOffset(order[i], RowMajor(shape)) = LinearOffset(c, RowMajor(shape))
      BY <1>12, <3>2 DEF v
    <3>4. c = order[i]
      BY <3>3, RowMajorStrides
    <3> QED
      BY <3>2, <3>4
  <2> QED
    BY <1>12, <2>1, <2>2
<1> QED
  BY <1>10, <1>13, <1>14 DEF order

\* The place of a multi-index is the flat index that FlatToOffset unravels to it.
LEMMA Visits ==
    ASSUME NEW shape \in Seq(Nat), NEW i \in 1 .. Count(shape)
    PROVE  /\ RowMajorOrder(shape)[i] \in Box(shape) /\ i - 1 \in 0 .. Count(shape) - 1
           /\ LinearOffset(RowMajorOrder(shape)[i], RowMajor(shape)) = i - 1
           /\ Count(shape) < WordSize =>
                \A strides : FlatToOffset(i - 1, strides, InnerVolumes(shape))
                               = LinearOffset(RowMajorOrder(shape)[i], strides)
<1> DEFINE c == RowMajorOrder(shape)[i]
           N == Count(shape)
           j == i - 1
<1>1. Ordered(RowMajorOrder(shape), shape) /\ N \in Nat
  BY OrderIs
<1>2. c \in Box(shape) /\ LinearOffset(c, RowMajor(shape)) = j
  BY <1>1 DEF Ordered
<1>3. j \in 0 .. N - 1
  BY <1>1
<1> HIDE DEF c, j, N
<1>4. ASSUME N < WordSize
      PROVE  \A strides : FlatToOffset(j, strides, InnerVolumes(shape)) = LinearOffset(c, strides)
  <2>1. Count(shape) < WordSize /\ j \in 0 .. Count(shape) - 1
    BY <1>3, <1>4 DEF N
  <2>2. PICK d \in Box(shape) :
            /\ LinearOffset(d, RowMajor(shape)) = j
            /\ \A strides : FlatToOffset(j, strides, InnerVolumes(shape)) = LinearOffset(d, strides)
    BY <2>1, RowMajorStrides
  <2>3. d = c
    <3>1. LinearOffset(d, RowMajor(shape)) = LinearOffset(c, RowMajor(shape))
      BY <1>2, <2>2
    <3> QED
      BY <1>2, <3>1, RowMajorStrides
  <2> QED
    BY <2>2, <2>3
<1> QED
  BY <1>2, <1>3, <1>4 DEF c, j, N

\* What an array is combined with has exact sizes.
LEMMA OperandExact ==
    ASSUME NoWrap, IInv, NEW b \in Operands
    PROVE  Exact(b)
<1>1. CASE b \in {Fresh(s) : s \in Shapes}
  <2>1. PICK s \in Shapes : b = Fresh(s)
    BY <1>1
  <2>2. s \in Seq(Nat) /\ Count(s) < WordSize
    BY ArgumentsAssumption DEF NoWrap
  <2>3. Product(s) = Count(s) /\ Count(s) \in Nat
    BY <2>2, ProductExact
  <2>4. b = Layout(0, s, RowMajor(s), Count(s))
    BY <2>1, <2>3 DEF Fresh
  <2>5. Room(0, Count(s), Int)
    BY <2>3 DEF Room
  <2>6. Sound(Layout(0, s, RowMajor(s), Count(s)), Int)
    BY <2>2, <2>5, RowMajorSound
  <2> QED
    BY <2>4, <2>6 DEF Sound
<1>2. CASE b = Transpose(arr, Reversed(Len(arr.shape)))
  <2> DEFINE n == Len(arr.shape)
             axes == Reversed(n)
  <2>1. Sound(arr, DOMAIN mem) /\ Exact(arr)
    BY DEF IInv, Sound
  <2>2. n \in Nat /\ DOMAIN arr.shape = 1 .. n
    BY <2>1, ExactTakes
  <2> HIDE DEF n
  <2>3. DOMAIN axes = 1 .. n /\ ToSet(axes) = 1 .. n
    <3>1. DOMAIN axes = 1 .. n /\ \A k \in 1 .. n : axes[k] = n + 1 - k
      BY DEF Reversed
    <3>2. \A k \in 1 .. n : n + 1 - k \in 1 .. n /\ n + 1 - (n + 1 - k) = k
      BY <2>2
    <3> HIDE DEF axes
    <3> QED
      BY <3>1, <3>2 DEF ToSet
  <2> HIDE DEF axes
  <2>4. Sound(Transpose(arr, axes), DOMAIN mem)
    BY <2>1, <2>2, <2>3, TransposeSound DEF n
  <2> QED
    BY <1>2, <2>4 DEF Sound, axes, n
<1> QED
  BY <1>1, <1>2 DEF Operands

-----------------------------------------------------------------------------
(* Matrix products *)

\* A sum of two products.
LEMMA OffsetTwo ==
    ASSUME NEW x \in Int, NEW y \in Int, NEW s, s[1] \in Int, s[2] \in Int
    PROVE  LinearOffset(<<x, y>>, s) = x * s[1] + y * s[2]
<1> DEFINE c == <<x, y>>
<1>1. DOMAIN c = 1 .. 2 /\ c[1] = x /\ c[2] = y
  OBVIOUS
<1> HIDE DEF c
<1>2. IntsOn(1 .. 2, c) /\ IntsOn(1 .. 2, s)
  <2>1. \A k \in 1 .. 2 : k = 1 \/ k = 2
    OBVIOUS
  <2> QED
    BY <1>1, <2>1 DEF IntsOn
<1>3. PICK f : Along(f, 2, c, s) /\ f[2] = LinearOffset(c, s)
  BY <1>1, <1>2, OffsetAlong
<1>4. f[0] = 0 /\ f[1] = f[1 - 1] + c[1] * s[1] /\ f[2] = f[2 - 1] + c[2] * s[2]
  BY <1>3 DEF Along
<1> DEFINE u == x * s[1]
           v == y * s[2]
<1>5. u \in Int /\ v \in Int /\ f[1] = f[1 - 1] + u /\ f[2] = f[2 - 1] + v
  BY <1>1, <1>4
<1> HIDE DEF u, v
<1>6. f[2] = u + v
  <2>1. 1 - 1 = 0 /\ 2 - 1 = 1
    OBVIOUS
  <2> QED
    BY <1>4, <1>5, <2>1
<1> QED
  BY <1>3, <1>6 DEF u, v, c

\* The row-major order of a matrix goes through its rows.
LEMMA CellsOf ==
    ASSUME NEW m \in Nat, NEW n \in Nat, NEW o \in DOMAIN RowMajorOrder(<<m, n>>)
    PROVE  LET c == RowMajorOrder(<<m, n>>)[o]
           IN  /\ c[1] \in Nat /\ c[1] < m /\ c[2] \in Nat /\ c[2] < n
               /\ (o - 1) \div n = c[1] /\ (o - 1) % n = c[2]
<1> DEFINE shape == <<m, n>>
           c == RowMajorOrder(shape)[o]
           i == o - 1
<1>1. shape \in Seq(Nat) /\ Len(shape) = 2 /\ shape[1] = m /\ shape[2] = n
  OBVIOUS
<1> HIDE DEF shape
<1>2. o \in 1 .. Count(shape) /\ Count(shape) \in Nat
  BY <1>1, OrderIs DEF Ordered, shape
<1>3. c \in Box(shape) /\ i \in Int /\ LinearOffset(c, RowMajor(shape)) = i
  BY <1>1, <1>2, Visits
<1> HIDE DEF c
<1>4. /\ DOMAIN c = 1 .. 2
      /\ c[1] \in Nat /\ c[1] < m /\ c[2] \in Nat /\ c[2] < n
  BY <1>1, <1>3, BoxTakes
<1>5. PICK V : /\ Radix(V, 2, shape)
               /\ \A k \in 1 .. 2 : Count(SubSeq(shape, k + 1, 2)) = V[k]
  <2>1. \E V : /\ Radix(V, Len(shape), shape)
               /\ \A k \in 1 .. Len(shape) : Count(SubSeq(shape, k + 1, Len(shape))) = V[k]
    BY <1>1, Radices
  <2> QED
    BY <1>1, <2>1
<1>6. V[2] = 1 /\ V[2 - 1] = n * V[2]
  BY <1>1, <1>5 DEF Radix
<1>7. RowMajor(shape)[1] = n /\ RowMajor(shape)[2] = 1
  <2>1. DOMAIN shape = 1 .. 2
    BY <1>1
  <2>2. \A k \in 1 .. 2 : RowMajor(shape)[k] = V[k]
    BY <1>1, <1>5, <2>1 DEF RowMajor
  <2>3. 2 - 1 = 1 /\ n * 1 = n
    OBVIOUS
  <2> QED
    BY <1>6, <2>2, <2>3
<1>8. c = <<c[1], c[2]>>
  <2>1. c \in [1 .. 2 -> Nat]
    BY <1>1, <1>3 DEF Box
  <2> QED
    BY <2>1
<1> DEFINE x == c[1]
           y == c[2]
<1>9. i = x * n + y
  <2>1. LinearOffset(<<x, y>>, RowMajor(shape)) = x * RowMajor(shape)[1] + y * RowMajor(shape)[2]
    BY <1>4, <1>7, OffsetTwo
  <2>2. y * 1 = y
    BY <1>4
  <2> QED
    BY <1>3, <1>7, <1>8, <2>1, <2>2
<1>10. x \in Int /\ y \in Int /\ 0 <= y /\ y < n /\ n > 0
  BY <1>4
<1> HIDE DEF x, y, i
<1>11. i \div n = x /\ i % n = y
  BY <1>3, <1>9, <1>10, DivisionUnique
<1> QED
  BY <1>4, <1>11 DEF x, y, i, c, shape

\* Whatever views its operands are, a matrix product multiplies the elements that
\* its definition pairs.
THEOREM ProductsRead == ASSUME NoWrap PROVE Spec => []MatmulReads
<1>1. ASSUME IInv PROVE MatmulReads
  <2> SUFFICES ASSUME NEW b \in Operands, CanMatmul(arr, b),
                      NEW o \in DOMAIN RowMajorOrder(<<arr.shape[1], b.shape[2]>>),
                      NEW p \in 0 .. b.shape[1] - 1
               PROVE  LET c == RowMajorOrder(<<arr.shape[1], b.shape[2]>>)[o]
                          at(a, i, j) == a.base + LinearOffset(<<i, j>>, a.strides)
                      IN  MatmulRead(arr, b, o - 1, p) = <<at(arr, c[1], p), at(b, p, c[2])>>
    BY DEF MatmulReads
  <2>1. Exact(arr) /\ Exact(b)
    BY <1>1, OperandExact DEF IInv, Sound
  <2>2. Len(arr.shape) = 2 /\ Len(b.shape) = 2
    BY DEF CanMatmul
  <2> DEFINE m == arr.shape[1]
             n == b.shape[2]
             s == arr.strides
             t == b.strides
             c == RowMajorOrder(<<m, n>>)[o]
             x == c[1]
             y == c[2]
  <2>3. m \in Nat /\ n \in Nat /\ b.shape[1] \in Nat /\ arr.base \in Int /\ b.base \in Int
        /\ s[1] \in Int /\ s[2] \in Int /\ t[1] \in Int /\ t[2] \in Int
    <3>1. \A a : Exact(a) /\ Len(a.shape) = 2 => \A k \in 1 .. 2 : a.shape[k] \in Nat /\ a.strides[k] \in Int
      <4> SUFFICES ASSUME NEW a, Exact(a), Len(a.shape) = 2, NEW k \in 1 .. 2
                   PROVE  a.shape[k] \in Nat /\ a.strides[k] \in Int
        OBVIOUS
      <4>1. a.shape \in Seq(Nat) /\ a.strides \in Seq(Int) /\ Len(a.strides) = 2
        BY ExactTakes
      <4> DEFINE u == a.shape
                 v == a.strides
      <4>2. u \in Seq(Nat) /\ v \in Seq(Int) /\ k \in 1 .. Len(u) /\ k \in 1 .. Len(v)
        BY <4>1
      <4> HIDE DEF u, v
      <4>3. u[k] \in Nat /\ v[k] \in Int
        BY <4>2, ElementOfSeq
      <4> QED
        BY <4>3 DEF u, v
    <3>2. 1 \in 1 .. 2 /\ 2 \in 1 .. 2
      OBVIOUS
    <3> QED
      BY <2>1, <2>2, <3>1, <3>2, ExactTakes
  <2>4. p \in Int
    OBVIOUS
  <2> HIDE DEF m, n, s, t
  <2>5. x \in Nat /\ y \in Nat /\ (o - 1) \div n = x /\ (o - 1) % n = y
    <3>1. o \in DOMAIN RowMajorOrder(<<m, n>>)
      BY DEF m, n
    <3> QED
      BY <2>3, <3>1, CellsOf
  <2>6. LinearOffset(<<x, p>>, s) = x * s[1] + p * s[2] /\ LinearOffset(<<p, y>>, t) = p * t[1] + y * t[2]
    <3> HIDE DEF x, y
    <3> QED
      BY <2>3, <2>4, <2>5, OffsetTwo
  <2>7. MatmulRead(arr, b, o - 1, p) = <<arr.base + x * s[1] + p * s[2], b.base + p * t[1] + y * t[2]>>
    BY <2>5 DEF MatmulRead, s, t, n
  <2>8. /\ arr.base + x * s[1] + p * s[2] = arr.base + (x * s[1] + p * s[2])
        /\ b.base + p * t[1] + y * t[2] = b.base + (p * t[1] + y * t[2])
    <3> DEFINE e == x * s[1]
               f == p * s[2]
               g == p * t[1]
               h == y * t[2]
    <3>1. e \in Int /\ f \in Int /\ g \in Int /\ h \in Int
      BY <2>3, <2>4, <2>5
    <3> HIDE DEF e, f, g, h
    <3>2. arr.base + e + f = arr.base + (e + f) /\ b.base + g + h = b.base + (g + h)
      BY <2>3, <3>1
    <3> QED
      BY <3>2 DEF e, f, g, h
  <2> QED
    BY <2>6, <2>7, <2>8 DEF m, n, s, t
<1>2. Spec => []IInv
  BY Invariant
<1> QED
  BY <1>1, <1>2, PTL

-----------------------------------------------------------------------------
(* Broadcasting *)

\* The place in rshape of the first axis of x, less 1.
Pad(x, rshape) == Len(rshape) - Len(x.shape)

\* The element of x that is paired with element ix of the result.
Repeated(ix, x, rshape) ==
    [k \in DOMAIN x.shape |-> IF x.shape[k] = 1 THEN 0 ELSE ix[k + Pad(x, rshape)]]

\* The axes of x are the last of rshape, or stretched to them.
Stretches(x, rshape) ==
    /\ rshape \in Seq(Nat)
    /\ Len(x.shape) <= Len(rshape)
    /\ \A j \in 1 .. Len(x.shape) : x.shape[j] # 1 => rshape[j + Pad(x, rshape)] = x.shape[j]

\* The strides of a broadcast view give each index of the result its element of x.
LEMMA StretchReads ==
    ASSUME NEW x, Exact(x), NEW rshape, Stretches(x, rshape), NEW ix \in Box(rshape)
    PROVE  LinearOffset(Repeated(ix, x, rshape), x.strides)
             = LinearOffset(ix, MakeBcastView(x, rshape))
<1> DEFINE n == Len(x.shape)
           rr == Len(rshape)
           pad == rr - n
           own == Repeated(ix, x, rshape)
           bs == MakeBcastView(x, rshape)
           u == [j \in DOMAIN own |-> own[j] * x.strides[j]]
           v == [k \in DOMAIN ix |-> ix[k] * bs[k]]
           p == [j \in 1 .. n |-> j + pad]
<1>1. /\ n \in Nat /\ DOMAIN x.shape = 1 .. n
      /\ \A j \in 1 .. n : x.shape[j] \in Int /\ x.strides[j] \in Int
  BY ExactTakes DEF IntsOn
<1>2. rshape \in Seq(Nat) /\ n <= rr /\ \A j \in 1 .. n : x.shape[j] # 1 => rshape[j + pad] = x.shape[j]
  BY DEF Stretches, Pad
<1>3. /\ rr \in Nat /\ DOMAIN rshape = 1 .. rr /\ DOMAIN ix = 1 .. rr
      /\ \A k \in 1 .. rr : ix[k] \in Nat /\ rshape[k] \in Nat /\ ix[k] < rshape[k]
  <2>1. DOMAIN rshape = 1 .. rr
    BY <1>2, LenProperties
  <2> QED
    BY <1>2, <2>1, BoxTakes
<1>4. DOMAIN own = 1 .. n /\ \A j \in 1 .. n : own[j] = IF x.shape[j] = 1 THEN 0 ELSE ix[j + pad]
  BY <1>1 DEF Repeated, Pad
<1>5. \A k \in 1 .. rr : bs[k] = IF k - pad < 1 THEN 0
                                 ELSE IF x.shape[k - pad] = 1 /\ rshape[k] > 1 THEN 0 ELSE x.strides[k - pad]
  BY <1>3 DEF MakeBcastView, Aligned
<1>p. pad \in Nat /\ pad + n = rr
  BY <1>1, <1>2, <1>3
<1> HIDE DEF n, rr, pad, own, bs
<1>6. \A k \in 1 .. rr : bs[k] \in Int
  <2> SUFFICES ASSUME NEW k \in 1 .. rr PROVE bs[k] \in Int
    OBVIOUS
  <2> DEFINE j == k - pad
  <2>1. j \in Int /\ (j < 1 \/ j \in 1 .. n)
    BY <1>1, <1>3, <1>p
  <2>2. bs[k] = IF j < 1 THEN 0 ELSE IF x.shape[j] = 1 /\ rshape[k] > 1 THEN 0 ELSE x.strides[j]
    BY <1>5
  <2> HIDE DEF j
  <2> QED
    BY <1>1, <2>1, <2>2
<1>7. DOMAIN v = 1 .. rr /\ IntsOn(1 .. rr, v)
  <2>1. \A k \in 1 .. rr : v[k] \in Int
    BY <1>3, <1>6
  <2> QED
    BY <1>3, <2>1 DEF IntsOn
<1>8. Places(p, n, rr) /\ Within(p, n, rr)
  <2>1. \A j \in 1 .. n : p[j] \in 1 .. rr /\ p[j] = j + pad /\ p[j] \in 0 .. rr
    BY <1>1, <1>3, <1>p
  <2>2. p \in [1 .. n -> 0 .. rr]
    BY <2>1
  <2>3. \A i, j \in 1 .. n : p[i] = p[j] => i = j
    BY <1>p
  <2> HIDE DEF p
  <2> QED
    BY <2>1, <2>2, <2>3 DEF Places, Within
<1>9. ASSUME NEW j \in 1 .. n PROVE u[j] = v[p[j]]
  <2> DEFINE k == j + pad
  <2>1. k \in 1 .. rr /\ k - pad = j /\ ~(j < 1) /\ p[j] = k
    BY <1>1, <1>3, <1>p
  <2> HIDE DEF k, p
  <2>2. bs[k] = IF x.shape[j] = 1 /\ rshape[k] > 1 THEN 0 ELSE x.strides[j]
    BY <1>5, <2>1
  <2>3. own[j] = IF x.shape[j] = 1 THEN 0 ELSE ix[k]
    BY <1>4 DEF k
  <2>4. x.strides[j] \in Int /\ ix[k] \in Nat /\ rshape[k] \in Nat /\ ix[k] < rshape[k]
    BY <1>1, <1>3, <2>1
  <2>5. own[j] * x.strides[j] = ix[k] * bs[k]
    <3>1. CASE x.shape[j] # 1
      BY <2>2, <2>3, <3>1
    <3>2. CASE x.shape[j] = 1
      <4>1. own[j] * x.strides[j] = 0
        BY <2>3, <2>4, <3>2
      <4>2. CASE rshape[k] > 1
        <5>1. bs[k] = 0
          BY <2>2, <3>2, <4>2
        <5>2. ix[k] * 0 = 0
          BY <2>4
        <5> QED
          BY <4>1, <5>1, <5>2
      <4>3. CASE ~(rshape[k] > 1)
        <5>1. ix[k] = 0
          BY <2>4, <4>3
        <5>2. bs[k] \in Int
          BY <1>6, <2>1
        <5>3. 0 * bs[k] = 0
          BY <5>2
        <5> QED
          BY <4>1, <5>1, <5>3
      <4> QED
        BY <4>2, <4>3
    <3> QED
      BY <3>1, <3>2
  <2>6. u[j] = own[j] * x.strides[j] /\ v[k] = ix[k] * bs[k]
    BY <1>3, <1>4, <2>1
  <2> QED
    BY <2>1, <2>5, <2>6
<1>10. Follows(u, n, v, p)
  <2>1. DOMAIN u = 1 .. n
    BY <1>4
  <2> HIDE DEF u, v, p
  <2> QED
    BY <1>9, <2>1 DEF Follows
<1>11. Idle((1 .. rr) \ Image(p, n), v, "sum")
  <2> SUFFICES ASSUME NEW k \in (1 .. rr) \ Image(p, n) PROVE v[k] = 0
    BY DEF Idle, Base
  <2> DEFINE j == k - pad
  <2>1. ~(j \in 1 .. n)
    <3> SUFFICES ASSUME j \in 1 .. n PROVE FALSE
      OBVIOUS
    <3>1. j + pad = k
      BY <1>3, <1>p
    <3>2. p[j] = k
      BY <3>1
    <3> HIDE DEF j, p
    <3> QED
      BY <3>2 DEF Image
  <2>2. j \in Int /\ j < 1
    BY <1>1, <1>3, <1>p, <2>1
  <2>3. bs[k] = 0
    BY <1>5, <2>2
  <2>4. ix[k] \in Int /\ v[k] = ix[k] * bs[k]
    BY <1>3
  <2> HIDE DEF v
  <2> QED
    BY <2>3, <2>4
<1> HIDE DEF u, v, p
<1>12. Shuffles(u, n, v, rr, p, "sum")
  BY <1>7, <1>8, <1>10, <1>11 DEF Shuffles
<1>13. Folded("sum", {}, u) = Folded("sum", {}, v)
  BY <1>1, <1>3, <1>12, Rearranged DEF Monoidal
<1>14. LinearOffset(own, x.strides) = SumOf(u) /\ LinearOffset(ix, bs) = SumOf(v)
  BY DEF LinearOffset, u, v
<1> QED
  BY <1>13, <1>14, SumFolds DEF own, bs

\* Broadcasting takes its operands in either order, and stretches both.
LEMMA Broadcasts ==
    ASSUME NEW x, Exact(x), NEW y, Exact(y), CanBroadcast(x, y)
    PROVE  /\ Stretches(x, BroadcastShapes(x, y))
           /\ CanBroadcast(y, x) /\ BroadcastShapes(y, x) = BroadcastShapes(x, y)
           /\ x.shape = y.shape => BroadcastShapes(x, y) = x.shape
<1> DEFINE n == Len(x.shape)
           m == Len(y.shape)
           rr == MaxRank(x, y)
           rshape == BroadcastShapes(x, y)
<1>1. /\ n \in Nat /\ DOMAIN x.shape = 1 .. n /\ \A j \in 1 .. n : x.shape[j] \in Nat
      /\ m \in Nat /\ DOMAIN y.shape = 1 .. m /\ \A j \in 1 .. m : y.shape[j] \in Nat
  BY ExactTakes, ElementOfSeq
<1>2. rr \in Nat /\ n <= rr /\ m <= rr /\ MaxRank(y, x) = rr
  BY <1>1 DEF MaxRank
<1>3. (n = m => rr = n) /\ (rr = n \/ rr = m)
  BY <1>1 DEF MaxRank
<1>4. \A k \in 1 .. rr : /\ ExtentAt(x, k, rr) = IF k - (rr - n) < 1 THEN 1 ELSE x.shape[k - (rr - n)]
                         /\ ExtentAt(y, k, rr) = IF k - (rr - m) < 1 THEN 1 ELSE y.shape[k - (rr - m)]
  BY DEF ExtentAt, Aligned
<1>5. \A k \in 1 .. rr : \/ ExtentAt(x, k, rr) = ExtentAt(y, k, rr)
                         \/ 1 \in {ExtentAt(x, k, rr), ExtentAt(y, k, rr)}
  BY DEF CanBroadcast
<1>6. rshape = [k \in 1 .. rr |-> IF ExtentAt(x, k, rr) = 1 THEN ExtentAt(y, k, rr) ELSE ExtentAt(x, k, rr)]
  BY DEF BroadcastShapes
<1>7. BroadcastShapes(y, x)
        = [k \in 1 .. rr |-> IF ExtentAt(y, k, rr) = 1 THEN ExtentAt(x, k, rr) ELSE ExtentAt(y, k, rr)]
  BY <1>2 DEF BroadcastShapes
<1>8. CanBroadcast(y, x)
  BY <1>2, <1>5 DEF CanBroadcast
<1> HIDE DEF n, m, rr, rshape
<1>9. BroadcastShapes(y, x) = rshape
  BY <1>5, <1>6, <1>7
<1>10. ASSUME NEW k \in 1 .. rr
       PROVE  ExtentAt(x, k, rr) \in Nat /\ ExtentAt(y, k, rr) \in Nat
  <2>1. k - (rr - n) < 1 \/ k - (rr - n) \in 1 .. n
    BY <1>1, <1>2
  <2>2. k - (rr - m) < 1 \/ k - (rr - m) \in 1 .. m
    BY <1>1, <1>2
  <2>3. ExtentAt(x, k, rr) \in Nat
    <3> DEFINE i == k - (rr - n)
    <3>1. ExtentAt(x, k, rr) = IF i < 1 THEN 1 ELSE x.shape[i]
      BY <1>4
    <3>2. i < 1 \/ i \in 1 .. n
      BY <2>1
    <3> HIDE DEF i
    <3> QED
      BY <1>1, <3>1, <3>2
  <2>4. ExtentAt(y, k, rr) \in Nat
    <3> DEFINE i == k - (rr - m)
    <3>1. ExtentAt(y, k, rr) = IF i < 1 THEN 1 ELSE y.shape[i]
      BY <1>4
    <3>2. i < 1 \/ i \in 1 .. m
      BY <2>2
    <3> HIDE DEF i
    <3> QED
      BY <1>1, <3>1, <3>2
  <2> QED
    BY <2>3, <2>4
<1>11. rshape \in [1 .. rr -> Nat]
  BY <1>6, <1>10
<1>12. rshape \in Seq(Nat) /\ Len(rshape) = rr
  BY <1>2, <1>11, SequenceOf
<1>13. ASSUME NEW j \in 1 .. n, x.shape[j] # 1 PROVE rshape[j + (rr - n)] = x.shape[j]
  <2> DEFINE k == j + (rr - n)
  <2>1. k \in 1 .. rr /\ k - (rr - n) = j /\ ~(j < 1)
    BY <1>1, <1>2
  <2> HIDE DEF k
  <2>2. ExtentAt(x, k, rr) = x.shape[j]
    BY <1>4, <2>1
  <2>3. rshape[k] = x.shape[j]
    BY <1>6, <1>13, <2>1, <2>2
  <2> QED
    BY <2>3 DEF k
<1>14. Stretches(x, rshape)
  BY <1>2, <1>12, <1>13 DEF Stretches, Pad, n
<1>15. ASSUME x.shape = y.shape PROVE rshape = x.shape
  <2>1. m = n /\ rr = n
    BY <1>3, <1>15 DEF n, m
  <2>2. ASSUME NEW k \in 1 .. n PROVE rshape[k] = x.shape[k]
    <3>1. k \in 1 .. rr /\ k - (rr - n) = k /\ k - (rr - m) = k /\ ~(k < 1)
      BY <1>1, <2>1
    <3>2. ExtentAt(x, k, rr) = x.shape[k] /\ ExtentAt(y, k, rr) = y.shape[k]
      BY <1>4, <3>1
    <3>3. rshape[k] = x.shape[k]
      BY <1>6, <1>15, <3>1, <3>2
    <3> QED
      BY <3>3
  <2>3. x.shape \in Seq(Nat) /\ Len(x.shape) = n
    BY ExactTakes DEF n
  <2>4. Len(rshape) = n
    BY <1>12, <2>1
  <2> QED
    BY <1>12, <2>2, <2>3, <2>4, SeqEqual
<1> QED
  BY <1>8, <1>9, <1>14, <1>15 DEF rshape

\* An operand whose result has fewer than 2^w elements is read as broadcasting says.
LEMMA OperandReads ==
    ASSUME NEW x, Exact(x), NEW y, Exact(y), CanBroadcast(x, y),
           Count(BroadcastShapes(x, y)) < WordSize
    PROVE  ReadsBroadcast(x, y)
<1> DEFINE rshape == BroadcastShapes(x, y)
           order == RowMajorOrder(rshape)
<1>1. Stretches(x, rshape) /\ (x.shape = y.shape => rshape = x.shape)
  BY Broadcasts
<1>2. rshape \in Seq(Nat) /\ Count(rshape) < WordSize
  BY <1>1 DEF Stretches
<1>3. DOMAIN order = 1 .. Count(rshape) /\ Count(rshape) \in Nat
  BY <1>2, OrderIs DEF Ordered
<1>4. x.base \in Int /\ Len(x.shape) \in Nat /\ DOMAIN x.shape = 1 .. Len(x.shape)
      /\ x.shape \in Seq(Nat) /\ x.strides \in Seq(Int) /\ Len(x.strides) = Len(x.shape)
  BY ExactTakes
<1>5. ASSUME NEW i \in 1 .. Count(rshape)
      PROVE  BinaryRead(x, y, i - 1) = x.base + LinearOffset(Repeated(order[i], x, rshape), x.strides)
  <2> DEFINE ix == order[i]
             h == i - 1
  <2> HIDE DEF rshape, h
  <2>1. /\ ix \in Box(rshape) /\ h \in 0 .. Count(rshape) - 1
        /\ LinearOffset(ix, RowMajor(rshape)) = h
        /\ \A strides : FlatToOffset(h, strides, InnerVolumes(rshape)) = LinearOffset(ix, strides)
    BY <1>2, Visits DEF h
  <2> HIDE DEF ix, order
  <2>2. LinearOffset(Repeated(ix, x, rshape), x.strides) = LinearOffset(ix, MakeBcastView(x, rshape))
    BY <1>1, <2>1, StretchReads
  <2>3. CASE x.shape = y.shape /\ IsContiguous(x) /\ IsContiguous(y)
    <3>1. BinaryRead(x, y, h) = x.base + h
      BY <2>3 DEF BinaryRead
    <3>2. rshape = x.shape /\ x.strides = RowMajor(x.shape)
      BY <1>1, <1>4, <2>3, ContiguousStrides
    <3>3. Repeated(ix, x, rshape) = ix
      <4> DEFINE n == Len(x.shape)
                 t == Repeated(ix, x, rshape)
      <4>1. ix \in [1 .. n -> Nat] /\ \A k \in 1 .. n : ix[k] \in Nat /\ ix[k] < x.shape[k]
        BY <2>1, <3>2 DEF Box
      <4>2. Pad(x, rshape) = 0
        BY <1>4, <3>2 DEF Pad
      <4>3. t = [k \in 1 .. n |-> IF x.shape[k] = 1 THEN 0 ELSE ix[k + 0]]
        BY <1>4, <4>2 DEF Repeated
      <4>4. \A k \in 1 .. n : ix[k] = IF x.shape[k] = 1 THEN 0 ELSE ix[k + 0]
        <5>1. \A k \in 1 .. n : k + 0 = k
          BY <1>4
        <5> QED
          BY <4>1, <5>1
      <4>5. ix = [k \in 1 .. n |-> ix[k]]
        BY <4>1
      <4> HIDE DEF n, t
      <4> QED
        BY <4>3, <4>4, <4>5 DEF t
    <3> QED
      BY <2>1, <3>1, <3>2, <3>3 DEF ix, h
  <2>4. CASE ~(x.shape = y.shape /\ IsContiguous(x) /\ IsContiguous(y))
    <3>1. BinaryRead(x, y, h) = x.base + FlatToOffset(h, MakeBcastView(x, rshape), InnerVolumes(rshape))
      BY <1>1, <2>4 DEF BinaryRead, rshape
    <3>2. FlatToOffset(h, MakeBcastView(x, rshape), InnerVolumes(rshape))
            = LinearOffset(ix, MakeBcastView(x, rshape))
      BY <2>1
    <3> QED
      BY <2>2, <3>1, <3>2 DEF ix, h
  <2> QED
    BY <2>3, <2>4 DEF ix, h
<1> QED
  BY <1>3, <1>5 DEF ReadsBroadcast, Repeated, Pad

\* The array and what it can be combined with broadcast to fewer than 2^w
\* elements. The code does not check that.
ResultsFit ==
    \A b \in Operands : CanBroadcast(arr, b) => Count(BroadcastShapes(arr, b)) < WordSize

\* An elementwise operation on results that can be counted combines the elements
\* that NumPy's broadcasting pairs, on either path of its kernel.
THEOREM OperandsRead == ASSUME NoWrap PROVE Spec => [](ResultsFit => BroadcastReads)
<1>1. ASSUME IInv, ResultsFit PROVE BroadcastReads
  <2> SUFFICES ASSUME NEW b \in Operands, CanBroadcast(arr, b)
               PROVE  ReadsBroadcast(arr, b) /\ ReadsBroadcast(b, arr)
    BY DEF BroadcastReads
  <2>1. Exact(arr) /\ Exact(b)
    BY <1>1, OperandExact DEF IInv, Sound
  <2>2. Count(BroadcastShapes(arr, b)) < WordSize
    BY <1>1 DEF ResultsFit
  <2>3. CanBroadcast(b, arr) /\ BroadcastShapes(b, arr) = BroadcastShapes(arr, b)
    BY <2>1, Broadcasts
  <2> QED
    BY <2>1, <2>2, <2>3, OperandReads
<1>2. Spec => []IInv
  BY Invariant
<1>3. IInv => (ResultsFit => BroadcastReads)
  BY <1>1
<1> QED
  BY <1>2, <1>3, PTL

-----------------------------------------------------------------------------
(* Axes of one element in the row-major order *)

\* small has the axes K of shape, in order, and lacks only axes of one element.
Narrows(K, m, n, shape, small) ==
    /\ m \in Nat /\ n \in Nat /\ shape \in Seq(Nat) /\ Len(shape) = n
    /\ K \in [1 .. m -> 1 .. n]
    /\ \A i, j \in 1 .. m : i < j => K[i] < K[j]
    /\ \A k \in 1 .. n : shape[k] = 1 \/ \E j \in 1 .. m : K[j] = k
    /\ small = [j \in 1 .. m |-> shape[K[j]]]

\* The axes of both.
LEMMA NarrowTakes ==
    ASSUME NEW K, NEW m, NEW n, NEW shape, NEW small, Narrows(K, m, n, shape, small)
    PROVE  /\ small \in Seq(Nat) /\ Len(small) = m /\ DOMAIN small = 1 .. m
           /\ m \in Nat /\ n \in Nat
           /\ DOMAIN shape = 1 .. n /\ \A k \in 1 .. n : shape[k] \in Nat
           /\ Places(K, m, n) /\ Within(K, m, n)
           /\ \A k \in (1 .. n) \ Image(K, m) : shape[k] = 1
<1>1. /\ m \in Nat /\ n \in Nat /\ K \in [1 .. m -> 1 .. n]
      /\ \A i, j \in 1 .. m : i < j => K[i] < K[j]
      /\ \A k \in 1 .. n : shape[k] = 1 \/ \E j \in 1 .. m : K[j] = k
      /\ small = [j \in 1 .. m |-> shape[K[j]]]
  BY DEF Narrows
<1>2. DOMAIN shape = 1 .. n /\ \A k \in 1 .. n : shape[k] \in Nat
  <2>1. shape \in Seq(Nat) /\ Len(shape) = n
    BY DEF Narrows
  <2> QED
    BY <2>1, LenProperties, ElementOfSeq
<1>3. small \in [1 .. m -> Nat]
  BY <1>1, <1>2
<1>4. small \in Seq(Nat) /\ Len(small) = m /\ DOMAIN small = 1 .. m
  BY <1>1, <1>3, SequenceOf
<1>5. \A j \in 1 .. m : K[j] \in 1 .. n /\ K[j] \in 0 .. n
  BY <1>1
<1>6. \A i, j \in 1 .. m : K[i] = K[j] => i = j
  <2> SUFFICES ASSUME NEW i \in 1 .. m, NEW j \in 1 .. m, i < j \/ j < i PROVE K[i] # K[j]
    BY <1>1
  <2>1. K[i] < K[j] \/ K[j] < K[i]
    BY <1>1
  <2> QED
    BY <1>5, <2>1
<1>7. Places(K, m, n)
  <2>1. K \in [1 .. m -> 0 .. n]
    BY <1>1, <1>5
  <2> QED
    BY <1>6, <2>1 DEF Places
<1>8. Within(K, m, n)
  BY <1>5 DEF Within
<1>9. \A k \in (1 .. n) \ Image(K, m) : shape[k] = 1
  BY <1>1 DEF Image
<1> QED
  BY <1>1, <1>2, <1>4, <1>7, <1>8, <1>9

\* Axes of one element hold no further elements.
LEMMA NarrowCount ==
    ASSUME NEW K, NEW m, NEW n, NEW shape, NEW small, Narrows(K, m, n, shape, small)
    PROVE  Count(small) = Count(shape)
<1>1. /\ DOMAIN small = 1 .. m /\ DOMAIN shape = 1 .. n /\ m \in Nat /\ n \in Nat
      /\ (\A k \in 1 .. n : shape[k] \in Nat) /\ Places(K, m, n) /\ Within(K, m, n)
      /\ \A k \in (1 .. n) \ Image(K, m) : shape[k] = 1
  BY NarrowTakes
<1>2. Follows(small, m, shape, K)
  BY <1>1 DEF Follows, Narrows
<1>3. Idle((1 .. n) \ Image(K, m), shape, "product")
  BY <1>1 DEF Idle, Base
<1>4. IntsOn(1 .. n, shape)
  BY <1>1 DEF IntsOn
<1>5. Shuffles(small, m, shape, n, K, "product")
  BY <1>1, <1>2, <1>3, <1>4 DEF Shuffles
<1>6. Folded("product", {}, small) = Folded("product", {}, shape)
  BY <1>1, <1>5, Rearranged DEF Monoidal
<1> QED
  BY <1>6, CountFolds

\* The extents after axis k.
LEMMA SuffixTakes ==
    ASSUME NEW n \in Nat, NEW shape \in Seq(Nat), Len(shape) = n, NEW k \in 1 .. n
    PROVE  /\ SubSeq(shape, k + 1, n) \in Seq(Nat) /\ Len(SubSeq(shape, k + 1, n)) = n - k
           /\ \A i \in 1 .. n - k : SubSeq(shape, k + 1, n)[i] = shape[k + i]
<1> DEFINE u == SubSeq(shape, k + 1, n)
<1>1. \A i \in 1 .. n : shape[i] \in Nat
  BY ElementOfSeq
<1>2. \A i \in k + 1 .. n : i \in 1 .. n
  OBVIOUS
<1>3. /\ u \in Seq(Nat) /\ Len(u) = IF k + 1 <= n THEN n - (k + 1) + 1 ELSE 0
      /\ \A i \in 1 .. n - (k + 1) + 1 : u[i] = shape[(k + 1) + i - 1]
  <2>1. k + 1 \in Int /\ n \in Int /\ \A i \in k + 1 .. n : shape[i] \in Nat
    BY <1>1, <1>2
  <2> QED
    BY <2>1, SubSeqProperties
<1> HIDE DEF u
<1>4. Len(u) = n - k
  BY <1>3
<1>5. ASSUME NEW i \in 1 .. n - k PROVE u[i] = shape[k + i]
  <2>1. i \in 1 .. n - (k + 1) + 1 /\ (k + 1) + i - 1 = k + i
    OBVIOUS
  <2> QED
    BY <1>3, <2>1
<1> QED
  BY <1>3, <1>4, <1>5 DEF u

\* Nor do they change the volumes below the other axes.
LEMMA NarrowVolumes ==
    ASSUME NEW K, NEW m, NEW n, NEW shape, NEW small, Narrows(K, m, n, shape, small),
           NEW j \in 1 .. m
    PROVE  RowMajor(small)[j] = RowMajor(shape)[K[j]]
<1>1. /\ small \in Seq(Nat) /\ Len(small) = m /\ DOMAIN small = 1 .. m /\ DOMAIN shape = 1 .. n
      /\ m \in Nat /\ n \in Nat /\ (\A k \in 1 .. n : shape[k] \in Nat)
  BY NarrowTakes
<1>2. /\ shape \in Seq(Nat) /\ Len(shape) = n /\ K \in [1 .. m -> 1 .. n]
      /\ (\A i, h \in 1 .. m : i < h => K[i] < K[h])
      /\ (\A k \in 1 .. n : shape[k] = 1 \/ \E h \in 1 .. m : K[h] = k)
      /\ \A h \in 1 .. m : small[h] = shape[K[h]]
  BY DEF Narrows
<1> DEFINE k == K[j]
           a == m - j
           b == n - k
           u == SubSeq(small, j + 1, m)
           v == SubSeq(shape, k + 1, n)
           p == [i \in 1 .. a |-> K[j + i] - k]
<1>3. k \in 1 .. n /\ j \in Nat /\ a \in Nat /\ b \in Nat
  BY <1>1, <1>2
<1>4. u \in Seq(Nat) /\ Len(u) = a /\ \A i \in 1 .. a : u[i] = small[j + i]
  BY <1>1, SuffixTakes
<1>5. v \in Seq(Nat) /\ Len(v) = b /\ \A i \in 1 .. b : v[i] = shape[k + i]
  <2> HIDE DEF k
  <2> QED
    BY <1>1, <1>2, <1>3, SuffixTakes
<1> HIDE DEF u, v
<1>6. DOMAIN u = 1 .. a /\ DOMAIN v = 1 .. b /\ \A i \in 1 .. b : v[i] \in Nat
  <2> HIDE DEF a, b
  <2> QED
    BY <1>4, <1>5, LenProperties, ElementOfSeq
<1>7. ASSUME NEW i \in 1 .. a
      PROVE  /\ j + i \in 1 .. m /\ K[j + i] \in 1 .. n /\ K[j + i] > k /\ K[j + i] - k \in 1 .. b
             /\ p[i] = K[j + i] - k
  <2> DEFINE h == j + i
  <2>1. h \in 1 .. m /\ j < h
    BY <1>1
  <2> HIDE DEF h
  <2>2. K[h] \in 1 .. n /\ K[j] < K[h]
    BY <1>2, <2>1
  <2>3. K[h] - k \in 1 .. b /\ K[h] > k
    <3> DEFINE z == K[h]
    <3>1. z \in 1 .. n /\ k < z
      BY <2>2
    <3> HIDE DEF z, k
    <3>2. z - k \in 1 .. n - k /\ z > k
      BY <1>1, <1>3, <3>1
    <3> QED
      BY <3>2 DEF z
  <2>4. p[i] = K[h] - k
    BY DEF h
  <2> QED
    BY <2>1, <2>2, <2>3, <2>4 DEF h
<1>8. ASSUME NEW i \in 1 .. a, NEW h \in 1 .. a, p[i] = p[h] PROVE i = h
  <2> DEFINE s == j + i
             t == j + h
  <2>1. s \in 1 .. m /\ t \in 1 .. m /\ K[s] = K[t] /\ K[s] \in Int /\ K[t] \in Int
    <3>1. K[s] - k = K[t] - k /\ K[s] \in 1 .. n /\ K[t] \in 1 .. n
      BY <1>7, <1>8
    <3>2. K[s] \in Int /\ K[t] \in Int /\ k \in Int
      BY <1>3, <3>1
    <3>3. K[s] = K[t]
      <4> HIDE DEF k, s, t
      <4> QED
        BY <3>1, <3>2
    <3> QED
      BY <1>7, <3>2, <3>3
  <2>2. ~(s < t) /\ ~(t < s)
    <3> HIDE DEF s, t
    <3> QED
      BY <1>2, <2>1
  <2>3. s = t
    <3>1. s \in Int /\ t \in Int
      BY <2>1
    <3> HIDE DEF s, t
    <3> QED
      BY <2>2, <3>1
  <2> QED
    BY <1>3, <2>3
<1>9. Places(p, a, b) /\ Within(p, a, b)
  <2>1. \A i \in 1 .. a : p[i] \in 1 .. b /\ p[i] \in 0 .. b
    <3> SUFFICES ASSUME NEW i \in 1 .. a PROVE p[i] \in 1 .. b /\ p[i] \in 0 .. b
      OBVIOUS
    <3>1. p[i] \in 1 .. b
      BY <1>7
    <3> HIDE DEF p
    <3> QED
      BY <1>3, <3>1
  <2>2. p = [i \in 1 .. a |-> p[i]]
    OBVIOUS
  <2> HIDE DEF p
  <2>3. p \in [1 .. a -> 0 .. b]
    BY <2>1, <2>2
  <2> QED
    BY <1>8, <2>1, <2>3 DEF Places, Within
<1>10. ASSUME NEW i \in 1 .. a PROVE u[i] = v[p[i]]
  <2> DEFINE h == j + i
             d == K[h] - k
  <2>1. h \in 1 .. m /\ K[h] \in Int /\ d \in 1 .. b /\ p[i] = d /\ k + d = K[h]
    <3>1. h \in 1 .. m /\ K[h] \in 1 .. n /\ d \in 1 .. b /\ p[i] = d
      BY <1>7
    <3>2. K[h] \in Int /\ k \in Int
      BY <1>3, <3>1
    <3>3. k + d = K[h]
      <4> HIDE DEF k, h
      <4> QED
        BY <3>2
    <3> QED
      BY <3>1, <3>2, <3>3
  <2>2. u[i] = small[h]
    BY <1>4
  <2>3. small[h] = shape[K[h]]
    BY <1>2, <2>1
  <2>4. v[d] = shape[k + d]
    <3> HIDE DEF d
    <3> QED
      BY <1>5, <2>1
  <2> HIDE DEF p, d, h, k
  <2> QED
    BY <2>1, <2>2, <2>3, <2>4
<1>11. ASSUME NEW e \in (1 .. b) \ Image(p, a) PROVE v[e] = 1
  <2> DEFINE l == k + e
  <2>1. l \in 1 .. n /\ l > k /\ v[e] = shape[l]
    <3>1. e \in 1 .. b
      OBVIOUS
    <3>2. l \in 1 .. n /\ l > k
      <4>1. k \in 1 .. n /\ e \in 1 .. n - k
        BY <1>3, <3>1
      <4> HIDE DEF k
      <4> QED
        BY <1>1, <4>1
    <3> QED
      BY <1>5, <3>1, <3>2
  <2>2. ASSUME NEW h \in 1 .. m, K[h] = l PROVE FALSE
    <3>1. K[h] \in Int /\ K[j] \in Int /\ K[j] < K[h]
      BY <1>1, <1>3, <2>1, <2>2
    <3>2. j < h
      <4> SUFFICES ASSUME h <= j PROVE FALSE
        OBVIOUS
      <4>1. h = j \/ h < j
        OBVIOUS
      <4>2. K[h] <= K[j]
        BY <1>2, <3>1, <4>1
      <4> QED
        BY <3>1, <4>2
    <3> DEFINE i == h - j
    <3>3. i \in 1 .. a /\ j + i = h
      BY <1>1, <3>2
    <3> HIDE DEF i
    <3>4. p[i] = K[h] - k
      BY <1>7, <3>3
    <3>5. K[h] - k = e
      BY <1>3, <2>1, <2>2
    <3>6. p[i] = e
      BY <3>4, <3>5
    <3> HIDE DEF p
    <3> QED
      BY <3>3, <3>6 DEF Image
  <2> HIDE DEF l
  <2>3. shape[l] = 1
    BY <1>2, <2>1, <2>2
  <2> QED
    BY <2>1, <2>3
<1> HIDE DEF p, k, a, b
<1>12. Follows(u, a, v, p)
  BY <1>6, <1>10 DEF Follows
<1>13. Idle((1 .. b) \ Image(p, a), v, "product")
  BY <1>11 DEF Idle, Base
<1>14. IntsOn(1 .. b, v)
  BY <1>6 DEF IntsOn
<1>15. Shuffles(u, a, v, b, p, "product")
  BY <1>6, <1>9, <1>12, <1>13, <1>14 DEF Shuffles
<1>16. Folded("product", {}, u) = Folded("product", {}, v)
  BY <1>3, <1>15, Rearranged DEF Monoidal
<1>17. RowMajor(small)[j] = Count(u) /\ RowMajor(shape)[k] = Count(v)
  BY <1>1, <1>2, <1>3 DEF RowMajor, u, v
<1> QED
  BY <1>16, <1>17, CountFolds DEF k

\* So the row-major order of a shape is that of the shape without them.
LEMMA NarrowOrder ==
    ASSUME NEW K, NEW m, NEW n, NEW shape, NEW small, Narrows(K, m, n, shape, small),
           NEW i \in 1 .. Count(shape)
    PROVE  RowMajorOrder(small)[i] = Pick(RowMajorOrder(shape)[i], K)
<1>1. /\ small \in Seq(Nat) /\ Len(small) = m /\ DOMAIN small = 1 .. m /\ DOMAIN shape = 1 .. n
      /\ m \in Nat /\ n \in Nat /\ (\A k \in 1 .. n : shape[k] \in Nat)
      /\ Places(K, m, n) /\ Within(K, m, n)
      /\ \A k \in (1 .. n) \ Image(K, m) : shape[k] = 1
  BY NarrowTakes
<1>2. /\ shape \in Seq(Nat) /\ Len(shape) = n /\ K \in [1 .. m -> 1 .. n]
      /\ \A h \in 1 .. m : small[h] = shape[K[h]]
  BY DEF Narrows
<1> DEFINE c == RowMajorOrder(shape)[i]
           d == Pick(c, K)
           e == RowMajorOrder(small)[i]
           R == RowMajor(shape)
           S == RowMajor(small)
<1>3. c \in Box(shape) /\ LinearOffset(c, R) = i - 1
  BY <1>2, Visits
<1>4. i \in 1 .. Count(small)
  BY NarrowCount
<1>5. e \in Box(small) /\ LinearOffset(e, S) = i - 1
  <2> HIDE DEF S
  <2> QED
    BY <1>1, <1>4, Visits DEF S
<1> HIDE DEF c, e
<1>6. DOMAIN c = 1 .. n /\ \A k \in 1 .. n : c[k] \in Nat /\ c[k] < shape[k]
  BY <1>2, <1>3, BoxTakes
<1>7. d = [h \in 1 .. m |-> c[K[h]]]
  BY <1>2 DEF Pick
<1> HIDE DEF d
<1>8. d \in Box(small)
  <2>1. \A h \in 1 .. m : d[h] \in Nat /\ d[h] < small[h]
    BY <1>2, <1>6, <1>7
  <2>2. d \in [1 .. m -> Nat]
    BY <1>7, <2>1
  <2> QED
    BY <1>1, <2>1, <2>2 DEF Box
<1>9. \A k \in 1 .. n : R[k] \in Int
  <2>1. R \in Seq(Int) /\ Len(R) = n
    BY <1>2, RowMajorStrides
  <2> HIDE DEF R
  <2> QED
    BY <2>1, ElementOfSeq
<1>10. \A h \in 1 .. m : S[h] = R[K[h]]
  BY NarrowVolumes
<1> HIDE DEF R, S
<1> DEFINE u == [h \in DOMAIN d |-> d[h] * S[h]]
           v == [k \in DOMAIN c |-> c[k] * R[k]]
<1>11. DOMAIN u = 1 .. m /\ DOMAIN v = 1 .. n /\ IntsOn(1 .. n, v)
  <2>1. \A k \in 1 .. n : v[k] \in Int
    BY <1>6, <1>9
  <2> QED
    BY <1>6, <1>7, <2>1 DEF IntsOn
<1>12. \A h \in 1 .. m : u[h] = v[K[h]]
  BY <1>2, <1>6, <1>7, <1>10
<1>13. ASSUME NEW k \in (1 .. n) \ Image(K, m) PROVE v[k] = 0
  <2>1. c[k] = 0
    BY <1>1, <1>6
  <2>2. R[k] \in Int /\ v[k] = c[k] * R[k]
    BY <1>6, <1>9
  <2>3. 0 * R[k] = 0
    BY <2>2
  <2> HIDE DEF v
  <2> QED
    BY <2>1, <2>2, <2>3
<1>14. LinearOffset(d, S) = SumOf(u) /\ LinearOffset(c, R) = SumOf(v)
  BY DEF LinearOffset
<1> HIDE DEF u, v
<1>15. Follows(u, m, v, K)
  BY <1>11, <1>12 DEF Follows
<1>16. Idle((1 .. n) \ Image(K, m), v, "sum")
  BY <1>13 DEF Idle, Base
<1>17. Shuffles(u, m, v, n, K, "sum")
  BY <1>1, <1>11, <1>15, <1>16 DEF Shuffles
<1>18. Folded("sum", {}, u) = Folded("sum", {}, v)
  BY <1>1, <1>17, Rearranged DEF Monoidal
<1>19. LinearOffset(d, S) = LinearOffset(e, S)
  BY <1>3, <1>5, <1>14, <1>18, SumFolds
<1>20. d = e
  BY <1>1, <1>5, <1>8, <1>19, RowMajorStrides DEF S
<1> QED
  BY <1>20 DEF d, e, c

-----------------------------------------------------------------------------
(* Axis reductions: the axes that are kept and those that are folded *)

\* K lists a set of axes of n, from the first.
Axes(K, m, n, set) ==
    /\ m \in Nat /\ n \in Nat
    /\ K \in [1 .. m -> 1 .. n]
    /\ Places(K, m, n) /\ Within(K, m, n)
    /\ Image(K, m) = set
    /\ \A i, j \in 1 .. m : i < j => K[i] < K[j]

\* AxesOf lists a set of axes.
LEMMA AxesOfTakes ==
    ASSUME NEW a, NEW n \in Nat, DOMAIN a.shape = 1 .. n, NEW set, set \subseteq 1 .. n
    PROVE  Axes(AxesOf(a, set), Len(AxesOf(a, set)), n, set)
<1> DEFINE K == AxesOf(a, set)
           m == Len(K)
<1>1. Lists(K, (1 .. n) \cap set)
  BY AxesListed
<1>2. (1 .. n) \cap set = set
  OBVIOUS
<1>3. Lists(K, set)
  BY <1>1, <1>2
<1> HIDE DEF K
<1>4. /\ K \in Seq(Int)
      /\ \A j \in 1 .. m : K[j] \in set
      /\ \A k \in set : \E j \in 1 .. m : K[j] = k
      /\ \A i, j \in 1 .. m : K[i] = K[j] => i = j
      /\ \A i, j \in 1 .. m : i < j => K[i] < K[j]
  BY <1>3 DEF Lists
<1>5. m \in Nat /\ DOMAIN K = 1 .. m /\ K = [j \in 1 .. m |-> K[j]]
  BY <1>4, LenProperties
<1> HIDE DEF m
<1>6. \A j \in 1 .. m : K[j] \in 1 .. n /\ K[j] \in 0 .. n
  <2> SUFFICES ASSUME NEW j \in 1 .. m PROVE K[j] \in 1 .. n /\ K[j] \in 0 .. n
    OBVIOUS
  <2> DEFINE k == K[j]
  <2>1. k \in set
    BY <1>4
  <2> HIDE DEF k
  <2>2. k \in 1 .. n /\ k \in 0 .. n
    BY <2>1
  <2> QED
    BY <2>2 DEF k
<1>7. K \in [1 .. m -> 1 .. n] /\ K \in [1 .. m -> 0 .. n]
  BY <1>5, <1>6
<1>8. Places(K, m, n) /\ Within(K, m, n)
  BY <1>4, <1>6, <1>7 DEF Places, Within
<1>9. Image(K, m) = set
  <2>1. Image(K, m) \subseteq set
    BY <1>4 DEF Image
  <2>2. set \subseteq Image(K, m)
    BY <1>4 DEF Image
  <2> QED
    BY <2>1, <2>2
<1>10. Axes(K, m, n, set)
  BY <1>4, <1>5, <1>7, <1>8, <1>9 DEF Axes
<1> QED
  BY <1>10 DEF K, m

\* The extents of some axes.
Part(shape, K, m) == [j \in 1 .. m |-> shape[K[j]]]

\* K and L share out the axes of shape, and the extents of each are big and small.
Splits(K, m, L, l, n, shape, big, small) ==
    /\ shape \in Seq(Nat) /\ Len(shape) = n
    /\ Axes(K, m, n, Image(K, m)) /\ Axes(L, l, n, Image(L, l))
    /\ Image(K, m) \cap Image(L, l) = {} /\ Image(K, m) \cup Image(L, l) = 1 .. n
    /\ big = Part(shape, K, m) /\ small = Part(shape, L, l)

\* The extents of some of the axes.
LEMMA PickedShape ==
    ASSUME NEW n \in Nat, NEW shape \in Seq(Nat), Len(shape) = n, NEW K, NEW m, NEW set, Axes(K, m, n, set),
           NEW big, big = Part(shape, K, m)
    PROVE  /\ big \in Seq(Nat) /\ Len(big) = m /\ DOMAIN big = 1 .. m /\ Pick(shape, K) = big
           /\ \A ix \in Box(shape) :
                /\ Pick(ix, K) = [j \in 1 .. m |-> ix[K[j]]]
                /\ Pick(ix, K) \in Box(big)
<1>1. m \in Nat /\ K \in [1 .. m -> 1 .. n]
  BY DEF Axes
<1>2. \A k \in 1 .. n : shape[k] \in Nat
  BY ElementOfSeq
<1>b. big = [j \in 1 .. m |-> shape[K[j]]]
  BY DEF Part
<1>3. big \in [1 .. m -> Nat]
  BY <1>b, <1>1, <1>2
<1>4. big \in Seq(Nat) /\ Len(big) = m /\ DOMAIN big = 1 .. m
  BY <1>1, <1>3, SequenceOf
<1>5. Pick(shape, K) = big
  BY <1>1, <1>b DEF Pick
<1>6. ASSUME NEW ix \in Box(shape)
      PROVE  Pick(ix, K) = [j \in 1 .. m |-> ix[K[j]]] /\ Pick(ix, K) \in Box(big)
  <2>1. \A k \in 1 .. n : ix[k] \in Nat /\ ix[k] < shape[k]
    BY BoxTakes
  <2>2. Pick(ix, K) = [j \in 1 .. m |-> ix[K[j]]]
    BY <1>1 DEF Pick
  <2> DEFINE c == Pick(ix, K)
  <2> HIDE DEF c
  <2>3. \A j \in 1 .. m : c[j] = ix[K[j]] /\ big[j] = shape[K[j]]
    BY <1>b, <2>2 DEF c
  <2>4. \A j \in 1 .. m : c[j] \in Nat /\ c[j] < big[j]
    BY <1>1, <2>1, <2>3
  <2>5. c \in [1 .. m -> Nat]
    BY <2>2, <2>4 DEF c
  <2>6. c \in Box(big)
    BY <1>4, <2>4, <2>5 DEF Box
  <2> QED
    BY <2>2, <2>6 DEF c
<1> QED
  BY <1>4, <1>5, <1>6

\* A multi-index is its coordinates on both lists of axes.
LEMMA JoinsExist ==
    ASSUME NEW K, NEW m, NEW L, NEW l, NEW n, NEW shape, NEW big, NEW small,
           Splits(K, m, L, l, n, shape, big, small), NEW c \in Box(big), NEW d \in Box(small)
    PROVE  \E ix \in Box(shape) : Pick(ix, K) = c /\ Pick(ix, L) = d
<1>1. /\ shape \in Seq(Nat) /\ Len(shape) = n
      /\ Axes(K, m, n, Image(K, m)) /\ Axes(L, l, n, Image(L, l))
      /\ Image(K, m) \cap Image(L, l) = {} /\ Image(K, m) \cup Image(L, l) = 1 .. n
      /\ big = Part(shape, K, m) /\ small = Part(shape, L, l)
  BY DEF Splits
<1>2. /\ m \in Nat /\ l \in Nat /\ n \in Nat /\ K \in [1 .. m -> 1 .. n] /\ L \in [1 .. l -> 1 .. n]
      /\ (\A i, j \in 1 .. m : K[i] = K[j] => i = j) /\ (\A i, j \in 1 .. l : L[i] = L[j] => i = j)
  BY <1>1 DEF Axes, Places
<1>3. /\ big \in Seq(Nat) /\ Len(big) = m /\ small \in Seq(Nat) /\ Len(small) = l
  <2>1. big \in Seq(Nat) /\ Len(big) = m
    BY <1>1, <1>2, PickedShape
  <2>2. small \in Seq(Nat) /\ Len(small) = l
    BY <1>1, <1>2, PickedShape
  <2> QED
    BY <2>1, <2>2
<1>4. /\ c \in [1 .. m -> Nat] /\ (\A j \in 1 .. m : c[j] \in Nat /\ c[j] < shape[K[j]])
      /\ d \in [1 .. l -> Nat] /\ (\A j \in 1 .. l : d[j] \in Nat /\ d[j] < shape[L[j]])
  BY <1>1, <1>3 DEF Box, Part
<1> DEFINE Ak(j, k) == j \in 1 .. m /\ K[j] = k
           Al(j, k) == j \in 1 .. l /\ L[j] = k
           ix == [k \in 1 .. n |-> IF k \in Image(K, m) THEN c[CHOOSE j : Ak(j, k)]
                                                        ELSE d[CHOOSE j : Al(j, k)]]
<1>5. ASSUME NEW j \in 1 .. m PROVE ix[K[j]] = c[j]
  <2>1. K[j] \in 1 .. n /\ K[j] \in Image(K, m) /\ Ak(j, K[j])
    BY <1>2 DEF Image
  <2>2. Ak(CHOOSE i : Ak(i, K[j]), K[j])
    <3> HIDE DEF Ak
    <3> QED
      BY <2>1
  <2>3. (CHOOSE i : Ak(i, K[j])) = j
    BY <1>2, <2>2
  <2> QED
    BY <2>1, <2>3
<1>6. ASSUME NEW j \in 1 .. l PROVE ix[L[j]] = d[j]
  <2>1. L[j] \in 1 .. n /\ L[j] \in Image(L, l) /\ Al(j, L[j])
    BY <1>2 DEF Image
  <2>2. Al(CHOOSE i : Al(i, L[j]), L[j])
    <3> HIDE DEF Al
    <3> QED
      BY <2>1
  <2>3. (CHOOSE i : Al(i, L[j])) = j
    BY <1>2, <2>2
  <2>4. L[j] \notin Image(K, m)
    BY <1>1, <2>1
  <2> QED
    BY <2>1, <2>3, <2>4
<1>7. DOMAIN ix = 1 .. n /\ ix = [k \in 1 .. n |-> ix[k]]
  OBVIOUS
<1> HIDE DEF ix
<1>8. ASSUME NEW k \in 1 .. n PROVE ix[k] \in Nat /\ ix[k] < shape[k]
  <2>1. CASE k \in Image(K, m)
    <3>1. PICK j \in 1 .. m : K[j] = k
      BY <2>1 DEF Image
    <3> QED
      BY <1>4, <1>5, <3>1
  <2>2. CASE k \in Image(L, l)
    <3>1. PICK j \in 1 .. l : L[j] = k
      BY <2>2 DEF Image
    <3> QED
      BY <1>4, <1>6, <3>1
  <2> QED
    BY <1>1, <2>1, <2>2
<1>9. ix \in Box(shape)
  <2>1. ix \in [1 .. n -> Nat]
    BY <1>7, <1>8
  <2> QED
    BY <1>1, <1>8, <2>1 DEF Box
<1>10. Pick(ix, K) = c
  <2>1. Pick(ix, K) = [j \in 1 .. m |-> ix[K[j]]]
    BY <1>2 DEF Pick
  <2>2. c = [j \in 1 .. m |-> c[j]]
    BY <1>4
  <2> QED
    BY <1>5, <2>1, <2>2
<1>11. Pick(ix, L) = d
  <2>1. Pick(ix, L) = [j \in 1 .. l |-> ix[L[j]]]
    BY <1>2 DEF Pick
  <2>2. d = [j \in 1 .. l |-> d[j]]
    BY <1>4
  <2> QED
    BY <1>6, <2>1, <2>2
<1> QED
  BY <1>9, <1>10, <1>11

\* And there is no other of the same coordinates.
LEMMA JoinsUnique ==
    ASSUME NEW K, NEW m, NEW L, NEW l, NEW n, NEW shape, NEW big, NEW small,
           Splits(K, m, L, l, n, shape, big, small), NEW ix \in Box(shape), NEW iy \in Box(shape),
           Pick(ix, K) = Pick(iy, K), Pick(ix, L) = Pick(iy, L)
    PROVE  ix = iy
<1>1. /\ shape \in Seq(Nat) /\ Len(shape) = n
      /\ Axes(K, m, n, Image(K, m)) /\ Axes(L, l, n, Image(L, l))
      /\ Image(K, m) \cup Image(L, l) = 1 .. n
  BY DEF Splits
<1>2. K \in [1 .. m -> 1 .. n] /\ L \in [1 .. l -> 1 .. n]
  BY <1>1 DEF Axes
<1>3. (\A j \in 1 .. m : ix[K[j]] = iy[K[j]]) /\ (\A j \in 1 .. l : ix[L[j]] = iy[L[j]])
  <2>1. \A f, g : Pick(f, K) = Pick(g, K) => \A j \in 1 .. m : f[K[j]] = g[K[j]]
    <3> SUFFICES ASSUME NEW f, NEW g, Pick(f, K) = Pick(g, K), NEW j \in 1 .. m PROVE f[K[j]] = g[K[j]]
      OBVIOUS
    <3>1. Pick(f, K)[j] = f[K[j]] /\ Pick(g, K)[j] = g[K[j]]
      BY <1>2 DEF Pick
    <3> QED
      BY <3>1
  <2>2. \A f, g : Pick(f, L) = Pick(g, L) => \A j \in 1 .. l : f[L[j]] = g[L[j]]
    <3> SUFFICES ASSUME NEW f, NEW g, Pick(f, L) = Pick(g, L), NEW j \in 1 .. l PROVE f[L[j]] = g[L[j]]
      OBVIOUS
    <3>1. Pick(f, L)[j] = f[L[j]] /\ Pick(g, L)[j] = g[L[j]]
      BY <1>2 DEF Pick
    <3> QED
      BY <3>1
  <2> QED
    BY <2>1, <2>2
<1>4. ASSUME NEW k \in 1 .. n PROVE ix[k] = iy[k]
  <2>1. CASE k \in Image(K, m)
    BY <1>3, <2>1 DEF Image
  <2>2. CASE k \in Image(L, l)
    BY <1>3, <2>2 DEF Image
  <2> QED
    BY <1>1, <2>1, <2>2
<1>5. ix \in [1 .. n -> Nat] /\ iy \in [1 .. n -> Nat]
  BY <1>1 DEF Box
<1>6. ix = [k \in 1 .. n |-> ix[k]] /\ iy = [k \in 1 .. n |-> iy[k]]
  BY <1>5
<1> QED
  BY <1>4, <1>6

\* Its offset is the sum of what both contribute.
LEMMA JoinsOffset ==
    ASSUME NEW K, NEW m, NEW L, NEW l, NEW n, NEW shape, NEW big, NEW small,
           Splits(K, m, L, l, n, shape, big, small), NEW ix \in Box(shape),
           NEW strides, IntsOn(1 .. n, strides)
    PROVE  /\ LinearOffset(ix, strides) = LinearOffset(Pick(ix, K), Pick(strides, K))
                                          + LinearOffset(Pick(ix, L), Pick(strides, L))
           /\ LinearOffset(Pick(ix, K), Pick(strides, K)) \in Int
           /\ LinearOffset(Pick(ix, L), Pick(strides, L)) \in Int
<1>1. /\ shape \in Seq(Nat) /\ Len(shape) = n
      /\ Axes(K, m, n, Image(K, m)) /\ Axes(L, l, n, Image(L, l))
      /\ Image(K, m) \cap Image(L, l) = {} /\ Image(K, m) \cup Image(L, l) = 1 .. n
  BY DEF Splits
<1>2. /\ m \in Nat /\ l \in Nat /\ n \in Nat /\ K \in [1 .. m -> 1 .. n] /\ L \in [1 .. l -> 1 .. n]
      /\ Places(K, m, n) /\ Places(L, l, n) /\ Within(K, m, n) /\ Within(L, l, n)
  BY <1>1 DEF Axes
<1>3. DOMAIN ix = 1 .. n /\ \A k \in 1 .. n : ix[k] \in Int /\ strides[k] \in Int
  BY <1>1, BoxTakes DEF IntsOn
<1> DEFINE v == [k \in DOMAIN ix |-> ix[k] * strides[k]]
           w == Padded("sum", n, v)
           u == [j \in DOMAIN Pick(ix, K) |-> Pick(ix, K)[j] * Pick(strides, K)[j]]
           t == [j \in DOMAIN Pick(ix, L) |-> Pick(ix, L)[j] * Pick(strides, L)[j]]
           q == [k \in 1 .. n |-> k]
<1>4. /\ LinearOffset(ix, strides) = SumOf(v)
      /\ LinearOffset(Pick(ix, K), Pick(strides, K)) = SumOf(u)
      /\ LinearOffset(Pick(ix, L), Pick(strides, L)) = SumOf(t)
  BY DEF LinearOffset
<1>5. "sum" \in Monoidal /\ \A x, y : Step("sum", {}, x, y) = x + y
  BY DEF Monoidal, Step
<1>6. DOMAIN v = 1 .. n /\ IntsOn(1 .. n, v) /\ \A k \in 1 .. n : v[k] = ix[k] * strides[k]
  BY <1>3 DEF IntsOn
<1>7. DOMAIN u = 1 .. m /\ \A j \in 1 .. m : u[j] = ix[K[j]] * strides[K[j]]
  BY <1>2 DEF Pick
<1>8. DOMAIN t = 1 .. l /\ \A j \in 1 .. l : t[j] = ix[L[j]] * strides[L[j]]
  BY <1>2 DEF Pick
<1> HIDE DEF u, t, v
<1>9. /\ w \in [0 .. n -> Int] /\ IntsOn(0 .. n, w) /\ \A k \in 1 .. n : w[k] = v[k]
  BY <1>2, <1>5, <1>6, Padding
<1> HIDE DEF w
<1>10. PICK S : Over(S, "sum", n, w)
  BY <1>2, <1>5, <1>9, OverExists
<1>11. Follows(u, m, w, K) /\ Follows(t, l, w, L)
  <2>1. \A j \in 1 .. m : K[j] \in 1 .. n
    BY <1>2
  <2>2. \A j \in 1 .. l : L[j] \in 1 .. n
    BY <1>2
  <2> QED
    BY <1>6, <1>7, <1>8, <1>9, <2>1, <2>2 DEF Follows
<1>12. Folded("sum", {}, u) = S[Image(K, m)] /\ Among(Image(K, m), n)
  BY <1>2, <1>5, <1>9, <1>10, <1>11, Gathers
<1>13. Folded("sum", {}, t) = S[Image(L, l)] /\ Among(Image(L, l), n)
  BY <1>2, <1>5, <1>9, <1>10, <1>11, Gathers
<1>14. Folded("sum", {}, v) = S[1 .. n]
  <2>1. Places(q, n, n) /\ Follows(v, n, w, q) /\ Image(q, n) = 1 .. n
    <3>1. q \in [1 .. n -> 0 .. n]
      BY <1>2
    <3> QED
      BY <1>6, <1>9, <3>1 DEF Places, Follows, Image
  <2> HIDE DEF q
  <2> QED
    BY <1>2, <1>5, <1>9, <1>10, <2>1, Gathers
<1> DEFINE A == Image(K, m)
           B == Image(L, l)
<1>15. S[A \cup B] = Step("sum", {}, S[A], S[B]) /\ S[A] \in Int /\ S[B] \in Int
  <2>1. Meetless(A, B) /\ Among(A, n) /\ Among(B, n)
    BY <1>1, <1>12, <1>13 DEF Meetless
  <2> HIDE DEF A, B
  <2> QED
    BY <1>2, <1>5, <1>10, <2>1, OverBoth
<1> QED
  BY <1>1, <1>4, <1>5, <1>12, <1>13, <1>14, <1>15, SumFolds

\* The elements of the array with coordinates c on the kept axes K, and what the
\* reduction reads for them on the folded axes L.
OfCell(shape, K, c) == {ix \in Box(shape) : Pick(ix, K) = c}

ReadsOf(a, K, big, L, small, o) ==
    {a.base + FlatToOffset(o, Pick(a.strides, K), InnerVolumes(big))
            + FlatToOffset(r, Pick(a.strides, L), InnerVolumes(small)) : r \in 0 .. Count(small) - 1}

\* Where some elements of the array lie.
Lying(a, own) == {a.base + LinearOffset(ix, a.strides) : ix \in own}

\* What a reduction asks of the two index spaces.
Counted(a, K, m, L, l, big, small) ==
    /\ Splits(K, m, L, l, Len(a.shape), a.shape, big, small)
    /\ Count(big) < WordSize /\ Count(small) < WordSize

\* A cell of the result folds each of its elements once, and nothing else.
FoldsOnce(a, K, big, L, small, i) ==
    LET own == OfCell(a.shape, K, RowMajorOrder(big)[i])
    IN  /\ Cardinality(own) = Count(small)
        /\ ReadsOf(a, K, big, L, small, i - 1) = Lying(a, own)

\* Every cell does.
LEMMA FoldsAll ==
    ASSUME NEW a, Exact(a), NEW K, NEW m, NEW L, NEW l, NEW big, NEW small,
           Counted(a, K, m, L, l, big, small)
    PROVE  \A i \in 1 .. Count(big) : FoldsOnce(a, K, big, L, small, i)
<1> DEFINE n == Len(a.shape)
<1>a. Splits(K, m, L, l, n, a.shape, big, small) /\ Count(big) < WordSize /\ Count(small) < WordSize
  BY DEF Counted
<1> HIDE DEF n
<1> SUFFICES ASSUME NEW i \in 1 .. Count(big) PROVE FoldsOnce(a, K, big, L, small, i)
  OBVIOUS
<1> DEFINE c == RowMajorOrder(big)[i]
           order == RowMajorOrder(small)
           N == Count(small)
           own == OfCell(a.shape, K, c)
           R == RowMajor(small)
           part == FlatToOffset(i - 1, Pick(a.strides, K), InnerVolumes(big))
<1>1. /\ a.shape \in Seq(Nat) /\ Len(a.shape) = n
      /\ Axes(K, m, n, Image(K, m)) /\ Axes(L, l, n, Image(L, l))
      /\ big = Part(a.shape, K, m) /\ small = Part(a.shape, L, l)
  BY <1>a DEF Splits
<1>2. n \in Nat /\ a.base \in Int /\ IntsOn(1 .. n, a.strides)
  BY <1>1, ExactTakes DEF n
<1>3. big \in Seq(Nat)
  BY <1>1, <1>2, PickedShape
<1>4. /\ small \in Seq(Nat)
      /\ \A ix \in Box(a.shape) : Pick(ix, L) \in Box(small)
  BY <1>1, <1>2, PickedShape
<1>5. c \in Box(big) /\ part = LinearOffset(c, Pick(a.strides, K))
  BY <1>3, <1>a, Visits
<1>6. N \in Nat /\ Ordered(order, small)
  BY <1>4, <1>a, OrderIs
<1>7. ASSUME NEW r \in 0 .. N - 1
      PROVE  \E ix \in own : /\ LinearOffset(Pick(ix, L), R) = r
                             /\ a.base + part + FlatToOffset(r, Pick(a.strides, L), InnerVolumes(small))
                                  = a.base + LinearOffset(ix, a.strides)
  <2> DEFINE j == r + 1
             d == order[j]
  <2>1. j \in 1 .. N /\ j - 1 = r
    BY <1>6
  <2> HIDE DEF j
  <2>2. d \in Box(small) /\ LinearOffset(d, R) = r
        /\ FlatToOffset(r, Pick(a.strides, L), InnerVolumes(small)) = LinearOffset(d, Pick(a.strides, L))
    BY <1>4, <2>1, <1>a, Visits
  <2> HIDE DEF c, d, R
  <2>3. PICK ix \in Box(a.shape) : Pick(ix, K) = c /\ Pick(ix, L) = d
    BY <1>5, <2>2, <1>a, JoinsExist
  <2>4. /\ LinearOffset(ix, a.strides) = LinearOffset(c, Pick(a.strides, K)) + LinearOffset(d, Pick(a.strides, L))
        /\ LinearOffset(c, Pick(a.strides, K)) \in Int /\ LinearOffset(d, Pick(a.strides, L)) \in Int
    BY <1>2, <2>3, <1>a, JoinsOffset
  <2>5. ix \in own
    BY <2>3 DEF OfCell
  <2> HIDE DEF own, part
  <2>6. a.base + part + LinearOffset(d, Pick(a.strides, L)) = a.base + LinearOffset(ix, a.strides)
    BY <1>2, <1>5, <2>4
  <2> QED
    BY <2>2, <2>3, <2>5, <2>6
<1>8. ASSUME NEW ix \in own
      PROVE  /\ LinearOffset(Pick(ix, L), R) \in 0 .. N - 1
             /\ \A iy \in own : LinearOffset(Pick(ix, L), R) = LinearOffset(Pick(iy, L), R) => ix = iy
  <2>1. \A iy \in own : iy \in Box(a.shape) /\ Pick(iy, K) = c /\ Pick(iy, L) \in Box(small)
    BY <1>4 DEF OfCell
  <2> HIDE DEF own, c
  <2>2. LinearOffset(Pick(ix, L), R) \in 0 .. N - 1
    BY <1>4, <2>1, <1>a, RowMajorStrides
  <2>3. ASSUME NEW iy \in own, LinearOffset(Pick(ix, L), R) = LinearOffset(Pick(iy, L), R) PROVE ix = iy
    <3>1. Pick(ix, L) = Pick(iy, L)
      BY <1>4, <2>1, <2>3, <1>a, RowMajorStrides
    <3>2. Pick(ix, K) = Pick(iy, K) /\ ix \in Box(a.shape) /\ iy \in Box(a.shape)
      BY <2>1
    <3> QED
      BY <3>1, <3>2, <1>a, JoinsUnique
  <2> QED
    BY <2>2, <2>3
<1> HIDE DEF own, c, part, order
<1> DEFINE f == [ix \in own |-> LinearOffset(Pick(ix, L), R)]
<1>9. Cardinality(own) = N
  <2>1. f \in [own -> 0 .. N - 1] /\ \A ix \in own : f[ix] = LinearOffset(Pick(ix, L), R)
    BY <1>8
  <2> HIDE DEF f
  <2>2. \A ix, iy \in own : f[ix] = f[iy] => ix = iy
    BY <1>8, <2>1
  <2>3. \A r \in 0 .. N - 1 : \E ix \in own : f[ix] = r
    BY <1>7, <2>1
  <2> DEFINE S == 0 .. N - 1
  <2>4. IsFiniteSet(S) /\ Cardinality(S) = N
    <3>1. 0 \in Int /\ N - 1 \in Int
      BY <1>6
    <3>2. IsFiniteSet(S) /\ Cardinality(S) = IF 0 > N - 1 THEN 0 ELSE (N - 1) - 0 + 1
      <4> DEFINE z == N - 1
      <4> HIDE DEF z
      <4>1. IsFiniteSet(0 .. z) /\ Cardinality(0 .. z) = IF 0 > z THEN 0 ELSE z - 0 + 1
        BY <3>1, FS_Interval DEF z
      <4> QED
        BY <4>1 DEF z
    <3> QED
      BY <1>6, <3>2
  <2>5. f \in Injection(own, S) /\ f \in Surjection(own, S)
    <3>1. DOMAIN f = own
      BY <2>1
    <3> QED
      BY <2>1, <2>2, <2>3, <3>1 DEF Injection, Surjection, IsInjective
  <2> HIDE DEF S
  <2> QED
    BY <2>4, <2>5, FS_Injection
<1>10. ReadsOf(a, K, big, L, small, i - 1) = {a.base + LinearOffset(ix, a.strides) : ix \in own}
  <2> DEFINE G(r) == a.base + part + FlatToOffset(r, Pick(a.strides, L), InnerVolumes(small))
             H(ix) == a.base + LinearOffset(ix, a.strides)
  <2>1. \A r \in 0 .. N - 1 : \E ix \in own : G(r) = H(ix)
    BY <1>7
  <2>2. ASSUME NEW ix \in own PROVE \E r \in 0 .. N - 1 : G(r) = H(ix)
    <3> DEFINE r == LinearOffset(Pick(ix, L), R)
    <3>1. r \in 0 .. N - 1
      BY <1>8
    <3>2. PICK iy \in own : LinearOffset(Pick(iy, L), R) = r /\ G(r) = H(iy)
      <4> HIDE DEF r
      <4> QED
        BY <1>7, <3>1
    <3>3. ix = iy
      BY <1>8, <3>2
    <3> QED
      BY <3>1, <3>2, <3>3
  <2>3. ReadsOf(a, K, big, L, small, i - 1) = {G(r) : r \in 0 .. N - 1}
    BY DEF ReadsOf, part
  <2> HIDE DEF G, H, N
  <2>4. {G(r) : r \in 0 .. N - 1} = {H(ix) : ix \in own}
    BY <2>1, <2>2
  <2> QED
    BY <2>3, <2>4 DEF H
<1> QED
  BY <1>9, <1>10 DEF own, c, N, Lying, FoldsOnce

\* A list of the members of a set, in some order.
LEMMA ListOfSet ==
    ASSUME NEW S, IsFiniteSet(S)
    PROVE  /\ DOMAIN SetToSeq(S) = 1 .. Cardinality(S) /\ Cardinality(S) \in Nat
           /\ SetToSeq(S) \in Seq(S) /\ Len(SetToSeq(S)) = Cardinality(S)
           /\ ToSet(SetToSeq(S)) = S
           /\ \A i, j \in 1 .. Cardinality(S) : SetToSeq(S)[i] = SetToSeq(S)[j] => i = j
<1> DEFINE n == Cardinality(S)
           D == 1 .. n
           s == SetToSeq(S)
<1>1. n \in Nat /\ ExistsBijection(D, S)
  BY FS_CardinalityType
<1>2. \E f \in [D -> S] : IsInjective(f)
  BY <1>1 DEF ExistsBijection, Bijection, Injection
<1>3. s \in [D -> S] /\ IsInjective(s)
  BY <1>2 DEF SetToSeq
<1> HIDE DEF s, n
<1>4. s \in Injection(D, S)
  BY <1>3 DEF Injection
<1>5. Cardinality(D) = Cardinality(S)
  <2>1. Cardinality(1 .. n) = IF 1 > n THEN 0 ELSE n - 1 + 1
    BY <1>1, FS_Interval
  <2> QED
    BY <1>1, <2>1 DEF n
<1>6. s \in Surjection(D, S)
  <2> HIDE DEF D
  <2> QED
    BY <1>4, <1>5, FS_Injection
<1>7. \A x \in S : \E i \in D : s[i] = x
  BY <1>6 DEF Surjection
<1>8. DOMAIN s = D /\ \A i, j \in D : s[i] = s[j] => i = j
  BY <1>3 DEF IsInjective
<1>9. ToSet(s) = S
  BY <1>3, <1>7, <1>8 DEF ToSet
<1>10. s \in Seq(S) /\ Len(s) = n
  BY <1>1, <1>3, SequenceOf
<1> QED
  BY <1>1, <1>8, <1>9, <1>10 DEF s, n

\* An axis counted from the front or, when negative, from the end.
Place(x, nd) == IF x < 0 THEN x + nd + 1 ELSE x + 1

\* The axes an argument names, and its checks.
LEMMA ArgumentTakes ==
    ASSUME NEW nd \in Nat, NEW axes \in AxisArguments(nd)
    PROVE  /\ CanReduce(axes, nd)
           /\ ParseAxes(axes, nd) \subseteq 1 .. nd
           /\ ParseAxes(axes, nd) = {k \in 1 .. nd : {k - 1, k - 1 - nd} \cap ToSet(axes) # {}}
<1> DEFINE Z == 0 .. nd - 1
<1>1. PICK S \in SUBSET Z : axes \in {SetToSeq(S), SetToSeq({k - nd : k \in S})}
  BY DEF AxisArguments
<1>2. IsFiniteSet(Z) /\ IsFiniteSet((-nd) .. -1)
  BY FS_Interval
<1>3. PICK T : /\ axes = SetToSeq(T) /\ IsFiniteSet(T)
               /\ \A x \in T : x \in Int /\ -nd <= x /\ x <= nd - 1
               /\ \A x, y \in T : Place(x, nd) = Place(y, nd) => x = y
  <2>1. CASE axes = SetToSeq(S)
    <3>1. IsFiniteSet(S)
      <4> HIDE DEF Z
      <4> QED
        BY <1>2, FS_Subset
    <3>2. \A x \in S : x \in Int /\ 0 <= x /\ -nd <= x /\ x <= nd - 1
      OBVIOUS
    <3>3. \A x \in S : Place(x, nd) = x + 1
      BY <3>2 DEF Place
    <3>4. \A x, y \in S : Place(x, nd) = Place(y, nd) => x = y
      BY <3>2, <3>3
    <3> QED
      BY <2>1, <3>1, <3>2, <3>4
  <2>2. CASE axes = SetToSeq({k - nd : k \in S})
    <3> DEFINE T == {k - nd : k \in S}
               W == (-nd) .. -1
    <3>1. \A x \in T : x \in Int /\ -nd <= x /\ x <= -1
      OBVIOUS
    <3> HIDE DEF T
    <3>2. T \in SUBSET W
      BY <3>1
    <3>3. IsFiniteSet(T)
      <4>1. IsFiniteSet(W)
        BY <1>2
      <4> HIDE DEF W
      <4> QED
        BY <3>2, <4>1, FS_Subset
    <3>4. \A x \in T : Place(x, nd) = x + nd + 1
      BY <3>1 DEF Place
    <3>5. \A x, y \in T : Place(x, nd) = Place(y, nd) => x = y
      <4> SUFFICES ASSUME NEW x \in T, NEW y \in T, Place(x, nd) = Place(y, nd) PROVE x = y
        OBVIOUS
      <4>1. x \in Int /\ y \in Int
        BY <3>1
      <4>2. x + nd + 1 = y + nd + 1
        BY <3>4
      <4> HIDE DEF T
      <4> QED
        BY <4>1, <4>2
    <3>6. axes = SetToSeq(T)
      BY <2>2 DEF T
    <3>7. \A x \in T : x \in Int /\ -nd <= x /\ x <= nd - 1
      BY <3>1
    <3> QED
      BY <3>3, <3>5, <3>6, <3>7
  <2> QED
    BY <1>1, <2>1, <2>2
<1> DEFINE N == Cardinality(T)
<1>4. /\ DOMAIN axes = 1 .. N /\ N \in Nat /\ axes \in Seq(T) /\ Len(axes) = N
      /\ ToSet(axes) = T /\ \A i, j \in 1 .. N : axes[i] = axes[j] => i = j
  BY <1>3, ListOfSet
<1>5. \A j \in 1 .. N : axes[j] \in T
  BY <1>4, ElementOfSeq
<1>6. \A x \in T : \E j \in 1 .. N : axes[j] = x
  BY <1>4 DEF ToSet
<1> HIDE DEF N
<1>7. ParseAxes(axes, nd) = {Place(axes[j], nd) : j \in 1 .. N}
  BY <1>4 DEF ParseAxes, Place
<1> DEFINE P == ParseAxes(axes, nd)
<1>8. P = {Place(x, nd) : x \in T}
  BY <1>5, <1>6, <1>7
<1>9. \A x \in T : Place(x, nd) \in 1 .. nd
  BY <1>3 DEF Place
<1>10. P \subseteq 1 .. nd
  BY <1>8, <1>9
<1>11. P = {k \in 1 .. nd : {k - 1, k - 1 - nd} \cap T # {}}
  <2>1. ASSUME NEW k \in 1 .. nd, k - 1 \in T PROVE k = Place(k - 1, nd)
    BY DEF Place
  <2>2. ASSUME NEW k \in 1 .. nd, k - 1 - nd \in T PROVE k = Place(k - 1 - nd, nd)
    BY DEF Place
  <2>3. ASSUME NEW x \in T
        PROVE  x \in {Place(x, nd) - 1, Place(x, nd) - 1 - nd}
    BY <1>3 DEF Place
  <2>4. ASSUME NEW k \in 1 .. nd, k \in P PROVE {k - 1, k - 1 - nd} \cap T # {}
    <3>1. PICK x \in T : k = Place(x, nd)
      BY <1>8, <2>4
    <3>2. x \in {k - 1, k - 1 - nd}
      BY <2>3, <3>1
    <3> QED
      BY <3>2
  <2>5. ASSUME NEW k \in 1 .. nd, {k - 1, k - 1 - nd} \cap T # {} PROVE k \in P
    <3>1. k - 1 \in T \/ k - 1 - nd \in T
      BY <2>5
    <3>2. CASE k - 1 \in T
      BY <1>8, <2>1, <3>2
    <3>3. CASE k - 1 - nd \in T
      BY <1>8, <2>2, <3>3
    <3> QED
      BY <3>1, <3>2, <3>3
  <2> HIDE DEF P
  <2> QED
    BY <1>10, <2>4, <2>5
<1>12. Cardinality(P) = N
  <2> DEFINE D == 1 .. N
             f == [j \in D |-> Place(axes[j], nd)]
  <2>1. f \in [D -> P] /\ \A j \in D : f[j] = Place(axes[j], nd)
    BY <1>7
  <2>2. \A i, j \in D : f[i] = f[j] => i = j
    BY <1>3, <1>4, <1>5, <2>1
  <2>3. \A k \in P : \E j \in D : f[j] = k
    BY <1>7, <2>1
  <2> HIDE DEF f, P
  <2>4. f \in Injection(D, P) /\ f \in Surjection(D, P)
    <3>1. DOMAIN f = D
      BY <2>1
    <3> QED
      BY <2>1, <2>2, <2>3, <3>1 DEF Injection, Surjection, IsInjective
  <2>5. IsFiniteSet(D) /\ Cardinality(D) = N
    <3>1. IsFiniteSet(1 .. N) /\ Cardinality(1 .. N) = IF 1 > N THEN 0 ELSE N - 1 + 1
      BY <1>4, FS_Interval
    <3> QED
      BY <1>4, <3>1
  <2> HIDE DEF D
  <2>6. Cardinality(P) = Cardinality(D)
    BY <2>4, <2>5, FS_Surjection
  <2> QED
    BY <2>5, <2>6
<1>13. CanReduce(axes, nd)
  <2>1. \A j \in 1 .. N : axes[j] \in -nd .. nd - 1
    BY <1>3, <1>5
  <2> QED
    BY <1>4, <1>12, <2>1 DEF CanReduce
<1> QED
  BY <1>4, <1>10, <1>11, <1>13

\* A reduction shares out the axes of its array.
LEMMA Shares ==
    ASSUME NEW a, Exact(a), NEW red, red \subseteq 1 .. Len(a.shape)
    PROVE  LET n == Len(a.shape)
               K == AxesOf(a, DOMAIN a.shape \ red)
               L == AxesOf(a, red)
           IN  /\ Splits(K, Len(K), L, Len(L), n, a.shape, Pick(a.shape, K), Pick(a.shape, L))
               /\ Image(K, Len(K)) = (1 .. n) \ red
<1> DEFINE n == Len(a.shape)
           rest == DOMAIN a.shape \ red
           K == AxesOf(a, rest)
           L == AxesOf(a, red)
           m == Len(K)
           l == Len(L)
<1>1. a.shape \in Seq(Nat) /\ n \in Nat /\ DOMAIN a.shape = 1 .. n
  BY ExactTakes
<1>2. rest = (1 .. n) \ red /\ rest \subseteq 1 .. n
  BY <1>1
<1> HIDE DEF n, rest
<1>3. Axes(K, m, n, rest) /\ Axes(L, l, n, red)
  BY <1>1, <1>2, AxesOfTakes DEF n
<1> HIDE DEF K, L
<1>4. Image(K, m) = rest /\ Image(L, l) = red
  BY <1>3 DEF Axes
<1> HIDE DEF m, l
<1>5. Pick(a.shape, K) = Part(a.shape, K, m) /\ Pick(a.shape, L) = Part(a.shape, L, l)
  <2>1. DOMAIN K = 1 .. m /\ DOMAIN L = 1 .. l
    BY <1>3 DEF Axes
  <2> QED
    BY <2>1 DEF Pick, Part
<1>6. Splits(K, m, L, l, n, a.shape, Pick(a.shape, K), Pick(a.shape, L))
  <2>1. red \subseteq 1 .. n
    BY DEF n
  <2>2. rest \cap red = {} /\ rest \cup red = 1 .. n
    BY <1>2, <2>1
  <2> QED
    BY <1>1, <1>3, <1>4, <1>5, <2>2 DEF Splits, n
<1> QED
  BY <1>2, <1>4, <1>6 DEF n, K, L, m, l, rest

\* The shape whose other axes have one element.
Masked(shape, set) == [k \in DOMAIN shape |-> IF k \in set THEN shape[k] ELSE 1]

\* Without them it is the shape of some axes.
LEMMA MaskNarrows ==
    ASSUME NEW n \in Nat, NEW shape \in Seq(Nat), Len(shape) = n,
           NEW K, NEW m, NEW set, Axes(K, m, n, set)
    PROVE  Narrows(K, m, n, Masked(shape, set), Part(shape, K, m))
<1> DEFINE w == Masked(shape, set)
<1>1. /\ m \in Nat /\ K \in [1 .. m -> 1 .. n] /\ Image(K, m) = set
      /\ \A i, j \in 1 .. m : i < j => K[i] < K[j]
  BY DEF Axes
<1>2. DOMAIN shape = 1 .. n /\ \A k \in 1 .. n : shape[k] \in Nat
  BY LenProperties, ElementOfSeq
<1>3. \A k \in 1 .. n : w[k] = IF k \in set THEN shape[k] ELSE 1
  BY <1>2 DEF Masked
<1>4. w \in [1 .. n -> Nat]
  BY <1>2 DEF Masked
<1> HIDE DEF w
<1>5. w \in Seq(Nat) /\ Len(w) = n
  BY <1>4, SequenceOf
<1>6. \A j \in 1 .. m : K[j] \in set /\ K[j] \in 1 .. n
  BY <1>1 DEF Image
<1>7. \A k \in 1 .. n : w[k] = 1 \/ \E j \in 1 .. m : K[j] = k
  BY <1>1, <1>3 DEF Image
<1>8. Part(shape, K, m) = [j \in 1 .. m |-> w[K[j]]]
  BY <1>3, <1>6 DEF Part
<1> QED
  BY <1>1, <1>5, <1>7, <1>8 DEF Narrows, w

\* Some axes of an array with elements hold no more than all of them.
LEMMA PartBelow ==
    ASSUME NEW n \in Nat, NEW shape \in Seq(Nat), Len(shape) = n, Count(shape) > 0,
           NEW K, NEW m, NEW set, Axes(K, m, n, set)
    PROVE  Count(Part(shape, K, m)) <= Count(shape)
<1> DEFINE w == Masked(shape, set)
<1>1. DOMAIN shape = 1 .. n /\ \A k \in 1 .. n : shape[k] \in Nat
  BY LenProperties, ElementOfSeq
<1>2. Count(Part(shape, K, m)) = Count(w)
  <2>1. Narrows(K, m, n, w, Part(shape, K, m))
    BY MaskNarrows
  <2> QED
    BY <2>1, NarrowCount
<1>3. PICK R : Radix(R, n, shape) /\ R[0] = Count(shape)
  BY Radices
<1>4. \A k \in 1 .. n : shape[k] \in Nat /\ shape[k] > 0
  BY <1>3, RadixGrows
<1>5. DOMAIN w = 1 .. n /\ \A k \in 1 .. n : w[k] = IF k \in set THEN shape[k] ELSE 1
  BY <1>1 DEF Masked
<1> HIDE DEF w
<1>6. IntsOn(1 .. n, shape) /\ IntsOn(1 .. n, w) /\ Below(n, w, shape)
  BY <1>4, <1>5 DEF IntsOn, Below
<1>7. Folded("product", {}, w) <= Folded("product", {}, shape)
  BY <1>1, <1>5, <1>6, ProductsBelow
<1> QED
  BY <1>2, <1>7, CountFolds

\* The coordinates of the cell that an element is folded into.
CellOf(a, red, keepdims, ix) ==
    IF keepdims THEN [k \in DOMAIN ix |-> IF k \in red THEN 0 ELSE ix[k]]
                ELSE Pick(ix, AxesOf(a, DOMAIN a.shape \ red))

CellsMatch(a, red, keepdims) ==
    LET K == AxesOf(a, DOMAIN a.shape \ red)
        big == Pick(a.shape, K)
        cells == RowMajorOrder(OutShape(a, red, keepdims))
    IN  /\ Count(big) \in Nat /\ DOMAIN cells = 1 .. Count(big) /\ Len(cells) = Count(big)
        /\ \A o \in 1 .. Count(big), ix \in Box(a.shape) :
             CellOf(a, red, keepdims, ix) = cells[o] <=> Pick(ix, K) = RowMajorOrder(big)[o]

\* The cells of the result are those of the kept axes, in their order, with or
\* without the folded ones.
LEMMA CellsFit ==
    ASSUME NEW a, Exact(a), NEW red, red \subseteq 1 .. Len(a.shape), NEW keepdims \in BOOLEAN
    PROVE  CellsMatch(a, red, keepdims)
<1> DEFINE n == Len(a.shape)
           K == AxesOf(a, DOMAIN a.shape \ red)
           m == Len(K)
           big == Pick(a.shape, K)
           out == OutShape(a, red, TRUE)
           N == Count(big)
<1>1. a.shape \in Seq(Nat) /\ n \in Nat /\ DOMAIN a.shape = 1 .. n /\ Len(a.shape) = n
  BY ExactTakes
<1>2. \E L, l : Splits(K, m, L, l, n, a.shape, big, Pick(a.shape, L)) /\ Image(K, m) = (1 .. n) \ red
  BY Shares
<1>3. Axes(K, m, n, (1 .. n) \ red) /\ big = Part(a.shape, K, m)
  BY <1>2 DEF Splits
<1> HIDE DEF n, K, m, big, out
<1>4. big \in Seq(Nat) /\ \A ix \in Box(a.shape) : Pick(ix, K) = [j \in 1 .. m |-> ix[K[j]]]
  BY <1>1, <1>3, PickedShape
<1>5. N \in Nat /\ DOMAIN RowMajorOrder(big) = 1 .. N /\ Len(RowMajorOrder(big)) = N
  BY <1>4, OrderIs DEF Ordered
<1>6. CASE keepdims = FALSE
  <2>1. OutShape(a, red, keepdims) = big
    BY <1>6 DEF OutShape, K, big
  <2>2. \A ix : CellOf(a, red, keepdims, ix) = Pick(ix, K)
    BY <1>6 DEF CellOf, K
  <2> HIDE DEF N
  <2> QED
    BY <1>5, <2>1, <2>2 DEF N, K, big, CellsMatch
<1>7. CASE keepdims = TRUE
  <2> DEFINE cells == RowMajorOrder(out)
  <2>1. out = Masked(a.shape, (1 .. n) \ red)
    BY <1>1 DEF OutShape, Masked, out
  <2>2. Narrows(K, m, n, out, big)
    BY <1>1, <1>3, <2>1, MaskNarrows
  <2>3. /\ m \in Nat /\ out \in Seq(Nat) /\ Len(out) = n
        /\ K \in [1 .. m -> 1 .. n] /\ Image(K, m) = (1 .. n) \ red
    BY <1>3, <2>2 DEF Narrows, Axes
  <2>4. Count(big) = Count(out)
    BY <2>2, NarrowCount
  <2>5. DOMAIN cells = 1 .. N /\ Len(cells) = N
    BY <2>3, <2>4, OrderIs DEF Ordered
  <2>6. ASSUME NEW o \in 1 .. N, NEW ix \in Box(a.shape)
        PROVE  CellOf(a, red, TRUE, ix) = cells[o] <=> Pick(ix, K) = RowMajorOrder(big)[o]
    <3> DEFINE c == cells[o]
               e == CellOf(a, red, TRUE, ix)
    <3>1. RowMajorOrder(big)[o] = Pick(c, K)
      BY <2>2, <2>4, NarrowOrder
    <3>2. c \in Box(out)
      BY <2>3, <2>4, Visits
    <3>3. DOMAIN ix = 1 .. n
      BY <1>1, BoxTakes
    <3> HIDE DEF c
    <3>4. c \in [1 .. n -> Nat] /\ \A k \in 1 .. n : c[k] \in Nat /\ c[k] < out[k]
      BY <2>3, <3>2 DEF Box
    <3>5. \A k \in 1 .. n : k \in red => c[k] = 0
      <4>1. \A k \in 1 .. n : k \in red => out[k] = 1
        BY <1>1 DEF OutShape, out
      <4> QED
        BY <3>4, <4>1
    <3>6. e = [k \in 1 .. n |-> IF k \in red THEN 0 ELSE ix[k]]
      BY <3>3 DEF CellOf
    <3>7. c = [k \in 1 .. n |-> c[k]]
      BY <3>4
    <3>8. Pick(ix, K) = [j \in 1 .. m |-> ix[K[j]]] /\ Pick(c, K) = [j \in 1 .. m |-> c[K[j]]]
      <4>1. DOMAIN K = 1 .. m
        BY <2>3
      <4> QED
        BY <4>1 DEF Pick
    <3>9. \A j \in 1 .. m : K[j] \in 1 .. n /\ K[j] \notin red
      BY <2>3 DEF Image
    <3>10. ASSUME e = c PROVE Pick(ix, K) = Pick(c, K)
      <4>1. \A j \in 1 .. m : ix[K[j]] = c[K[j]]
        BY <3>6, <3>9, <3>10
      <4> QED
        BY <3>8, <4>1
    <3>11. ASSUME Pick(ix, K) = Pick(c, K) PROVE e = c
      <4>1. \A j \in 1 .. m : ix[K[j]] = c[K[j]]
        <5> DEFINE f == Pick(ix, K)
                   g == Pick(c, K)
        <5>1. \A j \in 1 .. m : f[j] = ix[K[j]] /\ g[j] = c[K[j]]
          BY <3>8
        <5> HIDE DEF f, g
        <5>2. f = g
          BY <3>11 DEF f, g
        <5> QED
          BY <5>1, <5>2
      <4>2. \A k \in 1 .. n : k \notin red => ix[k] = c[k]
        <5> SUFFICES ASSUME NEW k \in 1 .. n, k \notin red PROVE ix[k] = c[k]
          OBVIOUS
        <5>1. \E j \in 1 .. m : K[j] = k
          BY <2>3 DEF Image
        <5> QED
          BY <4>1, <5>1
      <4>3. \A k \in 1 .. n : c[k] = IF k \in red THEN 0 ELSE ix[k]
        BY <3>5, <4>2
      <4> HIDE DEF e
      <4> QED
        BY <3>6, <3>7, <4>3
    <3> QED
      BY <3>1, <3>10, <3>11 DEF c, e
  <2> HIDE DEF N
  <2> QED
    BY <1>5, <1>7, <2>5, <2>6 DEF N, K, big, out, CellsMatch
<1> QED
  BY <1>6, <1>7

\* No set of axes of an array without elements has 2^w of them, were the others
\* left out. The code does not check that; an array that has elements meets it.
PartsFit ==
    arr.size = 0 =>
        \A axes \in SUBSET (DOMAIN arr.shape) : Count(Pick(arr.shape, AxesOf(arr, axes))) < WordSize

\* What an axis reduction reads, whatever axes are folded.
ReducesOnce(a, red, keepdims) ==
    LET cells == RowMajorOrder(OutShape(a, red, keepdims))
    IN  /\ Len(cells) = OutSize(a, red)
        /\ \A o \in DOMAIN cells :
            LET own == {ix \in Indices(a.shape) : CellOf(a, red, keepdims, ix) = cells[o]}
            IN  /\ Cardinality(own) = RedSize(a, red)
                /\ {ReduceRead(a, red, o - 1, r) : r \in 0 .. RedSize(a, red) - 1}
                     = {a.base + LinearOffset(ix, a.strides) : ix \in own}

\* A reduction whose two index spaces can be counted folds each element once.
LEMMA ReducesAxes ==
    ASSUME NEW a, Exact(a), NEW red, red \subseteq 1 .. Len(a.shape), NEW keepdims \in BOOLEAN,
           Count(Pick(a.shape, AxesOf(a, DOMAIN a.shape \ red))) < WordSize,
           Count(Pick(a.shape, AxesOf(a, red))) < WordSize
    PROVE  ReducesOnce(a, red, keepdims)
<1> DEFINE n == Len(a.shape)
           K == AxesOf(a, DOMAIN a.shape \ red)
           L == AxesOf(a, red)
           m == Len(K)
           l == Len(L)
           big == Pick(a.shape, K)
           small == Pick(a.shape, L)
           cells == RowMajorOrder(OutShape(a, red, keepdims))
<1>1. a.shape \in Seq(Nat) /\ n \in Nat /\ Len(a.shape) = n
  BY ExactTakes
<1>2. Splits(K, m, L, l, n, a.shape, big, small)
  BY Shares
<1>3. /\ Count(big) \in Nat /\ DOMAIN cells = 1 .. Count(big) /\ Len(cells) = Count(big)
      /\ \A o \in 1 .. Count(big), ix \in Box(a.shape) :
           CellOf(a, red, keepdims, ix) = cells[o] <=> Pick(ix, K) = RowMajorOrder(big)[o]
  <2>1. CellsMatch(a, red, keepdims)
    BY CellsFit
  <2> QED
    BY <2>1 DEF CellsMatch
<1>4. big \in Seq(Nat) /\ small \in Seq(Nat)
  <2>1. Axes(K, m, n, Image(K, m)) /\ Axes(L, l, n, Image(L, l))
        /\ big = Part(a.shape, K, m) /\ small = Part(a.shape, L, l)
    BY <1>2 DEF Splits
  <2> HIDE DEF K, L, m, l, n, big, small
  <2> QED
    BY <1>1, <2>1, PickedShape
<1>5. OutSize(a, red) = Count(big) /\ RedSize(a, red) = Count(small)
  BY <1>4, ProductExact DEF OutSize, RedSize
<1>6. Indices(a.shape) = Box(a.shape)
  BY <1>1, OrderIs
<1>7. \A o, r : ReduceRead(a, red, o, r)
                  = a.base + FlatToOffset(o, Pick(a.strides, K), InnerVolumes(big))
                           + FlatToOffset(r, Pick(a.strides, L), InnerVolumes(small))
  BY DEF ReduceRead
<1>8. Count(big) < WordSize /\ Count(small) < WordSize
  OBVIOUS
<1> HIDE DEF K, L, m, l, n, big, small, cells
<1>9a. \A o \in 1 .. Count(big) : FoldsOnce(a, K, big, L, small, o)
  <2>1. Counted(a, K, m, L, l, big, small)
    BY <1>2, <1>8 DEF Counted, n
  <2> QED
    BY <2>1, FoldsAll
<1>9. ASSUME NEW o \in 1 .. Count(big)
      PROVE  LET own == {ix \in Indices(a.shape) : CellOf(a, red, keepdims, ix) = cells[o]}
             IN  /\ Cardinality(own) = RedSize(a, red)
                 /\ {ReduceRead(a, red, o - 1, r) : r \in 0 .. RedSize(a, red) - 1}
                      = {a.base + LinearOffset(ix, a.strides) : ix \in own}
  <2> DEFINE own == {ix \in Indices(a.shape) : CellOf(a, red, keepdims, ix) = cells[o]}
             mine == OfCell(a.shape, K, RowMajorOrder(big)[o])
  <2> HIDE DEF own
  <2>1. /\ Cardinality(mine) = Count(small)
        /\ ReadsOf(a, K, big, L, small, o - 1) = Lying(a, mine)
    BY <1>9a DEF FoldsOnce
  <2>2. own = mine
    BY <1>3, <1>6 DEF OfCell, own
  <2>3. {ReduceRead(a, red, o - 1, r) : r \in 0 .. RedSize(a, red) - 1} = ReadsOf(a, K, big, L, small, o - 1)
    BY <1>5, <1>7 DEF ReadsOf
  <2> HIDE DEF own, mine
  <2> QED
    BY <1>5, <2>1, <2>2, <2>3 DEF own, Lying
<1>10. Len(cells) = OutSize(a, red) /\ DOMAIN cells = 1 .. Count(big)
  BY <1>3, <1>5
<1> QED
  BY <1>9, <1>10 DEF ReducesOnce, cells

\* A reduction whose index spaces can be counted folds each element of the array
\* once, into the cell of the result that its kept coordinates name: axes named
\* from the front or the end, with keepdims and without.
THEOREM ReductionsRead == ASSUME NoWrap PROVE Spec => [](PartsFit => AxisReduceReads)
<1>1. ASSUME IInv, PartsFit PROVE AxisReduceReads
  <2> DEFINE nd == Len(arr.shape)
             named(axes) == {k \in 1 .. nd : {k - 1, k - 1 - nd} \cap ToSet(axes) # {}}
  <2>1. Exact(arr)
    BY <1>1 DEF IInv, Sound
  <2>2. arr.shape \in Seq(Nat) /\ nd \in Nat /\ DOMAIN arr.shape = 1 .. nd /\ arr.size = Count(arr.shape)
        /\ arr.size \in Nat /\ arr.size < WordSize
    BY <2>1, ExactTakes DEF Exact
  <2>3. ASSUME NEW set, set \subseteq 1 .. nd
        PROVE  Count(Pick(arr.shape, AxesOf(arr, set))) < WordSize
    <3> DEFINE K == AxesOf(arr, set)
               m == Len(K)
    <3>1. CASE arr.size = 0
      BY <1>1, <2>2, <2>3, <3>1 DEF PartsFit
    <3>2. CASE arr.size # 0
      <4> HIDE DEF nd
      <4>1. Axes(K, m, nd, set)
        BY <2>2, <2>3, AxesOfTakes
      <4> HIDE DEF K
      <4>2. Pick(arr.shape, K) = Part(arr.shape, K, m)
        <5>1. DOMAIN K = 1 .. m
          BY <4>1 DEF Axes
        <5> QED
          BY <5>1 DEF Pick, Part
      <4> HIDE DEF m
      <4>3. Count(arr.shape) > 0 /\ Len(arr.shape) = nd
        BY <2>2, <3>2 DEF nd
      <4>4. Count(Part(arr.shape, K, m)) <= Count(arr.shape)
        BY <2>2, <4>1, <4>3, PartBelow
      <4>5. Part(arr.shape, K, m) \in Seq(Nat)
        BY <2>2, <4>1, <4>3, PickedShape
      <4>6. Count(Part(arr.shape, K, m)) \in Nat
        BY <4>5, OrderIs
      <4> QED
        BY <2>2, <4>2, <4>4, <4>6, WordSizeAssumption DEF K
    <3> QED
      BY <3>1, <3>2
  <2>4. ASSUME NEW axes \in AxisArguments(nd), NEW keepdims \in BOOLEAN
        PROVE  LET red == ParseAxes(axes, nd)
                   cells == RowMajorOrder(OutShape(arr, red, keepdims))
                   kept(ix) == IF keepdims THEN [k \in DOMAIN ix |-> IF k \in named(axes) THEN 0 ELSE ix[k]]
                                           ELSE Pick(ix, AxesOf(arr, DOMAIN arr.shape \ named(axes)))
               IN  /\ CanReduce(axes, nd)
                   /\ Len(cells) = OutSize(arr, red)
                   /\ \A o \in DOMAIN cells :
                       LET own == {ix \in Indices(arr.shape) : kept(ix) = cells[o]}
                       IN  /\ Cardinality(own) = RedSize(arr, red)
                           /\ {ReduceRead(arr, red, o - 1, r) : r \in 0 .. RedSize(arr, red) - 1}
                                = {arr.base + LinearOffset(ix, arr.strides) : ix \in own}
    <3> DEFINE red == ParseAxes(axes, nd)
    <3>1. CanReduce(axes, nd) /\ red \subseteq 1 .. nd /\ red = named(axes)
      BY <2>2, ArgumentTakes
    <3> HIDE DEF nd, red, named
    <3>2. Count(Pick(arr.shape, AxesOf(arr, DOMAIN arr.shape \ red))) < WordSize
          /\ Count(Pick(arr.shape, AxesOf(arr, red))) < WordSize
      BY <2>2, <2>3, <3>1
    <3>3. ReducesOnce(arr, red, keepdims)
      BY <2>1, <3>1, <3>2, ReducesAxes DEF nd
    <3> QED
      <4>1. /\ Len(RowMajorOrder(OutShape(arr, red, keepdims))) = OutSize(arr, red)
            /\ \A o \in DOMAIN RowMajorOrder(OutShape(arr, red, keepdims)) :
                LET own == {ix \in Indices(arr.shape) :
                              CellOf(arr, red, keepdims, ix) = RowMajorOrder(OutShape(arr, red, keepdims))[o]}
                IN  /\ Cardinality(own) = RedSize(arr, red)
                    /\ {ReduceRead(arr, red, o - 1, r) : r \in 0 .. RedSize(arr, red) - 1}
                         = {arr.base + LinearOffset(ix, arr.strides) : ix \in own}
        BY <3>3 DEF ReducesOnce
      <4>2. \A ix : CellOf(arr, red, keepdims, ix)
                      = IF keepdims THEN [k \in DOMAIN ix |-> IF k \in named(axes) THEN 0 ELSE ix[k]]
                                    ELSE Pick(ix, AxesOf(arr, DOMAIN arr.shape \ named(axes)))
        BY <3>1 DEF CellOf
      <4> DEFINE out == RowMajorOrder(OutShape(arr, red, keepdims))
                 kept(ix) == IF keepdims THEN [k \in DOMAIN ix |-> IF k \in named(axes) THEN 0 ELSE ix[k]]
                                         ELSE Pick(ix, AxesOf(arr, DOMAIN arr.shape \ named(axes)))
      <4>3. \A o : {ix \in Indices(arr.shape) : CellOf(arr, red, keepdims, ix) = out[o]}
                     = {ix \in Indices(arr.shape) : kept(ix) = out[o]}
        BY <4>2
      <4> HIDE DEF kept
      <4>4. \A o \in DOMAIN out :
              LET own == {ix \in Indices(arr.shape) : kept(ix) = out[o]}
              IN  /\ Cardinality(own) = RedSize(arr, red)
                  /\ {ReduceRead(arr, red, o - 1, r) : r \in 0 .. RedSize(arr, red) - 1}
                       = {arr.base + LinearOffset(ix, arr.strides) : ix \in own}
        BY <4>1, <4>3
      <4>5. Len(out) = OutSize(arr, red) /\ CanReduce(axes, nd)
        BY <3>1, <4>1
      <4> QED
        BY <4>4, <4>5 DEF red, kept
  <2> QED
    BY <2>4 DEF AxisReduceReads
<1>2. Spec => []IInv
  BY Invariant
<1>3. IInv => (PartsFit => AxisReduceReads)
  BY <1>1
<1> QED
  BY <1>2, <1>3, PTL

-----------------------------------------------------------------------------
(* What SliceAssign asks of a layout *)

\* The flat index of a multi-index names the same element.
LEMMA RavelReads ==
    ASSUME NEW a, NEW cells, Sound(a, cells), NEW c \in Box(a.shape)
    PROVE  LET i == LinearOffset(c, InnerVolumes(a.shape))
           IN  /\ i \in 0 .. a.size - 1
               /\ Offset(a, i) = a.base + LinearOffset(c, a.strides)
<1> DEFINE shape == a.shape
           i == LinearOffset(c, RowMajor(shape))
<1>1. shape \in Seq(Nat) /\ a.size = Count(shape) /\ a.size < WordSize
  BY ExactTakes DEF Sound, Exact
<1>2. c \in Box(shape)
  OBVIOUS
<1>d. Offset(a, i) = a.base + FlatToOffset(i, a.strides, InnerVolumes(shape))
  BY DEF Offset
<1> HIDE DEF shape
<1>3. i \in 0 .. Count(shape) - 1 /\ Count(shape) \in Nat
  BY <1>1, <1>2, RowMajorStrides
<1>4. InnerVolumes(shape) = RowMajor(shape)
  BY <1>1, <1>3, VolumesAreStrides
<1>5. PICK d \in Box(shape) : /\ LinearOffset(d, RowMajor(shape)) = i
                              /\ \A s : FlatToOffset(i, s, InnerVolumes(shape)) = LinearOffset(d, s)
  BY <1>1, <1>3, RowMajorStrides
<1>6. d = c
  BY <1>1, <1>2, <1>5, RowMajorStrides
<1> QED
  BY <1>1, <1>3, <1>4, <1>5, <1>6, <1>d DEF shape

\* The only list of the one axis of an array.
LEMMA OneListed ==
    ASSUME NEW a, DOMAIN a.shape = 1 .. 1, NEW axes, 1 \in axes
    PROVE  AxesOf(a, axes) = <<1>>
<1> DEFINE kept == AxesOf(a, axes)
           n == 1
<1>1. Lists(kept, (1 .. n) \cap axes)
  <2>1. n \in Nat /\ DOMAIN a.shape = 1 .. n
    OBVIOUS
  <2> HIDE DEF n
  <2> QED
    BY <2>1, AxesListed
<1>2. (1 .. n) \cap axes = {1}
  OBVIOUS
<1> HIDE DEF kept, n
<1>3. /\ kept \in Seq(Int) /\ \A j \in 1 .. Len(kept) : kept[j] = 1
      /\ \E j \in 1 .. Len(kept) : kept[j] = 1
      /\ \A i, j \in 1 .. Len(kept) : kept[i] = kept[j] => i = j
  BY <1>1, <1>2 DEF Lists
<1>4. Len(kept) \in Nat /\ DOMAIN kept = 1 .. Len(kept)
  BY <1>3, LenProperties
<1>5. Len(kept) = 1
  <2>1. 1 \in 1 .. Len(kept)
    BY <1>3, <1>4
  <2>2. Len(kept) \in 1 .. Len(kept)
    BY <1>4, <2>1
  <2> QED
    BY <1>3, <2>1, <2>2
<1>6. kept = <<1>>
  BY <1>3, <1>4, <1>5
<1> QED
  BY <1>6 DEF kept

\* On a 1-D array a slice is a key that names its axis.
LEMMA OneItem ==
    ASSUME NEW a, Len(a.shape) = 1, DOMAIN a.shape = 1 .. 1, NEW s \in SliceItems
    PROVE  /\ CanIndex(a, <<s>>)
           /\ DOMAIN Specs(a, <<s>>) = 1 .. 1
           /\ Specs(a, <<s>>)[1] = AdjustSlice(s, a.shape[1])
<1> DEFINE key == <<s>>
<1>1. s.kind = "slice" /\ s # Ellipsis /\ DOMAIN key = 1 .. 1 /\ key[1] = s
  BY DEF SliceItems, Ellipsis
<1>2. {k \in DOMAIN key : key[k] = Ellipsis} = {} /\ {k \in DOMAIN key : key[k] # Ellipsis} = {1}
  BY <1>1
<1>3. Cardinality({1}) = 1 /\ Cardinality({}) = 0
  BY FS_Singleton, FS_EmptySet
<1>4. Named(key) = 1
  BY <1>2, <1>3 DEF Named
<1>5. SelectInSeq(key, LAMBDA it : it = Ellipsis) = 0
  BY <1>1 DEF SelectInSeq
<1> DEFINE fill == [k \in 1 .. Len(a.shape) - Named(key) |-> FullAxis]
<1>6. fill = <<>>
  <2>1. 1 .. Len(a.shape) - Named(key) = {}
    BY <1>4
  <2> QED
    BY <2>1
<1>7. Items(a, key) = key \o fill
  BY <1>5 DEF Items
<1>8. key \in Seq({s}) /\ key \o <<>> = key
  OBVIOUS
<1>9. Items(a, key) = key
  BY <1>6, <1>7, <1>8
<1> HIDE DEF key, fill
<1>10. CanIndex(a, key)
  <2>1. \A k \in DOMAIN a.shape : Items(a, key)[k].kind # "int"
    BY <1>1, <1>9
  <2>2. Cardinality({k \in DOMAIN key : key[k] = Ellipsis}) <= 1
    BY <1>2, <1>3
  <2> QED
    BY <1>4, <2>1, <2>2 DEF CanIndex
<1>11. DOMAIN Specs(a, key) = 1 .. 1 /\ Specs(a, key)[1] = AdjustSlice(s, a.shape[1])
  BY <1>1, <1>9 DEF Specs
<1> QED
  BY <1>10, <1>11 DEF key

\* a[s] of a 1-D array is one window, whether the key is read as a slice or as a
\* tuple of one item.
LEMMA OneAxisSlice ==
    ASSUME NEW a, NEW cells, Sound(a, cells), Len(a.shape) = 1, NEW s \in SliceItems
    PROVE  LET r == AdjustSlice(s, a.size)
           IN  SliceNd(a, Specs(a, <<s>>)) = ViewStrided(a, r.start, r.len, r.step)
<1> DEFINE d == a.shape[1]
           t == a.strides[1]
           specs == Specs(a, <<s>>)
           r == AdjustSlice(s, d)
<1>1. a.size = Count(a.shape) /\ a.size < WordSize
  BY DEF Sound, Exact
<1>2. DOMAIN a.shape = 1 .. 1 /\ a.shape \in Seq(Nat) /\ a.strides \in Seq(Int)
      /\ DOMAIN a.strides = 1 .. 1
  BY ExactTakes DEF Sound
<1>3. d \in Nat /\ t \in Int
  BY <1>2
<1>4. a.size = d
  BY <1>1, <1>2, <1>3, CountOne
<1>5. DOMAIN specs = 1 .. 1 /\ specs[1] = r
  BY <1>2, OneItem
<1> HIDE DEF d
<1>6. Inside(r, d) /\ r.kind = "slice"
  BY <1>3, AdjustInside
<1> HIDE DEF r, specs, t
<1>7. r.start \in Int /\ r.step \in Int /\ r.len \in Nat /\ r.len < WordSize
  <2>1. r.start \in Int /\ r.step \in Int /\ r.len \in Nat /\ r.len <= d
    BY <1>6 DEF Inside
  <2> QED
    BY <1>1, <1>3, <1>4, <2>1, WordSizeAssumption
<1> DEFINE axes == {k \in DOMAIN specs : specs[k].kind = "slice"}
           kept == AxesOf(a, axes)
<1>8. kept = <<1>>
  <2>1. 1 \in axes
    BY <1>5, <1>6
  <2> HIDE DEF axes
  <2> QED
    BY <1>2, <2>1, OneListed
<1> HIDE DEF axes
<1>9. SliceBase(a, specs) = r.start * t
  <2> DEFINE first == <<r.start>>
             terms == [k \in 1 .. 1 |-> r.start * t]
  <2>1. [k \in DOMAIN specs |->
           (IF specs[k].kind = "int" THEN specs[k].index ELSE specs[k].start) * a.strides[k]]
          = [k \in 1 .. 1 |-> first[k] * a.strides[k]]
    BY <1>5, <1>6 DEF t
  <2>2. SliceBase(a, specs) = SumOf([k \in 1 .. 1 |-> first[k] * a.strides[k]])
    BY <2>1 DEF SliceBase
  <2>3. DOMAIN first = 1 .. 1 /\ first[1] = r.start
    OBVIOUS
  <2> HIDE DEF first
  <2>4. SliceBase(a, specs) = LinearOffset(first, a.strides)
    BY <2>2, <2>3 DEF LinearOffset
  <2>5. LinearOffset(first, a.strides) = first[1] * a.strides[1]
    BY <1>3, <1>7, <2>3, OffsetOne DEF t
  <2> QED
    BY <2>3, <2>4, <2>5 DEF t
<1>10. Product(<<r.len>>) = r.len
  <2> DEFINE one == <<r.len>>
  <2>1. one \in Seq(Nat) /\ DOMAIN one = 1 .. 1 /\ one[1] = r.len
    BY <1>7
  <2> HIDE DEF one
  <2>2. Count(one) = r.len
    BY <1>7, <2>1, CountOne
  <2> QED
    BY <1>7, <2>1, <2>2, ProductExact DEF one
<1>11. /\ [j \in DOMAIN kept |-> specs[kept[j]].len] = <<r.len>>
       /\ [j \in DOMAIN kept |-> a.strides[kept[j]] * specs[kept[j]].step] = <<t * r.step>>
  BY <1>5, <1>8 DEF t
<1>12. kept # <<>>
  BY <1>8
<1>13. SliceNd(a, specs) = Layout(a.base + r.start * t, <<r.len>>, <<t * r.step>>, r.len)
  BY <1>9, <1>10, <1>11, <1>12 DEF SliceNd, axes
<1>14. ViewStrided(a, r.start, r.len, r.step)
         = Layout(a.base + r.start * t, <<r.len>>, <<t * r.step>>, r.len)
  BY DEF ViewStrided, t
<1> QED
  BY <1>4, <1>13, <1>14 DEF r, specs

\* a[i] of a 1-D array addresses its i-th element.
LEMMA OneAxisItem ==
    ASSUME NEW a, NEW cells, Sound(a, cells), Len(a.shape) = 1, NEW i \in 0 .. a.size - 1
    PROVE  ItemOffset(a, i) = Offset(a, i)
<1> DEFINE c == [k \in 1 .. 1 |-> i]
           w == InnerVolumes(a.shape)
<1>1. a.size = Count(a.shape) /\ a.size < WordSize /\ a.size \in Nat
  BY ExactTakes DEF Sound, Exact
<1>2. DOMAIN a.shape = 1 .. 1 /\ a.shape \in Seq(Nat) /\ a.strides \in Seq(Int)
      /\ DOMAIN a.strides = 1 .. 1
  BY ExactTakes DEF Sound
<1>3. a.size = a.shape[1]
  BY <1>1, <1>2, CountOne
<1>4. c \in Box(a.shape) /\ c[1] = i /\ DOMAIN c = 1 .. 1 /\ i \in Int
  BY <1>1, <1>2, <1>3 DEF Box
<1> HIDE DEF c
<1>5. w[1] = 1
  <2>1. w[1] = Product(SubSeq(a.shape, 2, 1))
    BY <1>2 DEF InnerVolumes
  <2>2. SubSeq(a.shape, 2, 1) = <<>>
    BY <1>2
  <2>3. <<>> \in Seq(Nat) /\ Count(<<>>) = 1
    <3>1. Base("product") = 1 /\ "product" \in Monoidal
      BY DEF Base, Monoidal
    <3> QED
      BY <3>1, FoldNone, CountFolds
  <2>4. 1 < WordSize
    BY <1>1, WordSizeAssumption
  <2>5. Product(<<>>) = 1
    <3>1. Count(<<>>) < WordSize
      BY <2>3, <2>4
    <3> QED
      BY <2>3, <3>1, ProductExact
  <2> QED
    BY <2>1, <2>2, <2>5
<1>6. LinearOffset(c, w) = i
  BY <1>4, <1>5, OffsetOne
<1>7. LinearOffset(c, a.strides) = i * a.strides[1]
  BY <1>2, <1>4, OffsetOne
<1>8. Offset(a, LinearOffset(c, w)) = a.base + LinearOffset(c, a.strides)
  BY <1>4, RavelReads
<1> QED
  BY <1>6, <1>7, <1>8 DEF ItemOffset

-----------------------------------------------------------------------------
(* The array that getitem and to_numpy show, and NumPy's *)

\* NumpyArray's operators on multi-indices are those of IndexOrder, of which
\* both modules have a copy.
LEMMA SameOrders ==
    /\ \A s : Numpy!RowMajorOrder(s) = RowMajorOrder(s)
    /\ \A s : Numpy!Indices(s) = Indices(s)
    /\ \A s : Numpy!ToSet(s) = ToSet(s)
<1>1. \A s : Numpy!ToSet(s) = ToSet(s)
  BY DEF ToSet, Numpy!ToSet
<1>2. \A s : Numpy!FlattenSeq(s) = FlattenSeq(s)
  BY DEF FlattenSeq, Numpy!FlattenSeq
<1>3. \A s : Numpy!RowMajorOrder(s) = RowMajorOrder(s)
  BY <1>2 DEF RowMajorOrder, Numpy!RowMajorOrder, FoldRight, Numpy!FoldRight,
     MapThenFoldSet, Numpy!MapThenFoldSet, Min, Numpy!Min
<1>4. \A s : Numpy!Indices(s) = Indices(s)
  BY <1>1, <1>3 DEF Indices, Numpy!Indices
<1> QED
  BY <1>1, <1>3, <1>4

\* And so are its operators on sets and sequences.
LEMMA SameSets ==
    /\ \A S : Numpy!Cardinality(S) = Cardinality(S)
    /\ \A S : Numpy!Max(S) = Max(S)
    /\ \A S : Numpy!Min(S) = Min(S)
    /\ \A s : Numpy!Reverse(s) = Reverse(s)
<1>1. \A S : Numpy!Cardinality(S) = Cardinality(S)
  BY DEF Cardinality, Numpy!Cardinality
<1>2. \A S : Numpy!Max(S) = Max(S)
  BY DEF Max, Numpy!Max
<1>3. \A S : Numpy!Min(S) = Min(S)
  BY DEF Min, Numpy!Min
<1>4. \A s : Numpy!Reverse(s) = Reverse(s)
  BY DEF Reverse, Numpy!Reverse
<1> QED
  BY <1>1, <1>2, <1>3, <1>4

\* Where element ix of a is.
ElemAt(a, ix) == a.base + LinearOffset(ix, a.strides)

\* The elements of a, of memory m.
Elem(a, m) == [ix \in Box(a.shape) |-> m[ElemAt(a, ix)]]

\* Under the invariant the refinement mapping shows these elements.
LEMMA ElemNow ==
    ASSUME IInv
    PROVE  [ix \in Indices(arr.shape) |-> Cell(arr.base + LinearOffset(ix, arr.strides))]
             = Elem(arr, mem)
<1>1. arr.shape \in Seq(Nat) /\ Reach(arr, DOMAIN mem)
  BY ExactTakes DEF IInv, Sound
<1>2. Indices(arr.shape) = Box(arr.shape)
  BY <1>1, OrderIs
<1>3. ASSUME NEW ix \in Box(arr.shape)
      PROVE  Cell(arr.base + LinearOffset(ix, arr.strides)) = mem[ElemAt(arr, ix)]
  BY <1>1 DEF Cell, Reach, ElemAt
<1> QED
  BY <1>2, <1>3 DEF Elem

\* The same after a step.
LEMMA ElemNext ==
    ASSUME IInv'
    PROVE  [ix \in Indices(arr.shape) |-> Cell(arr.base + LinearOffset(ix, arr.strides))]'
             = Elem(arr', mem')
<1>1. arr'.shape \in Seq(Nat) /\ Reach(arr', DOMAIN mem')
  BY ExactTakes DEF IInv, Sound
<1>2. Indices(arr'.shape) = Box(arr'.shape)
  BY <1>1, OrderIs
<1>3. ASSUME NEW ix \in Box(arr'.shape)
      PROVE  Cell(arr.base + LinearOffset(ix, arr.strides))' = mem'[ElemAt(arr', ix)]
  BY <1>1 DEF Cell, Reach, ElemAt
<1> QED
  BY <1>2, <1>3 DEF Elem

\* Element i in row-major order.
LEMMA ElemFlat ==
    ASSUME NEW a, NEW m, Sound(a, DOMAIN m), NEW i \in 1 .. a.size
    PROVE  /\ RowMajorOrder(a.shape)[i] \in Box(a.shape)
           /\ Elem(a, m)[RowMajorOrder(a.shape)[i]] = m[Offset(a, i - 1)]
<1> DEFINE shape == a.shape
           ix == RowMajorOrder(shape)[i]
<1>1. shape \in Seq(Nat) /\ a.size = Count(shape) /\ a.size < WordSize
  BY ExactTakes DEF Sound, Exact
<1>d. Offset(a, i - 1) = a.base + FlatToOffset(i - 1, a.strides, InnerVolumes(shape))
  BY DEF Offset
<1>e. Elem(a, m) = [jx \in Box(shape) |-> m[ElemAt(a, jx)]]
  BY DEF Elem
<1> HIDE DEF shape
<1>2. ix \in Box(shape)
      /\ FlatToOffset(i - 1, a.strides, InnerVolumes(shape)) = LinearOffset(ix, a.strides)
  BY <1>1, Visits
<1> HIDE DEF ix
<1>3. Elem(a, m)[ix] = m[Offset(a, i - 1)]
  BY <1>2, <1>d, <1>e DEF ElemAt
<1> QED
  BY <1>2, <1>3 DEF shape, ix

\* Two arrays of the same elements in row-major order.
Matches(b, m, a, l) ==
    /\ b.size = a.size
    /\ \A i \in 1 .. a.size : m[Offset(b, i - 1)] = l[Offset(a, i - 1)]

\* That is what NumpyArray asks of reshape and of unit axes.
LEMMA MatchOrder ==
    ASSUME IInv, IInv', Matches(arr', mem', arr, mem)
    PROVE  Numpy!SameOrder
<1> DEFINE old == RowMajorOrder(arr.shape)
           new == RowMajorOrder(arr'.shape)
           was == [ix \in Indices(arr.shape) |-> Cell(arr.base + LinearOffset(ix, arr.strides))]
           now == was'
<1>1. was = Elem(arr, mem) /\ now = Elem(arr', mem')
  BY ElemNow, ElemNext
<1>2. Sound(arr, DOMAIN mem) /\ Sound(arr', DOMAIN mem')
  BY DEF IInv
<1>3. /\ arr.shape \in Seq(Nat) /\ arr'.shape \in Seq(Nat)
      /\ arr.size = Count(arr.shape) /\ arr'.size = Count(arr'.shape)
  BY <1>2, ExactTakes DEF Sound, Exact
<1>4. /\ Len(old) = arr.size /\ DOMAIN new = 1 .. arr'.size /\ Len(new) = arr'.size
      /\ Indices(arr'.shape) = Box(arr'.shape)
  BY <1>3, OrderIs DEF Ordered
<1>5. arr'.size = arr.size
  BY DEF Matches
<1>6. DOMAIN now = ToSet(new)
  <2>1. DOMAIN now = Box(arr'.shape)
    BY <1>1 DEF Elem
  <2> QED
    BY <1>4, <2>1 DEF Indices
<1>7. ASSUME NEW i \in DOMAIN new PROVE now[new[i]] = was[old[i]]
  <2>1. i \in 1 .. arr.size /\ i \in 1 .. arr'.size
    BY <1>4, <1>5
  <2>2. Elem(arr, mem)[old[i]] = mem[Offset(arr, i - 1)]
    BY <1>2, <2>1, ElemFlat
  <2>3. Elem(arr', mem')[new[i]] = mem'[Offset(arr', i - 1)]
    BY <1>2, <2>1, ElemFlat
  <2>4. mem'[Offset(arr', i - 1)] = mem[Offset(arr, i - 1)]
    BY <2>1 DEF Matches
  <2> QED
    BY <1>1, <2>2, <2>3, <2>4
<1>8. /\ Numpy!RowMajorOrder(arr.shape) = old /\ Numpy!RowMajorOrder(arr'.shape) = new
      /\ Numpy!ToSet(new) = ToSet(new)
  BY SameOrders
<1> HIDE DEF old, new
<1> QED
  BY <1>4, <1>5, <1>6, <1>7, <1>8 DEF Numpy!SameOrder

\* Of one shape, they are one array.
LEMMA MatchSame ==
    ASSUME NEW a, NEW l, Sound(a, DOMAIN l), NEW b, NEW m, Sound(b, DOMAIN m),
           b.shape = a.shape, Matches(b, m, a, l)
    PROVE  Elem(b, m) = Elem(a, l)
<1>1. ASSUME NEW ix \in Box(a.shape) PROVE m[ElemAt(b, ix)] = l[ElemAt(a, ix)]
  <2> DEFINE i == LinearOffset(ix, InnerVolumes(a.shape))
  <2>1. ix \in Box(b.shape) /\ i = LinearOffset(ix, InnerVolumes(b.shape))
    OBVIOUS
  <2>2. i \in 0 .. a.size - 1 /\ Offset(a, i) = ElemAt(a, ix)
    BY RavelReads DEF ElemAt
  <2>3. Offset(b, i) = ElemAt(b, ix)
    BY <2>1, RavelReads DEF ElemAt
  <2> HIDE DEF i
  <2>4. a.size \in Nat
    BY ExactTakes DEF Sound
  <2>5. i + 1 \in 1 .. a.size /\ (i + 1) - 1 = i
    BY <2>2, <2>4
  <2> QED
    BY <2>2, <2>3, <2>5 DEF Matches
<1> QED
  BY <1>1 DEF Elem

\* A copy has the elements of its source, in the same order.
LEMMA CopyMatches ==
    ASSUME IInv, NEW shape \in Seq(Nat), Count(shape) = arr.size,
           NEW a, a = Layout(0, shape, RowMajor(shape), Count(shape)), Copied(a)
    PROVE  Matches(arr', mem', arr, mem)
<1>1. Sound(arr, DOMAIN mem) /\ arr.size < WordSize /\ arr.size \in Nat /\ arr.base \in Int
  BY ExactTakes DEF IInv, Sound, Exact
<1>2. arr' = a /\ mem' = Gathered(arr)
  BY DEF Copied
<1>3. /\ RowMajor(shape) \in Seq(Int) /\ Count(shape) \in Nat
  BY RowMajorStrides
<1>4. a.base = 0 /\ a.shape = shape /\ a.strides = RowMajor(shape) /\ a.size = Count(shape)
  BY <1>3, LayoutTakes
<1>5. ASSUME NEW i \in 1 .. arr.size PROVE mem'[Offset(arr', i - 1)] = mem[Offset(arr, i - 1)]
  <2> DEFINE j == i - 1
  <2>1. j \in 0 .. arr.size - 1 /\ j \in Int
    BY <1>1
  <2>2. FlatToOffset(j, RowMajor(shape), InnerVolumes(shape)) = j
    <3>1. i \in 1 .. Count(shape) /\ Count(shape) < WordSize
      BY <1>1
    <3> QED
      BY <3>1, Visits
  <2>3. Offset(a, j) = 0 + FlatToOffset(j, RowMajor(shape), InnerVolumes(shape))
    BY <1>4 DEF Offset
  <2>4. Offset(arr, j) \in DOMAIN mem /\ (IsContiguous(arr) => Offset(arr, j) = arr.base + j)
    BY <1>1, <2>1, SoundMeans
  <2> HIDE DEF j
  <2>5. Offset(arr', j) = j
    BY <1>2, <2>1, <2>2, <2>3
  <2>6. mem'[j] = IF IsContiguous(arr) THEN Cell(arr.base + j) ELSE Cell(Offset(arr, j))
    BY <1>2, <2>1 DEF Gathered
  <2>7. mem'[j] = mem[Offset(arr, j)]
    BY <2>4, <2>6 DEF Cell
  <2> QED
    BY <2>5, <2>7 DEF j
<1> QED
  BY <1>2, <1>4, <1>5 DEF Matches

\* A zero-copy result has the elements of the layout it was computed as.
LEMMA ViewShows ==
    ASSUME NEW a, Sound(a, DOMAIN mem), View(a)
    PROVE  /\ arr'.shape = a.shape /\ arr'.size = a.size
           /\ Elem(arr', mem') = Elem(a, mem)
           /\ Matches(arr', mem', a, mem)
<1>1. mem' = mem /\ arr' = IF DOMAIN mem = {} THEN [a EXCEPT !.base = 0] ELSE a
  BY DEF View
<1>2. CASE DOMAIN mem = {}
  <2>1. a \in Layouts /\ Reach(a, {}) /\ a.size \in Nat
    BY <1>2, ExactTakes DEF Sound, Exact
  <2>2. arr'.shape = a.shape /\ arr'.size = a.size
    BY <1>1, <1>2, <2>1 DEF Layouts
  <2>3. Box(a.shape) = {}
    BY <2>1 DEF Reach
  <2>4. 1 .. a.size = {}
    <3> SUFFICES ASSUME NEW i \in 1 .. a.size PROVE FALSE
      OBVIOUS
    <3>1. i - 1 \in 0 .. a.size - 1
      BY <2>1
    <3>2. Offset(a, i - 1) \in DOMAIN mem
      BY <3>1, SoundMeans
    <3> QED
      BY <1>2, <3>2
  <2>5. Elem(arr', mem') = Elem(a, mem)
    BY <2>2, <2>3 DEF Elem
  <2> QED
    BY <2>2, <2>4, <2>5 DEF Matches
<1>3. CASE DOMAIN mem # {}
  BY <1>1, <1>3 DEF Matches
<1> QED
  BY <1>2, <1>3

\* From one array to another by way of a layout.
LEMMA MatchTrans ==
    ASSUME NEW a, NEW b, NEW c, NEW l, NEW m, NEW o, Matches(c, o, b, m), Matches(b, m, a, l)
    PROVE  Matches(c, o, a, l)
  BY DEF Matches

\* copy() is NumPy's.
LEMMA CopyRefines ==
    ASSUME NoWrap, IInv, IInv', copies \in Nat, Answers(<<"copy">>, DoCopy)
    PROVE  Numpy!Copy
<1> DEFINE shape == arr.shape
           was == [ix \in Indices(arr.shape) |-> Cell(arr.base + LinearOffset(ix, arr.strides))]
<1>1. shape \in Seq(Nat) /\ arr.size = Count(shape) /\ arr.size < WordSize
  BY ExactTakes DEF IInv, Sound, Exact
<1>2. Product(shape) = Count(shape)
  BY <1>1, ProductExact
<1>3. Copied(Layout(0, shape, RowMajor(shape), Count(shape)))
  BY <1>2 DEF DoCopy, Fresh, Answers
<1>4. Matches(arr', mem', arr, mem)
  BY <1>1, <1>3, CopyMatches
<1>5. arr'.shape = arr.shape /\ copies' = copies + 1
  BY <1>3 DEF Copied, Layout
<1>6. Elem(arr', mem') = Elem(arr, mem)
  BY <1>4, <1>5, MatchSame DEF IInv
<1>7. was' = was
  BY <1>6, ElemNow, ElemNext
<1>8. (copies' = 0) = FALSE
  BY <1>5
<1> QED
  BY <1>5, <1>7, <1>8 DEF Numpy!Copy, Numpy!Answer, Answers

-----------------------------------------------------------------------------
(* Reshape and transpose are NumPy's *)

\* reshape and ravel, as a view and as a copy, move no element and give the
\* inferred extents.
LEMMA ReshapeMoves ==
    ASSUME NoWrap, IInv, IInv', copies \in Nat, NEW request \in Requests \cup {<<arr.size>>},
           DoReshape(request)
    PROVE  /\ Numpy!SameOrder
           /\ (copies' = 0) \in {copies = 0, FALSE}
           /\ arr'.shape = Inferred(arr, request) /\ arr'.shape \in Seq(Nat)
<1>1. /\ CanReshape(arr, request)
      /\ IF IsContiguous(arr) THEN View(Reshaped(arr.base, arr, request))
                              ELSE Copied(Reshaped(0, arr, request))
  BY DEF DoReshape
<1> DEFINE shape == Inferred(arr, request)
           a == Layout(arr.base, shape, RowMajor(shape), Count(shape))
<1>2. Sound(arr, DOMAIN mem) /\ Exact(arr)
  BY DEF IInv, Sound
<1>3. arr.size \in Nat /\ arr.size < WordSize /\ arr.base \in Int
  BY <1>2, ExactTakes DEF Exact
<1>4. shape \in Seq(Nat) /\ Count(shape) = arr.size
  BY <1>1, <1>2, RequestTakes
<1>5. \A base : Reshaped(base, arr, request) = Layout(base, shape, RowMajor(shape), arr.size)
  BY DEF Reshaped
<1>s. shape = Inferred(arr, request)
  OBVIOUS
<1> HIDE DEF shape
<1>6. CASE IsContiguous(arr)
  <2>1. \A i \in 0 .. arr.size - 1 : Offset(arr, i) = arr.base + i /\ Offset(arr, i) \in DOMAIN mem
    BY <1>2, <1>6, SoundMeans
  <2>2. Sound(a, DOMAIN mem)
    <3>1. Room(arr.base, Count(shape), DOMAIN mem)
      BY <1>4, <2>1 DEF Room
    <3> QED
      BY <1>3, <1>4, <3>1, RowMajorSound
  <2>3. View(a)
    BY <1>1, <1>4, <1>5, <1>6
  <2>4. a.base = arr.base /\ a.shape = shape /\ a.strides = RowMajor(shape) /\ a.size = arr.size
    BY <1>3, <1>4, RowMajorStrides, LayoutTakes
  <2>5. ASSUME NEW i \in 1 .. arr.size PROVE Offset(a, i - 1) = Offset(arr, i - 1)
    <3>1. i \in 1 .. Count(shape) /\ Count(shape) < WordSize
      BY <1>3, <1>4
    <3>2. FlatToOffset(i - 1, RowMajor(shape), InnerVolumes(shape)) = i - 1
      BY <1>4, <3>1, Visits
    <3>3. Offset(a, i - 1) = arr.base + (i - 1)
      BY <2>4, <3>2 DEF Offset
    <3>4. i - 1 \in 0 .. arr.size - 1
      BY <1>3
    <3> QED
      BY <2>1, <3>3, <3>4
  <2> HIDE DEF a
  <2>6. Matches(a, mem, arr, mem)
    BY <2>4, <2>5 DEF Matches
  <2>7. Matches(arr', mem', arr, mem)
    BY <2>2, <2>3, <2>6, ViewShows, MatchTrans
  <2>8. Numpy!SameOrder
    BY <2>7, MatchOrder
  <2>9. copies' = copies /\ arr'.shape = shape
    BY <2>2, <2>3, <2>4, ViewShows DEF View
  <2> QED
    BY <1>4, <1>s, <2>8, <2>9
<1>7. CASE ~IsContiguous(arr)
  <2> DEFINE b == Layout(0, shape, RowMajor(shape), Count(shape))
  <2>1. Copied(b)
    BY <1>1, <1>4, <1>5, <1>7
  <2>2. Matches(arr', mem', arr, mem)
    BY <1>4, <2>1, CopyMatches
  <2>3. Numpy!SameOrder
    BY <2>2, MatchOrder
  <2>4. copies' = copies + 1 /\ arr'.shape = shape
    BY <2>1 DEF Copied, Layout
  <2>5. (copies' = 0) = FALSE
    BY <2>4
  <2> QED
    BY <1>4, <1>s, <2>3, <2>4, <2>5
<1> QED
  BY <1>6, <1>7

\* reshape is NumPy's.
LEMMA ReshapeRefines ==
    ASSUME NoWrap, IInv, IInv', copies \in Nat, NEW request \in Requests,
           Answers(<<"reshape", request>>, DoReshape(request))
    PROVE  Numpy!Reshape(request)
<1>1. DoReshape(request) /\ asked = <<>> /\ asked' = <<"reshape", request>>
  BY DEF Answers
<1>2. /\ Numpy!SameOrder /\ (copies' = 0) \in {copies = 0, FALSE}
      /\ arr'.shape = Inferred(arr, request) /\ arr'.shape \in Seq(Nat)
  BY <1>1, ReshapeMoves
<1>3. DOMAIN arr'.shape = DOMAIN request
      /\ \A k \in DOMAIN request : request[k] # -1 => arr'.shape[k] = request[k]
  BY <1>2 DEF Inferred
<1>4. Len(arr'.shape) = Len(request)
  <2> DEFINE q == request
             t == arr'.shape
  <2>1. q \in Seq(Int) /\ t \in Seq(Nat) /\ DOMAIN t = DOMAIN q
    BY <1>2, <1>3, ArgumentsAssumption
  <2> HIDE DEF q, t
  <2>2. DOMAIN q = 1 .. Len(q) /\ DOMAIN t = 1 .. Len(t) /\ Len(q) \in Nat /\ Len(t) \in Nat
    BY <2>1, LenProperties
  <2>3. Len(t) = Len(q)
    BY <2>1, <2>2
  <2> QED
    BY <2>3 DEF q, t
<1> QED
  BY <1>1, <1>2, <1>3, <1>4 DEF Numpy!Reshape, Numpy!Answer

\* ravel is NumPy's.
LEMMA RavelRefines ==
    ASSUME NoWrap, IInv, IInv', copies \in Nat, Answers(<<"ravel">>, DoRavel)
    PROVE  Numpy!Ravel
<1>1. DoReshape(<<arr.size>>) /\ asked = <<>> /\ asked' = <<"ravel">>
  BY DEF Answers, DoRavel
<1>2. /\ Numpy!SameOrder /\ (copies' = 0) \in {copies = 0, FALSE}
      /\ arr'.shape = Inferred(arr, <<arr.size>>) /\ arr'.shape \in Seq(Nat)
  BY <1>1, ReshapeMoves
<1>3. Len(arr'.shape) = 1
  <2> DEFINE t == arr'.shape
  <2>1. t \in Seq(Nat) /\ DOMAIN t = 1 .. 1
    BY <1>2 DEF Inferred
  <2> HIDE DEF t
  <2>2. Len(t) = 1
    BY <2>1
  <2> QED
    BY <2>2 DEF t
<1> QED
  BY <1>1, <1>2, <1>3 DEF Numpy!Ravel, Numpy!Answer

\* The index in a of element ix of a transposed by axes.
Unpermuted(a, axes, ix) == [k \in DOMAIN a.shape |-> ix[CHOOSE j \in DOMAIN axes : axes[j] = k]]

\* Element ix of a transposed array is the array's element of the permuted index.
LEMMA TransposeSource ==
    ASSUME NEW a, NEW cells, Sound(a, cells), NEW axes, DOMAIN axes = 1 .. Len(a.shape),
           ToSet(axes) = DOMAIN a.shape, NEW ix \in Box(Transpose(a, axes).shape)
    PROVE  /\ Unpermuted(a, axes, ix) \in Box(a.shape)
           /\ ElemAt(Transpose(a, axes), ix) = ElemAt(a, Unpermuted(a, axes, ix))
<1> DEFINE n == Len(a.shape)
           S == 1 .. n
           b == Transpose(a, axes)
           inv(k) == CHOOSE j \in DOMAIN axes : axes[j] = k
           jx == [k \in DOMAIN a.shape |-> ix[inv(k)]]
           p == [k \in S |-> axes[k]]
           from == [k \in S |-> 0]
           step == [j \in S |-> 1]
<1>1. Exact(a) /\ Sound(b, cells) /\ Exact(b)
  BY TransposeSound DEF Sound
<1>2. /\ n \in Nat /\ DOMAIN a.shape = S /\ a.shape \in Seq(Nat) /\ IntsOn(S, a.strides)
      /\ a.base \in Int
  BY <1>1, ExactTakes
<1>3. b.shape \in Seq(Nat)
  BY <1>1, ExactTakes
<1>4. /\ b.base = a.base /\ b.shape = [k \in S |-> a.shape[axes[k]]]
      /\ b.strides = [k \in S |-> a.strides[axes[k]]]
  BY DEF Transpose, Layout
<1>5. Len(b.shape) = n
  BY <1>2, <1>3, <1>4, LenProperties
<1>6. /\ \A k \in S : axes[k] \in S
      /\ \A k \in S : inv(k) \in S /\ axes[inv(k)] = k
  <2>1. \A k \in S : axes[k] \in S
    BY <1>2 DEF ToSet
  <2>2. \A k \in S : \E j \in S : axes[j] = k
    BY <1>2 DEF ToSet
  <2> QED
    BY <2>1, <2>2
<1>7. \A i, j \in S : axes[i] = axes[j] => i = j
  <2>1. p \in Surjection(S, S)
    BY <1>6 DEF Surjection
  <2>2. IsFiniteSet(S)
    <3> HIDE DEF n
    <3> QED
      BY <1>2, FS_Interval
  <2>3. p \in Injection(S, S)
    <3> HIDE DEF S, p
    <3> QED
      BY <2>1, <2>2, FS_SurjSameCardinalityImpliesInj
  <2> QED
    BY <2>3 DEF Injection, IsInjective
<1>8. \A k \in S : ix[k] \in Nat /\ ix[k] < a.shape[axes[k]]
  BY <1>3, <1>4, <1>5, BoxTakes
<1>9. jx \in Box(a.shape)
  <2>1. \A k \in S : jx[k] = ix[inv(k)] /\ jx[k] \in Nat /\ jx[k] < a.shape[k]
    BY <1>2, <1>6, <1>8
  <2>2. jx \in [S -> Nat]
    BY <1>2, <2>1
  <2> HIDE DEF jx
  <2> QED
    BY <2>1, <2>2 DEF Box
<1>10. \A j \in S : jx[axes[j]] = ix[j]
  <2>1. \A j \in S : inv(axes[j]) = j
    BY <1>6, <1>7
  <2> QED
    BY <1>2, <1>6, <2>1
<1>11. Image(p, n) = S
  <2>1. \A j \in S : p[j] \in S
    BY <1>6
  <2>2. \A k \in S : \E j \in S : k = p[j]
    BY <1>6
  <2> HIDE DEF p, inv
  <2> QED
    BY <2>1, <2>2 DEF Image
<1> HIDE DEF inv, jx, b, n
<1>12. Places(p, n, n) /\ p \in [S -> S]
  <2>1. \A j \in S : axes[j] \in 0 .. n /\ p[j] = axes[j]
    BY <1>2, <1>6
  <2>2. p \in [S -> 0 .. n] /\ p \in [S -> S]
    BY <1>6, <2>1
  <2> QED
    BY <1>7, <2>1, <2>2 DEF Places
<1>13. LinearOffset(from, a.strides) = 0
  <2>1. DOMAIN from = 1 .. n /\ \A k \in 1 .. n : from[k] = 0
    OBVIOUS
  <2> HIDE DEF from
  <2> QED
    BY <1>2, <2>1, OffsetOfFirst
<1>14. Selects(a, b, p, from, step)
  <2>1. Len(a.shape) = n
    BY DEF n
  <2>2. IntsOn(S, from) /\ IntsOn(S, step) /\ DOMAIN from = S
    BY DEF IntsOn
  <2>3. \A j \in S : step[j] # 0 /\ b.strides[j] = a.strides[p[j]] * step[j]
    <3>1. \A j \in S : a.strides[axes[j]] \in Int
      BY <1>2, <1>6 DEF IntsOn
    <3> QED
      BY <1>4, <3>1
  <2>4. b.base = a.base + LinearOffset(from, a.strides)
    BY <1>2, <1>4, <1>13
  <2> HIDE DEF from, step, p, S
  <2> QED
    BY <1>5, <1>12, <2>1, <2>2, <2>3, <2>4 DEF Selects, S
<1>15. Source(jx, ix, p, n, n, from, step)
  <2>1. \A j \in S : p[j] = axes[j] /\ from[p[j]] = 0 /\ step[j] = 1 /\ ix[j] \in Nat
    BY <1>6, <1>8
  <2> HIDE DEF from, step, p
  <2>2. ASSUME NEW j \in S PROVE jx[p[j]] = from[p[j]] + step[j] * ix[j]
    <3> DEFINE x == ix[j]
    <3>1. x \in Nat /\ jx[p[j]] = x /\ from[p[j]] = 0 /\ step[j] = 1
      BY <1>10, <2>1
    <3> HIDE DEF x
    <3>2. x = 0 + 1 * x
      BY <3>1
    <3> QED
      BY <3>1, <3>2 DEF x
  <2> QED
    BY <1>11, <2>2 DEF Source
<1>16. ix \in Box(b.shape)
  BY DEF b
<1> HIDE DEF p, from, step
<1>17. b.base + LinearOffset(ix, b.strides) = a.base + LinearOffset(jx, a.strides)
  <2>1. Source(jx, ix, p, Len(b.shape), Len(a.shape), from, step)
    BY <1>5, <1>15 DEF n
  <2>2. Exact(a) /\ Exact(b)
    BY <1>1
  <2>3. /\ b.base + LinearOffset(ix, b.strides) = a.base + LinearOffset(jx, a.strides)
        /\ b.base \in Int /\ LinearOffset(ix, b.strides) \in Int
        /\ a.base \in Int /\ LinearOffset(jx, a.strides) \in Int
    BY <1>9, <1>14, <1>16, <2>1, <2>2, SourceOffset
  <2> QED
    BY <2>3
<1> QED
  BY <1>9, <1>17 DEF ElemAt, Unpermuted, jx, inv, b

\* transpose and .T are NumPy's.
LEMMA TransposeRefines ==
    ASSUME NoWrap, IInv, IInv', NEW axes \in Orders,
           Answers(<<"transpose", axes>>, DoTranspose(axes))
    PROVE  Numpy!Transpose(axes)
<1> DEFINE n == Len(arr.shape)
           S == 1 .. n
           was == [ix \in Indices(arr.shape) |-> Cell(arr.base + LinearOffset(ix, arr.strides))]
<1> DEFINE p == IF axes = <<>> THEN [k \in DOMAIN arr.shape |-> Len(arr.shape) + 1 - k] ELSE axes
<1>0. asked = <<>> /\ asked' = <<"transpose", axes>>
  BY DEF Answers
<1>4. p = IF axes = <<>> THEN Reversed(n) ELSE axes
  BY ExactTakes DEF Reversed, IInv, Sound
<1>1. CanTranspose(arr, p) /\ View(Transpose(arr, p))
  BY <1>4 DEF DoTranspose, Answers
<1> DEFINE b == Transpose(arr, p)
           from(ix) == Unpermuted(arr, p, ix)
<1>2. Sound(arr, DOMAIN mem) /\ arr.shape \in Seq(Nat) /\ n \in Nat /\ DOMAIN arr.shape = S
  BY ExactTakes DEF IInv, Sound
<1>3. DOMAIN p = S /\ ToSet(p) = DOMAIN arr.shape
  <2>1. CASE axes = <<>>
    BY <1>1, <2>1 DEF Reversed, CanTranspose
  <2>2. CASE axes # <<>>
    BY <1>1, <1>2, <2>2 DEF Orders, CanTranspose
  <2> QED
    BY <2>1, <2>2
<1> HIDE DEF p
<1>5. Sound(b, DOMAIN mem)
  BY <1>2, <1>3, TransposeSound
<1>6. arr'.shape = b.shape /\ Elem(arr', mem') = Elem(b, mem) /\ copies' = copies
  BY <1>1, <1>5, ViewShows DEF View
<1>7. b.shape = [k \in DOMAIN arr.shape |-> arr.shape[p[k]]]
  BY <1>2, <1>3 DEF Transpose, Layout
<1>8. Indices(arr'.shape) = Box(b.shape)
  <2>1. b.shape \in Seq(Nat)
    BY <1>5, ExactTakes DEF Sound
  <2> QED
    BY <1>6, <2>1, OrderIs
<1>9. ASSUME NEW ix \in Box(b.shape)
      PROVE  from(ix) \in Box(arr.shape) /\ ElemAt(b, ix) = ElemAt(arr, from(ix))
  BY <1>2, <1>3, TransposeSource
<1>10. was = Elem(arr, mem) /\ was' = Elem(arr', mem')
  BY ElemNow, ElemNext
<1> HIDE DEF b, was, from
<1>11. was' = [ix \in Indices(arr'.shape) |-> was[from(ix)]]
  <2>1. \A ix \in Box(b.shape) : mem[ElemAt(b, ix)] = Elem(arr, mem)[from(ix)]
    BY <1>9 DEF Elem
  <2> QED
    BY <1>6, <1>8, <1>10, <2>1 DEF Elem
<1>12. /\ Numpy!Indices(arr'.shape) = Indices(arr'.shape) /\ Numpy!ToSet(p) = ToSet(p)
  BY SameOrders
<1>13. /\ Numpy!ToSet(p) = DOMAIN arr.shape
       /\ arr'.shape = [k \in DOMAIN arr.shape |-> arr.shape[p[k]]]
       /\ was' = [ix \in Numpy!Indices(arr'.shape) |->
                    was[[k \in DOMAIN arr.shape |-> ix[CHOOSE j \in DOMAIN p : p[j] = k]]]]
       /\ (copies' = 0) = (copies = 0)
  BY <1>3, <1>6, <1>7, <1>11, <1>12 DEF from, Unpermuted
<1> HIDE <1>1, <1>2, <1>3
<1> QED
  BY <1>0, <1>13 DEF Numpy!Transpose, Numpy!Answer, was, p

-----------------------------------------------------------------------------
(* Squeeze and expand_dims are NumPy's *)

\* f counts the members of S up.
Climbs(f, n, S) ==
    /\ f \in [1 .. n -> Int]
    /\ \A i, j \in 1 .. n : i < j => f[i] < f[j]
    /\ S = {f[i] : i \in 1 .. n}

\* The first k values of a climb are k.
LEMMA ClimbCounts ==
    ASSUME NEW n \in Nat, NEW f, NEW S, Climbs(f, n, S), NEW k \in 0 .. n
    PROVE  Cardinality({f[i] : i \in 1 .. k}) = k
<1> DEFINE T == {f[i] : i \in 1 .. k}
           g == [i \in 1 .. k |-> f[i]]
<1>1. \A i, j \in 1 .. k : f[i] = f[j] => i = j
  <2> SUFFICES ASSUME NEW i \in 1 .. k, NEW j \in 1 .. k, f[i] = f[j] PROVE i = j
    OBVIOUS
  <2>1. i \in 1 .. n /\ j \in 1 .. n /\ i \in Int /\ j \in Int
    OBVIOUS
  <2>2. f[i] \in Int /\ f[j] \in Int
    BY <2>1 DEF Climbs
  <2>3. ~(i < j) /\ ~(j < i)
    BY <2>1, <2>2 DEF Climbs
  <2> QED
    BY <2>1, <2>3
<1>2. g \in Bijection(1 .. k, T)
  BY <1>1 DEF Bijection, Injection, Surjection, IsInjective
<1> HIDE DEF T, g
<1>3. ExistsBijection(1 .. k, T)
  BY <1>2 DEF ExistsBijection
<1> QED
  BY <1>3, FS_CountingElements DEF T

\* The members of S in ascending order are the climb.
LEMMA AscendingIs ==
    ASSUME NEW n \in Nat, NEW f, NEW S, Climbs(f, n, S)
    PROVE  Numpy!Ascending(S) = f
<1> DEFINE below(p) == {q \in S : q < p}
<1>1. f \in [1 .. n -> Int] /\ S = {f[i] : i \in 1 .. n}
      /\ \A i, j \in 1 .. n : i < j => f[i] < f[j]
  BY DEF Climbs
<1>2. Cardinality(S) = n
  BY <1>1, ClimbCounts
<1>3. ASSUME NEW i \in 1 .. n PROVE Cardinality(below(f[i])) = i - 1
  <2>1. below(f[i]) = {f[j] : j \in 1 .. i - 1}
    <3>1. ASSUME NEW j \in 1 .. n PROVE f[j] < f[i] <=> j \in 1 .. i - 1
      <4>1. f[i] \in Int /\ f[j] \in Int
        BY <1>1
      <4>2. CASE j < i
        BY <1>1, <4>2
      <4>3. CASE j = i
        BY <4>1, <4>3
      <4>4. CASE i < j
        <5>1. f[i] < f[j]
          BY <1>1, <4>4
        <5> QED
          BY <4>1, <4>4, <5>1
      <4> QED
        BY <4>2, <4>3, <4>4
    <3>2. \A j \in 1 .. i - 1 : j \in 1 .. n
      OBVIOUS
    <3> QED
      BY <1>1, <3>1, <3>2
  <2>2. i - 1 \in 0 .. n
    OBVIOUS
  <2> HIDE DEF below
  <2> QED
    BY <2>1, <2>2, ClimbCounts
<1>4. ASSUME NEW i \in 1 .. n
      PROVE  (CHOOSE p \in S : Cardinality(below(p)) = i - 1) = f[i]
  <2>1. f[i] \in S
    BY <1>1
  <2>2. ASSUME NEW p \in S, Cardinality(below(p)) = i - 1 PROVE p = f[i]
    <3>1. PICK j \in 1 .. n : p = f[j]
      BY <1>1
    <3>2. j - 1 = i - 1
      BY <1>3, <2>2, <3>1
    <3>3. j = i
      BY <3>2
    <3> QED
      BY <3>1, <3>3
  <2> HIDE DEF below
  <2> QED
    BY <1>3, <2>1, <2>2
<1>5. \A T : Numpy!Cardinality(T) = Cardinality(T)
  BY SameSets
<1>6. Numpy!Ascending(S) = [i \in 1 .. n |-> CHOOSE p \in S : Cardinality(below(p)) = i - 1]
  <2>1. Numpy!Cardinality(S) = n /\ \A p : Numpy!Cardinality(below(p)) = Cardinality(below(p))
    BY <1>2, <1>5
  <2>2. Numpy!Ascending(S)
          = [i \in 1 .. Numpy!Cardinality(S) |->
               CHOOSE p \in S : Numpy!Cardinality(below(p)) = i - 1]
    BY DEF Numpy!Ascending
  <2> HIDE DEF below
  <2>3. ASSUME NEW i
        PROVE  (CHOOSE p \in S : Numpy!Cardinality(below(p)) = i - 1)
                 = CHOOSE p \in S : Cardinality(below(p)) = i - 1
    BY <2>1
  <2> QED
    BY <2>1, <2>2, <2>3
<1> HIDE DEF below
<1>7. Numpy!Ascending(S) = [i \in 1 .. n |-> f[i]]
  BY <1>4, <1>6
<1> QED
  BY <1>1, <1>7

\* b lacks unit axes of a, or neither has any that the other lacks.
Thins(b, a, K, m, n) ==
    /\ Narrows(K, m, n, a.shape, b.shape)
    /\ b.base = a.base
    /\ \A j \in 1 .. m : b.strides[j] = a.strides[K[j]]

\* The same elements in the same order and places, but for unit axes.
Alike(b, a) ==
    /\ b.size = a.size
    /\ \A i \in 1 .. a.size : Offset(b, i - 1) = Offset(a, i - 1)

\* Dropping unit axes, or adding them, moves no element.
LEMMA ThinAlike ==
    ASSUME NEW a, Exact(a), NEW b, Exact(b), NEW K, NEW m, NEW n, Thins(b, a, K, m, n)
    PROVE  Alike(b, a) /\ Alike(a, b)
<1> DEFINE S == a.shape
           T == b.shape
<1>1. Narrows(K, m, n, S, T) /\ b.base = a.base
      /\ \A j \in 1 .. m : b.strides[j] = a.strides[K[j]]
  BY DEF Thins
<1>2. /\ S \in Seq(Nat) /\ T \in Seq(Nat) /\ a.size = Count(S) /\ b.size = Count(T)
      /\ a.size < WordSize /\ b.size < WordSize /\ a.size \in Nat /\ a.base \in Int
      /\ Len(a.strides) = Len(S) /\ IntsOn(1 .. Len(S), a.strides)
  BY ExactTakes DEF Exact
<1>3. /\ Len(T) = m /\ m \in Nat /\ n \in Nat
      /\ DOMAIN S = 1 .. n /\ Len(S) = n
      /\ Places(K, m, n) /\ \A k \in (1 .. n) \ Image(K, m) : S[k] = 1
  <2>1. Len(S) = n
    BY <1>1 DEF Narrows
  <2> QED
    BY <1>1, <2>1, NarrowTakes
<1>4. b.size = a.size
  BY <1>1, <1>2, NarrowCount
<1>5. ASSUME NEW i \in 1 .. a.size PROVE Offset(b, i - 1) = Offset(a, i - 1)
  <2> DEFINE jx == RowMajorOrder(S)[i]
             ix == RowMajorOrder(T)[i]
             from == [k \in 1 .. n |-> 0]
             step == [j \in 1 .. m |-> 1]
  <2> HIDE DEF S, T
  <2>1. jx \in Box(S) /\ FlatToOffset(i - 1, a.strides, InnerVolumes(S)) = LinearOffset(jx, a.strides)
    BY <1>2, Visits
  <2>2. ix \in Box(T) /\ FlatToOffset(i - 1, b.strides, InnerVolumes(T)) = LinearOffset(ix, b.strides)
    BY <1>2, <1>4, Visits
  <2>3. ix = Pick(jx, K)
    BY <1>1, <1>2, NarrowOrder
  <2> HIDE DEF ix, jx
  <2>4. K \in [1 .. m -> 1 .. n]
    BY <1>1 DEF Narrows
  <2>5. \A j \in 1 .. m : ix[j] = jx[K[j]] /\ K[j] \in 1 .. n
    BY <2>3, <2>4 DEF Pick
  <2>6. \A k \in 1 .. n : jx[k] \in Nat /\ jx[k] < S[k] /\ S[k] \in Nat
    BY <1>2, <1>3, <2>1, BoxTakes
  <2>7. Source(jx, ix, K, m, n, from, step)
    <3>1. ASSUME NEW j \in 1 .. m PROVE jx[K[j]] = from[K[j]] + step[j] * ix[j]
      <4> DEFINE x == ix[j]
      <4>1. x \in Nat /\ jx[K[j]] = x /\ from[K[j]] = 0 /\ step[j] = 1
        BY <2>5, <2>6
      <4> HIDE DEF x, from, step
      <4>2. x = 0 + 1 * x
        BY <4>1
      <4> QED
        BY <4>1, <4>2 DEF x
    <3>2. ASSUME NEW k \in (1 .. n) \ Image(K, m) PROVE jx[k] = from[k]
      <4>1. k \in 1 .. n /\ S[k] = 1
        BY <1>3
      <4>2. from[k] = 0
        BY <4>1
      <4> HIDE DEF from
      <4>3. jx[k] = 0
        BY <2>6, <4>1
      <4> QED
        BY <4>2, <4>3
    <3> HIDE DEF from, step
    <3> QED
      BY <3>1, <3>2 DEF Source
  <2>8. LinearOffset(from, a.strides) = 0
    <3>1. DOMAIN from = 1 .. n /\ \A k \in 1 .. n : from[k] = 0
      OBVIOUS
    <3> HIDE DEF from
    <3> QED
      BY <1>2, <1>3, <3>1, OffsetOfFirst
  <2>9. Selects(a, b, K, from, step)
    <3>1. IntsOn(1 .. n, from) /\ IntsOn(1 .. m, step) /\ DOMAIN from = 1 .. n
      BY DEF IntsOn
    <3>2. \A j \in 1 .. m : step[j] # 0 /\ b.strides[j] = a.strides[K[j]] * step[j]
      <4>1. \A j \in 1 .. m : a.strides[K[j]] \in Int
        BY <1>2, <1>3, <2>4 DEF IntsOn
      <4> QED
        BY <1>1, <4>1
    <3>3. b.base = a.base + LinearOffset(from, a.strides)
      BY <1>1, <1>2, <2>8
    <3>4. Len(a.shape) = n /\ Len(b.shape) = m
      BY <1>3 DEF S, T
    <3> HIDE DEF from, step
    <3> QED
      BY <1>3, <2>4, <3>1, <3>2, <3>3, <3>4 DEF Selects
  <2>10. /\ Source(jx, ix, K, Len(b.shape), Len(a.shape), from, step)
         /\ ix \in Box(b.shape) /\ jx \in Box(a.shape)
    BY <1>3, <2>1, <2>2, <2>7 DEF S, T
  <2> HIDE DEF from, step
  <2>11. /\ b.base + LinearOffset(ix, b.strides) = a.base + LinearOffset(jx, a.strides)
         /\ b.base \in Int /\ LinearOffset(ix, b.strides) \in Int
         /\ a.base \in Int /\ LinearOffset(jx, a.strides) \in Int
    BY <2>9, <2>10, SourceOffset
  <2> QED
    BY <2>1, <2>2, <2>11 DEF Offset, S, T
<1> QED
  BY <1>4, <1>5 DEF Alike

\* Such changes chain.
LEMMA AlikeTrans ==
    ASSUME NEW a, NEW b, NEW c, Alike(c, b), Alike(b, a)
    PROVE  Alike(c, a)
  BY DEF Alike

\* Whatever axes squeeze drops, the elements stay in order and in place.
LEMMA SqueezeAlike ==
    ASSUME NEW a, NEW cells, Sound(a, cells), NEW drop, drop \in SUBSET UnitAxes(a)
    PROVE  Alike(Squeeze(a, drop), a)
<1> DEFINE n == Len(a.shape)
           left == DOMAIN a.shape \ drop
           kept == AxesOf(a, left)
           m == Len(kept)
           b == Squeeze(a, drop)
           shape == Pick(a.shape, kept)
           strides == Pick(a.strides, kept)
<1>1. Exact(a) /\ Exact(b)
  BY SqueezeSound DEF Sound
<1>2. /\ n \in Nat /\ DOMAIN a.shape = 1 .. n /\ a.shape \in Seq(Nat) /\ a.base \in Int
      /\ a.size \in Nat /\ a.size = Count(a.shape) /\ a.size < WordSize
  BY <1>1, ExactTakes DEF Exact
<1>3. left \subseteq 1 .. n /\ \A k \in 1 .. n : k \notin left => a.shape[k] = 1
  BY <1>2 DEF UnitAxes
<1>4. b = IF kept = <<>> THEN Layout(a.base, <<1>>, <<1>>, a.size)
                         ELSE Layout(a.base, shape, strides, a.size)
  BY DEF Squeeze
<1> HIDE DEF left, b
<1>5. Axes(kept, m, n, left)
  BY <1>2, <1>3, AxesOfTakes
<1> HIDE DEF kept
<1>6. /\ m \in Nat /\ kept \in [1 .. m -> 1 .. n] /\ Image(kept, m) = left
      /\ \A i, j \in 1 .. m : i < j => kept[i] < kept[j]
  BY <1>5 DEF Axes
<1> HIDE DEF m
<1>7. /\ shape = [j \in 1 .. m |-> a.shape[kept[j]]]
      /\ \A j \in 1 .. m : strides[j] = a.strides[kept[j]]
  BY <1>6 DEF Pick
<1>8. Narrows(kept, m, n, a.shape, shape)
  <2>1. \A k \in 1 .. n : a.shape[k] = 1 \/ \E j \in 1 .. m : kept[j] = k
    BY <1>3, <1>6 DEF Image
  <2> HIDE DEF shape
  <2> QED
    BY <1>2, <1>6, <1>7, <2>1 DEF Narrows
<1>9. CASE kept # <<>>
  <2>1. b.shape = shape /\ b.strides = strides /\ b.base = a.base
    BY <1>4, <1>9 DEF Layout
  <2>2. Thins(b, a, kept, m, n)
    BY <1>7, <1>8, <2>1 DEF Thins
  <2> QED
    BY <1>1, <2>2, ThinAlike DEF b
<1>10. CASE kept = <<>>
  <2> DEFINE one == <<1>>
             none == <<>>
             c == Layout(a.base, none, none, a.size)
  <2>1. m = 0
    <3>1. DOMAIN kept = {} /\ DOMAIN kept = 1 .. m
      BY <1>6, <1>10
    <3> QED
      BY <1>6, <3>1
  <2>2. none \in Seq(Nat) /\ none \in Seq(Int) /\ Len(none) = 0
    OBVIOUS
  <2>3. shape = none
    BY <1>10 DEF Pick
  <2>4. c.base = a.base /\ c.shape = none /\ c.strides = none /\ c.size = a.size /\ c \in Layouts
    <3> HIDE DEF none
    <3> QED
      BY <1>2, <2>2 DEF Layout, Layouts
  <2>5. Count(none) = a.size
    BY <1>2, <1>8, <2>3, NarrowCount
  <2>6. b.base = a.base /\ b.shape = one
    BY <1>4, <1>10 DEF Layout
  <2>7. one \in Seq(Nat) /\ Len(one) = 1 /\ \A k \in 1 .. 1 : one[k] = 1
    OBVIOUS
  <2>8. Narrows(none, 0, 1, one, none)
    <3>1. none \in [1 .. 0 -> 1 .. 1] /\ none = [j \in 1 .. 0 |-> one[none[j]]]
      <4>1. 1 .. 0 = {}
        OBVIOUS
      <4> QED
        BY <4>1
    <3> HIDE DEF none, one
    <3> QED
      BY <2>7, <3>1 DEF Narrows
  <2> HIDE DEF none, one, c
  <2>9. Exact(c)
    BY <1>2, <2>2, <2>4, <2>5 DEF Exact
  <2>10. Thins(c, a, kept, m, n)
    <3>1. \A j \in 1 .. m : c.strides[j] = a.strides[kept[j]]
      BY <2>1
    <3> QED
      BY <1>8, <2>3, <2>4, <3>1 DEF Thins
  <2>11. Thins(c, b, none, 0, 1)
    <3>1. \A j \in 1 .. 0 : c.strides[j] = b.strides[none[j]]
      OBVIOUS
    <3> QED
      BY <2>4, <2>6, <2>8, <3>1 DEF Thins
  <2>12. Alike(c, a) /\ Alike(b, c)
    BY <1>1, <2>9, <2>10, <2>11, ThinAlike
  <2> QED
    BY <2>12, AlikeTrans DEF b
<1> QED
  BY <1>9, <1>10

\* Nor does a new unit axis move them.
LEMMA ExpandAlike ==
    ASSUME NEW a, NEW cells, Sound(a, cells), NEW axis \in 1 .. Len(a.shape) + 1
    PROVE  Alike(ExpandDims(a, axis), a)
<1> DEFINE n == Len(a.shape)
           b == ExpandDims(a, axis)
           K == [j \in 1 .. n |-> Moved(axis, j)]
           stride == IF axis <= n THEN a.strides[axis] ELSE 1
           shape == InsertAt(a.shape, axis, 1)
           strides == InsertAt(a.strides, axis, stride)
<1>1. Exact(a) /\ Exact(b)
  BY ExpandSound DEF Sound
<1>2. /\ n \in Nat /\ DOMAIN a.shape = 1 .. n /\ a.shape \in Seq(Nat) /\ a.strides \in Seq(Int)
      /\ Len(a.strides) = n /\ IntsOn(1 .. n, a.strides)
  BY <1>1, ExactTakes
<1>3. axis \in Nat /\ 1 <= axis /\ axis <= n + 1 /\ stride \in Int
  BY <1>2 DEF IntsOn
<1>4. b.base = a.base /\ b.shape = shape /\ b.strides = strides
  BY DEF ExpandDims, Layout
<1>5. Inserted(shape, Nat, a.shape, n, axis, 1)
  <2> HIDE DEF n
  <2>1. Len(a.shape) = n /\ 1 \in Nat
    BY DEF n
  <2> QED
    BY <1>2, <1>3, <2>1, InsertTakes
<1>6. Inserted(strides, Int, a.strides, n, axis, stride)
  <2> HIDE DEF n, stride
  <2> QED
    BY <1>2, <1>3, InsertTakes
<1> HIDE DEF shape, strides, n
<1>7. /\ shape \in Seq(Nat) /\ Len(shape) = n + 1 /\ shape[axis] = 1
      /\ \A k \in 1 .. n : shape[Moved(axis, k)] = a.shape[k]
  BY <1>5 DEF Inserted
<1>8. \A k \in 1 .. n : strides[Moved(axis, k)] = a.strides[k]
  BY <1>6 DEF Inserted
<1>9. /\ \A j \in 1 .. n : Moved(axis, j) \in 1 .. n + 1
      /\ \A i, j \in 1 .. n : i < j => Moved(axis, i) < Moved(axis, j)
      /\ \A k \in 1 .. n + 1 : k # axis => \E j \in 1 .. n : Moved(axis, j) = k
  <2>1. /\ \A j \in 1 .. n : Moved(axis, j) \in 1 .. n + 1
        /\ \A i, j \in 1 .. n : i < j => Moved(axis, i) < Moved(axis, j)
    BY <1>2, <1>3 DEF Moved
  <2>2. ASSUME NEW k \in 1 .. n + 1, k # axis PROVE \E j \in 1 .. n : Moved(axis, j) = k
    <3>1. CASE k < axis
      <4>1. k \in 1 .. n /\ Moved(axis, k) = k
        BY <1>2, <1>3, <3>1 DEF Moved
      <4> QED
        BY <4>1
    <3>2. CASE ~(k < axis)
      <4> DEFINE j == k - 1
      <4>1. j \in 1 .. n /\ ~(j < axis) /\ j + 1 = k
        BY <1>2, <1>3, <2>2, <3>2
      <4> HIDE DEF j
      <4>2. Moved(axis, j) = k
        BY <4>1 DEF Moved
      <4> QED
        BY <4>1, <4>2
    <3> QED
      BY <3>1, <3>2
  <2> QED
    BY <2>1, <2>2
<1>10. /\ K \in [1 .. n -> 1 .. n + 1] /\ \A j \in 1 .. n : K[j] = Moved(axis, j)
  BY <1>9
<1> HIDE DEF K
<1>11. a.shape = [j \in 1 .. n |-> shape[K[j]]]
  <2>1. a.shape = [j \in 1 .. n |-> a.shape[j]]
    BY <1>2
  <2> QED
    BY <1>7, <1>10, <2>1
<1>12. Narrows(K, n, n + 1, shape, a.shape)
  <2>1. n + 1 \in Nat /\ \A i, j \in 1 .. n : i < j => K[i] < K[j]
    BY <1>2, <1>9, <1>10
  <2>2. ASSUME NEW k \in 1 .. n + 1 PROVE shape[k] = 1 \/ \E j \in 1 .. n : K[j] = k
    <3>1. CASE k = axis
      BY <1>7, <3>1
    <3>2. CASE k # axis
      BY <1>9, <1>10, <3>2
    <3> QED
      BY <3>1, <3>2
  <2> QED
    BY <1>2, <1>7, <1>10, <1>11, <2>1, <2>2 DEF Narrows
<1>13. Thins(a, b, K, n, n + 1)
  <2>1. \A j \in 1 .. n : a.strides[j] = b.strides[K[j]]
    BY <1>4, <1>8, <1>10
  <2> HIDE DEF b
  <2> QED
    BY <1>4, <1>12, <2>1 DEF Thins
<1> HIDE DEF b
<1> QED
  BY <1>1, <1>13, ThinAlike DEF b

\* Such a view shows the same elements in the same order.
LEMMA AlikeMoves ==
    ASSUME IInv, IInv', NEW a, Sound(a, DOMAIN mem), Alike(a, arr), View(a)
    PROVE  Numpy!SameOrder /\ arr'.shape = a.shape /\ copies' = copies
<1>1. /\ arr'.shape = a.shape /\ Matches(arr', mem', a, mem) /\ copies' = copies
  BY ViewShows DEF View
<1>2. Matches(a, mem, arr, mem)
  BY <1>1 DEF Alike, Matches
<1> QED
  BY <1>1, <1>2, MatchTrans, MatchOrder

\* The axes that AxesOf lists are those NumPy keeps.
LEMMA AxesAscend ==
    ASSUME NEW n \in Nat, NEW a, DOMAIN a.shape = 1 .. n, NEW left, left \subseteq 1 .. n
    PROVE  Numpy!Ascending(left) = AxesOf(a, left)
<1> DEFINE K == AxesOf(a, left)
           m == Len(K)
<1>1. Axes(K, m, n, left)
  BY AxesOfTakes
<1> HIDE DEF K, m
<1>2. /\ m \in Nat /\ K \in [1 .. m -> 1 .. n] /\ Image(K, m) = left
      /\ \A i, j \in 1 .. m : i < j => K[i] < K[j]
  BY <1>1 DEF Axes
<1>3. K \in [1 .. m -> Int]
  BY <1>2
<1>4. Climbs(K, m, left)
  BY <1>2, <1>3 DEF Climbs, Image
<1> QED
  BY <1>2, <1>4, AscendingIs DEF K

\* squeeze is NumPy's, (1,) for 0-D apart.
LEMMA SqueezeRefines ==
    ASSUME IInv, IInv', NEW axes \in Drops, Answers(<<"squeeze", axes>>, DoSqueeze(axes))
    PROVE  Numpy!Squeeze(axes)
<1> DEFINE units == {k \in DOMAIN arr.shape : arr.shape[k] = 1}
           drop == IF axes = {} THEN units ELSE axes
           left == DOMAIN arr.shape \ drop
           kept == AxesOf(arr, left)
           a == Squeeze(arr, drop)
<1>1. asked = <<>> /\ asked' = <<"squeeze", axes>>
  BY DEF Answers
<1>2. drop \in SUBSET UnitAxes(arr) /\ View(a)
  BY DEF Answers, DoSqueeze, UnitAxes
<1>3. Sound(arr, DOMAIN mem) /\ arr.shape \in Seq(Nat)
  BY ExactTakes DEF IInv, Sound
<1>4. Sound(a, DOMAIN mem) /\ Alike(a, arr)
  BY <1>2, <1>3, SqueezeSound, SqueezeAlike
<1>5. a.shape = IF kept = <<>> THEN <<1>> ELSE [j \in DOMAIN kept |-> arr.shape[kept[j]]]
  BY DEF Squeeze, Layout, Pick
<1>6. Numpy!Ascending(left) = kept
  <2>1. DOMAIN arr.shape = 1 .. Len(arr.shape) /\ Len(arr.shape) \in Nat
    BY <1>3, LenProperties
  <2>2. left \subseteq 1 .. Len(arr.shape)
    BY <2>1
  <2> HIDE DEF left
  <2> QED
    BY <2>1, <2>2, AxesAscend
<1> HIDE DEF a, kept
<1>7. Numpy!SameOrder /\ arr'.shape = a.shape /\ copies' = copies
  BY <1>2, <1>4, AlikeMoves
<1>8. (copies' = 0) = (copies = 0)
  BY <1>7
<1>9. Numpy!Ascending(DOMAIN arr.shape \ (IF axes = {} THEN units ELSE axes)) = kept
  BY <1>6
<1> QED
  BY <1>1, <1>5, <1>7, <1>8, <1>9 DEF Numpy!Squeeze, Numpy!Answer

\* expand_dims is NumPy's.
LEMMA ExpandRefines ==
    ASSUME IInv, IInv', NEW axis \in Slots, Answers(<<"expand_dims", axis>>, DoExpandDims(axis))
    PROVE  Numpy!ExpandDims(axis)
<1> DEFINE a == ExpandDims(arr, axis)
<1>1. asked = <<>> /\ asked' = <<"expand_dims", axis>> /\ View(a)
  BY DEF Answers, DoExpandDims
<1>2. Sound(arr, DOMAIN mem) /\ axis \in 1 .. Len(arr.shape) + 1
  BY DEF IInv, Slots
<1>3. Sound(a, DOMAIN mem) /\ Alike(a, arr)
  BY <1>2, ExpandSound, ExpandAlike
<1>4. a.shape = InsertAt(arr.shape, axis, 1)
  BY DEF ExpandDims, Layout
<1> HIDE DEF a
<1>5. Numpy!SameOrder /\ arr'.shape = a.shape /\ copies' = copies
  BY <1>1, <1>3, AlikeMoves
<1>6. Numpy!InsertAt(arr.shape, axis, 1) = InsertAt(arr.shape, axis, 1)
  BY DEF InsertAt, Numpy!InsertAt
<1>7. (copies' = 0) = (copies = 0)
  BY <1>5
<1> QED
  BY <1>1, <1>4, <1>5, <1>6, <1>7 DEF Numpy!ExpandDims, Numpy!Answer

-----------------------------------------------------------------------------
(* The positions of a slice are NumPy's *)

\* The multiples of s up to d.
LEMMA Multiples ==
    ASSUME NEW d \in Nat, NEW s \in Nat, s > 0, NEW y \in Int
    PROVE  (0 <= y /\ y <= d /\ y % s = 0) <=> \E x \in 0 .. d \div s : y = s * x
<1> DEFINE q == d \div s
           m == d % s
<1>1. q \in Int /\ m \in Int /\ d = q * s + m /\ 0 <= m /\ m < s
  BY Division
<1>2. q \in Nat /\ \A x \in Nat : x <= q => s * x \in Nat /\ s * x <= d
  BY Fits
<1> HIDE DEF q, m
<1>3. ASSUME 0 <= y, y <= d, y % s = 0 PROVE \E x \in 0 .. q : y = s * x
  <2> DEFINE x == y \div s
  <2>1. x \in Int /\ y = x * s + 0
    BY <1>3, Division
  <2>2. x \in Nat
    BY <1>3, Fits
  <2> HIDE DEF x
  <2>3. x <= q
    <3> SUFFICES ASSUME x >= q + 1 PROVE FALSE
      BY <1>1, <2>1
    <3>1. (x - q - 1) * s >= 0
      <4>1. x - q - 1 \in Nat
        BY <1>1, <2>1
      <4> QED
        BY <4>1
    <3>2. (x - q - 1) * s = x * s - q * s - s
      BY <1>1, <2>1
    <3> DEFINE u == x * s
               v == q * s
    <3>3. u \in Int /\ v \in Int
      BY <1>1, <2>1
    <3>4. u - v - s >= 0 /\ y = u + 0 /\ d = v + m
      BY <1>1, <2>1, <3>1, <3>2
    <3> HIDE DEF u, v
    <3> QED
      BY <1>1, <1>3, <3>3, <3>4
  <2>4. y = s * x
    BY <2>1
  <2> QED
    BY <2>2, <2>3, <2>4
<1>4. ASSUME NEW x \in 0 .. q, y = s * x PROVE 0 <= y /\ y <= d /\ y % s = 0
  <2>1. x \in Nat /\ x <= q
    BY <1>2
  <2>2. y \in Nat /\ y <= d
    BY <1>2, <1>4, <2>1
  <2>3. y = x * s + 0
    BY <1>4, <2>1
  <2>4. y % s = 0
    BY <2>1, <2>2, <2>3, DivisionUnique
  <2> QED
    BY <2>2, <2>4
<1> QED
  BY <1>3, <1>4 DEF q

\* So is what lies a multiple below.
LEMMA Opposite ==
    ASSUME NEW y \in Int, NEW s \in Nat, s > 0
    PROVE  (-y) % s = 0 <=> y % s = 0
<1>1. ASSUME NEW z \in Int, z % s = 0 PROVE (-z) % s = 0
  <2> DEFINE q == z \div s
  <2>1. q \in Int /\ z = q * s + 0
    BY <1>1, Division
  <2> HIDE DEF q
  <2> DEFINE w == -z
             h == -q
  <2>2. w = h * s + 0 /\ w \in Int /\ h \in Int
    BY <2>1
  <2> HIDE DEF w, h
  <2>3. w % s = 0
    BY <2>2, DivisionUnique
  <2> QED
    BY <2>3 DEF w
<1>2. -(-y) = y /\ -y \in Int
  OBVIOUS
<1> QED
  BY <1>1, <1>2

\* How many steps of s lead from i up to, but not to, j.
Between(i, j, s) == IF i < j THEN (j - i - 1) \div s + 1 ELSE 0

\* The positions that a slice takes from `from` up, and from there down, and
\* how they are stepped through.
TakenUp(n, from, j, s) == {p \in 0 .. n - 1 : p >= from /\ p < j /\ (p - from) % s = 0}
TakenDown(n, from, j, s) == {p \in 0 .. n - 1 : p <= from /\ p > j /\ (p - from) % s = 0}
SteppedUp(i, s, len) == [y \in 1 .. len |-> i + s * (y - 1)]
SteppedDown(i, s, len) == [y \in 1 .. len |-> i - s * (len - y)]

\* The positions of a slice with a positive step.
LEMMA UpTaken ==
    ASSUME NEW n \in Nat, NEW from \in Nat, NEW i \in 0 .. n, NEW j \in 0 .. n,
           i = IF from >= n THEN n ELSE from, NEW s \in Nat, s > 0
    PROVE  Climbs(SteppedUp(i, s, Between(i, j, s)), Between(i, j, s), TakenUp(n, from, j, s))
           /\ Between(i, j, s) \in Nat
<1> DEFINE taken == {p \in 0 .. n - 1 : p >= from /\ p < j /\ (p - from) % s = 0}
           len == Between(i, j, s)
           d == j - i - 1
           f == [y \in 1 .. len |-> i + s * (y - 1)]
<1>1. CASE i < j
  <2>1. d \in Nat /\ i = from
    BY <1>1
  <2> DEFINE q == d \div s
  <2>2. q \in Nat
    BY <2>1, Fits
  <2>3. len = q + 1
    BY <1>1 DEF Between
  <2> HIDE DEF len
  <2>4. ASSUME NEW p \in Int PROVE p \in taken <=> \E x \in 0 .. q : p = i + s * x
    <3> DEFINE y == p - i
    <3>1. y \in Int /\ p = i + y
      OBVIOUS
    <3>2. p \in taken <=> 0 <= y /\ y <= d /\ y % s = 0
      BY <1>1, <2>1
    <3>3. (0 <= y /\ y <= d /\ y % s = 0) <=> \E x \in 0 .. q : y = s * x
      <4> HIDE DEF y, d
      <4> QED
        BY <2>1, <3>1, Multiples
    <3>4. ASSUME NEW x \in 0 .. q PROVE y = s * x <=> p = i + s * x
      <4> DEFINE z == s * x
      <4>1. z \in Int
        BY <2>2
      <4> HIDE DEF z
      <4> QED
        BY <4>1
    <3> HIDE DEF y, taken, q, d
    <3> QED
      BY <3>2, <3>3, <3>4
  <2>5. \A p \in taken : p \in Int
    OBVIOUS
  <2> HIDE DEF taken, q, d
  <2>6. ASSUME NEW y \in 1 .. len
        PROVE  y - 1 \in 0 .. q /\ f[y] = i + s * (y - 1) /\ f[y] \in Int
    BY <2>2, <2>3
  <2>7. \A x \in 0 .. q : x + 1 \in 1 .. len /\ (x + 1) - 1 = x
    BY <2>2, <2>3
  <2>8. taken = {f[y] : y \in 1 .. len}
    <3>1. ASSUME NEW p \in taken PROVE \E y \in 1 .. len : p = f[y]
      <4>1. PICK x \in 0 .. q : p = i + s * x
        BY <2>4, <2>5
      <4>2. PICK y \in 1 .. len : y - 1 = x
        BY <2>7
      <4>3. f[y] = i + s * x
        BY <2>6, <4>2
      <4> QED
        BY <4>1, <4>3
    <3>2. ASSUME NEW y \in 1 .. len PROVE f[y] \in taken
      BY <2>4, <2>6
    <3> HIDE DEF f
    <3> QED
      BY <3>1, <3>2
  <2>9. ASSUME NEW y \in 1 .. len, NEW z \in 1 .. len, y < z PROVE f[y] < f[z]
    <3> DEFINE u == s * (y - 1)
               v == s * (z - 1)
    <3>1. u \in Int /\ v \in Int /\ y \in Int /\ z \in Int
      BY <2>2, <2>3
    <3>2. v - u = s * (z - y)
      BY <3>1
    <3>3. s * (z - y) > 0
      <4>1. z - y \in Nat /\ z - y > 0
        BY <2>9, <3>1
      <4> QED
        BY <4>1
    <3>4. f[y] = i + u /\ f[z] = i + v
      OBVIOUS
    <3> HIDE DEF u, v, f
    <3> QED
      BY <3>1, <3>2, <3>3, <3>4
  <2>10. f \in [1 .. len -> Int]
    BY <2>6
  <2> HIDE DEF f
  <2>11. Climbs(f, len, taken)
    BY <2>8, <2>9, <2>10 DEF Climbs
  <2> QED
    BY <2>2, <2>3, <2>11 DEF f, len, taken, SteppedUp, TakenUp
<1>2. CASE ~(i < j)
  <2>1. len = 0
    BY <1>2 DEF Between
  <2>2. taken = {}
    BY <1>2
  <2>3. 1 .. len = {}
    BY <2>1
  <2>4. f \in [1 .. len -> Int] /\ {f[y] : y \in 1 .. len} = {}
    BY <2>3
  <2> HIDE DEF f, taken
  <2>5. Climbs(f, len, taken)
    BY <2>2, <2>3, <2>4 DEF Climbs
  <2> QED
    BY <2>1, <2>5 DEF f, taken, SteppedUp, TakenUp
<1> QED
  BY <1>1, <1>2

\* And those of a slice with a negative step, which are taken from the top.
LEMMA DownTaken ==
    ASSUME NEW n \in Nat, NEW from \in Int, from <= n - 1, NEW i \in -1 .. n - 1,
           NEW j \in -1 .. n - 1, i = IF from < 0 THEN -1 ELSE from, NEW s \in Nat, s > 0
    PROVE  Climbs(SteppedDown(i, s, Between(j, i, s)), Between(j, i, s), TakenDown(n, from, j, s))
           /\ Between(j, i, s) \in Nat
<1> DEFINE taken == {p \in 0 .. n - 1 : p <= from /\ p > j /\ (p - from) % s = 0}
           len == Between(j, i, s)
           d == i - j - 1
           f == [y \in 1 .. len |-> i - s * (len - y)]
<1>1. CASE j < i
  <2>1. d \in Nat /\ i = from
    BY <1>1
  <2> DEFINE q == d \div s
  <2>2. q \in Nat
    BY <2>1, Fits
  <2>3. len = q + 1
    BY <1>1 DEF Between
  <2> HIDE DEF len
  <2>4. ASSUME NEW p \in Int PROVE p \in taken <=> \E x \in 0 .. q : p = i - s * x
    <3> DEFINE y == i - p
               z == p - i
    <3>1. y \in Int /\ p = i - y /\ z = -y
      OBVIOUS
    <3>2. p \in taken <=> 0 <= y /\ y <= d /\ z % s = 0
      BY <1>1, <2>1
    <3>3. (0 <= y /\ y <= d /\ y % s = 0) <=> \E x \in 0 .. q : y = s * x
      <4> HIDE DEF y, d
      <4> QED
        BY <2>1, <3>1, Multiples
    <3>4. ASSUME NEW x \in 0 .. q PROVE y = s * x <=> p = i - s * x
      <4> DEFINE w == s * x
      <4>1. w \in Int
        BY <2>2
      <4> HIDE DEF w
      <4> QED
        BY <4>1
    <3>5. z % s = 0 <=> y % s = 0
      <4> HIDE DEF y, z
      <4> QED
        BY <3>1, Opposite
    <3> HIDE DEF y, z, taken, q, d
    <3> QED
      BY <3>2, <3>3, <3>4, <3>5
  <2>5. \A p \in taken : p \in Int
    OBVIOUS
  <2> HIDE DEF taken, q, d
  <2>6. ASSUME NEW y \in 1 .. len
        PROVE  len - y \in 0 .. q /\ f[y] = i - s * (len - y) /\ f[y] \in Int
    BY <2>2, <2>3
  <2>7. \A x \in 0 .. q : len - x \in 1 .. len /\ len - (len - x) = x
    BY <2>2, <2>3
  <2>8. taken = {f[y] : y \in 1 .. len}
    <3>1. ASSUME NEW p \in taken PROVE \E y \in 1 .. len : p = f[y]
      <4>1. PICK x \in 0 .. q : p = i - s * x
        BY <2>4, <2>5
      <4>2. PICK y \in 1 .. len : len - y = x
        BY <2>7
      <4>3. f[y] = i - s * x
        BY <2>6, <4>2
      <4> QED
        BY <4>1, <4>3
    <3>2. ASSUME NEW y \in 1 .. len PROVE f[y] \in taken
      BY <2>4, <2>6
    <3> HIDE DEF f
    <3> QED
      BY <3>1, <3>2
  <2>9. ASSUME NEW y \in 1 .. len, NEW z \in 1 .. len, y < z PROVE f[y] < f[z]
    <3> DEFINE u == s * (len - y)
               v == s * (len - z)
    <3>1. u \in Int /\ v \in Int /\ y \in Int /\ z \in Int /\ len \in Int
      BY <2>2, <2>3
    <3>2. u - v = s * (z - y)
      BY <3>1
    <3>3. s * (z - y) > 0
      <4>1. z - y \in Nat /\ z - y > 0
        BY <2>9, <3>1
      <4> QED
        BY <4>1
    <3>4. f[y] = i - u /\ f[z] = i - v
      OBVIOUS
    <3> HIDE DEF u, v, f
    <3> QED
      BY <3>1, <3>2, <3>3, <3>4
  <2>10. f \in [1 .. len -> Int]
    BY <2>6
  <2> HIDE DEF f
  <2>11. Climbs(f, len, taken)
    BY <2>8, <2>9, <2>10 DEF Climbs
  <2> QED
    BY <2>2, <2>3, <2>11 DEF f, len, taken, SteppedDown, TakenDown
<1>2. CASE ~(j < i)
  <2>1. len = 0
    BY <1>2 DEF Between
  <2>2. taken = {}
    BY <1>2
  <2>3. 1 .. len = {}
    BY <2>1
  <2>4. f \in [1 .. len -> Int] /\ {f[y] : y \in 1 .. len} = {}
    BY <2>3
  <2> HIDE DEF f, taken
  <2>5. Climbs(f, len, taken)
    BY <2>2, <2>3, <2>4 DEF Climbs
  <2> QED
    BY <2>1, <2>5 DEF f, taken, SteppedDown, TakenDown
<1> QED
  BY <1>1, <1>2

\* The extremes of two numbers.
LEMMA Extremes ==
    ASSUME NEW x \in Int, NEW y \in Int
    PROVE  /\ Max({x, y}) = IF x >= y THEN x ELSE y
           /\ Min({x, y}) = IF x <= y THEN x ELSE y
<1> DEFINE big == IF x >= y THEN x ELSE y
           small == IF x <= y THEN x ELSE y
<1>1. big \in {x, y} /\ \A z \in {x, y} : big >= z
  OBVIOUS
<1>2. small \in {x, y} /\ \A z \in {x, y} : small <= z
  OBVIOUS
<1>3. \A w \in {x, y} : (\A z \in {x, y} : w >= z) => w = big
  OBVIOUS
<1>4. \A w \in {x, y} : (\A z \in {x, y} : w <= z) => w = small
  OBVIOUS
<1> HIDE DEF big, small
<1>5. Max({x, y}) = big
  BY <1>1, <1>3 DEF Max
<1>6. Min({x, y}) = small
  BY <1>2, <1>4 DEF Min
<1> QED
  BY <1>5, <1>6 DEF big, small

\* The positions of a window: start, and then every step.
Listed(q, r) == q = [y \in 1 .. r.len |-> r.start + r.step * (y - 1)]

\* NumPy's slice of a range is what CPython adjusts it to.
LEMMA PositionsAre ==
    ASSUME NEW n \in Nat, NEW s \in SliceItems
    PROVE  Listed(Numpy!Positions(s, n), AdjustSlice(s, n))
<1> DEFINE r == AdjustSlice(s, n)
           t == s.step
           up == t > 0
           at(v) == IF v < 0 THEN v + n ELSE v
           from == IF s.start = NoBound THEN (IF up THEN 0 ELSE n - 1)
                   ELSE IF up THEN Numpy!Max({at(s.start), 0}) ELSE Numpy!Min({at(s.start), n - 1})
           before(p) == \/ s.stop = NoBound
                        \/ IF up THEN p < at(s.stop) ELSE p > at(s.stop)
           taken == {p \in 0 .. n - 1 : /\ IF up THEN p >= from ELSE p <= from
                                        /\ before(p)
                                        /\ (p - from) % (IF up THEN t ELSE -t) = 0}
           low  == IF up THEN 0 ELSE -1
           high == IF up THEN n ELSE n - 1
           i == IF s.start # NoBound THEN Clip(s.start, n, low, high) ELSE IF up THEN 0 ELSE n - 1
           j == IF s.stop # NoBound THEN Clip(s.stop, n, low, high) ELSE IF up THEN n ELSE -1
<1>1. s.start \in Bounds /\ s.stop \in Bounds /\ t \in Int /\ t # 0
  BY DEF SliceItems, Steps
<1>2. (s.start # NoBound => s.start \in Int) /\ (s.stop # NoBound => s.stop \in Int)
  BY <1>1 DEF Bounds
<1>3. /\ r.start = i /\ r.step = t
      /\ r.len = IF up THEN (IF i < j THEN (j - i - 1) \div t + 1 ELSE 0)
                       ELSE (IF j < i THEN (i - j - 1) \div (-t) + 1 ELSE 0)
  <2>1. r = [kind |-> "slice", start |-> i, step |-> t,
             len |-> IF up THEN (IF i < j THEN (j - i - 1) \div t + 1 ELSE 0)
                     ELSE (IF j < i THEN (i - j - 1) \div (-t) + 1 ELSE 0)]
    BY Zenon DEF AdjustSlice
  <2> HIDE DEF r, i, j, up, t
  <2> QED
    BY <2>1
<1>4. Numpy!Positions(s, n) = IF up THEN Numpy!Ascending(taken)
                                    ELSE Numpy!Reverse(Numpy!Ascending(taken))
  BY Zenon DEF Numpy!Positions
<1>5. /\ \A S : Numpy!Max(S) = Max(S) /\ Numpy!Min(S) = Min(S)
      /\ \A q : Numpy!Reverse(q) = Reverse(q)
  BY SameSets
<1>6. \A v \in Int : at(v) \in Int
  OBVIOUS
<1>7. s.start # NoBound =>
        /\ Max({at(s.start), 0}) = IF at(s.start) >= 0 THEN at(s.start) ELSE 0
        /\ Min({at(s.start), n - 1}) = IF at(s.start) <= n - 1 THEN at(s.start) ELSE n - 1
  <2> DEFINE x == at(s.start)
             y == n - 1
  <2>1. s.start # NoBound => x \in Int
    BY <1>2
  <2>2. y \in Int
    OBVIOUS
  <2> HIDE DEF x, y
  <2>3. s.start # NoBound =>
        /\ Max({x, 0}) = IF x >= 0 THEN x ELSE 0
        /\ Min({x, y}) = IF x <= y THEN x ELSE y
    BY <2>1, <2>2, Extremes
  <2> QED
    BY <2>3 DEF x, y
<1> HIDE DEF r
<1>8. CASE up
  <2>1. t \in Nat
    BY <1>1, <1>8
  <2>2. from \in Nat /\ i = IF from >= n THEN n ELSE from
    <3>1. CASE s.start = NoBound
      BY <1>8, <3>1
    <3>2. CASE s.start # NoBound
      <4> DEFINE v == s.start
                 m == Max({at(v), 0})
      <4>1. from = m /\ i = Clip(v, n, 0, n) /\ v \in Int
        BY <1>2, <1>5, <1>8, <3>2
      <4>2. m = IF at(v) >= 0 THEN at(v) ELSE 0
        BY <1>7, <3>2
      <4> HIDE DEF v, m, from, i
      <4> QED
        BY <4>1, <4>2 DEF Clip
    <3> QED
      BY <3>1, <3>2
  <2>3. j \in 0 .. n /\ \A p \in 0 .. n - 1 : before(p) <=> p < j
    <3>1. CASE s.stop = NoBound
      BY <1>8, <3>1
    <3>2. CASE s.stop # NoBound
      <4> DEFINE v == s.stop
      <4>1. j = Clip(v, n, 0, n) /\ v \in Int /\ \A p : before(p) <=> p < at(v)
        BY <1>2, <1>8, <3>2
      <4> HIDE DEF v, j, before
      <4> QED
        BY <4>1 DEF Clip
    <3> QED
      BY <3>1, <3>2
  <2>4. taken = TakenUp(n, from, j, t)
    <3> HIDE DEF from, j, before
    <3> QED
      BY <1>8, <2>3 DEF TakenUp
  <2>5. i \in 0 .. n
    BY <2>2
  <2>6. r.len = Between(i, j, t)
    BY <1>3, <1>8 DEF Between
  <2>7. Numpy!Positions(s, n) = Numpy!Ascending(taken)
    BY <1>4, <1>8
  <2>8. t > 0
    BY <1>8
  <2> HIDE DEF taken, from, i, j, before, t
  <2> DEFINE f == SteppedUp(i, t, Between(i, j, t))
  <2>9. Climbs(f, Between(i, j, t), taken) /\ Between(i, j, t) \in Nat
    BY <2>1, <2>2, <2>3, <2>4, <2>5, <2>8, UpTaken
  <2>10. f = [y \in 1 .. r.len |-> r.start + r.step * (y - 1)]
    BY <1>3, <2>6 DEF SteppedUp
  <2> HIDE DEF f
  <2>11. Numpy!Positions(s, n) = f
    BY <2>7, <2>9, AscendingIs
  <2> QED
    BY <2>10, <2>11 DEF Listed, r
<1>9. CASE ~up
  <2> DEFINE u == -t
  <2>1. u \in Nat /\ u > 0 /\ t = -u
    BY <1>1, <1>9
  <2>2. from \in Int /\ from <= n - 1 /\ i = IF from < 0 THEN -1 ELSE from
    <3>1. CASE s.start = NoBound
      BY <1>9, <3>1
    <3>2. CASE s.start # NoBound
      <4> DEFINE v == s.start
                 m == Min({at(v), n - 1})
      <4>1. from = m /\ i = Clip(v, n, -1, n - 1) /\ v \in Int
        BY <1>2, <1>5, <1>9, <3>2
      <4>2. m = IF at(v) <= n - 1 THEN at(v) ELSE n - 1
        BY <1>7, <3>2
      <4> HIDE DEF v, m, from, i
      <4> QED
        BY <4>1, <4>2 DEF Clip
    <3> QED
      BY <3>1, <3>2
  <2>3. j \in -1 .. n - 1 /\ \A p \in 0 .. n - 1 : before(p) <=> p > j
    <3>1. CASE s.stop = NoBound
      BY <1>9, <3>1
    <3>2. CASE s.stop # NoBound
      <4> DEFINE v == s.stop
      <4>1. j = Clip(v, n, -1, n - 1) /\ v \in Int /\ \A p : before(p) <=> p > at(v)
        BY <1>2, <1>9, <3>2
      <4> HIDE DEF v, j, before
      <4> QED
        BY <4>1 DEF Clip
    <3> QED
      BY <3>1, <3>2
  <2>4. taken = TakenDown(n, from, j, u)
    <3> HIDE DEF from, j, before
    <3> QED
      BY <1>9, <2>3 DEF TakenDown
  <2>5. i \in -1 .. n - 1
    BY <2>2
  <2>6. r.len = Between(j, i, u)
    BY <1>3, <1>9 DEF Between
  <2>7. Numpy!Positions(s, n) = Reverse(Numpy!Ascending(taken))
    BY <1>4, <1>5, <1>9
  <2> HIDE DEF taken, from, i, j, before, t, u
  <2> DEFINE len == Between(j, i, u)
             f == SteppedDown(i, u, len)
  <2>8. Climbs(f, len, taken) /\ len \in Nat
    BY <2>1, <2>2, <2>3, <2>4, <2>5, DownTaken
  <2>9. Numpy!Positions(s, n) = Reverse(f)
    <3> HIDE DEF f, len
    <3> QED
      BY <2>7, <2>8, AscendingIs
  <2>10. Reverse(f) = [y \in 1 .. len |-> f[len - y + 1]]
    <3>1. Len(f) = len
      <4> HIDE DEF len
      <4>1. f \in Seq(Int) /\ Len(f) = len
        <5>1. f \in [1 .. len -> Int]
          BY <2>8 DEF Climbs
        <5> HIDE DEF f
        <5> QED
          BY <2>8, <5>1, SequenceOf
      <4> QED
        BY <4>1
    <3> HIDE DEF f, len
    <3> QED
      BY <3>1 DEF Reverse
  <2>11. ASSUME NEW y \in 1 .. len PROVE f[len - y + 1] = r.start + r.step * (y - 1)
    <3> DEFINE z == len - y + 1
    <3>1. z \in 1 .. len /\ len - z = y - 1
      BY <2>8
    <3>2. f[z] = i - u * (len - z)
      BY <3>1 DEF SteppedDown
    <3> HIDE DEF f, z, len
    <3>3. f[z] = i - u * (y - 1)
      BY <3>1, <3>2
    <3>4. i - u * (y - 1) = i + t * (y - 1)
      BY <2>1, <2>5, <2>8
    <3>5. r.start = i /\ r.step = t
      BY <1>3
    <3> QED
      BY <3>3, <3>4, <3>5 DEF z
  <2>12. r.len = len
    BY <2>6
  <2> HIDE DEF f, len
  <2>13. Reverse(f) = [y \in 1 .. r.len |-> r.start + r.step * (y - 1)]
    BY <2>10, <2>11, <2>12
  <2> QED
    BY <2>9, <2>13 DEF Listed, r
<1> QED
  BY <1>8, <1>9

-----------------------------------------------------------------------------
(* Keys are NumPy's *)

\* What NumPy says of a key: the item of axis k, the positions it takes, the
\* axes that are kept, and the index in a of element ix.
Says(a, key, k) == Numpy!AxisItem(key, k, Len(a.shape))
Taking(a, key, k) ==
    IF Says(a, key, k).kind = "slice" THEN Numpy!Positions(Says(a, key, k), a.shape[k])
    ELSE <<Says(a, key, k).index % a.shape[k]>>
Keeping(a, key) == Numpy!Ascending({k \in 1 .. Len(a.shape) : Says(a, key, k).kind = "slice"})
Reading(a, key, ix) ==
    [k \in 1 .. Len(a.shape) |->
        IF Says(a, key, k).kind = "slice"
        THEN Taking(a, key, k)[1 + ix[CHOOSE j \in DOMAIN Keeping(a, key) : Keeping(a, key)[j] = k]]
        ELSE Taking(a, key, k)[1]]

\* What the specifiers of a key and NumPy's items say of an axis.
Agrees(spec, it, taken, n) ==
    \/ /\ it.kind = "slice" /\ spec.kind = "slice"
       /\ Inside(spec, n) /\ Listed(taken, spec)
    \/ /\ it.kind = "int" /\ spec.kind = "int"
       /\ spec.index \in Nat /\ spec.index < n /\ taken[1] = spec.index

\* The specifiers of a key say of each axis what NumPy says.
LEMMA SpecsAgree ==
    ASSUME NEW a, a.shape \in Seq(Nat), NEW key \in Seq(KeyItems), CanIndex(a, key)
    PROVE  /\ DOMAIN Specs(a, key) = 1 .. Len(a.shape)
           /\ \A k \in 1 .. Len(a.shape) :
                Agrees(Specs(a, key)[k], Says(a, key, k), Taking(a, key, k), a.shape[k])
           /\ \A k \in 1 .. Len(a.shape) : Items(a, key)[k] = Says(a, key, k)
<1> DEFINE n == Len(a.shape)
           items == Items(a, key)
           specs == Specs(a, key)
<1>1. n \in Nat /\ DOMAIN a.shape = 1 .. n /\ \A k \in 1 .. n : a.shape[k] \in Nat
  BY LenProperties, ElementOfSeq
<1>2. /\ Cardinality({k \in DOMAIN key : key[k] = Ellipsis}) <= 1 /\ Named(key) <= n
      /\ \A k \in 1 .. n : items[k].kind = "int" => items[k].index \in -a.shape[k] .. a.shape[k] - 1
  BY <1>1 DEF CanIndex
<1>3. \A k \in 1 .. n : items[k] \in IndexItems \cup SliceItems /\ items[k] = Says(a, key, k)
  <2>1. \A k \in 1 .. n : /\ Items(a, key)[k] \in IndexItems \cup SliceItems
                          /\ Items(a, key)[k] = Numpy!AxisItem(key, k, n)
    <3> HIDE DEF n
    <3> QED
      BY <1>1, <1>2, ItemsAre DEF n
  <2> HIDE DEF items
  <2> QED
    BY <2>1 DEF Says, items
<1>4. /\ DOMAIN specs = 1 .. n
      /\ \A k \in 1 .. n :
            specs[k] = IF items[k].kind = "int"
                       THEN At(IF items[k].index < 0 THEN items[k].index + a.shape[k]
                               ELSE items[k].index)
                       ELSE AdjustSlice(items[k], a.shape[k])
  BY <1>1 DEF Specs
<1> HIDE DEF items, specs, n
<1>5. ASSUME NEW k \in 1 .. n
      PROVE  Agrees(specs[k], Says(a, key, k), Taking(a, key, k), a.shape[k])
  <2> DEFINE it == Says(a, key, k)
             d == a.shape[k]
             taken == Taking(a, key, k)
  <2>1. d \in Nat /\ it \in IndexItems \cup SliceItems /\ items[k] = it
    BY <1>1, <1>3
  <2>2. taken = IF it.kind = "slice" THEN Numpy!Positions(it, d) ELSE <<it.index % d>>
    BY DEF Taking
  <2>3. CASE it.kind = "int"
    <3> DEFINE i == it.index
               j == IF i < 0 THEN i + d ELSE i
               w == i % d
    <3>1. i \in -d .. d - 1
      BY <1>2, <2>1, <2>3
    <3>2. specs[k] = At(j)
      BY <1>4, <2>1, <2>3
    <3>3. it.kind # "slice"
      BY <2>3
    <3>4. taken = <<w>>
      BY <2>2, <3>3
    <3>5. w = j /\ j \in Nat /\ j < d
      <4> HIDE DEF d, i
      <4>1. j \in Nat /\ j < d /\ i \in Int /\ d > 0 /\ i = (IF i < 0 THEN -1 ELSE 0) * d + j
        BY <2>1, <3>1
      <4> DEFINE q == IF i < 0 THEN -1 ELSE 0
      <4>2. q \in Int /\ i = q * d + j /\ j \in Int /\ 0 <= j /\ d \in Nat
        BY <2>1, <4>1
      <4> HIDE DEF q, j
      <4>3. i % d = j
        BY <4>1, <4>2, DivisionUnique
      <4> QED
        BY <4>1, <4>3
    <3> HIDE DEF w, j, i
    <3>6. specs[k].kind = "int" /\ specs[k].index = j
      BY <3>2 DEF At
    <3>7. taken[1] = j
      BY <3>4, <3>5
    <3> HIDE DEF it, d, taken
    <3> QED
      BY <2>3, <3>5, <3>6, <3>7 DEF Agrees, it, d, taken
  <2>4. CASE it.kind # "int"
    <3>1. it \in SliceItems /\ it.kind = "slice"
      BY <2>1, <2>4 DEF IndexItems, SliceItems
    <3>2. specs[k] = AdjustSlice(it, d)
      BY <1>4, <2>1, <2>4
    <3>3. taken = Numpy!Positions(it, d)
      BY <2>2, <3>1
    <3> HIDE DEF it, d, taken
    <3>4. Inside(specs[k], d) /\ specs[k].kind = "slice"
      BY <2>1, <3>1, <3>2, AdjustInside
    <3>5. Listed(taken, specs[k])
      BY <2>1, <3>1, <3>2, <3>3, PositionsAre
    <3> QED
      BY <3>1, <3>4, <3>5 DEF Agrees, it, d, taken
  <2> QED
    BY <2>3, <2>4
<1> QED
  BY <1>3, <1>4, <1>5 DEF items, specs, n

\* The axes NumPy keeps are those the specifiers keep.
LEMMA KeptAre ==
    ASSUME NEW a, a.shape \in Seq(Nat), NEW key \in Seq(KeyItems), CanIndex(a, key)
    PROVE  /\ Keeping(a, key) = Kept(a, Specs(a, key))
           /\ Axes(Kept(a, Specs(a, key)), Len(Kept(a, Specs(a, key))), Len(a.shape),
                   {k \in 1 .. Len(a.shape) : Says(a, key, k).kind = "slice"})
<1> DEFINE n == Len(a.shape)
           specs == Specs(a, key)
           left == {k \in DOMAIN specs : specs[k].kind = "slice"}
           said == {k \in 1 .. n : Says(a, key, k).kind = "slice"}
           K == AxesOf(a, left)
           m == Len(K)
<1>1. n \in Nat /\ DOMAIN a.shape = 1 .. n
  BY LenProperties
<1>2. left = said
  <2>1. DOMAIN specs = 1 .. n
        /\ \A k \in 1 .. n : Agrees(specs[k], Says(a, key, k), Taking(a, key, k), a.shape[k])
    BY SpecsAgree
  <2>2. \A k \in 1 .. n : specs[k].kind = "slice" <=> Says(a, key, k).kind = "slice"
    BY <2>1 DEF Agrees
  <2> HIDE DEF specs
  <2> QED
    BY <2>1, <2>2
<1>3. Kept(a, specs) = K
  BY DEF Kept
<1>4. said \subseteq 1 .. n
  OBVIOUS
<1>d. Keeping(a, key) = Numpy!Ascending(said)
  BY DEF Keeping
<1> HIDE DEF left, said, n, specs
<1>5. Axes(K, m, n, said)
  <2>1. Axes(AxesOf(a, said), Len(AxesOf(a, said)), n, said)
    BY <1>1, <1>4, AxesOfTakes
  <2> QED
    BY <1>2, <2>1
<1> HIDE DEF K, m
<1>6. Climbs(K, m, said)
  <2>1. /\ m \in Nat /\ K \in [1 .. m -> 1 .. n] /\ Image(K, m) = said
        /\ \A i, j \in 1 .. m : i < j => K[i] < K[j]
    BY <1>5 DEF Axes
  <2>2. K \in [1 .. m -> Int]
    BY <1>1, <2>1
  <2> QED
    BY <2>1, <2>2 DEF Climbs, Image
<1>7. Numpy!Ascending(said) = K
  <2>1. m \in Nat
    BY <1>5 DEF Axes
  <2> QED
    BY <1>6, <2>1, AscendingIs
<1> QED
  BY <1>3, <1>5, <1>7, <1>d DEF m, said, n, specs

\* Element ix of a[key] is the element of the array that NumPy reads.
LEMMA IndexSource ==
    ASSUME NEW a, NEW cells, Sound(a, cells), NEW key \in Seq(KeyItems), CanIndex(a, key),
           \E k \in 1 .. Len(a.shape) : Says(a, key, k).kind = "slice",
           NEW ix \in Box(SliceNd(a, Specs(a, key)).shape)
    PROVE  /\ Reading(a, key, ix) \in Box(a.shape)
           /\ ElemAt(SliceNd(a, Specs(a, key)), ix) = ElemAt(a, Reading(a, key, ix))
<1> DEFINE n == Len(a.shape)
           specs == Specs(a, key)
           b == SliceNd(a, specs)
           K == Kept(a, specs)
           m == Len(K)
           from == Origin(specs)
           step == Paces(a, specs)
           jx == Reading(a, key, ix)
           said(k) == Says(a, key, k).kind = "slice"
           taken(k) == Taking(a, key, k)
           left == {k \in 1 .. n : said(k)}
<1>1. /\ a.shape \in Seq(Nat) /\ Exact(a) /\ n \in Nat
      /\ \A k \in 1 .. n : a.shape[k] \in Nat
  BY ExactTakes, ElementOfSeq DEF Sound
<1>2. /\ DOMAIN specs = 1 .. n
      /\ \A k \in 1 .. n : Agrees(specs[k], Says(a, key, k), taken(k), a.shape[k])
  BY <1>1, SpecsAgree
<1>3. Keeping(a, key) = K /\ Axes(K, m, n, left)
  BY <1>1, KeptAre
<1>4. /\ Exact(b) /\ Selects(a, b, K, from, step) /\ Covers(a, b, K, from, step)
      /\ b.shape = Extents(a, specs)
  <2>1. \A k \in 1 .. n : /\ Specified(specs[k], a.shape[k])
                          /\ said(k) => specs[k].kind = "slice"
    <3> SUFFICES ASSUME NEW k \in 1 .. n
                 PROVE  Specified(specs[k], a.shape[k]) /\ (said(k) => specs[k].kind = "slice")
      OBVIOUS
    <3> HIDE DEF specs, taken
    <3>1. Agrees(specs[k], Says(a, key, k), taken(k), a.shape[k])
      BY <1>2
    <3> QED
      BY <1>1, <3>1 DEF Agrees, Specified
  <2>2. \E k \in 1 .. n : specs[k].kind = "slice"
    BY <2>1
  <2> HIDE DEF specs
  <2> QED
    BY <1>2, <2>1, <2>2, SliceNdSelects
<1>5. \A k \in 1 .. n : from[k] = IF specs[k].kind = "int" THEN specs[k].index ELSE specs[k].start
  BY <1>2 DEF Origin
<1>6. /\ \A j \in 1 .. m : step[j] = specs[K[j]].step
      /\ DOMAIN b.shape = 1 .. m /\ \A j \in 1 .. m : b.shape[j] = specs[K[j]].len
  BY <1>4 DEF Paces, Extents
<1>7. ix \in Box(b.shape) /\ b.shape \in Seq(Nat)
  BY <1>4, ExactTakes
<1>8. jx = [k \in 1 .. n |->
              IF said(k) THEN taken(k)[1 + ix[CHOOSE j \in DOMAIN K : K[j] = k]] ELSE taken(k)[1]]
  BY <1>3 DEF Reading
<1>9. /\ m \in Nat /\ DOMAIN K = 1 .. m /\ Image(K, m) = left
      /\ \A j \in 1 .. m : K[j] \in 1 .. n /\ K[j] \in left
      /\ \A i, j \in 1 .. m : K[i] = K[j] => i = j
  <2>1. /\ m \in Nat /\ K \in [1 .. m -> 1 .. n] /\ Image(K, m) = left
        /\ \A i, j \in 1 .. m : K[i] = K[j] => i = j
    BY <1>3 DEF Axes, Places
  <2> HIDE DEF K, m, left
  <2> QED
    BY <2>1 DEF Image
<1>10. Len(b.shape) = m
  <2> HIDE DEF m, b
  <2> QED
    BY <1>6, <1>7, <1>9, LenProperties
<1>11. \A j \in 1 .. m : ix[j] \in Nat /\ ix[j] < b.shape[j]
  BY <1>7, <1>10, BoxTakes
<1>left. \A k \in 1 .. n : k \in left <=> said(k)
  OBVIOUS
<1> HIDE DEF jx, specs, b, K, m, n, from, step, left, said, taken
<1>12. ASSUME NEW j \in 1 .. m PROVE jx[K[j]] = from[K[j]] + step[j] * ix[j]
  <2> DEFINE k == K[j]
             it == Says(a, key, k)
             x == ix[j]
             r == specs[k]
  <2>1. k \in 1 .. n /\ said(k)
    BY <1>9, <1>left
  <2>2. (CHOOSE i \in DOMAIN K : K[i] = k) = j
    BY <1>9
  <2>3. jx[k] = taken(k)[1 + x]
    BY <1>8, <2>1, <2>2
  <2>4. r.kind = "slice" /\ Listed(taken(k), r) /\ Inside(r, a.shape[k])
    <3>1. Agrees(r, it, taken(k), a.shape[k]) /\ it.kind = "slice"
      BY <1>2, <2>1 DEF said
    <3> HIDE DEF r, it, k
    <3> QED
      BY <3>1 DEF Agrees
  <2>5. x \in Nat /\ x < r.len /\ step[j] = r.step
    BY <1>6, <1>11
  <2>6. from[k] = r.start
    BY <1>5, <2>1, <2>4
  <2> HIDE DEF k, r, x
  <2>7. taken(k)[1 + x] = r.start + r.step * x
    <3> DEFINE y == 1 + x
    <3>1. taken(k) = [z \in 1 .. r.len |-> r.start + r.step * (z - 1)]
      BY <2>4 DEF Listed
    <3>2. y \in 1 .. r.len /\ y - 1 = x
      BY <2>4, <2>5 DEF Inside
    <3> HIDE DEF y
    <3>3. taken(k)[y] = r.start + r.step * (y - 1)
      BY <3>1, <3>2
    <3> QED
      BY <3>2, <3>3 DEF y
  <2>8. jx[k] = from[k] + step[j] * x
    BY <2>3, <2>5, <2>6, <2>7
  <2> QED
    BY <2>8 DEF k, x
<1>13. ASSUME NEW k \in (1 .. n) \ left PROVE jx[k] = from[k]
  <2>1. k \in 1 .. n /\ ~said(k)
    BY <1>left
  <2>2. jx[k] = taken(k)[1]
    BY <1>8, <2>1
  <2>3. Agrees(specs[k], Says(a, key, k), taken(k), a.shape[k])
    BY <1>2, <2>1
  <2>4. specs[k].kind = "int" /\ taken(k)[1] = specs[k].index
    BY <2>1, <2>3 DEF Agrees, said
  <2> QED
    BY <1>5, <2>1, <2>2, <2>4
<1>14. Source(jx, ix, K, Len(b.shape), Len(a.shape), from, step)
  <2>1. Source(jx, ix, K, m, n, from, step)
    BY <1>9, <1>12, <1>13 DEF Source
  <2> QED
    BY <1>10, <2>1 DEF n
<1>15. jx \in Box(a.shape)
  <2>1. ASSUME NEW k \in 1 .. n PROVE jx[k] \in Nat /\ jx[k] < a.shape[k]
    <3>1. CASE k \in left
      <4>1. PICK j \in 1 .. m : k = K[j]
        BY <1>9, <3>1 DEF Image
      <4> DEFINE x == ix[j]
                 v == from[K[j]] + step[j] * x
      <4>2. x \in Nat /\ x < b.shape[j] /\ jx[k] = v
        BY <1>11, <1>12, <4>1
      <4>3. 0 <= v /\ v < a.shape[K[j]]
        BY <1>4, <1>10, <4>2 DEF Covers
      <4>4. v \in Int
        <5>1. from[K[j]] \in Int /\ step[j] \in Int
          BY <1>4, <1>9, <1>10 DEF Selects, IntsOn, n
        <5> HIDE DEF x
        <5> QED
          BY <4>2, <5>1
      <4> HIDE DEF v
      <4> QED
        BY <1>1, <4>1, <4>2, <4>3, <4>4
    <3>2. CASE k \notin left
      <4>1. jx[k] = from[k]
        BY <1>13, <3>2
      <4>2. Image(K, Len(b.shape)) = left
        BY <1>9, <1>10
      <4>3. 0 <= from[k] /\ from[k] < a.shape[k]
        BY <1>4, <3>2, <4>2 DEF Covers, n
      <4>4. from[k] \in Int
        BY <1>4 DEF Selects, IntsOn, n
      <4> QED
        BY <4>1, <4>3, <4>4
    <3> QED
      BY <3>1, <3>2
  <2>2. DOMAIN jx = 1 .. n /\ jx = [k \in 1 .. n |-> jx[k]]
    BY <1>8
  <2>3. jx \in [1 .. n -> Nat]
    BY <2>1, <2>2
  <2> QED
    BY <2>1, <2>3 DEF Box, n
<1>16. b.base + LinearOffset(ix, b.strides) = a.base + LinearOffset(jx, a.strides)
  <2>1. /\ b.base + LinearOffset(ix, b.strides) = a.base + LinearOffset(jx, a.strides)
        /\ b.base \in Int /\ LinearOffset(ix, b.strides) \in Int
        /\ a.base \in Int /\ LinearOffset(jx, a.strides) \in Int
    BY <1>1, <1>4, <1>7, <1>14, <1>15, SourceOffset
  <2> QED
    BY <2>1
<1> QED
  BY <1>15, <1>16 DEF ElemAt, jx, b, specs

\* How many positions a slice takes.
LEMMA ListedLength ==
    ASSUME NEW n \in Nat, NEW r, Inside(r, n), NEW q, Listed(q, r)
    PROVE  Len(q) = r.len
<1>1. r.start \in Int /\ r.step \in Int /\ r.len \in Nat
  BY DEF Inside
<1> DEFINE l == r.len
           i == r.start
           t == r.step
<1>2. q = [y \in 1 .. l |-> i + t * (y - 1)]
  BY DEF Listed
<1>3. l \in Nat /\ i \in Int /\ t \in Int
  BY <1>1
<1> HIDE DEF l, i, t
<1>4. ASSUME NEW y \in 1 .. l PROVE i + t * (y - 1) \in Int
  <2>1. y - 1 \in Int
    OBVIOUS
  <2>2. t * (y - 1) \in Int
    BY <1>3, <2>1
  <2> QED
    BY <1>3, <2>2
<1>5. q \in [1 .. l -> Int]
  BY <1>2, <1>4
<1>6. Len(q) = l
  BY <1>3, <1>5, SequenceOf
<1> QED
  BY <1>6 DEF l

\* a[key] is NumPy's.
LEMMA KeyRefines ==
    ASSUME IInv, IInv', NEW key \in Keys, CanIndex(arr, key),
           \E k \in 1 .. Len(arr.shape) : Says(arr, key, k).kind = "slice",
           View(SliceNd(arr, Specs(arr, key))),
           asked = <<>>, asked' = <<"getitem", key>>
    PROVE  Numpy!Index(key)
<1> DEFINE n == Len(arr.shape)
           specs == Specs(arr, key)
           b == SliceNd(arr, specs)
           K == Kept(arr, specs)
           m == Len(K)
           was == [ix \in Indices(arr.shape) |-> Cell(arr.base + LinearOffset(ix, arr.strides))]
           item(k) == Numpy!AxisItem(key, k, n)
           left == {k \in 1 .. n : item(k).kind = "slice"}
           kept == Numpy!Ascending(left)
           chosen(k) == IF item(k).kind = "slice" THEN Numpy!Positions(item(k), arr.shape[k])
                        ELSE <<item(k).index % arr.shape[k]>>
           source(ix) == [k \in 1 .. n |->
                            IF item(k).kind = "slice"
                            THEN chosen(k)[1 + ix[CHOOSE j \in DOMAIN kept : kept[j] = k]]
                            ELSE chosen(k)[1]]
<1>1. /\ Sound(arr, DOMAIN mem) /\ arr.shape \in Seq(Nat) /\ n \in Nat /\ DOMAIN arr.shape = 1 .. n
      /\ \A k \in 1 .. n : arr.shape[k] \in Nat
  BY ExactTakes, ElementOfSeq DEF IInv, Sound
<1>2. key \in Seq(KeyItems)
  BY ArgumentsAssumption
<1>3. /\ DOMAIN specs = 1 .. n
      /\ \A k \in 1 .. n : Agrees(specs[k], Says(arr, key, k), Taking(arr, key, k), arr.shape[k])
      /\ \A k \in 1 .. n : Items(arr, key)[k] = Says(arr, key, k)
  BY <1>1, <1>2, SpecsAgree
<1>4. Keeping(arr, key) = K /\ Axes(K, m, n, {k \in 1 .. n : Says(arr, key, k).kind = "slice"})
  BY <1>1, <1>2, KeptAre
<1>5. \A k : item(k) = Says(arr, key, k) /\ chosen(k) = Taking(arr, key, k)
  BY DEF Says, Taking
<1>6. kept = K
  BY <1>4 DEF Keeping, Says
<1>7. \A ix : source(ix) = Reading(arr, key, ix)
  BY DEF Reading, Keeping, Says, Taking
<1>8. Sound(b, DOMAIN mem) /\ b.shape = Extents(arr, specs)
  <2>1. \A k \in 1 .. n : /\ Specified(specs[k], arr.shape[k])
                          /\ Says(arr, key, k).kind = "slice" => specs[k].kind = "slice"
    <3> SUFFICES ASSUME NEW k \in 1 .. n
                 PROVE  /\ Specified(specs[k], arr.shape[k])
                        /\ Says(arr, key, k).kind = "slice" => specs[k].kind = "slice"
      OBVIOUS
    <3> HIDE DEF specs
    <3>1. Agrees(specs[k], Says(arr, key, k), Taking(arr, key, k), arr.shape[k])
      BY <1>3
    <3> QED
      BY <1>1, <3>1 DEF Agrees, Specified
  <2>2. \E k \in 1 .. n : specs[k].kind = "slice"
    BY <2>1
  <2> HIDE DEF specs
  <2> QED
    BY <1>1, <1>3, <2>1, <2>2, SliceNdSelects, SliceNdSound
<1>9. View(b)
  OBVIOUS
<1> HIDE DEF specs, b
<1>10. arr'.shape = b.shape /\ Elem(arr', mem') = Elem(b, mem) /\ copies' = copies
  BY <1>8, <1>9, ViewShows DEF View
<1>11. was = Elem(arr, mem) /\ was' = Elem(arr', mem')
  BY ElemNow, ElemNext
<1>12. ASSUME NEW ix \in Box(b.shape)
       PROVE  source(ix) \in Box(arr.shape) /\ ElemAt(b, ix) = ElemAt(arr, source(ix))
  <2> HIDE DEF source, n
  <2>1. /\ Reading(arr, key, ix) \in Box(arr.shape)
        /\ ElemAt(b, ix) = ElemAt(arr, Reading(arr, key, ix))
    BY <1>1, <1>2, IndexSource DEF b, specs
  <2> QED
    BY <1>7, <2>1
<1>13. Indices(arr'.shape) = Box(b.shape)
  <2>1. b.shape \in Seq(Nat)
    BY <1>8, ExactTakes DEF Sound
  <2> QED
    BY <1>10, <2>1, OrderIs
<1>14. Numpy!Cardinality({j \in DOMAIN key : key[j].kind # "ellipsis"}) <= n
  <2>1. DOMAIN key = 1 .. Len(key) /\ \A j \in 1 .. Len(key) : key[j] \in KeyItems
    <3> DEFINE q == key
    <3>1. q \in Seq(KeyItems)
      BY <1>2
    <3> HIDE DEF q
    <3>2. DOMAIN q = 1 .. Len(q) /\ \A j \in 1 .. Len(q) : q[j] \in KeyItems
      BY <3>1, LenProperties, ElementOfSeq
    <3> QED
      BY <3>2 DEF q
  <2>2. \A j \in DOMAIN key : key[j].kind # "ellipsis" <=> key[j] # Ellipsis
    BY <2>1 DEF KeyItems, IndexItems, SliceItems, Ellipsis
  <2>3. {j \in DOMAIN key : key[j].kind # "ellipsis"} = {j \in DOMAIN key : key[j] # Ellipsis}
    BY <2>2
  <2>4. Named(key) <= n
    BY DEF CanIndex
  <2> QED
    BY <2>3, <2>4, SameSets DEF Named
<1>15. \A k \in 1 .. n : item(k).kind = "int" => item(k).index \in -arr.shape[k] .. arr.shape[k] - 1
  <2>1. \A k \in 1 .. n : Items(arr, key)[k].kind = "int" =>
             Items(arr, key)[k].index \in -arr.shape[k] .. arr.shape[k] - 1
    BY <1>1 DEF CanIndex
  <2> HIDE DEF item
  <2> QED
    BY <1>3, <1>5, <2>1
<1>16. arr'.shape = [j \in DOMAIN kept |-> Len(chosen(kept[j]))]
  <2>1. /\ DOMAIN K = 1 .. m
        /\ \A j \in 1 .. m : K[j] \in 1 .. n /\ Says(arr, key, K[j]).kind = "slice"
    <3>1. m \in Nat /\ K \in [1 .. m -> 1 .. n]
          /\ Image(K, m) = {k \in 1 .. n : Says(arr, key, k).kind = "slice"}
      BY <1>4 DEF Axes
    <3> HIDE DEF K, m
    <3> QED
      BY <3>1 DEF Image
  <2>2. Extents(arr, specs) = [j \in 1 .. m |-> specs[K[j]].len]
    BY DEF Extents
  <2> HIDE DEF kept, chosen, K, m
  <2>3. ASSUME NEW j \in 1 .. m PROVE Len(chosen(K[j])) = specs[K[j]].len
    <3> DEFINE k == K[j]
    <3>1. k \in 1 .. n /\ Says(arr, key, k).kind = "slice"
      BY <2>1
    <3> HIDE DEF k
    <3>2. Agrees(specs[k], Says(arr, key, k), Taking(arr, key, k), arr.shape[k])
      BY <1>3, <3>1
    <3>3. Inside(specs[k], arr.shape[k]) /\ Listed(Taking(arr, key, k), specs[k])
      BY <3>1, <3>2 DEF Agrees
    <3>4. Len(Taking(arr, key, k)) = specs[k].len
      BY <1>1, <3>1, <3>3, ListedLength
    <3>5. chosen(k) = Taking(arr, key, k)
      BY <1>5
    <3> QED
      BY <3>4, <3>5 DEF k
  <2> QED
    BY <1>6, <1>8, <1>10, <2>1, <2>2, <2>3
<1>17. was' = [ix \in Numpy!Indices(arr'.shape) |-> was[source(ix)]]
  <2>1. \A ix \in Box(b.shape) : mem[ElemAt(b, ix)] = Elem(arr, mem)[source(ix)]
    <3> HIDE DEF source
    <3> QED
      BY <1>12 DEF Elem
  <2>2. Numpy!Indices(arr'.shape) = Box(b.shape)
    BY <1>13, SameOrders
  <2>3. Elem(b, mem) = [ix \in Box(b.shape) |-> mem[ElemAt(b, ix)]]
    BY DEF Elem
  <2> HIDE DEF was, source
  <2> QED
    BY <1>10, <1>11, <2>1, <2>2, <2>3
<1>18. (copies' = 0) = (copies = 0)
  BY <1>10
<1> HIDE DEF n
<1> QED
  BY <1>14, <1>15, <1>16, <1>17, <1>18 DEF Numpy!Index, Numpy!Answer, n

-----------------------------------------------------------------------------
(* The implementation of NumpyArray *)

\* A tuple key is NumPy's.
LEMMA SliceNdRefines ==
    ASSUME IInv, IInv', NEW key \in Keys, DoSliceNd(key), asked = <<>>, asked' = <<"getitem", key>>
    PROVE  Numpy!Index(key)
<1>1. /\ CanIndex(arr, key)
      /\ \E k \in DOMAIN arr.shape : Items(arr, key)[k].kind = "slice"
      /\ View(SliceNd(arr, Specs(arr, key)))
  BY DEF DoSliceNd
<1>2. arr.shape \in Seq(Nat) /\ DOMAIN arr.shape = 1 .. Len(arr.shape) /\ key \in Seq(KeyItems)
  BY ArgumentsAssumption, ExactTakes DEF IInv, Sound
<1>3. \A k \in 1 .. Len(arr.shape) : Items(arr, key)[k] = Says(arr, key, k)
  BY <1>1, <1>2, SpecsAgree
<1>4. \E k \in 1 .. Len(arr.shape) : Says(arr, key, k).kind = "slice"
  BY <1>1, <1>2, <1>3
<1> QED
  BY <1>1, <1>4, KeyRefines

\* A slice of a 1-D array is NumPy's.
LEMMA SliceRefines ==
    ASSUME IInv, IInv', NEW key \in Keys, DoSlice(key), asked = <<>>, asked' = <<"getitem", key>>
    PROVE  Numpy!Index(key)
<1>1. /\ Len(arr.shape) = 1 /\ Len(key) = 1 /\ key[1].kind = "slice"
      /\ LET s == AdjustSlice(key[1], arr.size)
         IN  View(ViewStrided(arr, s.start, s.len, s.step))
  BY DEF DoSlice
<1> DEFINE s == key[1]
           r == AdjustSlice(s, arr.size)
<1>2. /\ arr.shape \in Seq(Nat) /\ DOMAIN arr.shape = 1 .. 1 /\ key \in Seq(KeyItems)
      /\ Sound(arr, DOMAIN mem) /\ arr.size = Count(arr.shape) /\ arr.shape[1] \in Int
  BY <1>1, ArgumentsAssumption, ExactTakes, ElementOfSeq DEF IInv, Sound, Exact
<1>3. key[1] \in KeyItems /\ DOMAIN key = 1 .. 1
  <2> DEFINE q == key
  <2>1. q \in Seq(KeyItems) /\ Len(q) = 1
    BY <1>1, <1>2
  <2> HIDE DEF q
  <2>2. q[1] \in KeyItems /\ DOMAIN q = 1 .. 1
    BY <2>1, LenProperties, ElementOfSeq
  <2> QED
    BY <2>2 DEF q
<1>4. s \in SliceItems
  BY <1>1, <1>3 DEF KeyItems, IndexItems, Ellipsis
<1>5. key = <<s>>
  <2> DEFINE q == key
  <2>1. q \in Seq(KeyItems) /\ Len(q) = 1 /\ q[1] = s
    BY <1>1, <1>2
  <2> HIDE DEF q, s
  <2>2. q = <<s>>
    BY <2>1
  <2> QED
    BY <2>2 DEF q
<1>6. View(ViewStrided(arr, r.start, r.len, r.step))
  BY <1>1
<1> HIDE DEF s
<1>7. SliceNd(arr, Specs(arr, <<s>>)) = ViewStrided(arr, r.start, r.len, r.step)
  BY <1>1, <1>2, <1>4, OneAxisSlice
<1>8. /\ CanIndex(arr, <<s>>)
      /\ Specs(arr, <<s>>)[1] = AdjustSlice(s, arr.shape[1])
  BY <1>1, <1>2, <1>4, OneItem
<1>9. CanIndex(arr, key) /\ View(SliceNd(arr, Specs(arr, key)))
  BY <1>5, <1>6, <1>7, <1>8
<1>10. \E k \in 1 .. Len(arr.shape) : Says(arr, key, k).kind = "slice"
  <2>1. \A k \in 1 .. Len(arr.shape) :
           Agrees(Specs(arr, key)[k], Says(arr, key, k), Taking(arr, key, k), arr.shape[k])
    BY <1>2, <1>9, SpecsAgree
  <2>2. Specs(arr, key)[1].kind = "slice"
    <3>1. AdjustSlice(s, arr.shape[1]).kind = "slice"
      BY DEF AdjustSlice
    <3> QED
      BY <1>5, <1>8, <3>1
  <2>3. 1 \in 1 .. Len(arr.shape)
    BY <1>1
  <2>4. Agrees(Specs(arr, key)[1], Says(arr, key, 1), Taking(arr, key, 1), arr.shape[1])
    BY <2>1, <2>3
  <2>5. Says(arr, key, 1).kind = "slice"
    BY <2>2, <2>4 DEF Agrees
  <2> QED
    BY <2>3, <2>5
<1> QED
  BY <1>9, <1>10, KeyRefines

\* A first array is NumPy's.
LEMMA InitRefines ==
    ASSUME NoWrap, CInit
    PROVE  Numpy!Init
<1> DEFINE was == [ix \in Indices(arr.shape) |-> Cell(arr.base + LinearOffset(ix, arr.strides))]
<1>0. Init /\ asked = <<>>
  BY DEF CInit
<1>1. PICK s \in Shapes : arr = Fresh(s)
  BY <1>0 DEF Init
<1> DEFINE order == RowMajorOrder(s)
           N == Count(s)
<1>2. s \in Seq(Nat) /\ N < WordSize
  BY ArgumentsAssumption DEF NoWrap
<1>3. Product(s) = N
  BY <1>2, ProductExact
<1>4. /\ arr = Layout(0, s, RowMajor(s), N) /\ arr.size = N /\ arr.shape = s
      /\ arr.base = 0 /\ arr.strides = RowMajor(s)
  BY <1>1, <1>3 DEF Fresh, Layout
<1>5. mem = [o \in 0 .. N - 1 |-> o] /\ copies = 0
  BY <1>0, <1>4 DEF Init
<1>6. Ordered(order, s) /\ Indices(s) = Box(s) /\ N \in Nat
  BY <1>2, OrderIs
<1>7. was = Elem(arr, mem)
  BY <1>0, InitSound, ElemNow
<1>8. ASSUME NEW c \in Box(s)
      PROVE  /\ Elem(arr, mem)[c] = LinearOffset(c, RowMajor(s))
             /\ Numpy!SelectInSeq(order, LAMBDA jx : jx = c) - 1 = LinearOffset(c, RowMajor(s))
  <2> DEFINE o == LinearOffset(c, RowMajor(s))
             I == {i \in 1 .. Len(order) : order[i] = c}
             h == o + 1
  <2>1. o \in 0 .. N - 1
    BY <1>2, RowMajorStrides
  <2>2. ElemAt(arr, c) = o
    BY <1>4, <2>1 DEF ElemAt
  <2>3. Elem(arr, mem)[c] = o
    <3>1. Elem(arr, mem)[c] = mem[ElemAt(arr, c)]
      BY <1>4 DEF Elem
    <3> HIDE DEF o
    <3> QED
      BY <1>5, <2>1, <2>2, <3>1
  <2>4. Len(order) = N /\ \A i \in 1 .. N : order[i] \in Box(s) /\ LinearOffset(order[i], RowMajor(s)) = i - 1
    BY <1>6 DEF Ordered
  <2>5. \A i \in 1 .. N : order[i] = c <=> i = h
    <3> SUFFICES ASSUME NEW i \in 1 .. N PROVE order[i] = c <=> i = h
      OBVIOUS
    <3> DEFINE d == order[i]
    <3>1. d \in Box(s) /\ LinearOffset(d, RowMajor(s)) = i - 1
      BY <2>4
    <3> HIDE DEF d
    <3>2. LinearOffset(d, RowMajor(s)) = o => d = c
      BY <1>2, <3>1, RowMajorStrides
    <3>3. d = c => o = i - 1
      BY <3>1
    <3> HIDE DEF o
    <3> QED
      BY <1>6, <2>1, <3>1, <3>2, <3>3 DEF d
  <2>6. h \in 1 .. N /\ h - 1 = o /\ h \in Int
    <3> HIDE DEF o, N
    <3> QED
      BY <1>6, <2>1
  <2> HIDE DEF h
  <2>7. I = {h}
    BY <2>4, <2>5, <2>6
  <2>8. Numpy!Min({h}) = h
    BY <2>6 DEF Numpy!Min
  <2>9. Numpy!SelectInSeq(order, LAMBDA jx : jx = c) = IF I # {} THEN Numpy!Min(I) ELSE 0
    BY DEF Numpy!SelectInSeq
  <2> HIDE DEF I, order
  <2>10. Numpy!SelectInSeq(order, LAMBDA jx : jx = c) = h
    BY <2>7, <2>8, <2>9
  <2> QED
    BY <2>3, <2>6, <2>10
<1>9. was = [ix \in Numpy!Indices(s) |->
                Numpy!SelectInSeq(Numpy!RowMajorOrder(s), LAMBDA jx : jx = ix) - 1]
  <2>1. Numpy!Indices(s) = Box(s) /\ Numpy!RowMajorOrder(s) = order
    BY <1>6, SameOrders
  <2>2. Elem(arr, mem) = [ix \in Box(s) |-> Elem(arr, mem)[ix]]
    BY <1>4 DEF Elem
  <2> HIDE DEF was, order
  <2>3. \A ix \in Box(s) : Elem(arr, mem)[ix] = Numpy!SelectInSeq(order, LAMBDA jx : jx = ix) - 1
    BY <1>8
  <2> QED
    BY <1>7, <2>1, <2>2, <2>3
<1>10. (copies = 0) = TRUE
  BY <1>5
<1> QED
  BY <1>0, <1>4, <1>9, <1>10 DEF Numpy!Init

\* A chain has copied a number of times.
LEMMA CopiesCount ==
    ASSUME copies \in Nat, [Next]_vars
    PROVE  copies' \in Nat
<1>1. ASSUME NEW a, View(a) PROVE copies' = copies
  BY <1>1 DEF View
<1>2. ASSUME NEW a, Copied(a) PROVE copies' = copies + 1
  BY <1>2 DEF Copied
<1>3. CASE DoCopy
  BY <1>2, <1>3 DEF DoCopy
<1>4. CASE \E axes \in Orders : DoTranspose(axes)
  BY <1>1, <1>4 DEF DoTranspose
<1>5. CASE DoRavel \/ \E request \in Requests : DoReshape(request)
  <2>1. PICK request : IF IsContiguous(arr) THEN View(Reshaped(arr.base, arr, request))
                                            ELSE Copied(Reshaped(0, arr, request))
    BY <1>5 DEF DoReshape, DoRavel
  <2> QED
    BY <1>1, <1>2, <2>1
<1>6. CASE \E axes \in Drops : DoSqueeze(axes)
  BY <1>1, <1>6 DEF DoSqueeze
<1>7. CASE \E axis \in Slots : DoExpandDims(axis)
  BY <1>1, <1>7 DEF DoExpandDims
<1>8. CASE \E key \in Keys : DoSlice(key)
  BY <1>1, <1>8 DEF DoSlice
<1>9. CASE \E key \in Keys : DoSliceNd(key)
  BY <1>1, <1>9 DEF DoSliceNd
<1>10. CASE UNCHANGED vars
  BY <1>10 DEF vars
<1> QED
  BY <1>3, <1>4, <1>5, <1>6, <1>7, <1>8, <1>9, <1>10 DEF Next

\* The array that the refinement shows changes with arr, mem and copies only.
LEMMA SameShown ==
    ASSUME IInv, IInv', UNCHANGED vars
    PROVE  /\ arr'.shape = arr.shape /\ (copies' = 0) = (copies = 0)
           /\ [ix \in Indices(arr.shape) |-> Cell(arr.base + LinearOffset(ix, arr.strides))]'
                = [ix \in Indices(arr.shape) |-> Cell(arr.base + LinearOffset(ix, arr.strides))]
<1> DEFINE was == [ix \in Indices(arr.shape) |-> Cell(arr.base + LinearOffset(ix, arr.strides))]
<1>1. arr' = arr /\ mem' = mem /\ copies' = copies
  BY DEF vars
<1>2. was = Elem(arr, mem) /\ was' = Elem(arr', mem')
  BY ElemNow, ElemNext
<1>3. was' = was
  BY <1>1, <1>2
<1> QED
  BY <1>1, <1>3

\* Every call makes of the array what NumPy makes of it for the same arguments.
LEMMA StepRefines ==
    ASSUME NoWrap, IInv, IInv', copies \in Nat, [CNext]_callVars
    PROVE  [Numpy!Next]_(Numpy!vars)
<1>1. CASE Answers(<<"copy">>, DoCopy)
  BY <1>1, CopyRefines DEF Numpy!Next
<1>2. CASE \E axes \in Orders : Answers(<<"transpose", axes>>, DoTranspose(axes))
  BY <1>2, TransposeRefines DEF Numpy!Next, Orders
<1>3. CASE Answers(<<"ravel">>, DoRavel)
  BY <1>3, RavelRefines DEF Numpy!Next
<1>4. CASE \E request \in Requests : Answers(<<"reshape", request>>, DoReshape(request))
  BY <1>4, ReshapeRefines DEF Numpy!Next
<1>5. CASE \E axes \in Drops : Answers(<<"squeeze", axes>>, DoSqueeze(axes))
  BY <1>5, SqueezeRefines DEF Numpy!Next, Drops, UnitAxes
<1>6. CASE \E axis \in Slots : Answers(<<"expand_dims", axis>>, DoExpandDims(axis))
  BY <1>6, ExpandRefines DEF Numpy!Next, Slots
<1>7. CASE \E key \in Keys : Answers(<<"getitem", key>>, DoSlice(key) \/ DoSliceNd(key))
  <2>1. PICK key \in Keys : Answers(<<"getitem", key>>, DoSlice(key) \/ DoSliceNd(key))
    BY <1>7
  <2>2. Numpy!Index(key)
    BY <2>1, SliceRefines, SliceNdRefines DEF Answers
  <2> QED
    BY <2>2 DEF Numpy!Next
<1>8. CASE Taken
  BY <1>8, SameShown DEF Taken, Numpy!Next, Numpy!Taken
<1>9. CASE UNCHANGED callVars
  BY <1>9, SameShown DEF callVars, Numpy!vars
<1> QED
  BY <1>1, <1>2, <1>3, <1>4, <1>5, <1>6, <1>7, <1>8, <1>9 DEF CNext

\* With the calls on record, the steps are the same.
LEMMA CallsAreSteps ==
    ASSUME [CNext]_callVars
    PROVE  [Next]_vars
  BY DEF CNext, callVars, Answers, Taken, Next

\* Whatever the chain of calls, each makes of the array that getitem and to_numpy
\* show what NumPy makes of it for the same arguments, with the one exception
\* that NumpyArray names, and copies only where NumPy may.
THEOREM ImplementsNumpy == ASSUME NoWrap PROVE CSpec => NumpySpec
<1>1. CInit => Init /\ Numpy!Init /\ copies \in Nat
  BY InitRefines DEF CInit, Init
<1>2. ASSUME copies \in Nat, [Next]_vars PROVE (copies \in Nat)'
  BY <1>2, CopiesCount
<1>3. IInv /\ IInv' /\ copies \in Nat /\ [CNext]_callVars => [Numpy!Next]_(Numpy!vars)
  BY StepRefines
<1>4. Spec => []IInv
  BY Invariant
<1>5. (copies \in Nat) /\ [Next]_vars => (copies \in Nat)'
  BY <1>2
<1>6. [CNext]_callVars => [Next]_vars
  BY CallsAreSteps
<1>7. CSpec => Spec
  BY <1>1, <1>6, PTL DEF CSpec, Spec
<1>8. Spec => [](copies \in Nat)
  <2>1. Init => copies \in Nat
    BY DEF Init
  <2> QED
    BY <1>5, <2>1, PTL DEF Spec
<1> QED
  BY <1>1, <1>3, <1>4, <1>7, <1>8, PTL DEF CSpec, NumpySpec, Numpy!Spec
=============================================================================
