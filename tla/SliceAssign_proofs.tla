-------------------------- MODULE SliceAssign_proofs --------------------------
(***************************************************************************)
(* Proofs about SliceAssign: while any number of threads slice, assign and *)
(* sort views of one buffer, no two pending element writes meet, and what  *)
(* no call in progress claims is as NumPy leaves it - for every shape,     *)
(* content, slice and key. The conditions are NoWrap, no owner of 2^w      *)
(* elements or more, and ~AnyOperands, slice assignment to and from        *)
(* contiguous 1-D arrays that share no element: with other operands both   *)
(* properties fail.                                                        *)
(*                                                                         *)
(* The argument: the elements of a view have cells of their own (the       *)
(* lemmas of ArrayView_proofs, instantiated), and claims are apart, so     *)
(* that a step of one thread disturbs nothing another relies on. Of its    *)
(* own claim each call keeps account (Fine): a fill or copy, that the      *)
(* elements with no pending write are as NumPy leaves them; a gather, that *)
(* the temporary buffer holds the first elements; a scatter, that it holds *)
(* what NumPy leaves in the last ones. When nothing is pending the claim   *)
(* is as NumPy leaves it, and is dropped.                                  *)
(***************************************************************************)
EXTENDS SliceAssign, SequenceTheorems, TLAPS

-----------------------------------------------------------------------------
(* The layouts of ArrayView_proofs *)

\* What is proved there of layouts holds of any: its lemmas name no variable.
Views == INSTANCE ArrayView_proofs WITH
    Shapes <- {}, Requests <- {}, Keys <- {}, RankBound <- 0, MaxStride <- 0, MaxDrift <- 0,
    MaxCopied <- 0, arr <- root, copies <- calls, asked <- <<>>

LEMMA ViewsArguments == Views!ArgumentsAssumption
BY DEF Views!ArgumentsAssumption

\* Its operators are those of NDLayout, of which both modules have a copy.
LEMMA SameFolds ==
    /\ \A seq : Views!SumOf(seq) = SumOf(seq)
    /\ \A seq : Views!Count(seq) = Count(seq)
    /\ \A seq : Views!Product(seq) = Product(seq)
    /\ \A a, axes : Views!AxesOf(a, axes) = AxesOf(a, axes)
<1> USE DEF FoldLeft, Views!FoldLeft, MapThenFoldSet, Views!MapThenFoldSet, Max, Views!Max
<1>1. \A seq : Views!SumOf(seq) = SumOf(seq)
  BY DEF Views!SumOf, SumOf
<1>2. \A seq : Views!Count(seq) = Count(seq)
  BY DEF Views!Count, Count
<1>3. \A seq : Views!Product(seq) = Product(seq)
  BY DEF Views!Product, Product, Mul, Views!Mul
<1>4. \A a, axes : Views!AxesOf(a, axes) = AxesOf(a, axes)
  BY DEF AxesOf, Views!AxesOf
<1> HIDE DEF FoldLeft, Views!FoldLeft, MapThenFoldSet, Views!MapThenFoldSet, Max, Views!Max
<1> QED
  BY <1>1, <1>2, <1>3, <1>4

LEMMA SameOffsets ==
    /\ \A s : Views!InnerVolumes(s) = InnerVolumes(s)
    /\ \A i, s : Views!LinearOffset(i, s) = LinearOffset(i, s)
    /\ \A s : Views!Fresh(s) = Fresh(s)
    /\ \A b, s, t, n : Views!Layout(b, s, t, n) = Layout(b, s, t, n)
    /\ \A s : Views!RowMajor(s) = RowMajor(s)
    /\ \A a : Views!IsContiguous(a) = IsContiguous(a)
    /\ \A a, i : Views!Offset(a, i) = Offset(a, i)
    /\ \A a, i : Views!ItemOffset(a, i) = ItemOffset(a, i)
<1>1. \A s : Views!InnerVolumes(s) = InnerVolumes(s) /\ Views!RowMajor(s) = RowMajor(s)
  BY SameFolds DEF InnerVolumes, RowMajor, Views!InnerVolumes, Views!RowMajor
<1>2. \A i, s, v : Views!FlatToOffset(i, s, v) = FlatToOffset(i, s, v)
  BY SameFolds DEF FlatToOffset, Views!FlatToOffset
<1>3. \A i, s : Views!LinearOffset(i, s) = LinearOffset(i, s)
  BY SameFolds DEF LinearOffset, Views!LinearOffset
<1>4. /\ \A s : Views!Fresh(s) = Fresh(s)
      /\ \A b, s, t, n : Views!Layout(b, s, t, n) = Layout(b, s, t, n)
  BY SameFolds, <1>1 DEF Fresh, Views!Fresh, Layout, Views!Layout
<1>5. \A a : Views!IsContiguous(a) = IsContiguous(a)
  BY DEF IsContiguous, Views!IsContiguous, Last, Views!Last
<1>6. \A a, i : Views!Offset(a, i) = Offset(a, i) /\ Views!ItemOffset(a, i) = ItemOffset(a, i)
  BY <1>1, <1>2 DEF Offset, ItemOffset, Views!Offset, Views!ItemOffset
<1> QED
  BY <1>1, <1>3, <1>4, <1>5, <1>6

LEMMA SameViews ==
    /\ \A s, n : Views!AdjustSlice(s, n) = AdjustSlice(s, n)
    /\ \A a, b, n, c : Views!ViewStrided(a, b, n, c) = ViewStrided(a, b, n, c)
    /\ \A a, p : Views!Transpose(a, p) = Transpose(a, p)
    /\ \A a, key : Views!Items(a, key) = Items(a, key)
    /\ \A a, key : Views!CanIndex(a, key) = CanIndex(a, key)
    /\ \A a, key : Views!Specs(a, key) = Specs(a, key)
    /\ \A a, specs : Views!SliceNd(a, specs) = SliceNd(a, specs)
    /\ Views!SliceItems = SliceItems
    /\ Views!KeyItems = KeyItems
<1>1. \A s, n : Views!AdjustSlice(s, n) = AdjustSlice(s, n)
  BY DEF AdjustSlice, Views!AdjustSlice, Clip, Views!Clip
<1>2. \A a, b, n, c : Views!ViewStrided(a, b, n, c) = ViewStrided(a, b, n, c)
  BY DEF ViewStrided, Views!ViewStrided, Layout, Views!Layout
<1>3. \A a, p : Views!Transpose(a, p) = Transpose(a, p)
  BY DEF Transpose, Views!Transpose, Layout, Views!Layout
<1> USE DEF Ellipsis, Views!Ellipsis
<1>4. \A key : Views!Named(key) = Named(key)
  BY DEF Named, Views!Named, Cardinality, Views!Cardinality
<1>5. \A a, key : Views!Items(a, key) = Items(a, key)
  BY DEF Items, Views!Items, FullAxis, Views!FullAxis, Slice, Views!Slice, SelectInSeq,
     Views!SelectInSeq, Views!Min, Min, Named, Views!Named, Cardinality, Views!Cardinality
<1>6. \A key : Views!Cardinality({k \in DOMAIN key : key[k] = Ellipsis})
                 = Cardinality({k \in DOMAIN key : key[k] = Ellipsis})
  BY DEF Cardinality, Views!Cardinality
<1>7. \A a, key : Views!CanIndex(a, key) = CanIndex(a, key)
  BY <1>4, <1>5, <1>6 DEF CanIndex, Views!CanIndex
<1>8. \A a, key : Views!Specs(a, key) = Specs(a, key)
  BY <1>1, <1>5 DEF Specs, Views!Specs, At, Views!At
<1>9. \A a, s : Views!SliceBase(a, s) = SliceBase(a, s)
  BY SameFolds DEF SliceBase, Views!SliceBase
<1>10. ASSUME NEW a, NEW specs PROVE Views!SliceNd(a, specs) = SliceNd(a, specs)
  BY SameFolds, <1>9 DEF SliceNd, Views!SliceNd, Layout, Views!Layout
<1>11. Views!SliceItems = SliceItems /\ Views!KeyItems = KeyItems
  BY DEF SliceItems, Views!SliceItems, KeyItems, Views!KeyItems, IndexItems, Views!IndexItems,
     Steps, Views!Steps, Bounds, Views!Bounds
<1> QED
  BY <1>1, <1>2, <1>3, <1>5, <1>7, <1>8, <1>10, <1>11

-----------------------------------------------------------------------------
(* The arrays that threads hold *)

\* a is a layout whose elements have cells of their own.
Placed(a, cells) == Views!Sound(a, cells)

\* The cells of its elements.
CellsOf(a) == {Offset(a, i) : i \in 0 .. a.size - 1}

\* What a says of its elements is exact, whatever loop reads them.
Fields(a) ==
    /\ a.base \in Int /\ a.size \in Nat /\ a.size < WordSize
    /\ a.shape \in Seq(Nat) /\ a.strides \in Seq(Int)
    /\ Len(a.strides) = Len(a.shape)

Reads(a, cells) ==
    /\ \A i \in 0 .. a.size - 1 : Offset(a, i) \in cells
    /\ \A i, j \in 0 .. a.size - 1 : Offset(a, i) = Offset(a, j) => i = j
    /\ IsContiguous(a) => \A i \in 0 .. a.size - 1 : Offset(a, i) = a.base + i

LEMMA PlacedReads ==
    ASSUME NEW a, NEW cells, Placed(a, cells)
    PROVE  Fields(a) /\ Reads(a, cells)
<1>1. Views!Sound(a, cells) /\ Views!ArgumentsAssumption
  BY ViewsArguments DEF Placed
<1>2. /\ \A i \in 0 .. a.size - 1 : Views!Offset(a, i) \in cells
      /\ \A i, j \in 0 .. a.size - 1 : Views!Offset(a, i) = Views!Offset(a, j) => i = j
      /\ Views!IsContiguous(a) => \A i \in 0 .. a.size - 1 : Views!Offset(a, i) = a.base + i
  <2> USE DEF Views!SoundMeans
  <2> QED
    BY <1>1, Views!SoundMeans, WordSizeAssumption
<1>3. Fields(a)
  BY <1>1 DEF Views!Sound, Views!Exact, Views!Layouts, Fields
<1> QED
  BY <1>2, <1>3, SameOffsets DEF Reads

\* The array that owns the buffer.
LEMMA FreshPlaced ==
    ASSUME NEW s \in Seq(Nat), Count(s) < WordSize
    PROVE  Placed(Fresh(s), 0 .. Fresh(s).size - 1)
<1>1. Product(s) = Count(s) /\ Count(s) \in Nat
  <2>1. Views!Count(s) < WordSize
    BY SameFolds
  <2>2. Views!Product(s) = Views!Count(s) /\ Views!Count(s) \in Nat
    <3> USE DEF Views!ProductExact
    <3> QED
      BY <2>1, ViewsArguments, Views!ProductExact, WordSizeAssumption
  <2> QED
    BY <2>2, SameFolds
<1>2. Fresh(s) = Layout(0, s, RowMajor(s), Count(s)) /\ Fresh(s).size = Count(s)
  BY <1>1 DEF Fresh, Layout
<1> DEFINE cells == 0 .. Count(s) - 1
<1>3. Views!Room(0, Views!Count(s), cells)
  BY <1>1, SameFolds DEF Views!Room
<1>4. Views!Count(s) < WordSize
  BY SameFolds
<1> HIDE DEF cells
<1>5. Views!Sound(Views!Layout(0, s, Views!RowMajor(s), Views!Count(s)), cells)
  <2> USE DEF Views!RowMajorSound
  <2> QED
    BY <1>3, <1>4, ViewsArguments, Views!RowMajorSound, WordSizeAssumption
<1>6. Views!Layout(0, s, Views!RowMajor(s), Views!Count(s)) = Fresh(s)
  BY <1>2, SameFolds, SameOffsets
<1> QED
  BY <1>2, <1>5, <1>6 DEF Placed, cells

\* A slice of a 1-D array.
LEMMA SlicePlaced ==
    ASSUME NEW a, NEW cells, Placed(a, cells), Len(a.shape) = 1, NEW s \in SliceItems
    PROVE  LET r == AdjustSlice(s, a.size)
           IN  /\ Placed(ViewStrided(a, r.start, r.len, r.step), cells)
               /\ r.start \in Int /\ r.len \in Nat /\ r.step = s.step
<1> DEFINE r == AdjustSlice(s, a.size)
<1>1. a.size \in Nat /\ r.step = s.step
  BY PlacedReads DEF Fields, AdjustSlice
<1>2. Views!Inside(r, a.size)
  <2>1. Views!Inside(Views!AdjustSlice(s, a.size), a.size)
    <3>1. s \in Views!SliceItems
      BY SameViews
    <3> USE DEF Views!AdjustInside
    <3> QED
      BY <1>1, <3>1, ViewsArguments, Views!AdjustInside, WordSizeAssumption
  <2> QED
    BY <2>1, SameViews
<1> HIDE DEF r
<1>3. Views!Sound(Views!ViewStrided(a, r.start, r.len, r.step), cells)
  <2>1. Views!Sound(a, cells)
    BY DEF Placed
  <2> USE DEF Views!StridedSound
  <2> QED
    BY <1>2, <2>1, ViewsArguments, Views!StridedSound, WordSizeAssumption
<1>4. Placed(ViewStrided(a, r.start, r.len, r.step), cells)
  BY <1>3, SameViews DEF Placed
<1>5. r.start \in Int /\ r.len \in Nat
  BY <1>2 DEF Views!Inside
<1> QED
  BY <1>1, <1>4, <1>5 DEF r

\* Any array by a key of several items.
LEMMA KeyPlaced ==
    ASSUME NEW a, NEW cells, Placed(a, cells), NEW key \in Seq(KeyItems), CanIndex(a, key),
           \E k \in DOMAIN a.shape : Items(a, key)[k].kind = "slice"
    PROVE  Placed(SliceNd(a, Specs(a, key)), cells)
<1> DEFINE specs == Views!Specs(a, key)
           n == Len(a.shape)
<1>1. Views!Sound(a, cells) /\ a.shape \in Seq(Nat) /\ DOMAIN a.shape = 1 .. n
  BY PlacedReads DEF Placed, Fields
<1>2. /\ DOMAIN specs = 1 .. n
      /\ \A k \in 1 .. n : Views!Specified(specs[k], a.shape[k])
      /\ \A k \in 1 .. n : Views!Items(a, key)[k].kind = "slice" => specs[k].kind = "slice"
  <2>1. key \in Seq(Views!KeyItems) /\ Views!CanIndex(a, key)
    BY SameViews
  <2> USE DEF Views!SpecsTake
  <2> QED
    BY <1>1, <2>1, ViewsArguments, Views!SpecsTake, WordSizeAssumption
<1>3. \E k \in 1 .. n : specs[k].kind = "slice"
  BY <1>1, <1>2, SameViews
<1> HIDE DEF specs
<1>4. Views!Sound(Views!SliceNd(a, specs), cells)
  <2> USE DEF Views!SliceNdSound
  <2> QED
    BY <1>1, <1>2, <1>3, ViewsArguments, Views!SliceNdSound, WordSizeAssumption
<1> QED
  BY <1>4, SameViews DEF Placed, specs

\* Its transpose.
LEMMA TransposePlaced ==
    ASSUME NEW a, NEW cells, Placed(a, cells)
    PROVE  Placed(Transpose(a, Reversed(Len(a.shape))), cells)
<1> DEFINE n == Len(a.shape)
           axes == Reversed(n)
<1>1. Views!Sound(a, cells) /\ n \in Nat /\ DOMAIN a.shape = 1 .. n
  BY PlacedReads DEF Placed, Fields
<1>2. DOMAIN axes = 1 .. n /\ \A k \in 1 .. n : axes[k] = n + 1 - k
  BY DEF Reversed
<1>3. Views!ToSet(axes) = DOMAIN a.shape
  <2> HIDE DEF n, axes
  <2>1. ASSUME NEW k \in 1 .. n PROVE axes[k] \in 1 .. n /\ \E j \in 1 .. n : axes[j] = k
    <3>1. n + 1 - k \in 1 .. n /\ n + 1 - (n + 1 - k) = k
      BY <1>1
    <3> QED
      BY <1>2, <3>1
  <2> QED
    BY <1>1, <1>2, <2>1 DEF Views!ToSet
<1> HIDE DEF axes
<1>4. Views!Sound(Views!Transpose(a, axes), cells)
  <2> USE DEF Views!TransposeSound
  <2> QED
    BY <1>1, <1>2, <1>3, ViewsArguments, Views!TransposeSound, WordSizeAssumption
<1> QED
  BY <1>4, SameViews DEF Placed, axes

\* a[i] of a 1-D array is its i-th element.
LEMMA ItemPlace ==
    ASSUME NEW a, NEW cells, Placed(a, cells), Len(a.shape) = 1, NEW i \in 0 .. a.size - 1
    PROVE  ItemOffset(a, i) = Offset(a, i)
<1>1. Views!Sound(a, cells)
  BY DEF Placed
<1>2. Views!ItemOffset(a, i) = Views!Offset(a, i)
  <2> USE DEF Views!OneAxisItem
  <2> QED
    BY <1>1, ViewsArguments, Views!OneAxisItem, WordSizeAssumption
<1> QED
  BY <1>2, SameOffsets

\* a[s] on a 1-D array means the window of the same slice.
LEMMA SliceMeans ==
    ASSUME NEW a, NEW cells, Placed(a, cells), Len(a.shape) = 1, NEW s \in SliceItems
    PROVE  LET r == AdjustSlice(s, a.size)
           IN  SliceNd(a, Specs(a, <<s>>)) = ViewStrided(a, r.start, r.len, r.step)
<1> DEFINE r == Views!AdjustSlice(s, a.size)
<1>1. Views!Sound(a, cells) /\ s \in Views!SliceItems
  BY SameViews DEF Placed
<1>2. Views!SliceNd(a, Views!Specs(a, <<s>>)) = Views!ViewStrided(a, r.start, r.len, r.step)
  <2> USE DEF Views!OneAxisSlice
  <2> QED
    BY <1>1, ViewsArguments, Views!OneAxisSlice, WordSizeAssumption
<1> QED
  BY <1>2, SameViews

\* a[i, j, ...] with integers in range, negative ones counted from the end, is one
\* element, by its coordinates and by its flat index.
LEMMA TuplePlace ==
    ASSUME NEW a, NEW cells, Placed(a, cells), NEW ix, DOMAIN ix = DOMAIN a.shape,
           \A k \in DOMAIN ix : ix[k] \in -a.shape[k] .. a.shape[k] - 1
    PROVE  LET c == [k \in DOMAIN ix |-> ix[k] % a.shape[k]]
               i == LinearOffset(c, InnerVolumes(a.shape))
           IN  /\ i \in 0 .. a.size - 1
               /\ a.base + LinearOffset(Wrapped(a, ix), a.strides) = Offset(a, i)
<1> DEFINE n == Len(a.shape)
           c == [k \in DOMAIN ix |-> ix[k] % a.shape[k]]
<1>1. /\ Views!Sound(a, cells) /\ a.shape \in Seq(Nat) /\ DOMAIN ix = 1 .. n
      /\ \A k \in 1 .. n : a.shape[k] \in Nat
  BY PlacedReads DEF Placed, Fields
<1>2. ASSUME NEW k \in 1 .. n
      PROVE  /\ ix[k] % a.shape[k] = IF ix[k] < 0 THEN ix[k] + a.shape[k] ELSE ix[k]
             /\ ix[k] % a.shape[k] \in 0 .. a.shape[k] - 1
  <2> DEFINE x == ix[k]
             d == a.shape[k]
  <2>1. d \in Nat /\ x \in -d .. d - 1 /\ d > 0
    BY <1>1
  <2> HIDE DEF x, d
  <2>2. CASE x < 0
    <3> DEFINE q == -1
               r == x + d
    <3>0. q \in Int /\ r \in Int /\ x = q * d + r /\ 0 <= r /\ r < d
      BY <2>1, <2>2
    <3> HIDE DEF q, r
    <3>1. x % d = r
      <4> USE DEF Views!DivisionUnique
      <4> QED
        BY <2>1, <3>0, ViewsArguments, Views!DivisionUnique, WordSizeAssumption
    <3> USE DEF r
    <3> QED
      BY <2>1, <2>2, <3>1 DEF x, d
  <2>3. CASE x >= 0
    <3>1. x % d = x
      BY <2>1, <2>3
    <3> QED
      BY <2>1, <2>3, <3>1 DEF x, d
  <2> QED
    BY <2>1, <2>2, <2>3
<1>3. Wrapped(a, ix) = c
  BY <1>1, <1>2 DEF Wrapped
<1>4. c \in Views!Box(a.shape)
  BY <1>1, <1>2 DEF Views!Box
<1> HIDE DEF c
<1> DEFINE i == Views!LinearOffset(c, Views!InnerVolumes(a.shape))
<1>5. /\ i \in 0 .. a.size - 1
      /\ Views!Offset(a, i) = a.base + Views!LinearOffset(c, a.strides)
  <2> USE DEF Views!RavelReads
  <2> QED
    BY <1>1, <1>4, ViewsArguments, Views!RavelReads, WordSizeAssumption
<1> QED
  BY <1>3, <1>5, SameOffsets DEF c

-----------------------------------------------------------------------------
(* Sequences of cells and of values *)

\* A function on 1 .. n is a sequence of length n.
LEMMA Listed ==
    ASSUME NEW n \in Nat, NEW s, s = [p \in 1 .. n |-> s[p]]
    PROVE  /\ s \in Seq({s[p] : p \in 1 .. n})
           /\ Len(s) = n /\ DOMAIN s = 1 .. n
<1> DEFINE V == {s[p] : p \in 1 .. n}
<1>1. \A p \in 1 .. n : s[p] \in V
  OBVIOUS
<1> HIDE DEF V
<1>2. s \in [1 .. n -> V]
  BY <1>1
<1>3. s \in Seq(V)
  BY <1>2
<1>4. DOMAIN s = 1 .. n
  BY <1>2
<1> QED
  BY <1>3, <1>4, LenProperties DEF V

\* What an assignment of vals[i] to cells[i] leaves.
PutAll(m, cells, vals) ==
    [c \in DOMAIN m |->
        IF \E i \in DOMAIN cells : cells[i] = c
        THEN vals[CHOOSE i \in DOMAIN cells : cells[i] = c]
        ELSE m[c]]

LEMMA PutTakes ==
    ASSUME NEW m, NEW cells, NEW vals,
           \A i \in DOMAIN cells : cells[i] \in DOMAIN m,
           \A i, j \in DOMAIN cells : cells[i] = cells[j] => i = j
    PROVE  /\ DOMAIN PutAll(m, cells, vals) = DOMAIN m
           /\ \A i \in DOMAIN cells : PutAll(m, cells, vals)[cells[i]] = vals[i]
           /\ \A c \in DOMAIN m : c \notin ToSet(cells) => PutAll(m, cells, vals)[c] = m[c]
<1>1. ASSUME NEW i \in DOMAIN cells PROVE PutAll(m, cells, vals)[cells[i]] = vals[i]
  <2> DEFINE j == CHOOSE k \in DOMAIN cells : cells[k] = cells[i]
  <2>1. j \in DOMAIN cells /\ cells[j] = cells[i]
    OBVIOUS
  <2>2. j = i
    BY <2>1
  <2>3. PutAll(m, cells, vals)[cells[i]] = vals[j]
    BY DEF PutAll
  <2> QED
    BY <2>2, <2>3
<1>2. ASSUME NEW c \in DOMAIN m, c \notin ToSet(cells) PROVE PutAll(m, cells, vals)[c] = m[c]
  <2>1. ~ \E i \in DOMAIN cells : cells[i] = c
    BY <1>2 DEF ToSet
  <2> QED
    BY <2>1 DEF PutAll
<1> QED
  BY <1>1, <1>2 DEF PutAll

\* The elements of an array, in order.
LEMMA ElementsTake ==
    ASSUME NEW a, NEW cells, Placed(a, cells)
    PROVE  /\ DOMAIN Elements(a) = 1 .. a.size /\ a.size \in Nat
           /\ \A p \in 1 .. a.size : Elements(a)[p] = Offset(a, p - 1) /\ Offset(a, p - 1) \in cells
           /\ \A p, q \in 1 .. a.size : Offset(a, p - 1) = Offset(a, q - 1) => p = q
           /\ \A p, q \in DOMAIN Elements(a) : Elements(a)[p] = Elements(a)[q] => p = q
           /\ ToSet(Elements(a)) = CellsOf(a) /\ CellsOf(a) \subseteq cells
           /\ \A p \in 1 .. a.size : Offset(a, p - 1) \in CellsOf(a)
           /\ \A c \in CellsOf(a) : \E p \in 1 .. a.size : c = Offset(a, p - 1)
<1>1. a.size \in Nat /\ Reads(a, cells)
  BY PlacedReads DEF Fields
<1>2. DOMAIN Elements(a) = 1 .. a.size /\ \A p \in 1 .. a.size : Elements(a)[p] = Offset(a, p - 1)
  BY DEF Elements
<1>3. \A p \in 1 .. a.size : p - 1 \in 0 .. a.size - 1
  BY <1>1
<1>4. \A p \in 1 .. a.size : Offset(a, p - 1) \in cells
  BY <1>1, <1>3 DEF Reads
<1>5. ASSUME NEW p \in 1 .. a.size, NEW q \in 1 .. a.size, Offset(a, p - 1) = Offset(a, q - 1)
      PROVE  p = q
  <2>1. p - 1 = q - 1
    BY <1>1, <1>3, <1>5 DEF Reads
  <2> QED
    BY <1>1, <2>1
<1>6. \A p \in 1 .. a.size : Offset(a, p - 1) \in CellsOf(a)
  BY <1>3 DEF CellsOf
<1>7. ASSUME NEW c \in CellsOf(a) PROVE \E p \in 1 .. a.size : c = Offset(a, p - 1)
  <2>1. PICK i \in 0 .. a.size - 1 : c = Offset(a, i)
    BY DEF CellsOf
  <2>2. i + 1 \in 1 .. a.size /\ (i + 1) - 1 = i
    BY <1>1
  <2> QED
    BY <2>1, <2>2
<1>8. ToSet(Elements(a)) = CellsOf(a)
  BY <1>2, <1>6, <1>7 DEF ToSet
<1>9. CellsOf(a) \subseteq cells
  BY <1>4, <1>7
<1> QED
  BY <1>1, <1>2, <1>4, <1>5, <1>6, <1>7, <1>8, <1>9

-----------------------------------------------------------------------------
(* A call in progress *)

\* What the elements of a hold, in order.
Held(a, m) == [p \in 1 .. a.size |-> m[Offset(a, p - 1)]]

\* The pending writes td of a call that claims cl: they are to cells of its own,
\* read none that they write, and leave what NumPy leaves.
Writing(cl, td, m, w) ==
    /\ \A x \in td : x.to \in cl /\ (x.from = NoBound \/ x.from \in cl)
    /\ \A x, y \in td : x.to # y.from /\ (x # y => x.to # y.to)
    /\ \A x \in td : w[x.to] = IF x.from = NoBound THEN x.v ELSE w[x.from]
    /\ \A c \in cl : (\A x \in td : x.to # c) => m[c] = w[c]

\* NumPy leaves the elements of a sorted.
Sorting(a, cl, m, w) ==
    /\ cl = CellsOf(a)
    /\ \A p \in 1 .. a.size : w[Offset(a, p - 1)] = Ascending(Held(a, m))[p]

\* The temporary buffer holds the first elements, ...
Gathering(a, s, m) ==
    /\ Len(s) \in Nat /\ Len(s) <= a.size
    /\ s = [p \in 1 .. Len(s) |-> m[Offset(a, p - 1)]]

\* ... or what the last elements are to be.
Scattering(a, cl, s, m, w) ==
    LET done == a.size - Len(s)
    IN  /\ cl = CellsOf(a)
        /\ Len(s) \in Nat /\ Len(s) <= a.size
        /\ s = [p \in 1 .. Len(s) |-> w[Offset(a, done + p - 1)]]
        /\ \A p \in 1 .. done : m[Offset(a, p - 1)] = w[Offset(a, p - 1)]

Calls == {"none", "write", "sort flat", "gather", "scatter"}

\* A thread that holds a and is in call c.
Fine(a, c, cl, td, s, m, w) ==
    /\ c \in Calls
    /\ c = "none" => cl = {}
    /\ c # "write" => td = {}
    /\ c = "write" => Writing(cl, td, m, w)
    /\ c = "sort flat" => IsContiguous(a) /\ Sorting(a, cl, m, w)
    /\ c = "gather" => Sorting(a, cl, m, w) /\ Gathering(a, s, m)
    /\ c = "scatter" => Scattering(a, cl, s, m, w)

\* Only the cells it claims matter to it.
LEMMA Undisturbed ==
    ASSUME NEW a, NEW cells, Placed(a, cells), NEW c, NEW cl, NEW td, NEW s, NEW m, NEW w,
           Fine(a, c, cl, td, s, m, w),
           NEW n, NEW v, \A x \in cl : n[x] = m[x] /\ v[x] = w[x]
    PROVE  Fine(a, c, cl, td, s, n, v)
<1>1. a.size \in Nat /\ \A p \in 1 .. a.size : Offset(a, p - 1) \in CellsOf(a)
  BY ElementsTake
<1>2. ASSUME Writing(cl, td, m, w) PROVE Writing(cl, td, n, v)
  BY <1>2 DEF Writing
<1>3. ASSUME cl = CellsOf(a) PROVE Held(a, n) = Held(a, m)
  BY <1>1, <1>3 DEF Held
<1>4. ASSUME Sorting(a, cl, m, w) PROVE Sorting(a, cl, n, v)
  <2>1. cl = CellsOf(a)
    BY <1>4 DEF Sorting
  <2> QED
    BY <1>1, <1>3, <1>4, <2>1 DEF Sorting
<1>5. ASSUME Sorting(a, cl, m, w), Gathering(a, s, m) PROVE Gathering(a, s, n)
  <2>1. cl = CellsOf(a) /\ Len(s) \in Nat /\ Len(s) <= a.size
    BY <1>5 DEF Sorting, Gathering
  <2>2. \A p \in 1 .. Len(s) : n[Offset(a, p - 1)] = m[Offset(a, p - 1)]
    BY <1>1, <2>1
  <2> QED
    BY <1>5, <2>1, <2>2 DEF Gathering
<1>6. ASSUME Scattering(a, cl, s, m, w) PROVE Scattering(a, cl, s, n, v)
  <2> DEFINE done == a.size - Len(s)
  <2>1. cl = CellsOf(a) /\ Len(s) \in Nat /\ Len(s) <= a.size /\ done \in Nat
    BY <1>1, <1>6 DEF Scattering
  <2>2. ASSUME NEW p \in 1 .. Len(s) PROVE v[Offset(a, done + p - 1)] = w[Offset(a, done + p - 1)]
    <3>1. done + p \in 1 .. a.size
      BY <1>1, <2>1
    <3> QED
      BY <1>1, <2>1, <3>1
  <2>3. ASSUME NEW p \in 1 .. done
        PROVE  /\ n[Offset(a, p - 1)] = m[Offset(a, p - 1)]
               /\ v[Offset(a, p - 1)] = w[Offset(a, p - 1)]
    <3>1. p \in 1 .. a.size
      BY <1>1, <2>1
    <3> QED
      BY <1>1, <2>1, <3>1
  <2>4. s = [p \in 1 .. Len(s) |-> v[Offset(a, done + p - 1)]]
    BY <1>6, <2>2 DEF Scattering
  <2>5. \A p \in 1 .. done : n[Offset(a, p - 1)] = v[Offset(a, p - 1)]
    BY <1>6, <2>3 DEF Scattering
  <2> QED
    BY <2>1, <2>4, <2>5 DEF Scattering
<1> QED
  BY <1>2, <1>4, <1>5, <1>6 DEF Fine

-----------------------------------------------------------------------------
(* The invariant *)

\* Each claimed element has one claimant.
Apart == \A t, u \in Threads : t # u => claim[t] \cap claim[u] = {}

\* What each thread is at.
PerThread(f) == f = [t \in Threads |-> f[t]]

Threaded ==
    /\ PerThread(view) /\ PerThread(call) /\ PerThread(claim) /\ PerThread(todo) /\ PerThread(tmp)

\* The inductive invariant: every thread holds a layout whose elements have cells
\* of their own, a call in progress has left of its elements what it should have
\* up to there, no two calls claim the same, and the rest is as NumPy leaves it.
IInv ==
    /\ Placed(root, Cells)
    /\ Cells \subseteq Int /\ DOMAIN want = Cells
    /\ Threaded
    /\ \A t \in Threads : /\ Placed(view[t], Cells)
                          /\ claim[t] \subseteq Cells
                          /\ Fine(view[t], call[t], claim[t], todo[t], tmp[t], mem, want)
    /\ Apart
    /\ AsNumPy

\* A step of thread t: what it holds, is at and claims after it.
Turns(t, a, c, cl, td, s) ==
    /\ root' = root
    /\ view' = [view EXCEPT ![t] = a]
    /\ call' = [call EXCEPT ![t] = c]
    /\ claim' = [claim EXCEPT ![t] = cl]
    /\ todo' = [todo EXCEPT ![t] = td]
    /\ tmp' = [tmp EXCEPT ![t] = s]

\* What it writes, no other thread claims; and what it leaves unclaimed is as
\* NumPy leaves it.
Respects(t, cl) ==
    /\ DOMAIN mem' = Cells /\ DOMAIN want' = Cells
    /\ \A x \in Cells : (mem'[x] # mem[x] \/ want'[x] # want[x]) =>
          \A u \in Threads \ {t} : x \notin claim[u]
    /\ \A x \in Cells : x \in cl \/ mem'[x] = want'[x]
                                 \/ (x \notin claim[t] /\ mem'[x] = mem[x] /\ want'[x] = want[x])

\* Such a step keeps the invariant, if t itself is fine after it.
LEMMA TurnKeeps ==
    ASSUME IInv, NEW t \in Threads, NEW a, NEW c, NEW cl, NEW td, NEW s,
           Turns(t, a, c, cl, td, s), Respects(t, cl),
           Placed(a, Cells), cl \subseteq Cells, Fine(a, c, cl, td, s, mem', want'),
           \A u \in Threads \ {t} : cl \cap claim[u] = {}
    PROVE  IInv'
<1>1. /\ view'[t] = a /\ call'[t] = c /\ claim'[t] = cl /\ todo'[t] = td /\ tmp'[t] = s
      /\ \A u \in Threads \ {t} : /\ view'[u] = view[u] /\ call'[u] = call[u] /\ claim'[u] = claim[u]
                                  /\ todo'[u] = todo[u] /\ tmp'[u] = tmp[u]
      /\ DOMAIN view = Threads /\ DOMAIN call = Threads /\ DOMAIN claim = Threads
      /\ DOMAIN todo = Threads /\ DOMAIN tmp = Threads
  BY DEF IInv, Threaded, PerThread, Turns
<1>2. Threaded'
  BY <1>1 DEF Turns, Threaded, PerThread
<1>3. Cells' = Cells /\ DOMAIN want' = Cells
  BY DEF Respects, Cells
<1>4. ASSUME NEW u \in Threads
      PROVE  /\ Placed(view'[u], Cells)
             /\ claim'[u] \subseteq Cells
             /\ Fine(view'[u], call'[u], claim'[u], todo'[u], tmp'[u], mem', want')
  <2>1. CASE u = t
    BY <1>1, <2>1
  <2>2. CASE u # t
    <3>1. /\ Placed(view[u], Cells) /\ claim[u] \subseteq Cells
          /\ Fine(view[u], call[u], claim[u], todo[u], tmp[u], mem, want)
      BY DEF IInv
    <3>2. \A x \in claim[u] : mem'[x] = mem[x] /\ want'[x] = want[x]
      BY <2>2, <3>1 DEF Respects
    <3> DEFINE b == view[u]
               d == call[u]
               dl == claim[u]
               ud == todo[u]
               r == tmp[u]
               cells == Cells
    <3> HIDE DEF b, d, dl, ud, r, cells
    <3>3. Fine(b, d, dl, ud, r, mem', want')
      <4>1. Placed(b, cells) /\ Fine(b, d, dl, ud, r, mem, want)
        BY <3>1 DEF b, d, dl, ud, r, cells
      <4>2. \A x \in dl : mem'[x] = mem[x] /\ want'[x] = want[x]
        BY <3>2 DEF dl
      <4> QED
        BY <4>1, <4>2, Undisturbed
    <3> QED
      BY <1>1, <2>2, <3>1, <3>3 DEF b, d, dl, ud, r, cells
  <2> QED
    BY <2>1, <2>2
<1>5. Apart'
  <2>1. Apart
    BY DEF IInv
  <2> QED
    BY <1>1, <2>1 DEF Apart
<1>6. AsNumPy'
  <2> SUFFICES ASSUME NEW x \in Cells, \A u \in Threads : x \notin claim'[u]
               PROVE  mem'[x] = want'[x]
    BY <1>3 DEF AsNumPy
  <2>1. x \notin cl /\ \A u \in Threads \ {t} : x \notin claim[u]
    BY <1>1
  <2>2. CASE x \notin claim[t] /\ mem'[x] = mem[x] /\ want'[x] = want[x]
    <3>1. \A u \in Threads : x \notin claim[u]
      BY <2>1, <2>2
    <3>2. mem[x] = want[x]
      BY <3>1 DEF IInv, AsNumPy
    <3> QED
      BY <2>2, <3>2
  <2> QED
    BY <2>1, <2>2 DEF Respects
<1>7. Placed(root, Cells)' /\ Cells' \subseteq Int
  <2>1. root' = root
    BY DEF Turns
  <2>2. Placed(root, Cells) /\ Cells \subseteq Int
    BY DEF IInv
  <2>3. Placed(root', Cells')
    BY <1>3, <2>1, <2>2
  <2> QED
    BY <1>3, <2>2, <2>3 
<1>8. \A u \in Threads :
         /\ Placed(view[u], Cells)'
         /\ claim'[u] \subseteq Cells'
         /\ Fine(view'[u], call'[u], claim'[u], todo'[u], tmp'[u], mem', want')
  BY <1>3, <1>4
<1> QED
  BY <1>2, <1>3, <1>5, <1>6, <1>7, <1>8 DEF IInv

\* What the invariant says of a thread.
LEMMA ThreadTakes ==
    ASSUME IInv, NEW t \in Threads
    PROVE  /\ Placed(view[t], Cells) /\ claim[t] \subseteq Cells /\ Cells \subseteq Int
           /\ Fine(view[t], call[t], claim[t], todo[t], tmp[t], mem, want)
           /\ \A u \in Threads \ {t} : claim[t] \cap claim[u] = {}
           /\ view = [view EXCEPT ![t] = view[t]] /\ call = [call EXCEPT ![t] = call[t]]
           /\ claim = [claim EXCEPT ![t] = claim[t]] /\ todo = [todo EXCEPT ![t] = todo[t]]
           /\ tmp = [tmp EXCEPT ![t] = tmp[t]]
<1>1. /\ Placed(view[t], Cells) /\ claim[t] \subseteq Cells /\ Cells \subseteq Int
      /\ Fine(view[t], call[t], claim[t], todo[t], tmp[t], mem, want)
      /\ Apart /\ Threaded
  BY DEF IInv
<1>2. \A u \in Threads \ {t} : claim[t] \cap claim[u] = {}
  BY <1>1 DEF Apart
<1>3. \A f : PerThread(f) => f = [f EXCEPT ![t] = f[t]]
  BY DEF PerThread
<1> QED
  BY <1>1, <1>2, <1>3 DEF Threaded

-----------------------------------------------------------------------------
(* Steps that change no element *)

\* The first state.
NoWrap == \A s \in Shapes : Count(s) < WordSize

LEMMA InitFine == ASSUME NoWrap, Init PROVE IInv
<1>1. PICK s \in Shapes : root = Fresh(s)
  BY DEF Init
<1>2. s \in Seq(Nat) /\ Count(s) < WordSize
  BY ArgumentsAssumption DEF NoWrap
<1>3. Placed(Fresh(s), 0 .. Fresh(s).size - 1)
  BY <1>2, FreshPlaced
<1>4. Cells = 0 .. Fresh(s).size - 1 /\ want = mem
  BY <1>1 DEF Init, Cells
<1>5. Placed(root, Cells)
  BY <1>1, <1>3, <1>4
<1>6. Fresh(s).size \in Nat
  BY <1>3, PlacedReads DEF Fields
<1>7. /\ view = [t \in Threads |-> root] /\ call = [t \in Threads |-> "none"]
      /\ claim = [t \in Threads |-> {}] /\ todo = [t \in Threads |-> {}]
      /\ tmp = [t \in Threads |-> <<>>]
  BY DEF Init
<1>8. Threaded
  BY <1>7 DEF Threaded, PerThread
<1>9. \A t \in Threads : /\ Placed(view[t], Cells)
                         /\ claim[t] \subseteq Cells
                         /\ Fine(view[t], call[t], claim[t], todo[t], tmp[t], mem, want)
  BY <1>5, <1>7 DEF Fine, Calls
<1>10. Apart /\ AsNumPy
  BY <1>4, <1>7 DEF Apart, AsNumPy
<1>11. Cells \subseteq Int /\ DOMAIN want = Cells
  BY <1>4, <1>6 DEF Cells
<1> QED
  BY <1>5, <1>8, <1>9, <1>10, <1>11 DEF IInv

\* A new view of a view.
LEMMA ReslicePlaced ==
    ASSUME IInv, NEW t \in Threads, Reslice(t)
    PROVE  \E v : Placed(v, Cells) /\ view' = [view EXCEPT ![t] = v]
<1>1. Placed(view[t], Cells) /\ Placed(root, Cells)
  BY DEF IInv
<1> DEFINE a == view[t]
           cells == Cells
<1>2. CASE view' = [view EXCEPT ![t] = root]
  BY <1>1, <1>2
<1>3. ASSUME NEW s \in Slices, Len(a.shape) = 1,
             LET k == AdjustSlice(s, a.size)
                 v == ViewStrided(a, k.start, k.len, k.step)
             IN  view' = [view EXCEPT ![t] = v]
      PROVE  \E v : Placed(v, cells) /\ view' = [view EXCEPT ![t] = v]
  <2> DEFINE k == AdjustSlice(s, a.size)
             v == ViewStrided(a, k.start, k.len, k.step)
  <2>1. view' = [view EXCEPT ![t] = v]
    BY <1>3
  <2>2. s \in SliceItems /\ Placed(a, cells) /\ Len(a.shape) = 1
    BY <1>1, <1>3, ArgumentsAssumption
  <2>3. Placed(v, cells)
    <3> HIDE DEF a, cells
    <3> QED
      BY <2>2, SlicePlaced
  <2> HIDE DEF v
  <2> QED
    BY <2>1, <2>3
<1>4. ASSUME NEW key \in Keys, CanIndex(a, key),
             \E k \in DOMAIN a.shape : Items(a, key)[k].kind = "slice",
             view' = [view EXCEPT ![t] = SliceNd(@, Specs(@, key))]
      PROVE  \E v : Placed(v, cells) /\ view' = [view EXCEPT ![t] = v]
  <2> DEFINE v == SliceNd(a, Specs(a, key))
  <2>1. view' = [view EXCEPT ![t] = v]
    BY <1>4
  <2>2. key \in Seq(KeyItems) /\ Placed(a, cells)
    BY <1>1, ArgumentsAssumption
  <2>3. Placed(v, cells)
    <3>1. CanIndex(a, key) /\ \E k \in DOMAIN a.shape : Items(a, key)[k].kind = "slice"
      BY <1>4
    <3> HIDE DEF a, cells
    <3> QED
      BY <2>2, <3>1, KeyPlaced
  <2> HIDE DEF v
  <2> QED
    BY <2>1, <2>3
<1>5. ASSUME view' = [view EXCEPT ![t] = Transpose(@, Reversed(Len(@.shape)))]
      PROVE  \E v : Placed(v, cells) /\ view' = [view EXCEPT ![t] = v]
  <2> DEFINE v == Transpose(a, Reversed(Len(a.shape)))
  <2>1. view' = [view EXCEPT ![t] = v]
    BY <1>5
  <2>2. Placed(v, cells)
    BY <1>1, TransposePlaced
  <2> HIDE DEF v
  <2> QED
    BY <2>1, <2>2
<1> QED
  BY <1>2, <1>3, <1>4, <1>5 DEF Reslice

LEMMA ResliceKeeps ==
    ASSUME IInv, NEW t \in Threads, Reslice(t)
    PROVE  IInv'
<1>1. PICK v : Placed(v, Cells) /\ view' = [view EXCEPT ![t] = v]
  BY ReslicePlaced
<1>2. /\ call[t] = "none" /\ mem' = mem /\ want' = want /\ root' = root
      /\ call' = call /\ claim' = claim /\ todo' = todo /\ tmp' = tmp
  BY DEF Reslice
<1>3. Turns(t, v, call[t], claim[t], todo[t], tmp[t])
  BY <1>1, <1>2, ThreadTakes DEF Turns
<1>4. Fine(view[t], "none", claim[t], todo[t], tmp[t], mem, want)
  BY <1>2, ThreadTakes
<1>5. Fine(v, call[t], claim[t], todo[t], tmp[t], mem', want')
  BY <1>2, <1>4 DEF Fine, Calls
<1>6. claim[t] = {} /\ DOMAIN mem = Cells /\ DOMAIN want = Cells
  BY <1>4 DEF Fine, IInv, Cells
<1>7. Respects(t, claim[t])
  BY <1>2, <1>6 DEF Respects
<1> QED
  BY <1>1, <1>3, <1>5, <1>6, <1>7, TurnKeeps

\* A call that is through leaves what NumPy leaves.
LEMMA WriteDoneKeeps ==
    ASSUME IInv, NEW t \in Threads, WriteDone(t)
    PROVE  IInv'
<1>1. /\ call[t] = "write" /\ todo[t] = {} /\ mem' = mem /\ want' = want /\ root' = root
      /\ view' = view /\ todo' = todo /\ tmp' = tmp
      /\ call' = [call EXCEPT ![t] = "none"] /\ claim' = [claim EXCEPT ![t] = {}]
  BY DEF WriteDone, Return
<1>2. Fine(view[t], "write", claim[t], {}, tmp[t], mem, want)
  BY <1>1, ThreadTakes
<1>3. \A x \in claim[t] : mem[x] = want[x]
  BY <1>2 DEF Fine, Writing
<1>4. Turns(t, view[t], "none", {}, {}, tmp[t])
  BY <1>1, ThreadTakes DEF Turns
<1>5. Fine(view[t], "none", {}, {}, tmp[t], mem', want')
  BY DEF Fine, Calls
<1>6. Respects(t, {})
  BY <1>1, <1>3 DEF Respects, IInv, Cells
<1> QED
  BY <1>4, <1>5, <1>6, ThreadTakes, TurnKeeps

LEMMA SortDoneKeeps ==
    ASSUME IInv, NEW t \in Threads, SortDone(t)
    PROVE  IInv'
<1>1. /\ call[t] = "scatter" /\ tmp[t] = <<>> /\ mem' = mem /\ want' = want /\ root' = root
      /\ view' = view /\ todo' = todo /\ tmp' = tmp
      /\ call' = [call EXCEPT ![t] = "none"] /\ claim' = [claim EXCEPT ![t] = {}]
  BY DEF SortDone, Return
<1> DEFINE a == view[t]
           cl == claim[t]
           td == todo[t]
           cells == Cells
<1>2. Fine(a, "scatter", cl, td, <<>>, mem, want) /\ Placed(a, cells)
  BY <1>1, ThreadTakes
<1> HIDE DEF a, cl, td, cells
<1>3. \A x \in cl : mem[x] = want[x]
  <2>1. a.size \in Nat /\ \A c \in CellsOf(a) : \E p \in 1 .. a.size : c = Offset(a, p - 1)
    BY <1>2, ElementsTake
  <2>2. Len(<<>>) = 0
    OBVIOUS
  <2>3. cl = CellsOf(a) /\ \A p \in 1 .. a.size : mem[Offset(a, p - 1)] = want[Offset(a, p - 1)]
    BY <1>2, <2>1, <2>2 DEF Fine, Scattering
  <2> QED
    BY <2>1, <2>3
<1>4. td = {}
  BY <1>2 DEF Fine
<1>5. Turns(t, a, "none", {}, {}, tmp[t])
  BY <1>1, <1>4, ThreadTakes DEF Turns, a, td
<1>6. Fine(a, "none", {}, {}, tmp[t], mem', want')
  BY DEF Fine, Calls
<1>7. Respects(t, {})
  BY <1>1, <1>3 DEF Respects, IInv, Cells, cl
<1> QED
  BY <1>2, <1>5, <1>6, <1>7, ThreadTakes, TurnKeeps DEF cells

-----------------------------------------------------------------------------
(* Writing one element *)

\* a[i] = v and a[i, j] = v on an element nobody claims.
LEMMA ItemKeeps ==
    ASSUME IInv, NEW t \in Threads, NEW c \in Cells, NEW v, call[t] = "none",
           \A u \in Threads : c \notin claim[u],
           mem' = Stored(mem, c, v), want' = Assigned(want, <<c>>, LAMBDA k : v),
           root' = root, view' = view, call' = call, claim' = claim, todo' = todo, tmp' = tmp
    PROVE  IInv'
<1>1. DOMAIN mem = Cells /\ DOMAIN want = Cells
  BY DEF IInv, Cells
<1>2. /\ DOMAIN mem' = Cells /\ mem'[c] = v /\ \A x \in Cells : x # c => mem'[x] = mem[x]
      /\ DOMAIN want' = Cells /\ want'[c] = v /\ \A x \in Cells : x # c => want'[x] = want[x]
  <2>1. c \in DOMAIN mem /\ DOMAIN want = DOMAIN mem
    BY <1>1
  <2>2. DOMAIN <<c>> = {1} /\ <<c>>[1] = c
    OBVIOUS
  <2>3. want' = Stored(want, c, v)
    BY <2>2 DEF Assigned, Stored
  <2> QED
    BY <1>1, <2>3 DEF Stored
<1>3. Turns(t, view[t], call[t], claim[t], todo[t], tmp[t])
  BY ThreadTakes DEF Turns
<1>4. Fine(view[t], "none", claim[t], todo[t], tmp[t], mem, want)
  BY ThreadTakes
<1>5. claim[t] = {}
  BY <1>4 DEF Fine
<1>6. Fine(view[t], call[t], claim[t], todo[t], tmp[t], mem', want')
  BY <1>4 DEF Fine, Calls
<1>7. Respects(t, claim[t])
  BY <1>2, <1>5 DEF Respects
<1> QED
  BY <1>3, <1>6, <1>7, ThreadTakes, TurnKeeps

LEMMA SetItemKeeps ==
    ASSUME IInv, NEW t \in Threads, SetItem(t)
    PROVE  IInv'
<1> DEFINE a == view[t]
           cells == Cells
<1>1. PICK i \in 0 .. a.size - 1, v \in Values :
        /\ call[t] = "none"
        /\ Len(a.shape) = 1
        /\ \A u \in Threads : ItemOffset(a, i) \notin claim[u]
        /\ mem' = Stored(mem, ItemOffset(a, i), v)
        /\ want' = Assigned(want, <<Offset(a, i)>>, LAMBDA k : v)
        /\ UNCHANGED <<root, view, call, claim, todo, tmp>>
  BY DEF SetItem
<1>2. Placed(a, cells)
  BY ThreadTakes
<1> HIDE DEF a, cells
<1>3. ItemOffset(a, i) = Offset(a, i)
  BY <1>1, <1>2, ItemPlace
<1>4. Offset(a, i) \in cells
  BY <1>2, PlacedReads DEF Reads
<1> DEFINE c == Offset(a, i)
<1>5. /\ c \in Cells /\ call[t] = "none" /\ \A u \in Threads : c \notin claim[u]
      /\ mem' = Stored(mem, c, v) /\ want' = Assigned(want, <<c>>, LAMBDA k : v)
      /\ UNCHANGED <<root, view, call, claim, todo, tmp>>
  BY <1>1, <1>3, <1>4 DEF cells
<1> HIDE DEF c
<1> QED
  BY <1>5, ItemKeeps

LEMMA SetItemNdKeeps ==
    ASSUME IInv, NEW t \in Threads, SetItemNd(t)
    PROVE  IInv'
<1> DEFINE a == view[t]
           cells == Cells
           limit == Max({a.shape[k] : k \in DOMAIN a.shape})
           To(ix) == a.base + LinearOffset(Wrapped(a, ix), a.strides)
           Of(ix) == LinearOffset([k \in DOMAIN ix |-> ix[k] % a.shape[k]], InnerVolumes(a.shape))
<1>1. PICK ix \in [DOMAIN a.shape -> -limit .. limit - 1], v \in Values :
        /\ call[t] = "none"
        /\ \A k \in DOMAIN ix : ix[k] \in -a.shape[k] .. a.shape[k] - 1
        /\ \A u \in Threads : Offset(a, Of(ix)) \notin claim[u]
        /\ mem' = Stored(mem, To(ix), v)
        /\ want' = Assigned(want, <<Offset(a, Of(ix))>>, LAMBDA k : v)
        /\ UNCHANGED <<root, view, call, claim, todo, tmp>>
  BY DEF SetItemNd
<1>2. Placed(a, cells)
  BY ThreadTakes
<1>3. DOMAIN ix = DOMAIN a.shape
  OBVIOUS
<1> HIDE DEF a, cells, limit
<1>4. Of(ix) \in 0 .. a.size - 1 /\ To(ix) = Offset(a, Of(ix))
  BY <1>1, <1>2, <1>3, TuplePlace
<1>5. Offset(a, Of(ix)) \in cells
  BY <1>2, <1>4, PlacedReads DEF Reads
<1> DEFINE c == Offset(a, Of(ix))
<1>6. /\ c \in Cells /\ call[t] = "none" /\ \A u \in Threads : c \notin claim[u]
      /\ mem' = Stored(mem, c, v) /\ want' = Assigned(want, <<c>>, LAMBDA k : v)
      /\ UNCHANGED <<root, view, call, claim, todo, tmp>>
  BY <1>1, <1>4, <1>5 DEF cells
<1> HIDE DEF c
<1> QED
  BY <1>6, ItemKeeps

-----------------------------------------------------------------------------
(* A call begins *)

LEMMA BeginTakes ==
    ASSUME IInv, NEW t \in Threads, NEW name, NEW used, Begin(t, name, used), used \subseteq Cells
    PROVE  /\ call[t] = "none" /\ claim[t] = {} /\ todo[t] = {}
           /\ \A u \in Threads \ {t} : used \cap claim[u] = {}
           /\ call' = [call EXCEPT ![t] = name] /\ claim' = [claim EXCEPT ![t] = used]
           /\ \A x \in used : mem[x] = want[x]
<1>1. /\ call[t] = "none" /\ \A u \in Threads \ {t} : used \cap claim[u] = {}
      /\ call' = [call EXCEPT ![t] = name] /\ claim' = [claim EXCEPT ![t] = used]
  BY DEF Begin
<1>2. Fine(view[t], "none", claim[t], todo[t], tmp[t], mem, want)
  BY <1>1, ThreadTakes
<1>3. claim[t] = {} /\ todo[t] = {}
  BY <1>2 DEF Fine
<1>4. ASSUME NEW x \in used PROVE mem[x] = want[x]
  <2>1. \A u \in Threads : x \notin claim[u]
    BY <1>1, <1>3
  <2> QED
    BY <2>1 DEF IInv, AsNumPy
<1> QED
  BY <1>1, <1>3, <1>4

\* It claims what it will touch, and NumPy is through with it at once.
LEMMA CallKeeps ==
    ASSUME IInv, NEW t \in Threads, NEW name, NEW used, Begin(t, name, used), used \subseteq Cells,
           mem' = mem, root' = root, view' = view, DOMAIN want' = Cells,
           \A x \in Cells : x \notin used => want'[x] = want[x],
           NEW td, todo' = [todo EXCEPT ![t] = td], NEW s, tmp' = [tmp EXCEPT ![t] = s],
           Fine(view[t], name, used, td, s, mem, want')
    PROVE  IInv'
<1>1. /\ claim[t] = {}
      /\ \A u \in Threads \ {t} : used \cap claim[u] = {}
      /\ call' = [call EXCEPT ![t] = name] /\ claim' = [claim EXCEPT ![t] = used]
  BY BeginTakes
<1>2. Turns(t, view[t], name, used, td, s)
  BY <1>1, ThreadTakes DEF Turns
<1>3. DOMAIN mem = Cells
  BY DEF Cells
<1>4. Respects(t, used)
  BY <1>1, <1>3 DEF Respects
<1>5. Fine(view[t], name, used, td, s, mem', want')
  OBVIOUS
<1> QED
  BY <1>1, <1>2, <1>4, <1>5, ThreadTakes, TurnKeeps

\* The elements of a[i:j], a contiguous, are a run of the buffer.
LEMMA Window ==
    ASSUME NEW a, NEW cells, Placed(a, cells), Len(a.shape) = 1, IsContiguous(a),
           NEW s \in SliceItems, s.step = 1
    PROVE  LET k == AdjustSlice(s, a.size)
               b == ViewStrided(a, k.start, k.len, k.step)
           IN  /\ Placed(b, cells) /\ b.size = k.len /\ k.start \in Int /\ k.len \in Nat
               /\ a.base \in Int
               /\ Selected(a, s) = Elements(b)
               /\ \A p \in 1 .. k.len : Offset(b, p - 1) = a.base + k.start + (p - 1)
               /\ CellsOf(b) = FillRange(a, k.start, k.len)
<1> DEFINE k == AdjustSlice(s, a.size)
           b == ViewStrided(a, k.start, k.len, k.step)
<1>1. Placed(b, cells) /\ k.start \in Int /\ k.len \in Nat /\ k.step = 1
  BY SlicePlaced
<1>2. Selected(a, s) = Elements(b)
  BY SliceMeans DEF Selected
<1>3. /\ a.base \in Int /\ a.strides \in Seq(Int) /\ Len(a.strides) = 1 /\ a.shape \in Seq(Nat)
  BY PlacedReads DEF Fields
<1>4. a.strides[1] = 1
  <2>1. Len(<<>>) = 0
    OBVIOUS
  <2>2. ASSUME a.strides = <<>> PROVE FALSE
    <3>1. Len(a.strides) = 0
      BY <2>1, <2>2, Zenon
    <3>2. Len(a.strides) = 1
      BY <1>3
    <3> QED
      BY <3>1, <3>2
  <2> QED
    BY <1>3, <2>2 DEF IsContiguous, Last
<1>5. b.size = k.len /\ b.base = a.base + k.start /\ b.strides = <<1>>
  <2>1. k.start * 1 = k.start /\ 1 * 1 = 1
    BY <1>1
  <2> HIDE DEF k
  <2> QED
    BY <1>1, <1>4, <2>1 DEF ViewStrided, Layout
<1>6. IsContiguous(b)
  <2>1. Len(<<1>>) = 1 /\ 1 .. 1 - 1 = {} /\ Last(<<1>>) = 1
    BY DEF Last
  <2> HIDE DEF b
  <2> QED
    BY <1>5, <2>1 DEF IsContiguous
<1> HIDE DEF b, k
<1>7. \A i \in 0 .. k.len - 1 : Offset(b, i) = a.base + k.start + i
  BY <1>1, <1>5, <1>6, PlacedReads DEF Reads
<1>8. \A p \in 1 .. k.len : Offset(b, p - 1) = a.base + k.start + (p - 1)
  BY <1>1, <1>7
<1>9. CellsOf(b) = FillRange(a, k.start, k.len)
  <2>1. \A x \in CellsOf(b) : x \in FillRange(a, k.start, k.len)
    BY <1>1, <1>3, <1>5, <1>7 DEF CellsOf, FillRange
  <2>2. ASSUME NEW x \in FillRange(a, k.start, k.len) PROVE x \in CellsOf(b)
    <3>1. x \in Int /\ x - (a.base + k.start) \in 0 .. k.len - 1
      BY <1>1, <1>3 DEF FillRange
    <3>2. x = a.base + k.start + (x - (a.base + k.start))
      BY <1>1, <1>3, <3>1
    <3> QED
      BY <1>5, <1>7, <3>1, <3>2 DEF CellsOf
  <2> QED
    BY <2>1, <2>2
<1> QED
  BY <1>1, <1>2, <1>3, <1>5, <1>8, <1>9 DEF b, k

-----------------------------------------------------------------------------
(* a[i:j] = v *)

LEMMA FillKeeps ==
    ASSUME IInv, NEW t \in Threads, ~AnyOperands, Fill(t)
    PROVE  IInv'
<1> DEFINE a == view[t]
<1>1. PICK s \in Slices, v \in Values :
        LET k == AdjustSlice(s, a.size)
            cells == Selected(a, s)
        IN  /\ s.step = 1
            /\ Targetable(a)
            /\ Begin(t, "write", ToSet(cells))
            /\ todo' = [todo EXCEPT ![t] =
                            {[to |-> c, from |-> NoBound, v |-> v] :
                                c \in FillRange(a, k.start, k.len)}]
            /\ want' = Assigned(want, cells, LAMBDA i : v)
            /\ UNCHANGED <<mem, root, view, tmp>>
  BY DEF Fill
<1> DEFINE k == AdjustSlice(s, a.size)
           b == ViewStrided(a, k.start, k.len, k.step)
           cells == Elements(b)
           run == FillRange(a, k.start, k.len)
           td == {[to |-> c, from |-> NoBound, v |-> v] : c \in run}
           vals == [i \in DOMAIN cells |-> v]
           mine == Cells
<1>2. Placed(a, mine) /\ mine \subseteq Int /\ DOMAIN want = mine
  BY ThreadTakes DEF IInv
<1>3. Len(a.shape) = 1 /\ IsContiguous(a) /\ s \in SliceItems /\ s.step = 1
  BY <1>1, ArgumentsAssumption DEF Targetable
<1>4. Placed(b, mine) /\ Selected(a, s) = cells /\ CellsOf(b) = run
  <2> HIDE DEF a, mine
  <2> QED
    BY <1>2, <1>3, Window
<1>5. /\ Begin(t, "write", ToSet(cells)) /\ todo' = [todo EXCEPT ![t] = td]
      /\ want' = Assigned(want, cells, LAMBDA i : v)
      /\ UNCHANGED <<mem, root, view, tmp>>
  BY <1>1, <1>4
<1> HIDE DEF a, b, k, run
<1>6. /\ DOMAIN cells = 1 .. b.size
      /\ \A i \in DOMAIN cells : cells[i] \in mine
      /\ \A i, j \in DOMAIN cells : cells[i] = cells[j] => i = j
      /\ ToSet(cells) = run /\ run \subseteq mine
  BY <1>4, ElementsTake
<1> HIDE DEF cells, mine
<1>7. want' = PutAll(want, cells, vals)
  BY <1>5 DEF Assigned, PutAll
<1>8. /\ DOMAIN want' = mine
      /\ \A i \in DOMAIN cells : want'[cells[i]] = vals[i]
      /\ \A c \in mine : c \notin run => want'[c] = want[c]
  <2> HIDE DEF vals
  <2>1. \A i \in DOMAIN cells : cells[i] \in DOMAIN want
    BY <1>2, <1>6
  <2>2. \A i, j \in DOMAIN cells : cells[i] = cells[j] => i = j
    BY <1>6
  <2>3. /\ DOMAIN PutAll(want, cells, vals) = DOMAIN want
        /\ \A i \in DOMAIN cells : PutAll(want, cells, vals)[cells[i]] = vals[i]
        /\ \A c \in DOMAIN want : c \notin ToSet(cells) => PutAll(want, cells, vals)[c] = want[c]
    BY <2>1, <2>2, PutTakes
  <2> QED
    BY <1>2, <1>6, <1>7, <2>3
<1>9. \A c \in run : want'[c] = v
  <2> SUFFICES ASSUME NEW c \in run PROVE want'[c] = v
    OBVIOUS
  <2>1. PICK i \in DOMAIN cells : cells[i] = c
    BY <1>6 DEF ToSet
  <2> QED
    BY <1>8, <2>1
<1>10. Writing(run, td, mem, want')
  <2>1. \A x \in td : x.to \in run /\ x.from = NoBound /\ x.v = v
                      /\ x = [to |-> x.to, from |-> NoBound, v |-> v]
    OBVIOUS
  <2>2. ASSUME NEW c \in run PROVE \E x \in td : x.to = c
    <3>1. [to |-> c, from |-> NoBound, v |-> v] \in td
      OBVIOUS
    <3> HIDE DEF td
    <3> QED
      BY <3>1
  <2>3. \A c \in run : c # NoBound
    BY <1>2, <1>6, ArgumentsAssumption
  <2> HIDE DEF td
  <2>4. \A x, y \in td : x.to # y.from /\ (x # y => x.to # y.to)
    BY <2>1, <2>3
  <2>5. \A x \in td : want'[x.to] = IF x.from = NoBound THEN x.v ELSE want'[x.from]
    BY <1>9, <2>1
  <2> QED
    BY <2>1, <2>2, <2>4, <2>5 DEF Writing
<1>11. Fine(a, "write", run, td, tmp[t], mem, want')
  BY <1>10 DEF Fine, Calls
<1>12. tmp' = [tmp EXCEPT ![t] = tmp[t]]
  BY <1>5, ThreadTakes
<1>13. Begin(t, "write", run) /\ run \subseteq Cells /\ DOMAIN want' = Cells
       /\ \A x \in Cells : x \notin run => want'[x] = want[x]
  BY <1>5, <1>6, <1>8 DEF mine
<1> HIDE DEF td
<1> QED
  BY <1>5, <1>11, <1>12, <1>13, CallKeeps DEF a

-----------------------------------------------------------------------------
(* a[i:j] = Array *)

LEMMA AssignKeeps ==
    ASSUME IInv, NEW t \in Threads, ~AnyOperands, Assign(t)
    PROVE  IInv'
<1> DEFINE a == view[t]
<1>1. PICK s \in Slices, r \in Slices :
        LET k == AdjustSlice(s, a.size)
            q == AdjustSlice(r, root.size)
            rhs == ViewStrided(root, q.start, q.len, q.step)
            cells == Selected(a, s)
            source == Elements(rhs)
        IN  /\ s.step = 1
            /\ Len(root.shape) = 1
            /\ Targetable(a)
            /\ rhs.size = k.len
            /\ AnyOperands \/ (IsContiguous(rhs) /\ ToSet(cells) \cap ToSet(source) = {})
            /\ Begin(t, "write", ToSet(cells) \cup ToSet(source))
            /\ todo' = [todo EXCEPT ![t] = AssignRange(a, k.start, rhs)]
            /\ want' = Assigned(want, cells, LAMBDA i : want[source[i]])
            /\ UNCHANGED <<mem, root, view, tmp>>
  BY DEF Assign
<1> DEFINE k == AdjustSlice(s, a.size)
           b == ViewStrided(a, k.start, k.len, k.step)
           q == AdjustSlice(r, root.size)
           rhs == ViewStrided(root, q.start, q.len, q.step)
           cells == Elements(b)
           source == Elements(rhs)
           td == AssignRange(a, k.start, rhs)
           vals == [i \in DOMAIN cells |-> want[source[i]]]
           used == ToSet(cells) \cup ToSet(source)
           mine == Cells
<1>2. /\ Placed(a, mine) /\ Placed(root, mine) /\ mine \subseteq Int /\ DOMAIN want = mine
  BY ThreadTakes DEF IInv
<1>3. /\ Len(a.shape) = 1 /\ IsContiguous(a) /\ s \in SliceItems /\ s.step = 1
      /\ Len(root.shape) = 1 /\ r \in SliceItems
  BY <1>1, ArgumentsAssumption DEF Targetable
<1>4. /\ Placed(b, mine) /\ Selected(a, s) = cells
      /\ b.size = k.len /\ k.start \in Int /\ k.len \in Nat /\ a.base \in Int
      /\ \A p \in 1 .. k.len : Offset(b, p - 1) = a.base + k.start + (p - 1)
  <2> HIDE DEF a, mine
  <2> QED
    BY <1>2, <1>3, Window
<1>5. Placed(rhs, mine)
  <2> HIDE DEF mine
  <2> QED
    BY <1>2, <1>3, SlicePlaced
<1>6. /\ rhs.size = k.len /\ IsContiguous(rhs) /\ ToSet(cells) \cap ToSet(source) = {}
      /\ Begin(t, "write", used)
      /\ todo' = [todo EXCEPT ![t] = td]
      /\ want' = Assigned(want, cells, LAMBDA i : want[source[i]])
      /\ UNCHANGED <<mem, root, view, tmp>>
  BY <1>1, <1>4
<1> HIDE DEF a, b, k, q, rhs, td
<1>7. /\ DOMAIN cells = 1 .. k.len
      /\ \A p \in 1 .. k.len : cells[p] = Offset(b, p - 1) /\ cells[p] \in mine
      /\ \A i, j \in DOMAIN cells : cells[i] = cells[j] => i = j
      /\ ToSet(cells) \subseteq mine
  BY <1>4, ElementsTake
<1>8. /\ DOMAIN source = 1 .. k.len
      /\ \A p \in 1 .. k.len : source[p] = Offset(rhs, p - 1) /\ source[p] \in mine
      /\ ToSet(source) \subseteq mine
  BY <1>5, <1>6, ElementsTake
<1>9. rhs.base \in Int /\ \A p \in 1 .. k.len : Offset(rhs, p - 1) = rhs.base + (p - 1)
  <2>1. \A p \in 1 .. k.len : p - 1 \in 0 .. rhs.size - 1
    BY <1>4, <1>6
  <2> QED
    BY <1>5, <1>6, <2>1, PlacedReads DEF Fields, Reads
<1> HIDE DEF cells, source, mine
<1>10. want' = PutAll(want, cells, vals)
  BY <1>6 DEF Assigned, PutAll
<1>11. /\ DOMAIN want' = mine
       /\ \A p \in 1 .. k.len : want'[cells[p]] = want[source[p]]
       /\ \A c \in mine : c \notin ToSet(cells) => want'[c] = want[c]
  <2>1. \A i \in DOMAIN cells : cells[i] \in DOMAIN want
    BY <1>2, <1>7
  <2>2. \A i, j \in DOMAIN cells : cells[i] = cells[j] => i = j
    BY <1>7
  <2>3. \A p \in 1 .. k.len : vals[p] = want[source[p]]
    BY <1>7
  <2> HIDE DEF vals
  <2>4. /\ DOMAIN PutAll(want, cells, vals) = DOMAIN want
        /\ \A i \in DOMAIN cells : PutAll(want, cells, vals)[cells[i]] = vals[i]
        /\ \A c \in DOMAIN want : c \notin ToSet(cells) => PutAll(want, cells, vals)[c] = want[c]
    BY <2>1, <2>2, PutTakes
  <2> QED
    BY <1>2, <1>7, <1>10, <2>3, <2>4
<1> HIDE DEF vals
\* the copy of the p-th element
<1> DEFINE Copy(p) == [to |-> cells[p], from |-> source[p], v |-> NoBound]
<1>12. \A x \in td : \E p \in 1 .. k.len : x = Copy(p)
  <2> SUFFICES ASSUME NEW x \in td PROVE \E p \in 1 .. k.len : x = Copy(p)
    OBVIOUS
  <2>1. PICK i \in 0 .. rhs.size - 1 :
          x = [to |-> a.base + k.start + i, from |-> rhs.base + i, v |-> NoBound]
    BY DEF td, AssignRange
  <2> DEFINE p == i + 1
  <2>2. p \in 1 .. k.len /\ p - 1 = i
    BY <1>4, <1>6
  <2> HIDE DEF p
  <2>3. cells[p] = a.base + k.start + i /\ source[p] = rhs.base + i
    BY <1>4, <1>7, <1>8, <1>9, <2>2
  <2> QED
    BY <2>1, <2>2, <2>3
<1>13. \A p \in 1 .. k.len : Copy(p) \in td
  <2> SUFFICES ASSUME NEW p \in 1 .. k.len PROVE Copy(p) \in td
    OBVIOUS
  <2> DEFINE i == p - 1
  <2>1. i \in 0 .. rhs.size - 1
    BY <1>4, <1>6
  <2>2. cells[p] = a.base + k.start + i /\ source[p] = rhs.base + i
    BY <1>4, <1>7, <1>8, <1>9
  <2> HIDE DEF i
  <2> QED
    BY <2>1, <2>2 DEF td, AssignRange
<1>14. \A p \in 1 .. k.len : cells[p] \in ToSet(cells) /\ source[p] \in ToSet(source)
  BY <1>7, <1>8 DEF ToSet
<1>15. \A p, o \in 1 .. k.len : cells[p] # source[o]
  BY <1>6, <1>14
<1>16. Writing(used, td, mem, want')
  <2>1. \A x \in td : x.to \in used /\ x.from \in used
    BY <1>12, <1>14
  <2>2. \A x, y \in td : x.to # y.from /\ (x # y => x.to # y.to)
    <3> SUFFICES ASSUME NEW x \in td, NEW y \in td
                 PROVE  x.to # y.from /\ (x # y => x.to # y.to)
      OBVIOUS
    <3>1. PICK p \in 1 .. k.len : x = Copy(p)
      BY <1>12
    <3>2. PICK o \in 1 .. k.len : y = Copy(o)
      BY <1>12
    <3> QED
      BY <1>7, <1>15, <3>1, <3>2
  <2>3. \A x \in td : want'[x.to] = IF x.from = NoBound THEN x.v ELSE want'[x.from]
    <3> SUFFICES ASSUME NEW x \in td
                 PROVE  want'[x.to] = IF x.from = NoBound THEN x.v ELSE want'[x.from]
      OBVIOUS
    <3>1. PICK p \in 1 .. k.len : x = Copy(p)
      BY <1>12
    <3>2. source[p] # NoBound
      BY <1>2, <1>8, ArgumentsAssumption
    <3>3. want'[source[p]] = want[source[p]]
      BY <1>6, <1>8, <1>11, <1>14
    <3> QED
      BY <1>11, <3>1, <3>2, <3>3
  <2>4. \A c \in used : (\A x \in td : x.to # c) => mem[c] = want'[c]
    <3> SUFFICES ASSUME NEW c \in used, \A x \in td : x.to # c PROVE mem[c] = want'[c]
      OBVIOUS
    <3>1. \A p \in 1 .. k.len : cells[p] # c
      BY <1>13
    <3>2. c \notin ToSet(cells) /\ c \in mine
      BY <1>7, <1>8, <3>1 DEF ToSet
    <3>3. mem[c] = want[c]
      BY <1>6, <1>7, <1>8, BeginTakes DEF mine
    <3> QED
      BY <1>11, <3>2, <3>3
  <2> QED
    BY <2>1, <2>2, <2>3, <2>4 DEF Writing
<1>17. Fine(a, "write", used, td, tmp[t], mem, want')
  BY <1>16 DEF Fine, Calls
<1>18. tmp' = [tmp EXCEPT ![t] = tmp[t]]
  BY <1>6, ThreadTakes
<1>19. used \subseteq Cells /\ DOMAIN want' = Cells
       /\ \A x \in Cells : x \notin used => want'[x] = want[x]
  BY <1>7, <1>8, <1>11 DEF mine
<1> HIDE DEF used
<1> QED
  BY <1>6, <1>17, <1>18, <1>19, CallKeeps DEF a

-----------------------------------------------------------------------------
(* One element of a fill or of a copy *)

LEMMA WriteOneKeeps ==
    ASSUME IInv, NEW t \in Threads, WriteOne(t)
    PROVE  IInv'
<1> DEFINE a == view[t]
           cl == claim[t]
           td == todo[t]
           mine == Cells
<1>1. PICK w \in td :
        /\ call[t] = "write"
        /\ todo' = [todo EXCEPT ![t] = td \ {w}]
        /\ mem' = Stored(mem, w.to, IF w.from = NoBound THEN w.v
                                    ELSE IF w.from \in mine THEN mem[w.from] ELSE NoBound)
        /\ UNCHANGED <<want, root, view, call, claim, tmp, calls>>
  BY DEF WriteOne
<1>2. /\ Fine(a, "write", cl, td, tmp[t], mem, want) /\ Placed(a, mine)
      /\ cl \subseteq mine /\ DOMAIN want = mine /\ DOMAIN mem = mine
      /\ \A u \in Threads \ {t} : cl \cap claim[u] = {}
  BY <1>1, ThreadTakes DEF IInv, Cells
<1>3. Turns(t, a, "write", cl, td \ {w}, tmp[t])
  BY <1>1, ThreadTakes DEF Turns
<1> HIDE DEF a, cl, td, mine
<1>4. Writing(cl, td, mem, want)
  BY <1>2 DEF Fine
<1>5. w.to \in cl /\ (w.from = NoBound \/ w.from \in cl)
  BY <1>4 DEF Writing
<1>6. (IF w.from = NoBound THEN w.v ELSE IF w.from \in mine THEN mem[w.from] ELSE NoBound) = want[w.to]
  <2>1. want[w.to] = IF w.from = NoBound THEN w.v ELSE want[w.from]
    BY <1>4 DEF Writing
  <2>2. CASE w.from = NoBound
    BY <2>1, <2>2
  <2>3. CASE w.from # NoBound
    <3>1. w.from \in cl /\ w.from \in mine
      BY <1>2, <1>5, <2>3
    <3>2. \A x \in td : x.to # w.from
      BY <1>4 DEF Writing
    <3>3. mem[w.from] = want[w.from]
      BY <1>4, <3>1, <3>2 DEF Writing
    <3> QED
      BY <2>1, <2>3, <3>1, <3>3
  <2> QED
    BY <2>2, <2>3
<1>7. /\ DOMAIN mem' = mine /\ mem'[w.to] = want[w.to]
      /\ \A x \in mine : x # w.to => mem'[x] = mem[x]
  BY <1>1, <1>2, <1>5, <1>6 DEF Stored
<1>8. Writing(cl, td \ {w}, mem', want)
  <2>1. \A x \in td \ {w} : x.to \in cl /\ (x.from = NoBound \/ x.from \in cl)
    BY <1>4 DEF Writing
  <2>2. \A x, y \in td \ {w} : x.to # y.from /\ (x # y => x.to # y.to)
    BY <1>4 DEF Writing
  <2>3. \A x \in td \ {w} : want[x.to] = IF x.from = NoBound THEN x.v ELSE want[x.from]
    BY <1>4 DEF Writing
  <2>4. ASSUME NEW c \in cl, \A x \in td \ {w} : x.to # c PROVE mem'[c] = want[c]
    <3>1. CASE c = w.to
      BY <1>7, <3>1
    <3>2. CASE c # w.to
      <4>1. \A x \in td : x.to # c
        BY <2>4, <3>2
      <4>2. mem[c] = want[c]
        BY <1>4, <4>1 DEF Writing
      <4> QED
        BY <1>2, <1>7, <3>2, <4>2
    <3> QED
      BY <3>1, <3>2
  <2> QED
    BY <2>1, <2>2, <2>3, <2>4 DEF Writing
<1>9. Fine(a, "write", cl, td \ {w}, tmp[t], mem', want')
  <2>1. want' = want
    BY <1>1
  <2> QED
    BY <1>8, <2>1 DEF Fine, Calls
<1>10. Respects(t, cl)
  <2>1. want' = want
    BY <1>1
  <2>2. \A x \in mine : x \in cl \/ mem'[x] = mem[x]
    BY <1>5, <1>7
  <2> QED
    BY <1>2, <1>7, <2>1, <2>2 DEF Respects, cl, mine
<1> QED
  BY <1>2, <1>3, <1>9, <1>10, TurnKeeps DEF mine

-----------------------------------------------------------------------------
(* a.sort() *)

\* Ascending lists as many elements as it is given.
LEMMA AscendingListed ==
    ASSUME NEW n \in Nat, NEW s, s = [p \in 1 .. n |-> s[p]]
    PROVE  /\ Ascending(s) = [p \in 1 .. n |-> Ascending(s)[p]]
           /\ Len(Ascending(s)) = n /\ DOMAIN Ascending(s) = 1 .. n
<1> DEFINE ahead(i) == {j \in DOMAIN s : s[j] < s[i] \/ (s[j] = s[i] /\ j < i)}
           From(p) == s[CHOOSE i \in DOMAIN s : Cardinality(ahead(i)) = p - 1]
           r == Ascending(s)
<1>1. r = [p \in DOMAIN s |-> From(p)]
  BY DEF Ascending
<1> HIDE DEF From, r
<1>2. DOMAIN s = 1 .. n
  OBVIOUS
<1>3. r = [p \in 1 .. n |-> r[p]]
  BY <1>1, <1>2
<1> QED
  BY <1>3, Listed DEF r

LEMMA SortCallKeeps ==
    ASSUME IInv, NEW t \in Threads, SortCall(t)
    PROVE  IInv'
<1> DEFINE a == view[t]
           cells == Elements(a)
           held == [i \in DOMAIN cells |-> want[cells[i]]]
           sorted == Ascending(held)
           name == IF IsContiguous(a) THEN "sort flat" ELSE "gather"
           used == ToSet(cells)
           mine == Cells
           vals == [i \in DOMAIN cells |-> sorted[i]]
<1>1. /\ Begin(t, name, used)
      /\ tmp' = [tmp EXCEPT ![t] = <<>>]
      /\ want' = Assigned(want, cells, LAMBDA i : sorted[i])
      /\ UNCHANGED <<mem, root, view, todo>>
  BY DEF SortCall
<1>2. Placed(a, mine) /\ DOMAIN want = mine
  BY ThreadTakes DEF IInv
<1> HIDE DEF a, name
<1>3. /\ a.size \in Nat /\ DOMAIN cells = 1 .. a.size
      /\ \A p \in 1 .. a.size : cells[p] = Offset(a, p - 1) /\ cells[p] \in mine
      /\ \A i, j \in DOMAIN cells : cells[i] = cells[j] => i = j
      /\ used = CellsOf(a) /\ used \subseteq mine
  BY <1>2, ElementsTake
<1>4. \A p \in 1 .. a.size : cells[p] \in used
  BY <1>3 DEF ToSet
<1> HIDE DEF cells, used, mine
<1>5. /\ \A x \in used : mem[x] = want[x]
      /\ todo[t] = {}
  BY <1>1, <1>3, BeginTakes DEF mine
<1>6. held = Held(a, mem)
  BY <1>3, <1>4, <1>5 DEF Held
<1> HIDE DEF held, sorted
<1>7. want' = PutAll(want, cells, vals)
  BY <1>1 DEF Assigned, PutAll
<1>8. /\ DOMAIN want' = mine
      /\ \A p \in 1 .. a.size : want'[Offset(a, p - 1)] = sorted[p]
      /\ \A c \in mine : c \notin used => want'[c] = want[c]
  <2>1. \A i \in DOMAIN cells : cells[i] \in DOMAIN want
    BY <1>2, <1>3
  <2>2. \A i, j \in DOMAIN cells : cells[i] = cells[j] => i = j
    BY <1>3
  <2>3. \A p \in 1 .. a.size : vals[p] = sorted[p]
    BY <1>3
  <2> HIDE DEF vals
  <2>4. /\ DOMAIN PutAll(want, cells, vals) = DOMAIN want
        /\ \A i \in DOMAIN cells : PutAll(want, cells, vals)[cells[i]] = vals[i]
        /\ \A c \in DOMAIN want : c \notin ToSet(cells) => PutAll(want, cells, vals)[c] = want[c]
    BY <2>1, <2>2, PutTakes
  <2> QED
    BY <1>2, <1>3, <1>7, <2>3, <2>4 DEF used
<1> HIDE DEF vals
<1>9. Sorting(a, used, mem, want')
  BY <1>3, <1>6, <1>8 DEF Sorting, sorted
<1>10. Gathering(a, <<>>, mem)
  <2>1. <<>> = [p \in 1 .. Len(<<>>) |-> mem[Offset(a, p - 1)]]
    <3>1. 1 .. Len(<<>>) = {}
      OBVIOUS
    <3> QED
      BY <3>1
  <2>2. Len(<<>>) \in Nat /\ Len(<<>>) <= a.size
    BY <1>3
  <2> QED
    BY <2>1, <2>2 DEF Gathering
<1>11. Fine(a, name, used, {}, <<>>, mem, want')
  BY <1>9, <1>10 DEF Fine, Calls, name
<1>12. todo' = [todo EXCEPT ![t] = {}]
  BY <1>1, <1>5, ThreadTakes
<1>13. used \subseteq Cells /\ DOMAIN want' = Cells
       /\ \A x \in Cells : x \notin used => want'[x] = want[x]
  BY <1>3, <1>8 DEF mine
<1> QED
  BY <1>1, <1>11, <1>12, <1>13, CallKeeps DEF a

\* hpx::sort over a run of the buffer.
LEMMA SortFlatKeeps ==
    ASSUME IInv, NEW t \in Threads, SortFlat(t)
    PROVE  IInv'
<1> DEFINE a == view[t]
           flat == [i \in 1 .. a.size |-> mem[a.base + i - 1]]
           sorted == Ascending(flat)
           cl == claim[t]
           mine == Cells
<1>1. /\ call[t] = "sort flat"
      /\ mem' = [c \in mine |-> IF c \in a.base .. a.base + a.size - 1
                                THEN sorted[c - a.base + 1] ELSE mem[c]]
      /\ call' = [call EXCEPT ![t] = "none"] /\ claim' = [claim EXCEPT ![t] = {}]
      /\ UNCHANGED <<want, root, view, todo, tmp, calls>>
  BY DEF SortFlat, Return
<1> DEFINE td == todo[t]
<1>2. /\ Fine(a, "sort flat", cl, td, tmp[t], mem, want) /\ Placed(a, mine)
      /\ cl \subseteq mine /\ DOMAIN want = mine
      /\ \A u \in Threads \ {t} : cl \cap claim[u] = {}
  BY <1>1, ThreadTakes DEF IInv
<1>3. td = {}
  BY <1>2 DEF Fine
<1>4. Turns(t, a, "none", {}, {}, tmp[t])
  BY <1>1, <1>3, ThreadTakes DEF Turns, td
<1>5. Fine(a, "none", {}, {}, tmp[t], mem', want')
  BY DEF Fine, Calls
<1> HIDE DEF a, cl, td, mine
<1>6. Sorting(a, cl, mem, want) /\ IsContiguous(a)
  BY <1>2 DEF Fine
<1>7. a.size \in Nat /\ a.base \in Int
      /\ \A i \in 0 .. a.size - 1 : Offset(a, i) = a.base + i
  BY <1>2, <1>6, PlacedReads DEF Fields, Reads
<1>8. \A p \in 1 .. a.size : Offset(a, p - 1) = a.base + p - 1
  BY <1>7
<1>9. flat = Held(a, mem)
  BY <1>8 DEF Held
<1>10. \A p \in 1 .. a.size : want[a.base + p - 1] = sorted[p]
  BY <1>6, <1>8, <1>9 DEF Sorting
<1>11. \A x \in mine : x \in a.base .. a.base + a.size - 1 <=> x \in cl
  <2>1. cl = CellsOf(a)
    BY <1>6 DEF Sorting
  <2>2. ASSUME NEW x \in a.base .. a.base + a.size - 1 PROVE x \in cl
    <3>1. x - a.base \in 0 .. a.size - 1 /\ x = a.base + (x - a.base)
      BY <1>7
    <3> QED
      BY <1>7, <2>1, <3>1 DEF CellsOf
  <2>3. ASSUME NEW x \in cl PROVE x \in a.base .. a.base + a.size - 1
    BY <1>7, <2>1 DEF CellsOf
  <2> QED
    BY <2>2, <2>3
<1>12. ASSUME NEW x \in mine, x \in cl PROVE mem'[x] = want[x]
  <2>1. x \in a.base .. a.base + a.size - 1
    BY <1>11, <1>12
  <2> DEFINE p == x - a.base + 1
  <2>2. p \in 1 .. a.size /\ x = a.base + p - 1
    BY <1>7, <2>1
  <2>3. mem'[x] = sorted[p]
    BY <1>1, <2>1
  <2> HIDE DEF p
  <2> QED
    BY <1>10, <2>2, <2>3
<1>13. \A x \in mine : x \notin cl => mem'[x] = mem[x]
  BY <1>1, <1>11
<1>14. Respects(t, {})
  <2>1. want' = want /\ DOMAIN mem' = mine
    BY <1>1
  <2> QED
    BY <1>2, <1>12, <1>13, <2>1 DEF Respects, cl, mine
<1> QED
  BY <1>2, <1>4, <1>5, <1>14, TurnKeeps DEF mine

\* The serial gather and scatter of a strided view.
LEMMA GatherOneKeeps ==
    ASSUME IInv, NEW t \in Threads, GatherOne(t)
    PROVE  IInv'
<1> DEFINE a == view[t]
           cl == claim[t]
           td == todo[t]
           s == tmp[t]
           mine == Cells
           e == mem[Offset(a, Len(s))]
           r == Append(s, e)
<1>1. /\ call[t] = "gather" /\ Len(s) < a.size
      /\ tmp' = [tmp EXCEPT ![t] = r]
      /\ UNCHANGED <<mem, want, root, view, call, claim, todo, calls>>
  BY DEF GatherOne
<1>2. /\ Fine(a, "gather", cl, td, s, mem, want) /\ Placed(a, mine)
      /\ cl \subseteq mine /\ DOMAIN want = mine /\ DOMAIN mem = mine
      /\ \A u \in Threads \ {t} : cl \cap claim[u] = {}
  BY <1>1, ThreadTakes DEF IInv, Cells
<1> HIDE DEF r
<1>3. Turns(t, a, "gather", cl, td, r)
  BY <1>1, ThreadTakes DEF Turns
<1> HIDE DEF a, cl, td, s, mine
<1>4. Sorting(a, cl, mem, want) /\ Gathering(a, s, mem) /\ td = {}
  BY <1>2 DEF Fine
<1> DEFINE n == Len(s)
<1>5. n \in Nat /\ n < a.size /\ a.size \in Nat /\ s = [p \in 1 .. n |-> mem[Offset(a, p - 1)]]
  BY <1>1, <1>2, <1>4, PlacedReads DEF Gathering, Fields
<1> HIDE DEF n, e
<1>6. s = [p \in 1 .. n |-> s[p]]
  BY <1>5
<1> DEFINE V == {s[p] : p \in 1 .. n} \cup {e}
<1>7. s \in Seq(V) /\ e \in V /\ Len(s) = n
  <2>1. s \in Seq({s[p] : p \in 1 .. n})
    BY <1>5, <1>6, Listed
  <2>2. {s[p] : p \in 1 .. n} \subseteq V
    OBVIOUS
  <2> QED
    BY <2>1, <2>2 DEF n
<1> HIDE DEF V
<1>8. /\ r \in Seq(V) /\ Len(r) = n + 1 /\ r[n + 1] = e
      /\ \A p \in 1 .. n : r[p] = s[p]
  BY <1>7, AppendProperties DEF r
<1>9. DOMAIN r = 1 .. n + 1
  BY <1>8
<1>10. \A p \in 1 .. n + 1 : r[p] = mem[Offset(a, p - 1)]
  <2> SUFFICES ASSUME NEW p \in 1 .. n + 1 PROVE r[p] = mem[Offset(a, p - 1)]
    OBVIOUS
  <2>1. CASE p \in 1 .. n
    BY <1>5, <1>8, <2>1
  <2>2. CASE p = n + 1
    <3>1. p - 1 = n
      BY <1>5, <2>2
    <3> QED
      BY <1>7, <1>8, <2>2, <3>1 DEF e
  <2> QED
    BY <1>5, <2>1, <2>2
<1>11. Gathering(a, r, mem)
  <2>1. Len(r) \in Nat /\ Len(r) <= a.size
    BY <1>5, <1>8
  <2>2. r = [p \in 1 .. n + 1 |-> r[p]]
    BY <1>8, <1>9
  <2>3. r = [p \in 1 .. Len(r) |-> mem[Offset(a, p - 1)]]
    BY <1>8, <1>10, <2>2
  <2> QED
    BY <2>1, <2>3 DEF Gathering
<1>12. Fine(a, "gather", cl, td, r, mem', want')
  <2>1. mem' = mem /\ want' = want
    BY <1>1
  <2> QED
    BY <1>4, <1>11, <2>1 DEF Fine, Calls
<1>13. Respects(t, cl)
  <2>1. mem' = mem /\ want' = want
    BY <1>1
  <2>2. \A x \in mine : x \in cl \/ x \notin claim[t]
    BY DEF cl
  <2> QED
    BY <1>2, <2>1, <2>2 DEF Respects, mine
<1> QED
  BY <1>2, <1>3, <1>12, <1>13, TurnKeeps DEF mine

LEMMA SortTmpKeeps ==
    ASSUME IInv, NEW t \in Threads, SortTmp(t)
    PROVE  IInv'
<1> DEFINE a == view[t]
           cl == claim[t]
           td == todo[t]
           s == tmp[t]
           mine == Cells
           r == Ascending(s)
<1>1. /\ call[t] = "gather" /\ Len(s) = a.size
      /\ call' = [call EXCEPT ![t] = "scatter"]
      /\ tmp' = [tmp EXCEPT ![t] = r]
      /\ UNCHANGED <<mem, want, root, view, claim, todo, calls>>
  BY DEF SortTmp
<1>2. /\ Fine(a, "gather", cl, td, s, mem, want) /\ Placed(a, mine)
      /\ cl \subseteq mine /\ DOMAIN want = mine /\ DOMAIN mem = mine
      /\ \A u \in Threads \ {t} : cl \cap claim[u] = {}
  BY <1>1, ThreadTakes DEF IInv, Cells
<1> HIDE DEF r
<1>3. Turns(t, a, "scatter", cl, td, r)
  BY <1>1, ThreadTakes DEF Turns
<1> HIDE DEF a, cl, td, s, mine
<1> DEFINE n == a.size
<1>4. Sorting(a, cl, mem, want) /\ Gathering(a, s, mem) /\ td = {}
  BY <1>2 DEF Fine
<1>5. n \in Nat /\ s = Held(a, mem)
  BY <1>1, <1>2, <1>4, PlacedReads DEF Gathering, Held, Fields
<1>6. s = [p \in 1 .. n |-> s[p]]
  BY <1>5 DEF Held
<1> HIDE DEF n
<1>7. r = [p \in 1 .. n |-> r[p]] /\ Len(r) = n
  BY <1>5, <1>6, AscendingListed DEF r
<1>8. \A p \in 1 .. n : r[p] = want[Offset(a, p - 1)]
  BY <1>4, <1>5 DEF Sorting, r, n
<1>9. Scattering(a, cl, r, mem, want)
  <2>1. cl = CellsOf(a) /\ a.size = n
    BY <1>4 DEF Sorting, n
  <2>2. n - Len(r) = 0 /\ Len(r) \in Nat /\ Len(r) <= n
    BY <1>5, <1>7
  <2>3. \A p \in 1 .. n : 0 + p - 1 = p - 1
    BY <1>5
  <2>4. r = [p \in 1 .. Len(r) |-> want[Offset(a, 0 + p - 1)]]
    BY <1>7, <1>8, <2>3
  <2>5. \A p \in 1 .. 0 : mem[Offset(a, p - 1)] = want[Offset(a, p - 1)]
    OBVIOUS
  <2> QED
    BY <2>1, <2>2, <2>4, <2>5 DEF Scattering
<1>10. Fine(a, "scatter", cl, td, r, mem', want')
  <2>1. mem' = mem /\ want' = want
    BY <1>1
  <2> QED
    BY <1>4, <1>9, <2>1 DEF Fine, Calls
<1>11. Respects(t, cl)
  <2>1. mem' = mem /\ want' = want
    BY <1>1
  <2>2. \A x \in mine : x \in cl \/ x \notin claim[t]
    BY DEF cl
  <2> QED
    BY <1>2, <2>1, <2>2 DEF Respects, mine
<1> QED
  BY <1>2, <1>3, <1>10, <1>11, TurnKeeps DEF mine

LEMMA ScatterOneKeeps ==
    ASSUME IInv, NEW t \in Threads, ScatterOne(t)
    PROVE  IInv'
<1> DEFINE a == view[t]
           cl == claim[t]
           td == todo[t]
           s == tmp[t]
           mine == Cells
           c == Offset(a, a.size - Len(s))
           r == Tail(s)
<1>1. /\ call[t] = "scatter" /\ s # <<>>
      /\ mem' = Stored(mem, c, Head(s))
      /\ tmp' = [tmp EXCEPT ![t] = r]
      /\ UNCHANGED <<want, root, view, call, claim, todo, calls>>
  BY DEF ScatterOne
<1>2. /\ Fine(a, "scatter", cl, td, s, mem, want) /\ Placed(a, mine)
      /\ cl \subseteq mine /\ DOMAIN want = mine /\ DOMAIN mem = mine
      /\ \A u \in Threads \ {t} : cl \cap claim[u] = {}
  BY <1>1, ThreadTakes DEF IInv, Cells
<1> HIDE DEF r
<1>3. Turns(t, a, "scatter", cl, td, r)
  BY <1>1, ThreadTakes DEF Turns
<1> HIDE DEF a, cl, td, s, mine
<1> DEFINE n == Len(s)
           done == a.size - n
<1>4. Scattering(a, cl, s, mem, want) /\ td = {}
  BY <1>2 DEF Fine
<1>5. a.size \in Nat
  BY <1>2, PlacedReads DEF Fields
<1>6. /\ n \in Nat /\ n <= a.size /\ cl = CellsOf(a)
      /\ s = [p \in 1 .. n |-> want[Offset(a, done + p - 1)]]
      /\ \A p \in 1 .. done : mem[Offset(a, p - 1)] = want[Offset(a, p - 1)]
  BY <1>4 DEF Scattering
<1>7. done \in Nat
  BY <1>5, <1>6
<1> DEFINE V == {s[p] : p \in 1 .. n}
<1>8. s \in Seq(V)
  <2>1. s = [p \in 1 .. n |-> s[p]]
    BY <1>6
  <2> HIDE DEF n
  <2> QED
    BY <1>6, <2>1, Listed
<1> HIDE DEF V
<1>9. /\ n >= 1 /\ Head(s) = s[1]
      /\ r \in Seq(V) /\ Len(r) = n - 1 /\ \A p \in 1 .. n - 1 : r[p] = s[p + 1]
  <2>1. /\ Head(s) = s[1] /\ r \in Seq(V) /\ Len(r) = Len(s) - 1
        /\ \A p \in 1 .. Len(s) - 1 : r[p] = s[p + 1]
    BY <1>1, <1>8, HeadTailProperties DEF r
  <2>2. Len(s) # 0
    BY <1>1, <1>8, EmptySeq
  <2> QED
    BY <1>6, <2>1, <2>2
<1> HIDE DEF n
<1>10. \A p \in 1 .. n : s[p] = want[Offset(a, done + p - 1)]
  BY <1>6
<1>11. Head(s) = want[c]
  <2>1. done + 1 - 1 = done /\ 1 \in 1 .. n
    BY <1>6, <1>7, <1>9
  <2>2. c = Offset(a, done)
    BY DEF n
  <2> HIDE DEF done
  <2> QED
    BY <1>9, <1>10, <2>1, <2>2
<1>12. c \in cl
  <2>1. done \in 0 .. a.size - 1
    BY <1>5, <1>6, <1>7, <1>9
  <2> QED
    BY <1>6, <2>1 DEF CellsOf, n
<1>13. /\ DOMAIN mem' = mine /\ mem'[c] = want[c]
       /\ \A x \in mine : x # c => mem'[x] = mem[x]
  BY <1>1, <1>2, <1>11, <1>12 DEF Stored
<1>14. Scattering(a, cl, r, mem', want)
  <2> DEFINE m == n - 1
             over == done + 1
  <2>1. m \in Nat /\ m <= a.size /\ Len(r) = m /\ over \in Nat /\ a.size - m = over
    BY <1>5, <1>6, <1>7, <1>9
  <2>2. \A p \in 1 .. m : r[p] = want[Offset(a, over + p - 1)]
    <3> SUFFICES ASSUME NEW p \in 1 .. m PROVE r[p] = want[Offset(a, over + p - 1)]
      OBVIOUS
    <3> DEFINE o == p + 1
    <3>1. o \in 1 .. n /\ done + o - 1 = over + p - 1
      BY <1>6, <1>7
    <3>2. r[p] = s[o]
      BY <1>9
    <3> HIDE DEF o
    <3> QED
      BY <1>10, <3>1, <3>2
  <2>3. r = [p \in 1 .. m |-> r[p]]
    BY <1>9
  <2>4. \A p \in 1 .. over : mem'[Offset(a, p - 1)] = want[Offset(a, p - 1)]
    <3> SUFFICES ASSUME NEW p \in 1 .. over PROVE mem'[Offset(a, p - 1)] = want[Offset(a, p - 1)]
      OBVIOUS
    <3>1. CASE Offset(a, p - 1) = c
      BY <1>13, <3>1
    <3>2. CASE Offset(a, p - 1) # c
      <4>1. c = Offset(a, done)
        BY DEF n
      <4>2. p # over
        <5>1. ASSUME p = over PROVE p - 1 = done
          BY <1>7, <5>1
        <5> HIDE DEF done, over
        <5> QED
          BY <3>2, <4>1, <5>1
      <4>3. p \in 1 .. done /\ p - 1 \in 0 .. a.size - 1
        BY <1>5, <1>6, <1>7, <1>9, <4>2
      <4>4. Offset(a, p - 1) \in mine
        BY <1>2, <4>3, PlacedReads DEF Reads
      <4> QED
        BY <1>6, <1>13, <3>2, <4>3, <4>4
    <3> QED
      BY <3>1, <3>2
  <2> HIDE DEF m, over, done
  <2>5. r = [p \in 1 .. m |-> want[Offset(a, over + p - 1)]]
    BY <2>2, <2>3
  <2> QED
    BY <1>6, <2>1, <2>4, <2>5 DEF Scattering
<1>15. Fine(a, "scatter", cl, td, r, mem', want')
  <2>1. want' = want
    BY <1>1
  <2> QED
    BY <1>4, <1>14, <2>1 DEF Fine, Calls
<1>16. Respects(t, cl)
  <2>1. want' = want
    BY <1>1
  <2>2. \A x \in mine : x \in cl \/ (x \notin claim[t] /\ mem'[x] = mem[x])
    BY <1>12, <1>13 DEF cl
  <2>3. \A x \in mine : mem'[x] # mem[x] => x \in cl
    BY <1>12, <1>13
  <2> QED
    BY <1>2, <1>13, <2>1, <2>2, <2>3 DEF Respects, mine
<1> QED
  BY <1>2, <1>3, <1>15, <1>16, TurnKeeps DEF mine

-----------------------------------------------------------------------------
(* The theorems *)

LEMMA NextKeeps ==
    ASSUME IInv, ~AnyOperands, [Next]_vars
    PROVE  IInv'
<1>1. CASE UNCHANGED vars
  BY <1>1 DEF vars, IInv, Cells, Threaded, PerThread, Apart, AsNumPy
<1>2. CASE Next
  <2>1. PICK t \in Threads :
          \/ Reslice(t) \/ SetItem(t) \/ SetItemNd(t)
          \/ Fill(t) \/ Assign(t) \/ WriteOne(t) \/ WriteDone(t)
          \/ SortCall(t) \/ SortFlat(t) \/ GatherOne(t) \/ SortTmp(t)
          \/ ScatterOne(t) \/ SortDone(t)
    BY <1>2 DEF Next
  <2>2. CASE Reslice(t)
    BY <2>2, ResliceKeeps
  <2>3. CASE SetItem(t)
    BY <2>3, SetItemKeeps
  <2>4. CASE SetItemNd(t)
    BY <2>4, SetItemNdKeeps
  <2>5. CASE Fill(t)
    BY <2>5, FillKeeps
  <2>6. CASE Assign(t)
    BY <2>6, AssignKeeps
  <2>7. CASE WriteOne(t)
    BY <2>7, WriteOneKeeps
  <2>8. CASE WriteDone(t)
    BY <2>8, WriteDoneKeeps
  <2>9. CASE SortCall(t)
    BY <2>9, SortCallKeeps
  <2>10. CASE SortFlat(t)
    BY <2>10, SortFlatKeeps
  <2>11. CASE GatherOne(t)
    BY <2>11, GatherOneKeeps
  <2>12. CASE SortTmp(t)
    BY <2>12, SortTmpKeeps
  <2>13. CASE ScatterOne(t)
    BY <2>13, ScatterOneKeeps
  <2>14. CASE SortDone(t)
    BY <2>14, SortDoneKeeps
  <2> QED
    BY <2>1, <2>2, <2>3, <2>4, <2>5, <2>6, <2>7, <2>8, <2>9, <2>10, <2>11, <2>12, <2>13, <2>14
<1> QED
  BY <1>1, <1>2

\* For every number of threads, shape, content, slice and key, as long as no shape
\* has 2^64 elements and the operands of a slice assignment are contiguous and
\* apart: IInv holds in every state.
THEOREM Invariant == ASSUME NoWrap, ~AnyOperands PROVE Spec => []IInv
<1>1. Init => IInv
  BY InitFine
<1>2. IInv /\ [Next]_vars => IInv'
  BY NextKeeps
<1> QED
  BY <1>1, <1>2, PTL DEF Spec

LEMMA FineIsRaceFree ==
    ASSUME IInv
    PROVE  RaceFree
<1> SUFFICES ASSUME NEW t \in Threads, NEW w \in todo[t]
             PROVE  /\ w.to \in Cells \cap claim[t]
                    /\ \A u \in Threads : \A x \in todo[u] :
                          (t # u \/ w # x) => w.to # x.to /\ w.to # x.from
  BY DEF RaceFree
<1>1. ASSUME NEW u \in Threads, NEW x \in todo[u]
      PROVE  Writing(claim[u], todo[u], mem, want) /\ claim[u] \subseteq Cells
  <2> DEFINE td == todo[u]
             cl == claim[u]
             a == view[u]
  <2>1. Fine(a, call[u], cl, td, tmp[u], mem, want) /\ cl \subseteq Cells
    BY ThreadTakes
  <2> HIDE DEF td, cl, a
  <2>2. td # {}
    BY <1>1 DEF td
  <2>3. call[u] = "write"
    BY <2>1, <2>2 DEF Fine
  <2>4. Writing(cl, td, mem, want)
    BY <2>1, <2>3 DEF Fine
  <2> QED
    BY <2>1, <2>4 DEF td, cl
<1>2. Writing(claim[t], todo[t], mem, want) /\ claim[t] \subseteq Cells
  BY <1>1
<1>3. w.to \in claim[t] /\ w.to \in Cells /\ w.to # NoBound
  <2>1. w.to \in claim[t]
    BY <1>2 DEF Writing
  <2>2. w.to \in Int
    BY <1>2, <2>1, ThreadTakes
  <2> QED
    BY <1>2, <2>1, <2>2, ArgumentsAssumption
<1>4. ASSUME NEW u \in Threads, NEW x \in todo[u], t # u \/ w # x
      PROVE  w.to # x.to /\ w.to # x.from
  <2>1. CASE u = t
    BY <1>2, <1>4, <2>1 DEF Writing
  <2>2. CASE u # t
    <3>1. Writing(claim[u], todo[u], mem, want)
      BY <1>1
    <3>2. x.to \in claim[u] /\ (x.from = NoBound \/ x.from \in claim[u])
      BY <3>1 DEF Writing
    <3>3. claim[t] \cap claim[u] = {}
      BY <2>2, ThreadTakes
    <3> QED
      BY <1>3, <3>2, <3>3
  <2> QED
    BY <2>1, <2>2
<1> QED
  BY <1>3, <1>4

\* The pending element writes of all threads are inside the buffer, inside what
\* their own calls claimed, and to cells no other pending write reads or writes,
\* so that the order in which the HPX workers take them cannot matter.
THEOREM RaceFreeHolds == ASSUME NoWrap, ~AnyOperands PROVE Spec => []RaceFree
<1>1. Spec => []IInv
  BY Invariant
<1>2. IInv => RaceFree
  BY FineIsRaceFree
<1> QED
  BY <1>1, <1>2, PTL

\* What no call in progress claims is, at every moment, as NumPy would have left
\* it: fills, copies and sorts through whatever views the threads hold leave
\* exactly what the one-step assignments of NumPy leave.
THEOREM AsNumPyHolds == ASSUME NoWrap, ~AnyOperands PROVE Spec => []AsNumPy
<1>1. Spec => []IInv
  BY Invariant
<1>2. IInv => AsNumPy
  BY DEF IInv
<1> QED
  BY <1>1, <1>2, PTL
===============================================================================
