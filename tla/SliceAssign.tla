----------------------------- MODULE SliceAssign -----------------------------
(***************************************************************************)
(* Python threads that write through views of one shared buffer: a[i] = v, *)
(* a[i,j] = v, a[i:j] = scalar, a[i:j] = Array and a.sort()                *)
(* (src/src/_core.cpp, src/src/array.hpp). The last three release the GIL  *)
(* and run as HPX parallel algorithms, so a thread's writes happen one     *)
(* element at a time, in any order, between the steps of the other         *)
(* threads.                                                                *)
(*                                                                         *)
(* The threads are a correct program: no two calls in progress touch the   *)
(* same elements. `want` is the buffer as NumPy would have left it, each   *)
(* call taking effect at once.                                             *)
(***************************************************************************)
EXTENDS NDLayout

CONSTANTS
    Threads,
    Shapes,         \* shape of the Array that owns the buffer
    Contents,       \* what the buffer may hold at first
    Values,         \* scalars that are assigned
    Slices,         \* one-axis slices, as views and as targets
    Keys,           \* keys of several axes, as views
    AnyOperands,    \* slice assignment between any views, or only to and from
                    \* contiguous 1-D ones that share no element
    MaxCalls        \* bound on the calls of a behaviour

ASSUME ArgumentsAssumption ==
    /\ NoBound \notin Int
    /\ Shapes \subseteq Seq(Nat)
    /\ Slices \subseteq SliceItems
    /\ Keys \subseteq Seq(KeyItems)

VARIABLES
    mem,            \* the buffer
    want,           \* the buffer under NumPy's semantics
    root,           \* the Array that owns the buffer
    view,           \* view[t]: the Array thread t holds
    call,           \* call[t]: the call thread t is in
    claim,          \* claim[t]: the elements that call may touch
    todo,           \* todo[t]: the element writes the call has left
    tmp,            \* tmp[t]: sort's temporary buffer
    calls           \* number of calls made

vars == <<mem, want, root, view, call, claim, todo, tmp, calls>>

Init ==
    /\ \E s \in Shapes : root = Fresh(s)
    /\ mem \in {m \in Contents : DOMAIN m = 0 .. root.size - 1}
    /\ want = mem
    /\ view = [t \in Threads |-> root]
    /\ call = [t \in Threads |-> "none"]
    /\ claim = [t \in Threads |-> {}]
    /\ todo = [t \in Threads |-> {}]
    /\ tmp = [t \in Threads |-> <<>>]
    /\ calls = 0

Cells == DOMAIN mem

\* Offsets of the elements of a, in row-major order.
Elements(a) == [i \in 1 .. a.size |-> Offset(a, i - 1)]

\* The elements a[s] means: the slice applies to the first axis.
Selected(a, s) == Elements(SliceNd(a, Specs(a, <<s>>)))

\* A thread drops its view for the owner, or for a slice, a row, a column or the
\* transpose of what it holds.
Reslice(t) ==
    /\ call[t] = "none"
    /\ \/ view' = [view EXCEPT ![t] = root]
       \/ \E s \in Slices :
             LET k == AdjustSlice(s, view[t].size)
                 v == ViewStrided(view[t], k.start, k.len, k.step)
             IN  /\ Len(view[t].shape) = 1
                 /\ v.size > 0 /\ v.size < view[t].size
                 /\ view' = [view EXCEPT ![t] = v]
       \/ \E key \in Keys :
             /\ CanIndex(view[t], key)
             /\ \E k \in DOMAIN view[t].shape : Items(view[t], key)[k].kind = "slice"
             /\ view' = [view EXCEPT ![t] = SliceNd(@, Specs(@, key))]
       \/ /\ Len(view[t].shape) > 1
          /\ view' = [view EXCEPT ![t] = Transpose(@, Reversed(Len(@.shape)))]
    /\ UNCHANGED <<mem, want, root, call, claim, todo, tmp, calls>>

-----------------------------------------------------------------------------

\* A call begins. used: the elements it means to read or write.
Begin(t, name, used) ==
    /\ call[t] = "none"
    /\ \A u \in Threads \ {t} : used \cap claim[u] = {}
    /\ calls < MaxCalls
    /\ calls' = calls + 1
    /\ call' = [call EXCEPT ![t] = name]
    /\ claim' = [claim EXCEPT ![t] = used]

\* A call returns.
Return(t) ==
    /\ call' = [call EXCEPT ![t] = "none"]
    /\ claim' = [claim EXCEPT ![t] = {}]

\* NumPy's assignment of value[i] to the i-th of the elements `cells`.
Assigned(m, cells, value(_)) ==
    [c \in DOMAIN m |->
        IF \E i \in DOMAIN cells : cells[i] = c
        THEN value(CHOOSE i \in DOMAIN cells : cells[i] = c)
        ELSE m[c]]

\* Store v at offset `to`, which may lie outside the buffer.
Stored(m, to, v) == [c \in DOMAIN m |-> IF c = to THEN v ELSE m[c]]

\* a[i] = v runs with the GIL held, in one step.
SetItem(t) ==
    \E i \in 0 .. view[t].size - 1, v \in Values :
        /\ call[t] = "none" /\ calls < MaxCalls
        /\ Len(view[t].shape) = 1
        /\ \A u \in Threads : ItemOffset(view[t], i) \notin claim[u]
        /\ calls' = calls + 1
        /\ mem' = Stored(mem, ItemOffset(view[t], i), v)
        /\ want' = Assigned(want, <<Offset(view[t], i)>>, LAMBDA k : v)
        /\ UNCHANGED <<root, view, call, claim, todo, tmp>>

\* The coordinates a tuple of integers names, negative ones from the end.
Wrapped(a, ix) == [k \in DOMAIN ix |-> IF ix[k] < 0 THEN ix[k] + a.shape[k] ELSE ix[k]]

\* a[i,j,...] = v with one integer per axis runs with the GIL held too.
SetItemNd(t) ==
    LET a == view[t]
        limit == Max({a.shape[k] : k \in DOMAIN a.shape})
    IN  \E ix \in [DOMAIN a.shape -> -limit .. limit - 1], v \in Values :
            LET to   == a.base + LinearOffset(Wrapped(a, ix), a.strides)
                cell == Offset(a, LinearOffset([k \in DOMAIN ix |-> ix[k] % a.shape[k]],
                                               InnerVolumes(a.shape)))
            IN  /\ call[t] = "none" /\ calls < MaxCalls
                /\ \A k \in DOMAIN ix : ix[k] \in -a.shape[k] .. a.shape[k] - 1
                /\ \A u \in Threads : cell \notin claim[u]
                /\ calls' = calls + 1
                /\ mem' = Stored(mem, to, v)
                /\ want' = Assigned(want, <<cell>>, LAMBDA k : v)
                /\ UNCHANGED <<root, view, call, claim, todo, tmp>>

\* Mutant: [start, start + n] for [start, start + n).
FillRangeClosed(a, start, n) == a.base + start .. a.base + start + n

\* The offsets hpx::fill writes: n from base_ + start on.
FillRange(a, start, n) == a.base + start .. a.base + start + n - 1

Targetable(a) == AnyOperands \/ (Len(a.shape) = 1 /\ IsContiguous(a))

\* a[i:j] = v. The slice is adjusted to size_, whatever the rank.
Fill(t) ==
    \E s \in Slices, v \in Values :
        LET k == AdjustSlice(s, view[t].size)
            cells == Selected(view[t], s)
        IN  /\ s.step = 1
            /\ Targetable(view[t])
            /\ Begin(t, "write", ToSet(cells))
            /\ todo' = [todo EXCEPT ![t] =
                            {[to |-> c, from |-> NoBound, v |-> v] :
                                c \in FillRange(view[t], k.start, k.len)}]
            /\ want' = Assigned(want, cells, LAMBDA i : v)
            /\ UNCHANGED <<mem, root, view, tmp>>

\* The element copies of hpx::copy: rhs.size_ from the right-hand side's base_
\* on, to base_ + start on.
AssignRange(a, start, rhs) ==
    {[to |-> a.base + start + i, from |-> rhs.base + i, v |-> NoBound] : i \in 0 .. rhs.size - 1}

\* a[i:j] = Array, the right-hand side a slice of the same buffer.
Assign(t) ==
    \E s \in Slices, r \in Slices :
        LET k == AdjustSlice(s, view[t].size)
            q == AdjustSlice(r, root.size)
            rhs == ViewStrided(root, q.start, q.len, q.step)
            cells == Selected(view[t], s)
            source == Elements(rhs)
        IN  /\ s.step = 1
            /\ Len(root.shape) = 1
            /\ Targetable(view[t])
            /\ rhs.size = k.len
            /\ AnyOperands \/ (IsContiguous(rhs) /\ ToSet(cells) \cap ToSet(source) = {})
            /\ Begin(t, "write", ToSet(cells) \cup ToSet(source))
            /\ todo' = [todo EXCEPT ![t] = AssignRange(view[t], k.start, rhs)]
            /\ want' = Assigned(want, cells, LAMBDA i : want[source[i]])
            /\ UNCHANGED <<mem, root, view, tmp>>

\* One element of a parallel fill or copy, in any order.
WriteOne(t) ==
    \E w \in todo[t] :
        /\ call[t] = "write"
        /\ todo' = [todo EXCEPT ![t] = @ \ {w}]
        /\ mem' = Stored(mem, w.to, IF w.from = NoBound THEN w.v
                                    ELSE IF w.from \in Cells THEN mem[w.from] ELSE NoBound)
        /\ UNCHANGED <<want, root, view, call, claim, tmp, calls>>

WriteDone(t) ==
    /\ call[t] = "write" /\ todo[t] = {}
    /\ Return(t)
    /\ UNCHANGED <<mem, want, root, view, todo, tmp, calls>>

-----------------------------------------------------------------------------
(* a.sort() *)

\* Place p gets the element with p - 1 smaller ones, equal ones counted in the
\* order they had.
Ascending(seq) ==
    LET ahead(i) == {j \in DOMAIN seq : seq[j] < seq[i] \/ (seq[j] = seq[i] /\ j < i)}
    IN  [p \in DOMAIN seq |-> seq[CHOOSE i \in DOMAIN seq : Cardinality(ahead(i)) = p - 1]]

\* Fewer than two elements are sorted. Several axes are sorted as one sequence in
\* row-major order (tests/test_nd_views.py), which NumPy does for a.ravel().
SortCall(t) ==
    LET cells == Elements(view[t])
        sorted == Ascending([i \in DOMAIN cells |-> want[cells[i]]])
    IN  /\ view[t].size >= 2
        /\ Begin(t, IF IsContiguous(view[t]) THEN "sort flat" ELSE "gather", ToSet(cells))
        /\ tmp' = [tmp EXCEPT ![t] = <<>>]
        /\ want' = Assigned(want, cells, LAMBDA i : sorted[i])
        /\ UNCHANGED <<mem, root, view, todo>>

\* hpx::sort over [base_, base_ + size_).
SortFlat(t) ==
    LET a == view[t]
        sorted == Ascending([i \in 1 .. a.size |-> mem[a.base + i - 1]])
    IN  /\ call[t] = "sort flat"
        /\ mem' = [c \in Cells |-> IF c \in a.base .. a.base + a.size - 1
                                   THEN sorted[c - a.base + 1] ELSE mem[c]]
        /\ Return(t)
        /\ UNCHANGED <<want, root, view, todo, tmp, calls>>

\* Mutant: the gather walks the buffer without the strides.
GatherOneFlat(t) ==
    /\ call[t] = "gather" /\ Len(tmp[t]) < view[t].size
    /\ view[t].base + Len(tmp[t]) \in Cells
    /\ tmp' = [tmp EXCEPT ![t] = Append(@, mem[view[t].base + Len(@)])]
    /\ UNCHANGED <<mem, want, root, view, call, claim, todo, calls>>

\* The serial gather of a strided view.
GatherOne(t) ==
    /\ call[t] = "gather" /\ Len(tmp[t]) < view[t].size
    /\ tmp' = [tmp EXCEPT ![t] = Append(@, mem[Offset(view[t], Len(@))])]
    /\ UNCHANGED <<mem, want, root, view, call, claim, todo, calls>>

SortTmp(t) ==
    /\ call[t] = "gather" /\ Len(tmp[t]) = view[t].size
    /\ call' = [call EXCEPT ![t] = "scatter"]
    /\ tmp' = [tmp EXCEPT ![t] = Ascending(@)]
    /\ UNCHANGED <<mem, want, root, view, claim, todo, calls>>

\* The serial scatter, from the first element on.
ScatterOne(t) ==
    /\ call[t] = "scatter" /\ tmp[t] # <<>>
    /\ mem' = Stored(mem, Offset(view[t], view[t].size - Len(tmp[t])), Head(tmp[t]))
    /\ tmp' = [tmp EXCEPT ![t] = Tail(@)]
    /\ UNCHANGED <<want, root, view, call, claim, todo, calls>>

SortDone(t) ==
    /\ call[t] = "scatter" /\ tmp[t] = <<>>
    /\ Return(t)
    /\ UNCHANGED <<mem, want, root, view, todo, tmp, calls>>

Next ==
    \E t \in Threads :
        \/ Reslice(t) \/ SetItem(t) \/ SetItemNd(t)
        \/ Fill(t) \/ Assign(t) \/ WriteOne(t) \/ WriteDone(t)
        \/ SortCall(t) \/ SortFlat(t) \/ GatherOne(t) \/ SortTmp(t)
        \/ ScatterOne(t) \/ SortDone(t)

Spec == Init /\ [][Next]_vars

-----------------------------------------------------------------------------
(* Properties *)

\* Every write still to come is to the buffer and to what its call claimed, and
\* none is to an element that another pending one reads or writes: the order in
\* which the HPX workers take them makes no difference.
RaceFree ==
    \A t \in Threads : \A w \in todo[t] :
        /\ w.to \in Cells \cap claim[t]
        /\ \A u \in Threads : \A x \in todo[u] :
              (t # u \/ w # x) => w.to # x.to /\ w.to # x.from

\* A call leaves the elements it was asked to change as NumPy leaves them, and
\* their neighbours alone, at every moment and whatever the calls of other
\* threads do to theirs meanwhile: only what a call in progress claims differs.
AsNumPy ==
    \A c \in Cells : (\A t \in Threads : c \notin claim[t]) => mem[c] = want[c]
=============================================================================
