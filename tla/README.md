# hpxpy in TLA+

hpxpy (`src/`) is a Python array library on HPX: a C++ `Array` with NumPy's
semantics whose kernels are HPX parallel algorithms, and a managed HPX runtime
that is started and stopped from Python. This directory holds its
specifications: TLA+ modules translated from the source, TLC configurations
that check them on small instances, and TLAPS proofs.

    tlc -workers 2 -config rt_threads.cfg MC_Runtime.tla    # one run
    tlapm Runtime_proofs.tla                                # the proofs

## The system

| component | source | state | operations | what is hard |
|---|---|---|---|---|
| Runtime lifecycle | `_core.cpp` 40-160, `__init__.py` 25-60 | `_initialized`, `g_rts`, the manager's `rts_`, `running_`, mutexes and condition variables | `init`, `finalize`, constructor, destructor, `hpx_main` | Python threads race with each other between bytecodes and with `hpx_main`; a notify may come before the wait; the manager is deleted while `hpx_main` is using it |
| Distributed localities | `_core.cpp` 66-105, 341-371 | HPX's localities | worker start-up, `distributed_sum` | a worker polls for its console and blocks in `finalize` until the console broadcasts; every locality must join a collective |
| Array layout and views | `array.hpp` 100-580, `_core.cpp` 712-874, 954-1003 | `shape_`, `strides_`, `base_`, `size_`, `owner_` | indexing, `transpose`, `reshape`, `ravel`, `squeeze`, `expand_dims`, `copy` | signed offsets and strides accumulate over chains of views; flat fast paths are chosen from strides |
| Axis reductions, broadcasting | `array.hpp` 1642-1856 | the operands' layouts | `sum_axis`..., `binary` | two index spaces of unequal extents, stride-0 axes |
| Full reductions | `array.hpp` 585-710, 1020-1170 | a reduction variable, worker copies | `sum`, `prod`, `mean`, `min`, `max`, `any`, `all`, `count_nonzero`, `dot` | chunks and merges in any order; identities; int64 through a double |
| Slice assignment, sort | `array.hpp` 258-284, 1206-1229, `_core.cpp` 878-933 | the shared buffer | `a[i] = v`, `a[i,j] = v`, `a[i:j] = ...`, `a.sort()` | run without the GIL, in parallel, on views of one buffer |
| Scan | `array.hpp` 1230-1285 | - | `cumsum`, `is_sorted` | two orders of comparison, by layout |
| Elementwise kernels, dtypes | `array.hpp` 798-1020, 1395-1640 | `dt_` | arithmetic, ufuncs, `astype`, promotion | int64 wrap, division and power at the edges |
| NumPy bridge, ownership | `_core.cpp` 288-303, 1128-1165, `array.hpp` 333-349 | `owner_`, the ndarray's owner | `from_numpy`, `to_numpy` | a borrowed buffer is released by a deleter that takes the GIL, from whichever thread drops the last reference |
| Construction | `array.hpp` 1287-1395, `_core.cpp` 1052-1125 | - | `zeros`, `arange`, `linspace`, `eye` | element counts and elements are rounded floats |
| Sparse and dense matrices | `sparse.hpp`, `matrix.hpp` | CSR arrays, the dense entries | `csr_from`, `laplacian_1d`, `spmv`, `spmm`, `set` | unchecked indices and layouts; entries set while a kernel reads them |
| Timing, benchmarks | `timing.hpp`, `_core.cpp` 1004-1050, 1205-1232, `benchmarks/runner.py` | the times so far | `measure`, `bench_*` | the repeat bounds; a result reused from run to run |
| Python facade | `__init__.py` | `_initialized` | one forwarding function per operation | - |
| C++ baseline | `cpp_baseline/` | - | stand-alone programs | not part of the library |

Python calls the bindings with the GIL held. Bindings that compute release it,
so several Python threads may be inside HPX algorithms at a time, on Arrays
that share a buffer through `owner_`. The runtime manager is the only object
that HPX threads and Python threads both wait on.

## Modules

| module | what it is |
|---|---|
| `RuntimeManager` | the runtime's life in one process: every step of `init`, `finalize`, the manager and `hpx_main` |
| `HpxLifecycle` | what the manager promises of the one HPX runtime; `RuntimeManager` is shown to implement it |
| `NDLayout` | the layout arithmetic, as operators: views, keys, broadcasting, axis reductions |
| `IndexOrder` | multi-indices in row-major order, without strides |
| `ArrayView` | one Array taken through any chain of view operations |
| `ArrayCalls` | `ArrayView` with the call that each step answers, and its arguments, on record |
| `NumpyArray` | the same calls in NumPy's terms, on a function from multi-indices to elements; `ArrayCalls` implements it, by TLC and by proof |
| `ArrayView_proofs` | theorems about `ArrayView` and `ArrayCalls` |
| `SliceAssign` | Python threads writing through views of one buffer |
| `SliceAssign_proofs` | theorems about `SliceAssign`, from those about the layouts of `ArrayView` |
| `ParReduce` | one full reduction as HPX's workers run it |
| `FoldTheorems` | lemmas: a sum over a set of indices does not depend on order or grouping |
| `ParReduce_proofs` | theorems about `ParReduce` |
| `Localities` | a console and a worker process, the worker being a `RuntimeManager`, the console what `HpxLifecycle` promises |
| `Runtime_proofs` | theorems about `RuntimeManager`, and about `Localities` from those |
| `Ownership` | Arrays, views, exports and borrows, and who keeps which memory alive |
| `Ownership_proofs` | theorems about `Ownership` |
| `Numbers` | int64, float64 and float32 of small widths: wrapping, rounding, infinities, NaN |
| `IntegerOps` | floor division, modulo and power of integers, from C++'s truncating operators |
| `Elementwise` | one element through any program of constructors and element-wise calls |
| `Elementwise_proofs` | theorems about `Elementwise`, `Numbers` and `IntegerOps` |
| `Sparse` | sparse matrices and the two kernels on HPX's workers |
| `Benchmark` | the timing loop around `Sparse`'s kernels |
| `Sparse_proofs` | theorems about `Sparse`, alone and under `Benchmark` |
| `MC_*` | constants and symmetry for TLC; `MC_Runtime` leaves out the actions that only a worker takes, which `Localities` runs |

### RuntimeManager

`initialized` is `_initialized`; `g_rts` the global; `alive`, `rts` and
`running` the storage and the members of each manager. `pc[t]` says where
Python thread t is in `init` or `finalize`, and `hm` where `hpx_main` is. An
action is what happens between two points at which another thread may run.
A Python-level read and the write that follows it are two actions, because the
GIL may change hands between bytecodes: that is `InitCheck` and `InitFlag`,
`FinalizeCheck` and `FinalizeFlag`. The constructor keeps the GIL
(`gil_scoped_acquire`, `_core.cpp:143`), so no Python step of another thread
falls between its actions, which the variable `gil` records; the destructor
releases it (`:154`). The condition variables are modelled by who waits on
them. HPX is external: `hpx::start` may be called once while a runtime is up
(a second one aborts), `hpx::stop` returns when `hpx_main` has finalized.

*Fairness.* Strong fairness of each thread inside a call: the interpreter
hands the GIL over, so a thread that finds it free again and again gets it. Weak
fairness of `hpx_main`, whose HPX worker nobody stops, and, on a console, of the
runtime coming up. Nothing makes a thread call `init` or `finalize`, no wakeup
happens by itself, and a worker's runtime may wait for its console for ever: the
constructor then throws. `Localities` adds the console that ends that wait.

### Localities

Two processes run the program of `tests/test_distributed.py`: `init()`, one
`distributed_sum()`, `finalize()`. The worker is all of
`RuntimeManager` with `Worker = TRUE`; `WorkerMay` says which of its steps the
program and HPX allow (it calls `finalize` when its sum has returned; its runtime
comes up with the console's and goes down with it). The console is
`HpxLifecycle`, instantiated on its own variables: the worker depends on nothing
else of it, and `rt_threads` shows that the console's manager implements it.
`launched` says whether the program was given a worker at all: without one,
`distributed_sum` takes its one-locality branch.

HPX's part is external and assumed. `all_reduce` answers when every site number
has contributed, and sends each site the sum in its own time (`Deliver`): one
site may have returned, and finalized, before the other is answered.
`hpx::finalize` first waits until no locality has an HPX thread at work
(`ConsoleDrain`), which is what keeps the slower site's call alive. The code gives
`all_reduce` one name and no generation. HPX asks for a generation when a name is
used more than once, and leaves open what happens without one, so the model has
the one call per site that the test makes and nothing is said of a second.

`Worker` is the command-line flag, `is_worker_`; whether HPX runs `hpx_main` here is
`RunsMain`, which HPX decides by the locality's number. The runs have the two
that go together, a console and a flagged worker. Under Slurm
(`__init__.py:36`) the other processes get no flag: such a process waits at `_core.cpp:103` for an
`hpx_main` that HPX does not run there, with the GIL held. `InitReturns` has it as
its exception, and with `Worker = FALSE` and `RunsMain = FALSE` TLC shows the call that never returns.

*Fairness* (`LFairness`). The programs go on to their next call; threads of the
worker get the GIL as in `RuntimeManager`; HPX connects two runtimes that are both there and
delivers the shutdown. Which of the polling loop's two ends comes first is left
open: the worker's `init()` may raise although the console is there.

### Layouts and views

A layout record is the Array object without `dt_` and `owner_`. The offset
`base` counts elements from the start of the buffer; axes count from 1.
`FlatToOffset`, `InnerVolumes`, `SliceNd` and the rest are the functions of the
same names. `ArrayView` applies them in any order: `DoSlice` and `DoSliceNd` are
the branches of `__getitem__`, with Python's own clipping of slice bounds
(`AdjustSlice`) as external code. `DoCopy` and the copying branch of
`reshape` move to a buffer of their own, gathered through the strides.

The products of matrices and the reductions over axes are not state: `MatmulRead`
and `ReduceRead` are the offsets that their loops read, checked in every
reachable layout.

`NumpyArray` says what each call means on multi-indices, with its arguments: the
axes of `transpose` and `squeeze`, the place of `expand_dims`, the extents of
`reshape`, the key of `a[key]`. `ArrayCalls` records the call with each step
(`asked`, which no step of the program reads), and `NumpyArray` has to answer the same
one, so that an inverse permutation or an axis in the wrong place is no
refinement. One difference is part of `NumpyArray`, and named in `Squeeze`: when every axis goes,
hpxpy leaves the shape `(1,)` (`array.hpp:497-501`) and NumPy `()`. An empty sequence of axes
stands for no axes: `transpose(())` reverses and `squeeze(())` drops all unit axes, where
NumPy raises and drops none. The refinement
mapping reads the buffer through `shape_` and `strides_`, as `to_numpy` hands
them to NumPy, while the kernels' flat indices are checked against it by
`InBounds`, `BroadcastReads`, `AxisReduceReads` and `MatmulReads`. The abstract `Reshape` may
copy or not: the code copies more often than NumPy does, because
`is_contiguous` also compares the strides of unit axes (after
`expand_dims(0)`, for one).

### SliceAssign

A fill, a copy and a sort are calls with a beginning, element writes and an
end, because the bindings release the GIL around them and `hpx::fill` and
`hpx::copy` run in parallel, in any order of elements. The strided sort's
gather and scatter are serial loops. `want` is the buffer under NumPy's semantics,
each call taking effect when it begins. Threads start calls only on
elements that no call in progress uses (`claim`): a program that races on
elements has no defined result in NumPy either. A view is a slice, a row, a
column or a transpose of the owner; a sort of several axes orders them as one
sequence, as `tests/test_nd_views.py` expects.

### Ownership

`owner` is an Array's `owner_` or an ndarray's base, `data` what `base_` points
into, `uses` a `shared_ptr` count, `keep` the ndarray that a borrow's deleter
holds. CPython's reference counts are external and modelled by what they do. An
object or block that loses its last holder dies at once, and gives up what it
holds in turn: an Array its block, the block of a borrow its ndarray,
an exported ndarray its Array. That cascade keeps the GIL, so `todo` is one
process-wide array of three slots, the references that
are still to be given up: what dies puts the one thing it holds into its slot. A kernel holds its
operands through its call's frame (`args`, a pair whose members may be `None`),
and may share the first one's block through
a local copy (`mean_axis`), which it drops with the GIL released. `Holders`
lists who holds what; the counts are state of their own, which each action
changes as CPython or `shared_ptr` does, and `CountsExact` compares the two.
`NoLeak` says that every set of live objects and blocks has a member held from outside
of it, so that no circle keeps itself alive. Named assumptions: finitely many
threads, variables, objects and blocks (`FinitenessAssumption`), which are distinct
things (`AddressesAssumption`), none of them `None`.

### Numbers, IntegerOps and Elementwise

A number counts units of 2^-`Frac`. `Nearest` rounds to a float type of
`Precision` bits, so float32 beside float64 beside int64 differ here as they do
at full width: the larger integers are not all doubles. `Elementwise` takes
one element: constructors make it, calls combine it with other elements or with Python
numbers, and the program goes on with what it gets. `promote`,
`div_result_dtype`, `ScalarArith`, `ScalarUnary` and `AsType` are the dtype
rules, `Kernel` and `UnaryValue` the functors. NumPy's results are stated from
the exact quotients and remainders, apart from the kernels' formulas.
`KnownDifference` lists the cases in which the kernels differ. C++ leaves the conversion
of a double outside of int64 undefined: `RoundsAndClips` speaks of bounds and items in
range (`InRange`) that a double holds, which is how `clip` and `a[i] = v` take them.

### Sparse and Benchmark

`laplacian_1d` is built by its loop, a row at a time (`LaplacianRow`). A kernel
is as many row tasks as there are rows; a worker takes a row, clears
its cells and adds one product at a time. The operand is the memory its base
pointer reaches, so that a strided or a float32 Array is multiplied as the
kernel would, and a read outside of it is the state `wild`. `writes` bounds how often
another thread sets an entry of the dense operand meanwhile. Named
assumptions: an argument has the types its binding asks for
(`ArgumentsAssumption`), and the elements of an Array lie in its buffer
(`VectorsAssumption`, which is `InBounds` of `ArrayView`). `Benchmark` runs
a kernel once to warm up and then into the same result until `Enough`. What
`nth_element` leaves is any order with the upper middle in its place
(`NthElement`). Times are exact integers (`TimingAssumption`).

### ParReduce

`hpx::reduce` starts each chunk from its first element; `for_loop` with a
reduction object starts each worker from the identity. `dot` and `is_sorted`
are the same with a term per index (`Term`). Chunks have any length,
go to any worker and are merged in any order. A strided `min` tests `v < acc`, where `hpx::reduce` is given
the accumulator first (`Accumulate`). `Bits` and `Mantissa` are the
64 bits of int64 and the 53 of a double. The run has a `Mantissa` above its `Bits`, so
that every integer is a double there: the theorem has it as a hypothesis.

## Runs

| run | question | distinct states |
|---|---|---|
| `rt_serial` | one call at a time over any number of start/stop cycles, spurious wakeups included: do flag, pointer and runtime agree, does `finalize` return with HPX down, and does nothing abort? | 553 |
| `rt_threads` | three racing threads: is a manager leaked, deleted twice or used after it is deleted, does every call return, does the runtime stop only on request, is `HpxLifecycle` implemented? | 17579 |
| `localities` | a console and a worker: does the polling end, does each site get the sum of both, is no collective cut off, do both programs end? | 7280 |
| `ownership` | two threads drop names while kernels run: are the counts exact, nothing used after it is freed, nothing leaked, and is a borrow's deleter run under the GIL? | 53806 |
| `view_planes` | chains of calls on up to three axes, copies included: in bounds, each element once, flat when contiguous, and does each call make what NumPy makes of the same arguments? | 200023 |
| `view_solids` | chains on three axes of unequal extents: do broadcasting, axis reductions and matrix products read NumPy's elements? | 11808 |
| `assign_threads` | two threads write disjoint parts of one buffer, of one or two axes | 324941 |
| `reduce_all` | full reductions, `dot` and `is_sorted` on every schedule | 19430 |
| `kernels` | programs of constructors and element-wise calls: NumPy's dtypes, values and errors? | 157300 |
| `sparse` | products on two workers, once or under the timing loop, with another thread setting an entry | 116084 |

Runs that end in a counterexample show where the code departs from what its
comments or tests say:

| run | what it shows |
|---|---|
| `rt_flag_race` | racing `init` and `finalize` leave `_initialized` wrong for good |
| `assign_strided` | slice assignment ignores the strides of its target |

The passing runs keep away from more departures, which the same models show
when their constants, cases or premises are widened:

* Runtime. With `Serialized = FALSE`, `FinalizeReturnsStopped` fails: a second
  `finalize` finds `g_rts` already null and returns while the first is still
  stopping HPX. With `SpuriousWakeups = TRUE`, `StopOnRequest` does: the wait is an `if`.
  A worker without the flag waits for ever (above), and there `is_worker()` and
  `is_console()`, which read the flag, say the opposite of what the process is.
* Localities. A worker whose `init()` raised still is a locality; the console's
  `distributed_sum` then waits for ever (`SumReturns` without `failed`).
* Items. `m[i]` on an array of several axes is bounded by `size` but scaled by
  the first stride (`ItemInBounds` of `ArrayView` fails on the first array with
  two rows); a 0-D array has no stride to read.
* Slice assignment. `AnyOperands` also admits a strided right-hand side, whose
  strides are ignored, an overlapping one, with which `a[1:] = a[:-1]` depends on
  the order of the parallel copy, and a matrix, where `m[0:1] = v` sets an element
  and `m[0:1]` names a row.
* Reductions. The minimum of infinities is the largest finite number; what `min`
  and `max` make of a NaN depends on the chunks, and what `is_sorted` does on the
  layout; an int64 `prod` that a double does not hold is rounded, an int64 `mean`
  divides a wrapped sum.
* Kernels. `KnownDifference`: an int64 to a negative power is 1, where the comment
  at `array.hpp` 914-916 says 0 and NumPy raises; INT_MIN `//` or `%` -1 raises
  SIGFPE; `maximum` and `minimum` drop a NaN in their first operand; a float
  `//` floors the rounded quotient. A number given to `**`, `%`, `//` or `clip` of an
  int64 Array passes through a double and leaves the dtype int64; integers
  above 2^53 are rounded there, in `a[i] = v` and in `arange`. `sign` of a NaN is 0, where
  NumPy keeps it.
* Ramps. `arange` of integers whose ends or distance exceed 2^53 may have a point too few
  (`arange(0, 2**54, 3)`): the length is the ceiling of a rounded quotient. NumPy's is the same, so
  the model's claim, `RampsAsNumPy`, stops where doubles count exactly: below that many
  quotients round, and none across an integer. One end more (`2 ^ (Precision["f64"] + 1)` in
  its premise) and TLC finds a point missing.
* Sparse. `csr_from` takes row pointers and columns that lead outside, `spmv`
  ignores strides and dtype of its operand, `bench_spmv` and `bench_spmm` also
  its length, and `DenseMatrix.at` and `set` compare their indices with nothing.
* With a small `WordSize`, `size_` wraps to 0.

*Bounds.* Runtime: three threads are enough for one to be in the constructor,
one in the destructor and one between calls; two addresses are enough for a new
manager beside one that is being deleted; `MaxPolls` (30000 in the code) is 1.
Views: chains add axes up to `RankBound` (two in `view_planes`, whose first arrays have up to
three, and three in `view_solids`), and strides stay
within `MaxStride`, which only excludes views that differ in strides of axes
with at most one element; the `base_` of an empty view, which nothing reads, stays
within `MaxDrift` of the buffer. A chain takes one copy because a second one starts
from a fresh array again. `MaxCopied` bounds the elements of an array that is copied: `view_planes` copies every array,
`view_solids` those of one element, since each larger copy multiplies its states by the order of its
elements, which reads do not depend on.
`WordSize` is large enough for nothing to wrap. Slice
assignment: three calls in a buffer of four elements, enough for
one call per thread and one on what they left. Reductions: two workers and up
to four elements give every way to cut them. Localities: two threads on the worker; the
sites enter, are answered and leave in any order.
Ownership: four objects and three blocks are enough for the longest chain (an
ndarray of an Array of a borrow of an ndarray) beside a second one's result.
Kernels: six-bit integers, float64 of four and float32 of three significant
bits, with elements at each edge (the extreme integers, integers between two
doubles, halves, infinities, NaN) and with Python numbers outside of int64; programs are of any length, the element being the
whole state. Sparse: three rows for two workers, with an empty row,
unsorted and repeated columns, no rows, and three malformed inputs; one entry is set
per behaviour; the timing loop has a budget, a minimum, or a cap below both.

Deadlock is checked except in `localities`, `reduce_all`, `kernels` and `sparse`, whose programs end.

## Proofs

`Runtime_proofs` proves of `RuntimeManager`, for every set of threads, every set of
addresses and every `MaxPolls`, from the assumptions stated in `RuntimeManager`
(None is no thread and no address, the flags are Boolean, a process with the worker's flag
does not run `hpx_main`, `MaxPolls` is a natural number):

* `TypeCorrect`: `Spec => []TypeOK`.
* `OwnedOnceHolds` and `NoUseAfterFreeHolds`. `OwnedOnce` is not
  inductive: it needs that a thread holds a manager exactly in the constructor
  or destructor (the GIL excludes two constructors), and that `hpx_main` is bound to a live manager
  until it has finalized. `OwnInv` adds this; it holds with spurious wakeups and on a worker too.
* `StopOnRequestHolds`, assuming no spurious wakeups: `hpx_main` passes its wait
  only when a destructor has cleared `rts_`, so `StopInv` relates each place of
  `hpx_main` to the flag of the manager it is bound to.
* `LifecycleRefined`, assuming a console and no spurious wakeups: every step of
  `RuntimeManager` is a step or a stutter of `HpxLifecycle`. It rests on
  `BindInvariant`: one runtime, bound to the manager that is published or being
  built or deleted.

* `NoAbortHolds`, `QuiescentAgreesHolds` and `FinalizeReturnsStoppedHolds`, assuming
  a console and that no two calls overlap (`Serialized`), spurious wakeups included.
  Their invariant ties the flag, `g_rts`, the place of the one thread that is in a call
  and the place of `hpx_main` to one another: overlapping calls break
  it, as `rt_flag_race` shows.

Of `Localities` it first shows `WorkerIsRuntime`: a behaviour of the
two-process program is, on the worker's variables, one of `RuntimeManager` with
`Worker = TRUE`, so that `WorkerOwnedOnce` and whatever else is proved of a worker
carries over. `SumAgreesHolds` is by the slots: what is in one is what that site passed, and it
is filled exactly when the site has called (`SlotsAreCalls`); `SumNotCutOffHolds`
is from the program, in which a site's `finalize` comes after its own sum, and from HPX's
wait for the other's. Both are about one call per site, with the assumptions on HPX named above.

`ArrayView_proofs` is about first shapes, reshape requests and keys of any rank and
extents, and chains of any length. It assumes that the constants are what Python can pass (`ArgumentsAssumption`:
extents are natural numbers, a key consists of integers, an Ellipsis and slices with a step
other than 0) and, in each theorem, `NoWrap`: no first shape and no request has `2^w` elements. The
code does not check that: without it `LayoutOK` is false (the hazard at `array.hpp:165`). TLC
finds `NoWrap` true of the runs' constants.

* `Invariant`, the inductive invariant, speaks of multi-indices: `size_` is exact (`Exact`), each multi-index
  has an offset in the buffer (`Reach`), no two have the same (`Distinct`). The properties
  speak of flat indices and are not inductive: what a flat index means changes with each view.
* Row-major layouts are sound (`RowMajorSound`) because the strides are the volumes below
  each axis, a mixed-radix numbering: `Ravel` and `Unravel` are its two directions.
* A view is sound because every element of it is one element of the array (`SourceExists`),
  different ones of different elements (`SourceUnique`). `SliceNdSound`, `StridedSound`,
  `TransposeSound`, `SqueezeSound` and `ExpandSound` show that of each operation; `AdjustInside`, that CPython's clipping
  leaves every slice inside its axis, whatever its bounds and step; `InferredTakes`, that a request that
  passes the checks of `reshape` has the elements of the array.
* `SizesExact`, `StaysInBounds`, `NeverAliases` and `FlatWhenContiguous` follow by `SoundMeans`: `FlatToOffset`
  divides a flat index into the coordinates of that numbering, and comparing the
  strides with the volumes (`is_contiguous`) makes the two orders the same.

What the kernels over two arrays or two index spaces read rests on `OrderIs`: `RowMajorOrder`, which nests
loops, puts at place i the multi-index whose row-major offset is i - 1, and so `FlatToOffset` of i - 1 is
the offset of that multi-index in any strides (`Visits`).

* `OperandsRead`: the strides of a broadcast view, 0 where an axis is padded or stretched, give each index
  of the result the element NumPy pairs with it (`StretchReads`).
* `ProductsRead`: the row-major order of a matrix divides into row and column (`CellsOf`).
* `ReductionsRead`: the kept and the folded axes share out the axes of the array, so that a multi-index is its
  coordinates on both (`JoinsExist`, `JoinsUnique`) and its offset the sum of theirs
  (`JoinsOffset`). With keepdims, axes of one element are put back, which leave the order as it is (`NarrowOrder`).

Two of them have a hypothesis on the state, as the code does not check it either: `ResultsFit`, the broadcast
result has fewer than `2^w` elements, and `PartsFit`, in an array without elements no part of the axes
has `2^w`. An array with elements meets the second (`PartBelow`). TLC finds both true of every state of `view_solids`.

`ImplementsNumpy` is the refinement: `NoWrap` implies `CSpec => NumpySpec`, for all first shapes, requests and
keys. Under the invariant the refinement mapping is a function on the multi-indices (`ElemNow`), and each call
has a lemma that shows its step to be NumPy's for the same arguments (`StepRefines` joins them).

* `copy`, `reshape` and `ravel` keep the elements in row-major order (`Matches`), whether gathered through the
  strides (`CopyMatches`) or given other strides over the same places.
* `squeeze` and `expand_dims` move no element (`Alike`); the axes that `squeeze` keeps are a climb
  (`Climbs`) through those there were, and so `NumpyArray`'s (`AxesAscend`).
* `transpose` reads the permuted index (`TransposeSource`), a key the index `NumpyArray` says (`IndexSource`). For that,
  `ItemsAre` lets each item of a key fall on its axis, before an Ellipsis and after it, and
  `PositionsAre` compares two definitions of a slice that have little in common: NumPy's, the
  positions of the axis that meet the bounds and the step, and CPython's, a clipped start and a
  count. `UpTaken` and `DownTaken` show for either sign that counting from the start by the
  step finds those positions and stops at the last (`Multiples`).

`NumpyArray` lists positions and axes by their number of smaller ones (`Ascending`) and not by a recursive
selection, so that they can be reasoned about.

The folds of `NDLayout` are those of the community modules, which define them by a choice:
`Unrolls` shows once that such a fold is its recurrence.

`SliceAssign_proofs` is about any number of threads, shapes of any rank and any contents, slices
and keys. It assumes of the constants what Python can pass (`ArgumentsAssumption`), `NoWrap` for the
owner's shape, and `~AnyOperands`: slice assignment to and from contiguous one-dimensional arrays that
share no element. That is the extent of the claim: the run `assign_strided` refutes `AsNumPy` without
it. Items and sorts are through any view.

* What a view's elements are comes from `ArrayView_proofs`, whose lemmas name no variable and are
  instantiated (`Views`): each view has cells of its own (`Placed`), an item or a tuple of integers reaches
  the cell it names (`ItemPlace`, `TuplePlace`), and a slice of a contiguous array is a
  run of the buffer (`Window`), which is why `fill_range` and `assign_range` may ignore strides there.
* `Invariant`: claims are apart, what none claims is as NumPy leaves it, and each call keeps
  account of its claim (`Fine`): a fill or copy, of the elements without a pending write; a gather, of the
  elements the temporary buffer holds; a scatter, of what it has still to store.
  `AsNumPy` alone is not inductive, as it says nothing of the elements a call in progress has been through.
* `TurnKeeps` is the frame rule of the actions' lemmas: a step that writes only what
  no other thread claims disturbs no other thread's account (`Undisturbed`).
* `RaceFreeHolds` and `AsNumPyHolds` are parts of the invariant. Both say that the order in which
  HPX's workers take the elements, and threads their turns, cannot be seen.

`Ownership_proofs` has one inductive invariant (`Invariant`) for any finite
sets of threads, variables, objects and blocks. `CountsExactHolds` is the part that
every action disturbs: an action's lemma says which holder is added or
removed, and a count of holders is a cardinality. `NoDanglingHolds` needs more,
because a view does not hold the memory it points to but a chain of owners that ends in it:
`Anchored` says that a pointer follows its owner's, one link at a time,
`KindsAgree` what may own what and that nothing is held by what is not there,
`FramesHold` that a kernel's local copy is of an operand its frame
holds, and `Acyclic` that of any live things one is held by none of them and one
holds none of them. `NoDanglingHolds` follows the chain with the second half of `Acyclic`,
`NoLeakHolds` is from the first half and the exact counts. `BorrowsDieUnderGilHolds` is from
`CopyShares`: a local copy and the Array it was made from are two holders of
the block, so that the copy is never the last share.

`Sparse_proofs` proves `ReadsInsideHolds` for any number of workers, rows and
columns, under `Benchmark` and alone: a matrix that `laplacian_1d` built, or that is
well formed, has ascending row pointers within its columns and values
(`StepsAscend`, by a least counterexample), a worker is not before the start of its
row (`SpotsInPlace`) and reads as long as it is before the next one's, and an
operand that fits reaches every column (`OperandTaken`). `WritesInsideHolds` needs
neither: the result is as large as the kernel allocated it.

`ProductIsDenseHolds` says what the result is. It needs (`SumInv`, `LaplacianMade`,
together with the above `PInv`) that a row has one worker at most and is not taken again
(`RowsApart`), that a worker stops at the end of its row (`StopsAtEnd`), that each cell
of its row has the sum up to where the worker is (`PartsSummed`) and of a row that was
left the whole sum (`RowsSummed`), and that the result is finished only when no row is to do
(`AllTaken`). One set by another thread splits the sum of each cell once: `SumsUpTo` carries
the point of the split. That the sum by entries is the dense product is an
interchange of two sums: the entries of the row are grouped by their column
(`SetSumByColumn`), which is where the columns have to be in range; a row may give a column more
than once, in any order. For `laplacian_1d` it is shown that
the loop makes row after row of the tridiagonal matrix (`RowMade`), each neighbour once.

`RunsAsAskedHolds` is about the loop of `measure()` and its median. The loop needs
that the runs made so far are not enough while it goes on (`TimesTaken`): the last one
is then the first that made them so. For the median, the places of the times
and of the order that `nth_element` left are paired one to one (`Permutes`). What stands at the
middle, or is the largest before it, is then of the rank that the
property asks for (`PlaceRanked`, by counting the places on each side), and only one time is of a
rank (`RankedOnce`).

`ParReduce_proofs` is about arrays of any length on any finite number of workers. `TypeCorrect`
has what each action does to the chunks, one lemma per action; two invariants rest on it.

* `SelectionsReturnNumPy`: `min`, `max`, `any`, `all` and `is_sorted`. A merge of these selects
  one of the two and answers for both, so a term may be folded more than once
  (a copy of the identity per worker) but must not be lost. The
  invariant says that all there is to merge are terms or the identity (`Honest`) and
  that each term is still to be handed out, is in a worker's hands or is answered for
  (`Covered`). `Selecting` states the premises: a floating array has an
  element that the identity does not exceed (the departure above), and an integer
  that is returned is a double.
* `SumsReturnNumPy`: `sum`, `prod`, `mean`, `dot` and `count_nonzero` of integers (the last
  of floats too). Here a term that is folded twice is as wrong as one that is lost. The invariant
  (`SumInv`) gives each term one owner (not handed out, to do, in an accumulator, in a result, in the
  variable) and says that whatever is merged later is the sum of exactly the terms it owns. An
  action moves terms between owners, and int64 addition and multiplication, which wrap,
  are a commutative monoid (`MergeMonoid`), so that `FoldTheorems` gives one sum
  per set of terms whatever the order. NumPy's own left fold is shown
  to be that sum (`SumIsNumPys`). `Summed` states the premises, each one a departure above: a
  double holds the result, and a `mean` is of some elements whose sum does not leave int64 (the
  NaN of an empty mean is checked by TLC).

`Elementwise_proofs` is about every width of int64, every two float formats, every set of
elements and numbers and programs of any length. It assumes of the formats that float64 has
float32's numbers and that their largest numbers are integers (`FormatAssumption`,
`IntegersAssumption`), that the model's `Inf` is above what the types hold (`InfAssumption`),
and that a program is given values of the element types, a Python float being a double and
a Python int an int64 (`ArgumentsAssumption`).

* `Invariant` says that the element is a value of its dtype, that each result is one, and that
  what traps is INT_MIN by -1. Of each kernel it needs that it takes values to values
  (`IntKernelTakes`, `FloatKernelTakes`). For floats this is about `Nearest`: what it returns is its own nearest number
  (`NearestTakes`, `NearestFixes`), because a number is a multiple of the unit of its
  own magnitude (`OnGrid`), and rounding up to the next power of two is a multiple of the next unit.
  `fmod` does not round in the code, so `FModTakes` has to show
  that its result, on the coarser of its operands' grids, needs no more digits than the finer one has.
* `TypeCorrect` and `TrapsOnly` are its parts.
* `FloorDivision`: the sign-corrected quotient and remainder of `floor_divide` and `mod` are
  Python's (b times the quotient plus a remainder between 0 and b), for every pair of integers;
  `FloorDivisionInRange`: both stay in a two's complement range, but for the smallest number
  by -1. They rest on `Truncation`, what C++'s operators compute, and go by the
  signs of the operands.
* `ArrayCallsReturnNumPys`, about the operations on two arrays, and `ScalarCallsReturnNumPys`, about those
  with a Python number; unary operations and casts have their types proved only. A call's value is a matter of the step
  that makes it, given the element types, so `ResultAsNumPy` goes through the calls.
  `ResultTypeIs` compares the promotion tables. `IntKernelAsNumPy` is by `FloorDivisionUnique`: only one quotient and
  remainder meet Python's definition. For floats, `RoundedNear`, `NearestExact` and `NearestOverflows` say when
  rounding keeps a number, and `FloorDivideRounds` that the floor of the rounded quotient, which is what
  the kernel computes, is the rounded floor, unless the quotient rounds up to a whole number (the
  difference named in `KnownDifference`): above the precision a quotient
  is a whole number already (`QuotientFits`). `FloatModAsNumPy` is by `OppositeRest`: the sum of a remainder and a
  divisor of opposite signs is rounded as NumPy rounds it.
* `RoundsClipsStores`: conversions keep order (`NearestGrows`, `CastGrows`), so that clipping between
  converted bounds is clipping, then converting; `RintIs` and `TruncTakes` say what `rint` and a
  conversion to int64 leave.

The proof of the values failed at first on the model, not on the code: `FAdd`, `FDiv` and `FMod` were
CASE expressions with overlapping guards (NaN over 0, infinity and its opposite), which TLA+ leaves
open and TLC resolves by their order. They are chains of IF now, as the code's tests are.

Each theorem takes an inductive invariant, one lemma per action and a temporal step. TLC was given
the invariants first, on the run's constants (that of `ArrayView` with a bound on
the coordinates), but for `SumInv`, which asks for a function no run
can enumerate. Two kinds of argument come
up again and again: what an update of one function leaves alone, and induction,
which here goes by the least counterexample in a set of natural numbers,
because the prover cannot apply a rule that takes a predicate.

Checked by TLC only: liveness (`InitReturns`,
`FinalizeReturns`, the fair half of `HpxLifecycle`, `Answers` and the other
`<>` properties), which is beyond the prover; `SliceAssign` with operands beyond `~AnyOperands`; `ParReduce` outside of the premises `Selected` and `Summed`;
and of `Elementwise` `RampsAsNumPy`, which for every format would be
an analysis of rounding errors: in a short one a length can round to another integer, or a
step to 0.

## Not modelled

The rounding of floating sums, products and dot products, which depends on the
schedule; the values of `sqrt`, `exp`, `log`, `sin`, `cos` and `tan`, which are
the C++ library's (their dtype rule is that of `floor`). `cumsum` is one call of
`hpx::inclusive_scan`, on the buffer or on a gathered copy whose reads
are those of `copy`. `eye`, `empty`, `zeros` and `full` are one assignment per
element. What HPX's algorithms do when the runtime is not up: nothing in the
facade or the bindings asks, and HPX is external. Which dtypes a name, a NumPy dtype or a Python
type stands for (`parse_dtype`) is a table.
Errors that a binding raises before it changes anything are disabled actions,
except where a property is about them (`Raised`, `thrown`, `raised`). Indexing a
0-D array with an integer reads an empty vector and is left out. The bindings
of the reductions' and binary operations' benchmarks repeat `Benchmark`'s loop
around other kernels. `cpp_baseline` and the benchmark reports are outside the
library.

## Plan

1. (done) Runtime life cycle, views, slice assignment, reductions; runtime safety proved.
2. (done) `Localities`, `Ownership`, `Elementwise` with `Numbers` and
   `IntegerOps`, `Sparse` with `Benchmark`; floor division proved.
3. (done) Proofs: the serial agreement of flag and runtime, `Localities`,
   `Ownership`, the reads and the products of `Sparse`, the reductions, the layouts of views,
   the element types and values of `Elementwise`.
4. (done) Proofs: what the kernels over two arrays read; `RaceFree` and `AsNumPy` of `SliceAssign`.
5. (done) Proof: each call on an `ArrayView` does what `NumpyArray` says of the same call, on arrays of every rank.
