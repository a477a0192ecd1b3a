------------------------------ MODULE ParReduce ------------------------------
(***************************************************************************)
(* One full reduction a.op() of an Array (src/src/array.hpp: sum, prod,    *)
(* min, max, mean, any, all, count_nonzero, dot, is_sorted) as HPX's       *)
(* workers run it.                                                         *)
(*                                                                         *)
(* hpx::reduce (external), taken by a contiguous sum, prod, min or max,    *)
(* folds each chunk from its first element and then the chunks' results    *)
(* into the initial value; transform_reduce and is_sorted, for a           *)
(* contiguous dot and is_sorted, do so with what the elements count for.   *)
(* hpx::experimental::for_loop with a reduction    *)
(* object (external), taken by every other case, gives each worker a copy  *)
(* of the identity, which it folds all its chunks into, and at the end     *)
(* folds the copies into the variable. Chunks go to workers in any way.    *)
(*                                                                         *)
(* Elements are int64, or finite numbers, infinities and NaN of a floating *)
(* type (whose rounding, and so sum, prod and dot, are left out). A Boolean*)
(* result is 0 or 1.                                                       *)
(***************************************************************************)
EXTENDS Integers, SequencesExt, FiniteSetsExt

CONSTANTS
    Workers,
    Cases,          \* the calls: [floating, elems, other, op], the elements
                    \* in row-major order
    Bits,           \* width of int64
    Mantissa        \* bits of a double's significand

VARIABLES
    floating,       \* the element type is floating
    arr, op,
    other,          \* the second operand of dot
    chunked,        \* the reduction is an hpx::reduce
    next,           \* elements before it belong to a chunk
    chunk,          \* chunk[w]: the elements worker w has left, lo .. hi - 1
    acc,            \* acc[w]: what worker w has folded
    parts,          \* results waiting for the final fold, in any order
    result,         \* the reduction variable r
    pc, ret

vars == <<floating, arr, op, other, chunked, next, chunk, acc, parts, result, pc, ret>>

Finite  == 2 ^ (Bits - 1) - 1                            \* numeric_limits<T>::max()
Lowest  == IF floating THEN -Finite ELSE -Finite - 1     \* numeric_limits<T>::lowest()
Inf     == Finite + 1                                    \* infinity, when floating
NaN     == Finite + 2

Ops == {"sum", "prod", "mean", "min", "max", "any", "all", "count_nonzero", "dot", "is_sorted"}

\* An Array holds numbers of its element type. HPX has finitely many workers.
ASSUME CasesAssumption ==
    /\ IsFiniteSet(Workers)
    /\ Finite \in Nat \ {0}
    /\ \A c \in Cases :
        /\ c.floating \in BOOLEAN /\ c.op \in Ops
        /\ c.elems \in Seq(-Inf .. NaN) /\ c.other \in Seq(Int)
        /\ ~c.floating => c.elems \in Seq(-Inf .. Finite)

\* The comparison of the element type: a NaN compares with nothing.
Less(x, y) == NaN \notin {x, y} /\ x < y

\* Two's complement of Bits bits.
Wrap(x) == ((x + Inf) % (2 * Inf)) - Inf

AsDouble(x) ==
    LET mag   == IF x < 0 THEN -x ELSE x
        unit  == 2 ^ Min({e \in 0 .. Bits : mag < 2 ^ (Mantissa + e)})
        low   == mag \div unit
        up    == 2 * (mag % unit) > unit \/ (2 * (mag % unit) = unit /\ low % 2 = 1)
        value == (IF up THEN low + 1 ELSE low) * unit
    IN  IF x < 0 THEN -value ELSE value

\* Mutant: infinity() for an integer T is 0.
IdentityInfinity(o) ==
    CASE o \in {"min", "max"} -> IF floating THEN (IF o = "min" THEN Inf ELSE -Inf) ELSE 0
      [] o \in {"sum", "mean", "dot", "any", "count_nonzero"} -> 0
      [] o \in {"prod", "all", "is_sorted"} -> 1

Identity(o) ==
    CASE o = "min" -> Finite
      [] o = "max" -> Lowest
      [] o \in {"sum", "mean", "dot", "any", "count_nonzero"} -> 0
      [] o \in {"prod", "all", "is_sorted"} -> 1

\* Two accumulators into one.
Merge(o, x, y) ==
    CASE o \in {"sum", "mean", "dot", "count_nonzero"} -> Wrap(x + y)
      [] o = "prod" -> Wrap(x * y)
      [] o \in {"min", "all", "is_sorted"} -> IF Less(x, y) THEN x ELSE y
      [] o \in {"max", "any"} -> IF Less(y, x) THEN x ELSE y

\* A value into an accumulator: the body of the strided min tests v < acc, where
\* hpx::reduce is given the accumulator first. They differ on NaN.
Accumulate(o, x, v) == IF chunked THEN Merge(o, x, v) ELSE Merge(o, v, x)

\* How many things are folded, and what the i-th counts for.
Count == IF op = "is_sorted" THEN Len(arr) - 1 ELSE Len(arr)

\* hpx::is_sorted looks for a smaller successor, the strided loop tests <=.
Term(i) ==
    CASE op \in {"any", "all", "count_nonzero"} -> IF arr[i] # 0 THEN 1 ELSE 0
      [] op = "dot" -> Wrap(arr[i] * other[i])
      [] op = "is_sorted" ->
            IF chunked THEN (IF Less(arr[i + 1], arr[i]) THEN 0 ELSE 1)
            ELSE (IF NaN \notin {arr[i], arr[i + 1]} /\ arr[i] <= arr[i + 1] THEN 1 ELSE 0)
      [] OTHER -> arr[i]

Init ==
    /\ \E c \in Cases : floating = c.floating /\ arr = c.elems /\ op = c.op /\ other = c.other
    /\ chunked \in (IF op \in {"any", "all", "count_nonzero"} THEN {FALSE} ELSE BOOLEAN)
    /\ next = 0
    /\ chunk = [w \in Workers |-> [lo |-> 0, hi |-> 0]]
    /\ acc = [w \in Workers |-> Identity(op)]
    /\ parts = <<>>
    /\ result = Identity(op)
    /\ pc = "call" /\ ret = 0

\* Mutant: an empty array is reduced like any other.
CallEmpty ==
    /\ pc = "call"
    /\ pc' = IF op = "dot" /\ Len(arr) # Len(other) THEN "thrown" ELSE "run"
    /\ UNCHANGED <<floating, arr, op, other, chunked, next, chunk, acc, parts, result, ret>>

\* The early returns of an empty array, a NaN from mean; min and max throw, dot
\* of two sizes does.
Call ==
    /\ pc = "call"
    /\ IF op = "dot" /\ Len(arr) # Len(other) THEN pc' = "thrown" /\ UNCHANGED ret
       ELSE IF Count < 1
       THEN /\ ret' = IF op = "mean" THEN NaN ELSE Identity(op)
            /\ pc' = IF op \in {"min", "max"} THEN "thrown" ELSE "returned"
       ELSE pc' = "run" /\ UNCHANGED ret
    /\ UNCHANGED <<floating, arr, op, other, chunked, next, chunk, acc, parts, result>>

Idle(w) == chunk[w].lo = chunk[w].hi

\* Worker w is given a chunk, of any length.
Take(w) ==
    /\ pc = "run" /\ Idle(w) /\ next < Count
    /\ \E hi \in next + 1 .. Count :
          /\ next' = hi
          /\ IF chunked
             THEN /\ acc' = [acc EXCEPT ![w] = Term(next + 1)]
                  /\ chunk' = [chunk EXCEPT ![w] = [lo |-> next + 1, hi |-> hi]]
                  /\ parts' = IF hi = next + 1 THEN Append(parts, Term(hi)) ELSE parts
             ELSE /\ chunk' = [chunk EXCEPT ![w] = [lo |-> next, hi |-> hi]]
                  /\ UNCHANGED <<acc, parts>>
    /\ UNCHANGED <<floating, arr, op, other, chunked, result, pc, ret>>

\* It folds its next element; the last one of an hpx::reduce chunk completes
\* the chunk's result.
Step(w) ==
    /\ pc = "run" /\ ~Idle(w)
    /\ acc' = [acc EXCEPT ![w] = Accumulate(op, @, Term(chunk[w].lo + 1))]
    /\ chunk' = [chunk EXCEPT ![w].lo = @ + 1]
    /\ parts' = IF chunked /\ chunk[w].lo + 1 = chunk[w].hi THEN Append(parts, acc'[w]) ELSE parts
    /\ UNCHANGED <<floating, arr, op, other, chunked, next, result, pc, ret>>

\* What is left for the final fold: the chunks' results, or the workers' copies.
Partials ==
    IF chunked THEN parts
    ELSE LET order == SetToSeq(Workers) IN [i \in DOMAIN order |-> acc[order[i]]]

\* All chunks are done.
Join ==
    /\ pc = "run" /\ next = Count /\ \A w \in Workers : Idle(w)
    /\ parts' = Partials
    /\ pc' = "join"
    /\ UNCHANGED <<floating, arr, op, other, chunked, next, chunk, acc, result, ret>>

MergeOne ==
    /\ pc = "join"
    /\ \E i \in DOMAIN parts :
          /\ result' = Merge(op, result, parts[i])
          /\ parts' = RemoveAt(parts, i)
    /\ UNCHANGED <<floating, arr, op, other, chunked, next, chunk, acc, pc, ret>>

\* sum, prod, mean, min, max and dot return a double; prod of int64 casts it back,
\* with any outcome when it is out of range.
Return ==
    /\ pc = "join" /\ parts = <<>>
    /\ pc' = "returned"
    /\ IF floating \/ op \in {"any", "all", "count_nonzero", "is_sorted"} THEN ret' = result
       ELSE IF op = "prod" /\ AsDouble(result) > Finite THEN ret' \in Lowest .. Finite
       ELSE ret' = AsDouble(result)
    /\ UNCHANGED <<floating, arr, op, other, chunked, next, chunk, acc, parts, result>>

Next == Call \/ (\E w \in Workers : Take(w) \/ Step(w)) \/ Join \/ MergeOne \/ Return

\* The pool runs every task it has been given; no step waits for anything but
\* the tasks of the same call.
Spec == Init /\ [][Next]_vars /\ WF_vars(Next)

-----------------------------------------------------------------------------
(* Properties *)

Total(combine(_, _), from) == FoldLeft(combine, from, arr)

\* What NumPy returns: int64 sums and products wrap, a mean is taken in double.
NumPyResult ==
    CASE op = "sum"   -> Total(LAMBDA x, y : Wrap(x + y), 0)
      [] op = "prod"  -> Total(LAMBDA x, y : Wrap(x * y), 1)
      [] op = "mean"  -> IF arr = <<>> THEN NaN
                         ELSE Total(LAMBDA x, y : x + y, 0)   \* the numerator
      [] op = "min"   -> Min(ToSet(arr))
      [] op = "max"   -> Max(ToSet(arr))
      [] op = "any"   -> IF \E i \in DOMAIN arr : arr[i] # 0 THEN 1 ELSE 0
      [] op = "all"   -> IF \A i \in DOMAIN arr : arr[i] # 0 THEN 1 ELSE 0
      [] op = "dot"   -> FoldLeft(LAMBDA x, i : Wrap(x + arr[i] * other[i]), 0,
                                  [i \in DOMAIN arr |-> i])
      [] op = "is_sorted" -> IF \A i \in 1 .. Len(arr) - 1 : arr[i] <= arr[i + 1]
                             THEN 1 ELSE 0
      [] op = "count_nonzero" -> Cardinality({i \in DOMAIN arr : arr[i] # 0})

\* The calls with no answer: they raise.
Undefined ==
    IF op = "dot" THEN Len(arr) # Len(other) ELSE arr = <<>> /\ op \in {"min", "max"}

\* Where hpxpy has no answer to compare: NaNs are lost or kept by min and max
\* as the schedule has it, and only the strided is_sorted sees them.
Unordered == NaN \in ToSet(arr) /\ op \in {"min", "max", "is_sorted"}

\* However the elements are cut into chunks, the chunks handed to workers and
\* their results folded, a reduction returns what NumPy's does.
ReturnsNumPy == pc = "returned" /\ ~Undefined /\ ~Unordered => ret = NumPyResult

\* min and max raise on an empty array, dot on arrays of two sizes, and nothing
\* else does; every other call returns.
Answers == <>(pc = IF Undefined THEN "thrown" ELSE "returned")
=============================================================================
