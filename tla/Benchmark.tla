----------------------------- MODULE Benchmark -----------------------------
(***************************************************************************)
(* measure() of src/src/timing.hpp around the kernels of Sparse, as        *)
(* bench_spmv and bench_spmm call it: one warm-up, then timed runs into    *)
(* the same result until the budget is spent, and the median of the times. *)
(***************************************************************************)
EXTENDS Sparse

CONSTANTS
    Params,     \* [budget, min_reps, max_reps] of a benchmark
    Durations   \* what one run may take

\* Times are exact, in a unit that the budget is given in too.
ASSUME TimingAssumption ==
    /\ Params \subseteq [budget : Int, min_reps : Int, max_reps : Int]
    /\ Durations \subseteq Int

VARIABLES
    phase,      \* "none", "warm", "timed" or "reported"
    params,
    ts,         \* the times of the timed runs
    median      \* twice the median that was returned

benchVars == <<phase, params, ts, median>>
allVars == <<vars, benchVars>>

NoParams == [budget |-> 0, min_reps |-> 0, max_reps |-> 0]

BInit ==
    /\ Init
    /\ phase = "none" /\ params = NoParams /\ ts = <<>> /\ median = 0

\* bench_spmv: nothing is compared with the matrix.
BenchSpmv(x, p) ==
    /\ pc = "call" /\ Launch(x, x.words, x.base, 1)
    /\ phase' = "warm" /\ params' = p
    /\ UNCHANGED <<ts, median>>

\* bench_spmm, of a matrix that dense_from has accepted.
BenchSpmm(d, p) ==
    /\ pc = "call" /\ Len(d.flat) = d.rows * d.cols /\ Launch(d, d.flat, 0, d.cols)
    /\ phase' = "warm" /\ params' = p
    /\ UNCHANGED <<ts, median>>

\* The warm-up is over: the first timed run starts.
WarmedUp ==
    /\ phase = "warm" /\ Again
    /\ phase' = "timed"
    /\ UNCHANGED <<params, ts, median>>

Spent(times) == FoldLeft(LAMBDA x, y : x + y, 0, times)

\* Mutant: either condition ends the loop.
EnoughEither(times) ==
    \/ Len(times) >= params.max_reps
    \/ Len(times) >= params.min_reps
    \/ Spent(times) >= params.budget

Enough(times) ==
    \/ Len(times) >= params.max_reps
    \/ Len(times) >= params.min_reps /\ Spent(times) >= params.budget

\* nth_element at place n: any order of the times with none larger before that
\* place and none smaller after it.
NthElement(times, n) ==
    LET places == DOMAIN times
    IN  {order \in {[i \in places |-> times[p[i]]] : p \in Bijection(places, places)} :
            \A i \in places : /\ i < n => order[i] <= order[n]
                              /\ i > n => order[n] <= order[i]}

\* The upper middle, with the largest before it when the number is even.
TwiceMedian(order) ==
    LET half == Len(order) \div 2
    IN  IF Len(order) % 2 = 0
        THEN Max(ToSet(SubSeq(order, 1, half))) + order[half + 1]
        ELSE 2 * order[half + 1]

\* A timed run is over: it is recorded, and the loop goes on or ends.
Timed(dt) ==
    /\ phase = "timed" /\ pc = "done"
    /\ ts' = Append(ts, dt)
    /\ IF Enough(ts')
       THEN /\ \E order \in NthElement(ts', Len(ts') \div 2 + 1) : median' = TwiceMedian(order)
            /\ phase' = "reported"
            /\ UNCHANGED vars
       ELSE Again /\ UNCHANGED <<phase, median>>
    /\ UNCHANGED params

BNext ==
    \/ Next /\ UNCHANGED benchVars
    \/ \E p \in Params :
        \/ \E x \in Vectors : BenchSpmv(x, p)
        \/ \E d \in Denses : BenchSpmm(d, p)
    \/ WarmedUp
    \/ \E dt \in Durations : Timed(dt)

BSpec == BInit /\ [][BNext]_allVars

-----------------------------------------------------------------------------
(* Properties *)

\* The k-th smallest of the times.
Ranked(k) ==
    CHOOSE v \in ToSet(ts) :
        /\ Cardinality({i \in DOMAIN ts : ts[i] < v}) < k
        /\ Cardinality({i \in DOMAIN ts : ts[i] <= v}) >= k

\* A benchmark runs at least once, no run more than its cap, and stops short of
\* the cap only with as many runs as asked for and the budget spent; without its
\* last run one of the two was missing. It returns the median of its times:
\* half the sum of the two in the middle, which are one when their number is odd.
RunsAsAsked ==
    phase = "reported" =>
        /\ median = Ranked((Len(ts) + 1) \div 2) + Ranked(Len(ts) \div 2 + 1)
        /\ Len(ts) <= Max({1, params.max_reps})
        /\ Len(ts) < params.max_reps =>
                Len(ts) >= params.min_reps /\ Spent(ts) >= params.budget
        /\ Len(ts) > Max({1, params.min_reps}) => Spent(Front(ts)) < params.budget
=============================================================================
