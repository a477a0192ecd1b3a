----------------------------- MODULE Localities -----------------------------
(***************************************************************************)
(* Two processes of one program: the console (locality 0) and a worker     *)
(* (locality 1, --hpx:worker), each doing what the script of               *)
(* tests/test_distributed.py does: init(), one distributed_sum(),          *)
(* finalize().                                                             *)
(*                                                                         *)
(* The worker is RuntimeManager, with all its threads and failures; of the *)
(* console only what HpxLifecycle promises of its runtime matters here.    *)
(* HPX's part is external: with --hpx:localities=2 neither runtime comes   *)
(* up before both processes have started; all_reduce sends each site the   *)
(* sum, to each in its own time, once every site number has contributed;   *)
(* the console's hpx::finalize ends the runtimes of all localities when no *)
(* HPX thread of theirs is left at work.                                   *)
(*                                                                         *)
(* The collective has one name and no generation: it is used once here. Of *)
(* a second use of the name the module says nothing.                       *)
(***************************************************************************)
EXTENDS RuntimeManager

Console == "console"
WorkerSite == "worker"

VARIABLES
    launched,   \* the program was given a worker (--hpx:localities=2)
    console,    \* phase of the console's HPX runtime
    asked,      \* the console's finalize() has asked it to stop
    died,       \* the console's process was aborted by a second hpx::start
    caller,     \* per site, its distributed_sum: "none", "waiting", "answered", "returned"
    slot,       \* contributions to the collective, by site number
    answer,     \* per site: what the call returns
    failed      \* the worker's init() raised

locVars == <<launched, console, asked, died, caller, slot, answer, failed>>
allVars == <<vars, locVars>>

Sites == {Console, WorkerSite}

\* hpx::get_num_localities and hpx::get_locality_id.
NumLocalities == IF launched THEN 2 ELSE 1
SiteNumber(s) == IF s = Console THEN 0 ELSE 1

\* What site s passes: float(hpxpy.locality_id() + 1).
Local(s) == SiteNumber(s) + 1

\* An empty slot is told from a contribution.
ASSUME SlotAssumption == None \notin {1, 2}

LInit ==
    /\ Init
    /\ launched \in BOOLEAN
    /\ console = "down" /\ asked = FALSE /\ died = FALSE
    /\ caller = [s \in Sites |-> "none"]
    /\ slot = [i \in 0 .. 1 |-> None]
    /\ answer = [s \in Sites |-> None]
    /\ failed = FALSE

-----------------------------------------------------------------------------
(* distributed_sum *)

Lives(s) == IF s = Console THEN ~died ELSE ~aborted

\* The program of site s is past its init() and calls distributed_sum.
Calls(s) ==
    /\ Lives(s) /\ caller[s] = "none"
    /\ IF s = Console THEN console = "up" ELSE initialized

CallerAt(s, l) == caller' = [caller EXCEPT ![s] = l]

\* One locality: the argument is the sum.
SumAlone(s) ==
    /\ Calls(s) /\ NumLocalities <= 1
    /\ answer' = [answer EXCEPT ![s] = Local(s)]
    /\ CallerAt(s, "answered")
    /\ UNCHANGED <<launched, console, asked, died, slot, failed>>

\* Mutants: every site contributes as site 0; the collective is skipped for
\* two localities.
SumCallSiteZero(s) ==
    /\ Calls(s) /\ NumLocalities > 1
    /\ slot' = [slot EXCEPT ![0] = Local(s)]
    /\ CallerAt(s, "waiting")
    /\ UNCHANGED <<launched, console, asked, died, answer, failed>>

SumCallSkips(s) ==
    /\ Calls(s) /\ NumLocalities > 1
    /\ answer' = [answer EXCEPT ![s] = Local(s)]
    /\ CallerAt(s, "answered")
    /\ UNCHANGED <<launched, console, asked, died, slot, failed>>

\* Several: the GIL is released, and an HPX thread contributes the value to
\* all_reduce under the site's number.
SumCall(s) ==
    /\ Calls(s) /\ NumLocalities > 1
    /\ slot' = [slot EXCEPT ![SiteNumber(s)] = Local(s)]
    /\ CallerAt(s, "waiting")
    /\ UNCHANGED <<launched, console, asked, died, answer, failed>>

\* all_reduce: every number has contributed, and the sum reaches site s. The
\* other site's may still be on its way.
Deliver(s) ==
    /\ Lives(s) /\ caller[s] = "waiting"
    /\ \A i \in DOMAIN slot : slot[i] # None
    /\ answer' = [answer EXCEPT ![s] = slot[0] + slot[1]]
    /\ CallerAt(s, "answered")
    /\ UNCHANGED <<launched, console, asked, died, slot, failed>>

\* The future is ready: the call takes the GIL again and returns.
SumReturn(s) ==
    /\ Lives(s) /\ caller[s] = "answered"
    /\ CallerAt(s, "returned")
    /\ UNCHANGED <<launched, console, asked, died, slot, answer, failed>>

-----------------------------------------------------------------------------
(* The console process *)

Promise == INSTANCE HpxLifecycle WITH
    phase <- console, requested <- asked, dead <- died

ConsoleStep(A) == A /\ UNCHANGED <<launched, caller, slot, answer, failed>>

\* init(); the program runs once.
ConsoleStart == ConsoleStep(Promise!Start /\ caller[Console] = "none" /\ ~failed)

ConsoleUp == ConsoleStep(Promise!ComeUp /\ (launched => hpx # "down"))

\* Mutant: the console finalizes before its sum has returned.
ConsoleFinalizeEarly == ConsoleStep(Promise!Request)

\* finalize(), when the sum has returned. The worker's may not have.
ConsoleFinalize == ConsoleStep(Promise!Request /\ caller[Console] = "returned")

\* hpx::finalize's broadcast: HPX first sees that no locality has an HPX thread
\* at work, and a site that waits in all_reduce has one.
ConsoleDrain == ConsoleStep(Promise!Drain /\ \A s \in Sites : caller[s] # "waiting")

ConsoleStop == ConsoleStep(Promise!Stop)

\* HpxLifecycle lets a racing init() kill the process.
ConsoleAbort == ConsoleStep(Promise!Abort)

-----------------------------------------------------------------------------
(* The worker process *)

\* What the program and HPX allow of RuntimeManager's steps: the process exists
\* if it was launched, its runtime comes up when the console's has started,
\* finalize() comes after the sum, and the runtime ends when the console's
\* does.
WorkerMay ==
    /\ launched
    /\ hpx = "starting" /\ hpx' = "running" => console \in {"starting", "up"}
    /\ \A t \in Threads : pc[t] = "idle" /\ pc'[t] = "f_call" =>
            caller[WorkerSite] = "returned"
    /\ hpx = "running" /\ hpx' = "finalized" => console \in {"draining", "down"}

WorkerStep ==
    /\ Next
    /\ WorkerMay
    /\ failed' = (failed \/ \E t \in Threads : CtorThrow(t))
    /\ UNCHANGED <<launched, console, asked, died, caller, slot, answer>>

-----------------------------------------------------------------------------
SumStep ==
    /\ \E s \in Sites : SumAlone(s) \/ SumCall(s) \/ Deliver(s) \/ SumReturn(s)
    /\ UNCHANGED vars

ConsoleMoves ==
    /\ ConsoleStart \/ ConsoleUp \/ ConsoleFinalize \/ ConsoleDrain \/ ConsoleStop
    /\ UNCHANGED vars

ConsoleDies == ConsoleAbort /\ UNCHANGED vars

LNext == WorkerStep \/ SumStep \/ ConsoleMoves \/ ConsoleDies

LSpec == LInit /\ [][LNext]_allVars

\* The programs run: each site makes its call, and the worker is started. HPX
\* connects two runtimes that are both there and delivers the shutdown; the GIL
\* hands over as in RuntimeManager.
LFairness ==
    /\ \A t \in Threads : SF_allVars(WorkerStep /\ InCall(t))
    /\ SF_allVars(WorkerStep /\ caller[WorkerSite] = "none" /\ \E t \in Threads : InitCheck(t))
    /\ WF_allVars(WorkerStep /\ (HpxUp \/ HpxBroadcast))
    /\ WF_allVars(SumStep)
    /\ WF_allVars(ConsoleMoves)

FairLSpec == LSpec /\ LFairness
-----------------------------------------------------------------------------
(* Properties *)

\* Every site gets the sum of what all sites passed, whenever each of them
\* enters its call, is answered and leaves.
SumAgrees ==
    \A s \in Sites : caller[s] \in {"answered", "returned"} =>
        answer[s] = IF launched THEN Local(Console) + Local(WorkerSite) ELSE Local(s)

\* No site's runtime is shut down under a distributed_sum that still waits for
\* the others: neither by its own finalize nor by the console's.
SumNotCutOff ==
    /\ caller[Console] = "waiting" => console = "up" /\ ~asked
    /\ caller[WorkerSite] = "waiting" => hpx = "running" /\ console \in {"starting", "up"}

\* A call of distributed_sum on the console returns, unless the worker's init()
\* raised or its process died: such a worker is counted and never calls.
SumReturns ==
    caller[Console] = "waiting" ~> (caller[Console] = "returned" \/ failed \/ aborted \/ died)

\* Both programs end: the worker's finalize() returns because the console's ends
\* the runtimes of all localities, and the console's returns.
ProgramsEnd ==
    /\ asked ~> (console = "down" \/ died)
    /\ \A t \in Threads : pc[t] = "dtor_stop" ~> (pc[t] = "idle" \/ aborted \/ died)
=============================================================================
