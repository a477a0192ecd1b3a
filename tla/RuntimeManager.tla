--------------------------- MODULE RuntimeManager ---------------------------
(***************************************************************************)
(* The managed HPX runtime of one Python process: hpxpy.init/finalize      *)
(* (src/hpxpy/__init__.py), init_runtime/finalize_runtime and the class    *)
(* runtime_manager (src/src/_core.cpp), with hpx_main running as an HPX    *)
(* thread beside the Python threads.                                       *)
(*                                                                         *)
(* A Python-level step needs the GIL for that one step (another thread may *)
(* take it between two bytecodes); the runtime_manager constructor keeps   *)
(* it from its first line to its last; the destructor runs without it.     *)
(* The HPX side (hpx::start, is_running, finalize, stop) is external and   *)
(* modelled from how the manager uses it; HPX allows one runtime per       *)
(* process at a time (docs/PLAN.md, section 12).                           *)
(***************************************************************************)
EXTENDS Naturals

CONSTANTS
    Threads,        \* the Python threads of the process
    Managers,       \* addresses a runtime_manager may be allocated at
    None,           \* nullptr, and "no thread"
    Worker,         \* TRUE: hpx_args holds "--hpx:worker" (is_worker_)
    RunsMain,       \* TRUE: HPX runs hpx_main here, this being the console locality
    MaxPolls,       \* bound of the worker's readiness loop (30000 in the code)
    SpuriousWakeups,\* TRUE: cond_.wait may return without a notify
    Serialized      \* TRUE: the program makes one init/finalize call at a time

ASSUME NoneAssumption == None \notin Threads /\ None \notin Managers
ASSUME FlagsAssumption == {Worker, RunsMain, SpuriousWakeups, Serialized} \subseteq BOOLEAN
\* The flag makes a worker locality. A locality may be one without it: a launch
\* under Slurm, whose layout HPX detects by itself.
ASSUME RoleAssumption == Worker => ~RunsMain
ASSUME MaxPollsAssumption == MaxPolls \in Nat

VARIABLES
    initialized,    \* hpxpy._initialized
    g_rts,          \* the process-wide runtime_manager*
    gil,            \* the thread that keeps the GIL across steps, or None
    pc,             \* where each Python thread is in init() or finalize()
    self,           \* `this` of the constructor, `r` of finalize_runtime
    polls,          \* `i` of the worker's readiness loop
    alive,          \* the runtime_manager objects whose storage is live
    rts,            \* rts_ # nullptr, per manager
    running,        \* running_, per manager
    hpx,            \* the HPX runtime of the process
    hm,             \* where hpx_main is
    hmThis,         \* the manager hpx_main is bound to
    aborted         \* std::abort was called

pyVars  == <<initialized, g_rts, gil, pc, self, polls>>
mgrVars == <<alive, rts, running>>
hpxVars == <<hpx, hm, hmThis>>
vars    == <<initialized, g_rts, gil, pc, self, polls, alive, rts, running,
             hpx, hm, hmThis, aborted>>

PCs == {"idle", "i_call", "ctor_wait", "ctor_blocked", "i_flag",
        "f_call", "dtor_clear", "dtor_notify", "dtor_stop", "f_flag"}
InCtor == {"ctor_wait", "ctor_blocked"}
InDtor == {"dtor_clear", "dtor_notify", "dtor_stop"}
HpxStates == {"down", "starting", "running", "finalized"}
HmPCs == {"none", "entry", "set_running", "notify", "check", "waiting",
          "woken", "finalize", "done"}

Init ==
    /\ initialized = FALSE
    /\ g_rts = None
    /\ gil = None
    /\ pc = [t \in Threads |-> "idle"]
    /\ self = [t \in Threads |-> None]
    /\ polls = 0
    /\ alive = {}
    /\ rts = [m \in Managers |-> FALSE]
    /\ running = [m \in Managers |-> FALSE]
    /\ hpx = "down"
    /\ hm = "none"
    /\ hmThis = None
    /\ aborted = FALSE

Goto(t, l) == pc' = [pc EXCEPT ![t] = l]

\* A thread at label l may take its next Python-level step.
HasGil(t, l) == ~aborted /\ gil = None /\ pc[t] = l

\* A thread may enter a call; a serialised program waits for the others.
MayCall == Serialized => \A t \in Threads : pc[t] = "idle"

-----------------------------------------------------------------------------
(* hpxpy.init and the runtime_manager constructor *)

\* init(): the test of _initialized; when it is set the call returns at once.
InitCheck(t) ==
    /\ HasGil(t, "idle") /\ MayCall /\ ~initialized
    /\ Goto(t, "i_call")
    /\ UNCHANGED <<initialized, g_rts, gil, self, polls, mgrVars, hpxVars, aborted>>

\* init_runtime finds a manager and returns without building one.
InitRuntimeExisting(t) ==
    /\ HasGil(t, "i_call") /\ g_rts # None
    /\ Goto(t, "i_flag")
    /\ UNCHANGED <<initialized, g_rts, gil, self, polls, mgrVars, hpxVars, aborted>>

\* init_runtime builds a manager at a free address m: the members are
\* initialised and hpx::start launches the runtime, hpx_main bound to m. A
\* second hpx::start while a runtime exists fails, and the process aborts.
InitRuntimeNew(t, m) ==
    /\ HasGil(t, "i_call") /\ g_rts = None /\ m \notin alive
    /\ gil' = t
    /\ self' = [self EXCEPT ![t] = m]
    /\ polls' = 0
    /\ alive' = alive \cup {m}
    /\ rts' = [rts EXCEPT ![m] = FALSE]
    /\ running' = [running EXCEPT ![m] = FALSE]
    /\ Goto(t, "ctor_wait")
    /\ IF hpx = "down"
       THEN /\ hpx' = "starting"
            /\ hm' = IF RunsMain THEN "entry" ELSE "none"
            /\ hmThis' = IF RunsMain THEN m ELSE None
            /\ UNCHANGED aborted
       ELSE aborted' = TRUE /\ UNCHANGED hpxVars
    /\ UNCHANGED <<initialized, g_rts>>

\* Mutant: the constructor does not wait for hpx_main.
CtorReturnUnready(t) ==
    /\ ~aborted /\ pc[t] = "ctor_wait"
    /\ g_rts' = self[t]
    /\ self' = [self EXCEPT ![t] = None]
    /\ gil' = None
    /\ Goto(t, "i_flag")
    /\ UNCHANGED <<initialized, polls, mgrVars, hpxVars, aborted>>

\* The constructor returns: init_runtime publishes the manager in g_rts and
\* returns to Python.
CtorReturn(t) ==
    /\ ~aborted /\ pc[t] = "ctor_wait"
    /\ IF Worker THEN hpx = "running" ELSE running[self[t]]
    /\ g_rts' = self[t]
    /\ self' = [self EXCEPT ![t] = None]
    /\ gil' = None
    /\ Goto(t, "i_flag")
    /\ UNCHANGED <<initialized, polls, mgrVars, hpxVars, aborted>>

\* No flag: `while (!running_) startup_cond_.wait(lk)`, the blocking branch.
CtorBlock(t) ==
    /\ ~aborted /\ pc[t] = "ctor_wait" /\ ~Worker /\ ~running[self[t]]
    /\ Goto(t, "ctor_blocked")
    /\ UNCHANGED <<initialized, g_rts, gil, self, polls, mgrVars, hpxVars, aborted>>

\* A condition variable may also wake without a notify; the loop re-tests.
CtorSpurious(t) ==
    /\ ~aborted /\ pc[t] = "ctor_blocked"
    /\ Goto(t, "ctor_wait")
    /\ UNCHANGED <<initialized, g_rts, gil, self, polls, mgrVars, hpxVars, aborted>>

\* Mutant: the counter is not advanced.
CtorPollNoIncrement(t) ==
    /\ ~aborted /\ pc[t] = "ctor_wait" /\ Worker /\ hpx # "running"
    /\ polls <= MaxPolls
    /\ UNCHANGED vars

\* Worker: one turn of the polling loop that finds the runtime not running.
CtorPoll(t) ==
    /\ ~aborted /\ pc[t] = "ctor_wait" /\ Worker /\ hpx # "running"
    /\ polls <= MaxPolls
    /\ polls' = polls + 1
    /\ UNCHANGED <<initialized, g_rts, gil, pc, self, mgrVars, hpxVars, aborted>>

\* Worker: the loop gives up and throws. `new` releases the storage, g_rts and
\* _initialized keep their values, and nobody stops the runtime just started.
CtorThrow(t) ==
    /\ ~aborted /\ pc[t] = "ctor_wait" /\ Worker /\ hpx # "running"
    /\ polls > MaxPolls
    /\ alive' = alive \ {self[t]}
    /\ self' = [self EXCEPT ![t] = None]
    /\ gil' = None
    /\ Goto(t, "idle")
    /\ UNCHANGED <<initialized, g_rts, polls, rts, running, hpxVars, aborted>>

\* init(): `_initialized = True`.
InitFlag(t) ==
    /\ HasGil(t, "i_flag")
    /\ initialized' = TRUE
    /\ Goto(t, "idle")
    /\ UNCHANGED <<g_rts, gil, self, polls, mgrVars, hpxVars, aborted>>

-----------------------------------------------------------------------------
(* hpxpy.finalize and the runtime_manager destructor *)

\* finalize(): the test of _initialized (also the atexit handler).
FinalizeCheck(t) ==
    /\ HasGil(t, "idle") /\ MayCall /\ initialized
    /\ Goto(t, "f_call")
    /\ UNCHANGED <<initialized, g_rts, gil, self, polls, mgrVars, hpxVars, aborted>>

\* Mutant: g_rts is not cleared before the GIL is released.
FinalizeRuntimeKeepsGlobal(t) ==
    /\ HasGil(t, "f_call")
    /\ self' = [self EXCEPT ![t] = g_rts]
    /\ Goto(t, IF g_rts = None THEN "f_flag" ELSE "dtor_clear")
    /\ UNCHANGED <<initialized, g_rts, gil, polls, mgrVars, hpxVars, aborted>>

\* finalize_runtime: g_rts is taken and cleared under the GIL; only then is
\* the GIL released and the manager deleted.
FinalizeRuntime(t) ==
    /\ HasGil(t, "f_call")
    /\ g_rts' = None
    /\ self' = [self EXCEPT ![t] = g_rts]
    /\ Goto(t, IF g_rts = None THEN "f_flag" ELSE "dtor_clear")
    /\ UNCHANGED <<initialized, gil, polls, mgrVars, hpxVars, aborted>>

\* ~runtime_manager: `rts_ = nullptr` under mtx_.
DtorClear(t) ==
    /\ ~aborted /\ pc[t] = "dtor_clear"
    /\ rts' = [rts EXCEPT ![self[t]] = FALSE]
    /\ Goto(t, "dtor_notify")
    /\ UNCHANGED <<initialized, g_rts, gil, self, polls, alive, running, hpxVars, aborted>>

\* ~runtime_manager: `cond_.notify_one()`, lost when hpx_main is not waiting.
DtorNotify(t) ==
    /\ ~aborted /\ pc[t] = "dtor_notify"
    /\ hm' = IF hm = "waiting" /\ hmThis = self[t] THEN "woken" ELSE hm
    /\ Goto(t, "dtor_stop")
    /\ UNCHANGED <<initialized, g_rts, gil, self, polls, mgrVars, hpx, hmThis, aborted>>

\* Mutants: the destructor does not call hpx::stop; it waits for an hpx_main
\* that never runs on a worker.
DtorStopMissing(t) ==
    /\ ~aborted /\ pc[t] = "dtor_stop"
    /\ alive' = alive \ {self[t]}
    /\ self' = [self EXCEPT ![t] = None]
    /\ Goto(t, "f_flag")
    /\ UNCHANGED <<initialized, g_rts, gil, polls, rts, running, hpxVars, aborted>>

DtorStopNeedsMain(t) ==
    /\ ~aborted /\ pc[t] = "dtor_stop" /\ hpx = "finalized" /\ hm = "done"
    /\ hpx' = "down" /\ hm' = "none" /\ hmThis' = None
    /\ alive' = alive \ {self[t]}
    /\ self' = [self EXCEPT ![t] = None]
    /\ Goto(t, "f_flag")
    /\ UNCHANGED <<initialized, g_rts, gil, polls, rts, running, aborted>>

\* ~runtime_manager: hpx::stop() returns once HPX has been finalized and the
\* entry function has returned; the storage is then released.
DtorStop(t) ==
    /\ ~aborted /\ pc[t] = "dtor_stop"
    /\ hpx = "finalized" /\ hm \in {"none", "done"}
    /\ hpx' = "down" /\ hm' = "none" /\ hmThis' = None
    /\ alive' = alive \ {self[t]}
    /\ self' = [self EXCEPT ![t] = None]
    /\ Goto(t, "f_flag")
    /\ UNCHANGED <<initialized, g_rts, gil, polls, rts, running, aborted>>

\* finalize(): `_initialized = False`, with the GIL taken again.
FinalizeFlag(t) ==
    /\ HasGil(t, "f_flag")
    /\ initialized' = FALSE
    /\ Goto(t, "idle")
    /\ UNCHANGED <<g_rts, gil, self, polls, mgrVars, hpxVars, aborted>>

-----------------------------------------------------------------------------
(* hpx_main, on an HPX thread of the console locality *)

HmStep(from, to) == ~aborted /\ hm = from /\ hm' = to

\* Mutant: rts_ is left null.
HmSetRtsMissing ==
    /\ HmStep("entry", "set_running") /\ hpx = "running"
    /\ UNCHANGED <<pyVars, mgrVars, hpx, hmThis, aborted>>

HmSetRts ==
    /\ HmStep("entry", "set_running") /\ hpx = "running"
    /\ rts' = [rts EXCEPT ![hmThis] = TRUE]
    /\ UNCHANGED <<pyVars, alive, running, hpx, hmThis, aborted>>

HmSetRunning ==
    /\ HmStep("set_running", "notify")
    /\ running' = [running EXCEPT ![hmThis] = TRUE]
    /\ UNCHANGED <<pyVars, alive, rts, hpx, hmThis, aborted>>

\* Mutant: no notify.
HmNotifyMissing ==
    /\ HmStep("notify", "check")
    /\ UNCHANGED <<pyVars, mgrVars, hpx, hmThis, aborted>>

\* startup_cond_.notify_one(): a constructor blocked on this manager re-tests.
HmNotify ==
    /\ HmStep("notify", "check")
    /\ pc' = [t \in Threads |->
                IF pc[t] = "ctor_blocked" /\ self[t] = hmThis
                THEN "ctor_wait" ELSE pc[t]]
    /\ UNCHANGED <<initialized, g_rts, gil, self, polls, mgrVars, hpx, hmThis, aborted>>

\* Mutant: hpx_main waits without testing rts_.
HmCheckMissing ==
    /\ HmStep("check", "waiting")
    /\ UNCHANGED <<pyVars, mgrVars, hpx, hmThis, aborted>>

\* `if (rts_ != nullptr) cond_.wait(lk)`: the test and the start of the wait
\* are one step, because mtx_ is held.
HmCheck ==
    /\ HmStep("check", IF rts[hmThis] THEN "waiting" ELSE "finalize")
    /\ UNCHANGED <<pyVars, mgrVars, hpx, hmThis, aborted>>

\* The wait is an `if`: a wakeup nobody asked for also ends it.
HmSpuriousWake ==
    /\ SpuriousWakeups
    /\ HmStep("waiting", "woken")
    /\ UNCHANGED <<pyVars, mgrVars, hpx, hmThis, aborted>>

\* mtx_ is taken again and released: the last access to the manager.
HmWoken ==
    /\ HmStep("woken", "finalize")
    /\ UNCHANGED <<pyVars, mgrVars, hpx, hmThis, aborted>>

HmFinalize ==
    /\ HmStep("finalize", "done")
    /\ hpx' = "finalized"
    /\ UNCHANGED <<pyVars, mgrVars, hmThis, aborted>>

-----------------------------------------------------------------------------
(* The HPX runtime itself *)

\* The runtime launched by hpx::start comes up.
HpxUp ==
    /\ ~aborted /\ hpx = "starting" /\ hpx' = "running"
    /\ UNCHANGED <<pyVars, mgrVars, hm, hmThis, aborted>>

\* Any other locality: the console's finalize broadcast arrives.
HpxBroadcast ==
    /\ ~aborted /\ ~RunsMain /\ hpx = "running" /\ hpx' = "finalized"
    /\ UNCHANGED <<pyVars, mgrVars, hm, hmThis, aborted>>

\* After std::abort nothing runs any more.
Aborted == aborted /\ UNCHANGED vars

-----------------------------------------------------------------------------
HmMain == HmSetRts \/ HmSetRunning \/ HmNotify \/ HmCheck \/ HmWoken \/ HmFinalize

\* The steps of a call in progress (a thread is free never to make a call).
SharedCall(t) ==
    \/ InitRuntimeExisting(t) \/ CtorReturn(t) \/ CtorBlock(t) \/ InitFlag(t)
    \/ FinalizeRuntime(t) \/ DtorClear(t) \/ DtorNotify(t) \/ DtorStop(t)
    \/ FinalizeFlag(t)
    \/ \E m \in Managers : InitRuntimeNew(t, m)

\* A worker also polls.
InCall(t) == SharedCall(t) \/ CtorPoll(t) \/ CtorThrow(t)

\* What a console does; the guards of the other actions need a worker.
ConsoleNext ==
    \/ \E t \in Threads : InitCheck(t) \/ FinalizeCheck(t) \/ CtorSpurious(t) \/ SharedCall(t)
    \/ HmMain \/ HmSpuriousWake \/ HpxUp \/ Aborted

Next ==
    \/ ConsoleNext
    \/ \E t \in Threads : CtorPoll(t) \/ CtorThrow(t)
    \/ HpxBroadcast

Spec == Init /\ [][Next]_vars

\* The GIL hands over to every waiting thread (strong fairness of the steps
\* that need it), the OS and HPX schedule their threads (weak fairness). A
\* console runtime comes up; a worker's may wait for its console for ever.
Fairness ==
    /\ \A t \in Threads : SF_vars(InCall(t))
    /\ WF_vars(HmMain)
    /\ RunsMain => WF_vars(HpxUp)

FairSpec == Spec /\ Fairness
-----------------------------------------------------------------------------
(* Properties *)

TypeOK ==
    /\ initialized \in BOOLEAN /\ aborted \in BOOLEAN
    /\ g_rts \in Managers \cup {None}
    /\ gil \in Threads \cup {None}
    /\ pc \in [Threads -> PCs]
    /\ self \in [Threads -> Managers \cup {None}]
    /\ polls \in 0 .. MaxPolls + 1
    /\ alive \subseteq Managers
    /\ rts \in [Managers -> BOOLEAN] /\ running \in [Managers -> BOOLEAN]
    /\ hpx \in HpxStates /\ hm \in HmPCs
    /\ hmThis \in Managers \cup {None}

\* Every live runtime_manager is owned exactly once: by g_rts or by the one
\* thread that constructs or deletes it, and nobody points at a dead one (no
\* leak, no dangling g_rts, no double delete, however init and finalize race).
OwnedOnce ==
    /\ alive = ({g_rts} \cup {self[t] : t \in Threads}) \ {None}
    /\ \A t \in Threads : self[t] # None => self[t] # g_rts
    /\ \A t, u \in Threads : self[t] = self[u] /\ self[t] # None => t = u

\* hpx_main reads rts_, mtx_ and cond_ through `this` on an HPX thread while a
\* Python thread deletes the object: the storage outlives its last access.
NoUseAfterFree ==
    hm \notin {"none", "finalize", "done"} => hmThis \in alive

\* The console runtime winds down only on behalf of a destructor that is
\* waiting for it: no lost or misdirected notify ends a runtime in use.
StopOnRequest ==
    hm \in {"woken", "finalize", "done"} =>
        \E t \in Threads : /\ self[t] = hmThis
                           /\ pc[t] \in {"dtor_notify", "dtor_stop"}

\* When no call is in progress the Python flag, g_rts and the HPX runtime
\* agree: _initialized says whether there is a runtime, and then hpx_main has
\* started (so that init, finalize and the atexit handler do the right thing).
QuiescentAgrees ==
    ~aborted /\ (\A t \in Threads : pc[t] = "idle") =>
        /\ initialized <=> hpx # "down"
        /\ initialized <=> g_rts # None
        /\ initialized => hpx # "starting" /\ rts[g_rts] /\ running[g_rts]

\* finalize() that found _initialized set returns with the runtime stopped.
FinalizeReturnsStopped ==
    [][\A t \in Threads : FinalizeFlag(t) => hpx = "down"]_vars

\* The process is not aborted by a second hpx::start.
NoAbort == ~aborted

\* init() returns (or throws), whatever the other threads do: the constructor
\* waits for hpx_main with the GIL held, and hpx_main never needs the GIL. This
\* needs an hpx_main or the flag: a worker locality without it waits for ever.
InitReturns ==
    Worker \/ RunsMain =>
        \A t \in Threads : pc[t] = "i_call" ~> (pc[t] = "idle" \/ aborted)

\* finalize() returns: the stop request is never lost, also when it comes
\* before hpx_main has reached its wait.
FinalizeReturns ==
    \A t \in Threads : pc[t] = "f_call" ~> (pc[t] = "idle" \/ aborted)

\* What the manager promises of the one HPX runtime: see HpxLifecycle.
StopRequested ==
    \E t \in Threads : pc[t] \in {"dtor_notify", "dtor_stop"}

Phase ==
    CASE hpx = "down" -> "down"  [] hpx = "starting"  -> "starting"
      [] hpx = "running" -> "up" [] hpx = "finalized" -> "draining"

Lifecycle == INSTANCE HpxLifecycle WITH
    phase     <- Phase,
    requested <- StopRequested,
    dead      <- aborted

\* The console's manager implements the abstract life cycle, its liveness
\* included: started once at a time, wound down only when asked, and brought
\* down every time it is asked.
LifecycleSpec == Lifecycle!FairSpec

\* The safety part alone, which needs no fairness.
LifecycleSafety == Lifecycle!Spec
=============================================================================
