--------------------------- MODULE Runtime_proofs ---------------------------
(***************************************************************************)
(* Safety of the runtime manager for any set of Python threads, any set of *)
(* allocation addresses, console or worker, with or without the flag, and  *)
(* any readiness bound; and of the two-process program around it: what     *)
(* RuntimeManager guarantees carries over to the worker process, and the   *)
(* one distributed_sum of each site is right.                              *)
(***************************************************************************)
EXTENDS Localities, TLAPS

-----------------------------------------------------------------------------
(* Type correctness *)

\* Init and every step of the process keep the state in its types; in
\* particular the polling loop never runs past MaxPolls + 1.
LEMMA TypeStep == TypeOK /\ [Next]_vars => TypeOK'
<1> SUFFICES ASSUME TypeOK, [Next]_vars PROVE TypeOK'
  OBVIOUS
<1> USE DEF TypeOK, PCs, HpxStates, HmPCs
<1>1. ASSUME NEW t \in Threads, InitCheck(t) \/ FinalizeCheck(t) \/ InitRuntimeExisting(t)
             \/ CtorBlock(t) \/ CtorSpurious(t)
      PROVE TypeOK'
  BY <1>1 DEF InitCheck, FinalizeCheck, InitRuntimeExisting, CtorBlock, CtorSpurious,
              Goto, mgrVars, hpxVars
<1>2. ASSUME NEW t \in Threads, NEW m \in Managers, InitRuntimeNew(t, m)
      PROVE TypeOK'
  <2>1. polls' \in 0 .. MaxPolls + 1
    BY <1>2, MaxPollsAssumption DEF InitRuntimeNew
  <2>2. /\ hpx' \in HpxStates /\ hm' \in HmPCs /\ hmThis' \in Managers \cup {None}
        /\ aborted' \in BOOLEAN
    BY <1>2 DEF InitRuntimeNew, hpxVars
  <2>3. pc' \in [Threads -> PCs] /\ self' \in [Threads -> Managers \cup {None}]
    BY <1>2 DEF InitRuntimeNew, Goto
  <2>4. rts' \in [Managers -> BOOLEAN] /\ running' \in [Managers -> BOOLEAN]
    BY <1>2 DEF InitRuntimeNew
  <2> QED
    BY <1>2, <2>1, <2>2, <2>3, <2>4 DEF InitRuntimeNew
<1>3. ASSUME NEW t \in Threads, CtorReturn(t) \/ CtorThrow(t) \/ InitFlag(t)
      PROVE TypeOK'
  BY <1>3 DEF CtorReturn, CtorThrow, InitFlag, Goto, mgrVars, hpxVars
<1>9. ASSUME NEW t \in Threads, CtorPoll(t)
      PROVE TypeOK'
  <2>1. polls' \in 0 .. MaxPolls + 1
    BY <1>9, MaxPollsAssumption DEF CtorPoll
  <2> QED
    BY <1>9, <2>1 DEF CtorPoll, mgrVars, hpxVars
<1>4. ASSUME NEW t \in Threads, FinalizeRuntime(t) \/ FinalizeFlag(t)
      PROVE TypeOK'
  BY <1>4 DEF FinalizeRuntime, FinalizeFlag, Goto, mgrVars, hpxVars
<1>5. ASSUME NEW t \in Threads, DtorClear(t) \/ DtorNotify(t) \/ DtorStop(t)
      PROVE TypeOK'
  BY <1>5 DEF DtorClear, DtorNotify, DtorStop, Goto, mgrVars, hpxVars
<1>6. CASE HmMain \/ HmSpuriousWake
  BY <1>6 DEF HmMain, HmSpuriousWake, HmSetRts, HmSetRunning, HmNotify, HmCheck, HmWoken,
              HmFinalize, HmStep, pyVars, mgrVars
<1>7. CASE HpxUp \/ HpxBroadcast
  BY <1>7 DEF HpxUp, HpxBroadcast, pyVars, mgrVars
<1>8. CASE Aborted \/ UNCHANGED vars
  BY <1>8 DEF Aborted, vars
<1> QED
  BY <1>1, <1>2, <1>3, <1>4, <1>5, <1>6, <1>7, <1>8, <1>9 DEF Next, ConsoleNext, InCall, SharedCall

\* The type invariant holds of every behaviour.
THEOREM TypeCorrect == Spec => []TypeOK
<1>1. Init => TypeOK
  <2>1. 0 \in 0 .. MaxPolls + 1
    BY MaxPollsAssumption
  <2> QED
    BY <2>1 DEF Init, TypeOK, PCs, HpxStates, HmPCs
<1> QED
  BY <1>1, TypeStep, PTL DEF Spec

-----------------------------------------------------------------------------
(* Ownership of the managers *)

\* A thread holds a manager of its own exactly while it constructs or deletes.
SelfHeld == \A t \in Threads : self[t] # None <=> pc[t] \in InCtor \cup InDtor

\* The GIL, kept by the constructing thread, protects g_rts until it is set:
\* without it two constructors could both find it null and one be leaked.
CtorHoldsGil == \A t \in Threads : pc[t] \in InCtor => gil = t /\ g_rts = None

\* hpx_main runs on the console only, bound to a live manager.
MainBound ==
    /\ ~RunsMain => hm = "none"
    /\ hm # "none" => hmThis \in alive

OwnInv == SelfHeld /\ CtorHoldsGil /\ OwnedOnce /\ MainBound

LEMMA OwnStep == TypeOK /\ OwnInv /\ [Next]_vars => OwnInv'
<1> SUFFICES ASSUME TypeOK, OwnInv, [Next]_vars PROVE OwnInv'
  OBVIOUS
<1> USE DEF TypeOK, PCs, HpxStates, HmPCs, OwnInv, SelfHeld, CtorHoldsGil, OwnedOnce, MainBound,
           InCtor, InDtor
<1>1. ASSUME NEW t \in Threads, InitCheck(t) \/ FinalizeCheck(t) \/ InitRuntimeExisting(t)
             \/ CtorBlock(t) \/ CtorSpurious(t)
      PROVE OwnInv'
  BY <1>1 DEF InitCheck, FinalizeCheck, InitRuntimeExisting, CtorBlock, CtorSpurious,
              HasGil, Goto, mgrVars, hpxVars
<1>2. ASSUME NEW t \in Threads, NEW m \in Managers, InitRuntimeNew(t, m)
      PROVE OwnInv'
  <2>1. SelfHeld' /\ CtorHoldsGil'
    BY <1>2, NoneAssumption DEF InitRuntimeNew, HasGil, Goto
  <2>2. OwnedOnce'
    BY <1>2, NoneAssumption DEF InitRuntimeNew, HasGil, Goto
  <2>3. CASE hpx = "down"
    <3>1. hm' = (IF RunsMain THEN "entry" ELSE "none") /\ (RunsMain => hmThis' = m)
      BY <1>2, <2>3, FlagsAssumption DEF InitRuntimeNew
    <3>2. m \in alive'
      BY <1>2 DEF InitRuntimeNew
    <3>3. MainBound'
      BY <3>1, <3>2, FlagsAssumption DEF MainBound
    <3> QED
      BY <2>1, <2>2, <3>3
  <2>4. CASE hpx # "down"
    BY <1>2, <2>1, <2>2, <2>4 DEF InitRuntimeNew, HasGil, hpxVars
  <2> QED
    BY <2>3, <2>4
<1>3. ASSUME NEW t \in Threads, CtorReturn(t) PROVE OwnInv'
  BY <1>3, NoneAssumption DEF CtorReturn, Goto, mgrVars, hpxVars
<1>4. ASSUME NEW t \in Threads, CtorPoll(t) \/ InitFlag(t) \/ FinalizeFlag(t) PROVE OwnInv'
  BY <1>4 DEF CtorPoll, InitFlag, FinalizeFlag, HasGil, Goto, mgrVars, hpxVars
<1>5. ASSUME NEW t \in Threads, CtorThrow(t) PROVE OwnInv'
  BY <1>5, RoleAssumption DEF CtorThrow, Goto, hpxVars
<1>6. ASSUME NEW t \in Threads, FinalizeRuntime(t) PROVE OwnInv'
  BY <1>6 DEF FinalizeRuntime, HasGil, Goto, mgrVars, hpxVars
<1>7. ASSUME NEW t \in Threads, DtorClear(t) \/ DtorNotify(t) PROVE OwnInv'
  BY <1>7 DEF DtorClear, DtorNotify, Goto, mgrVars, hpxVars
<1>8. ASSUME NEW t \in Threads, DtorStop(t) PROVE OwnInv'
  BY <1>8 DEF DtorStop, Goto
<1>9. CASE HmMain \/ HmSpuriousWake
  BY <1>9 DEF HmMain, HmSpuriousWake, HmSetRts, HmSetRunning, HmNotify, HmCheck, HmWoken,
              HmFinalize, HmStep, pyVars, mgrVars
<1>10. CASE HpxUp \/ HpxBroadcast \/ Aborted \/ UNCHANGED vars
  BY <1>10 DEF HpxUp, HpxBroadcast, Aborted, vars, pyVars, mgrVars
<1> QED
  BY <1>1, <1>2, <1>3, <1>4, <1>5, <1>6, <1>7, <1>8, <1>9, <1>10 DEF Next, ConsoleNext, InCall, SharedCall

LEMMA OwnInvariant == Spec => [](TypeOK /\ OwnInv)
<1>1. Init => OwnInv
  BY NoneAssumption DEF Init, OwnInv, SelfHeld, CtorHoldsGil, OwnedOnce, MainBound,
                        InCtor, InDtor
<1> QED
  BY <1>1, OwnStep, TypeCorrect, PTL DEF Spec

\* However init and finalize race, no manager is leaked, deleted twice or left
\* dangling in g_rts.
THEOREM OwnedOnceHolds == Spec => []OwnedOnce
BY OwnInvariant, PTL DEF OwnInv

\* hpx_main never touches a manager whose storage was released.
THEOREM NoUseAfterFreeHolds == Spec => []NoUseAfterFree
<1>1. OwnInv => NoUseAfterFree
  BY DEF OwnInv, MainBound, NoUseAfterFree
<1> QED
  BY <1>1, OwnInvariant, PTL

-----------------------------------------------------------------------------
(* The runtime stops on request only *)

\* hpx_main finds rts_ null, or is woken, only when the destructor of its own
\* manager has cleared rts_ and still waits for the runtime.
StopInv ==
    /\ StopOnRequest
    /\ hm \in {"set_running", "notify", "check", "waiting"} /\ ~rts[hmThis] =>
          \E t \in Threads : self[t] = hmThis /\ pc[t] \in {"dtor_notify", "dtor_stop"}

LEMMA StopStep ==
    ASSUME ~SpuriousWakeups
    PROVE  TypeOK /\ OwnInv /\ StopInv /\ [Next]_vars => StopInv'
<1> SUFFICES ASSUME TypeOK, OwnInv, StopInv, [Next]_vars PROVE StopInv'
  OBVIOUS
<1> USE DEF TypeOK, PCs, HpxStates, HmPCs, StopInv, StopOnRequest
<1>1. ASSUME NEW t \in Threads, InitCheck(t) \/ FinalizeCheck(t) \/ InitRuntimeExisting(t)
             \/ CtorBlock(t) \/ CtorSpurious(t)
      PROVE StopInv'
  BY <1>1 DEF InitCheck, FinalizeCheck, InitRuntimeExisting, CtorBlock, CtorSpurious,
              HasGil, Goto, mgrVars, hpxVars
<1>2. ASSUME NEW t \in Threads, NEW m \in Managers, InitRuntimeNew(t, m)
      PROVE StopInv'
  <2>1. CASE hpx = "down"
    BY <1>2, <2>1, FlagsAssumption DEF InitRuntimeNew
  <2>2. CASE hpx # "down"
    <3>1. UNCHANGED hpxVars /\ (hm # "none" => hmThis \in alive /\ hmThis # m)
      BY <1>2, <2>2 DEF InitRuntimeNew, OwnInv, MainBound
    <3>2. hm # "none" => rts'[hmThis] = rts[hmThis]
      BY <1>2, <3>1 DEF InitRuntimeNew
    <3>3. \A u \in Threads : pc[u] \in {"dtor_notify", "dtor_stop"} =>
                               pc'[u] = pc[u] /\ self'[u] = self[u]
      BY <1>2 DEF InitRuntimeNew, HasGil, Goto
    <3> QED
      BY <3>1, <3>2, <3>3 DEF hpxVars
  <2> QED
    BY <2>1, <2>2
<1>3. ASSUME NEW t \in Threads, CtorReturn(t) \/ CtorPoll(t) \/ CtorThrow(t)
             \/ InitFlag(t) \/ FinalizeFlag(t) \/ FinalizeRuntime(t)
      PROVE StopInv'
  BY <1>3 DEF CtorReturn, CtorPoll, CtorThrow, InitFlag, FinalizeFlag, FinalizeRuntime,
              HasGil, Goto, mgrVars, hpxVars
<1>4. ASSUME NEW t \in Threads, DtorClear(t) PROVE StopInv'
  BY <1>4 DEF DtorClear, Goto, hpxVars
<1>5. ASSUME NEW t \in Threads, DtorNotify(t) PROVE StopInv'
  BY <1>5 DEF DtorNotify, Goto, mgrVars
<1>6. ASSUME NEW t \in Threads, DtorStop(t) PROVE StopInv'
  BY <1>6 DEF DtorStop
<1>7. CASE HmSetRts
  BY <1>7, NoneAssumption DEF HmSetRts, HmStep, pyVars, OwnInv, MainBound
<1>8. CASE HmSetRunning \/ HmNotify \/ HmCheck \/ HmWoken \/ HmFinalize
  BY <1>8 DEF HmSetRunning, HmNotify, HmCheck, HmWoken, HmFinalize, HmStep, pyVars, mgrVars
<1>9. CASE HpxUp \/ HpxBroadcast \/ Aborted \/ UNCHANGED vars
  BY <1>9 DEF HpxUp, HpxBroadcast, Aborted, vars, pyVars, mgrVars
<1> QED
  BY <1>1, <1>2, <1>3, <1>4, <1>5, <1>6, <1>7, <1>8, <1>9
     DEF Next, ConsoleNext, InCall, SharedCall, HmMain, HmSpuriousWake

LEMMA StopInvariant ==
    ASSUME ~SpuriousWakeups
    PROVE  Spec => [](TypeOK /\ OwnInv /\ StopInv)
<1>1. Init => StopInv
  BY DEF Init, StopInv, StopOnRequest
<1> QED
  BY <1>1, StopStep, OwnInvariant, PTL DEF Spec

\* Without spurious wakeups the runtime winds down only for a destructor that
\* waits for it.
THEOREM StopOnRequestHolds ==
    ASSUME ~SpuriousWakeups
    PROVE  Spec => []StopOnRequest
<1>1. StopInv => StopOnRequest
  BY DEF StopInv
<1> QED
  BY <1>1, StopInvariant, PTL

-----------------------------------------------------------------------------
(* The console's manager implements HpxLifecycle *)

\* One runtime, one manager: the console's runtime exists exactly while the
\* manager hpx_main is bound to does (a second manager aborts the process).
OneManager ==
    ~aborted => /\ hpx = "down" => alive = {} /\ hm = "none"
                /\ hpx # "down" => alive = {hmThis} /\ hm # "none"

\* How far hpx_main is says what the runtime and running_ are.
MainAgrees ==
    /\ hm \in {"entry"} => hpx \in {"starting", "running"}
    /\ hm \in {"set_running", "notify", "check", "waiting", "woken", "finalize"} =>
          hpx = "running"
    /\ hm = "done" => hpx = "finalized"
    /\ hm \in {"entry", "set_running"} => ~running[hmThis]

\* A manager is published, or deleted, only after hpx_main set running_.
PublishedReady ==
    ~aborted /\ (g_rts # None \/ \E t \in Threads : pc[t] \in InDtor) =>
        hm \notin {"entry", "set_running"}

BindInv == OneManager /\ MainAgrees /\ PublishedReady

LEMMA BindStep ==
    ASSUME RunsMain
    PROVE  TypeOK /\ OwnInv /\ BindInv /\ [Next]_vars => BindInv'
<1> SUFFICES ASSUME TypeOK, OwnInv, BindInv, [Next]_vars PROVE BindInv'
  OBVIOUS
<1> USE DEF TypeOK, PCs, HpxStates, HmPCs, BindInv, OneManager, MainAgrees, PublishedReady,
            InDtor
<1>1. ASSUME NEW t \in Threads, InitCheck(t) \/ FinalizeCheck(t) \/ InitRuntimeExisting(t)
             \/ CtorBlock(t) \/ CtorSpurious(t)
      PROVE BindInv'
  BY <1>1 DEF InitCheck, FinalizeCheck, InitRuntimeExisting, CtorBlock, CtorSpurious,
              HasGil, Goto, mgrVars, hpxVars
<1>2. ASSUME NEW t \in Threads, NEW m \in Managers, InitRuntimeNew(t, m)
      PROVE BindInv'
  <2>1. CASE hpx = "down"
    <3>1. alive = {} /\ \A u \in Threads : self[u] = None
      BY <1>2, <2>1 DEF InitRuntimeNew, HasGil, OwnInv, OwnedOnce
    <3>2. \A u \in Threads : pc'[u] \notin InDtor
      BY <1>2, <3>1 DEF InitRuntimeNew, Goto, OwnInv, SelfHeld
    <3>3. hpx' = "starting" /\ hm' = "entry" /\ hmThis' = m /\ alive' = {m} /\ ~running'[m]
      BY <1>2, <2>1, <3>1 DEF InitRuntimeNew
    <3> QED
      BY <1>2, <3>2, <3>3 DEF InitRuntimeNew
  <2>2. CASE hpx # "down"
    <3>1. aborted' /\ UNCHANGED hpxVars /\ (hm # "none" => hmThis \in alive /\ hmThis # m)
      BY <1>2, <2>2 DEF InitRuntimeNew, OwnInv, MainBound
    <3>2. hm # "none" => running'[hmThis] = running[hmThis]
      BY <1>2, <3>1 DEF InitRuntimeNew
    <3> QED
      BY <3>1, <3>2 DEF hpxVars
  <2> QED
    BY <2>1, <2>2
<1>3. ASSUME NEW t \in Threads, CtorReturn(t) PROVE BindInv'
  <2>1. self[t] = hmThis /\ hm # "none"
    BY <1>3 DEF CtorReturn, OwnInv, OwnedOnce, SelfHeld, InCtor
  <2>2. hm \notin {"entry", "set_running"}
    BY <1>3, <2>1, RoleAssumption DEF CtorReturn
  <2> QED
    BY <1>3, <2>2 DEF CtorReturn, mgrVars, hpxVars
<1>4. ASSUME NEW t \in Threads, CtorPoll(t) \/ CtorThrow(t) \/ InitFlag(t) \/ FinalizeFlag(t)
      PROVE BindInv'
  BY <1>4, RoleAssumption DEF CtorPoll, CtorThrow, InitFlag, FinalizeFlag, HasGil, Goto, mgrVars, hpxVars
<1>5. ASSUME NEW t \in Threads, FinalizeRuntime(t) PROVE BindInv'
  BY <1>5 DEF FinalizeRuntime, HasGil, Goto, mgrVars, hpxVars
<1>6. ASSUME NEW t \in Threads, DtorClear(t) \/ DtorNotify(t) PROVE BindInv'
  BY <1>6 DEF DtorClear, DtorNotify, Goto, mgrVars, hpxVars
<1>7. ASSUME NEW t \in Threads, DtorStop(t) PROVE BindInv'
  <2>1. alive = {hmThis} /\ self[t] = hmThis
    <3>1. alive = {hmThis}
      BY <1>7 DEF DtorStop
    <3>2. self[t] \in alive
      BY <1>7 DEF DtorStop, OwnInv, OwnedOnce, SelfHeld
    <3> QED
      BY <3>1, <3>2
  <2> QED
    BY <1>7, <2>1 DEF DtorStop
<1>8. CASE HmMain \/ HmSpuriousWake
  <2>1. hm # "none" => hmThis \in Managers
    BY DEF OwnInv, MainBound
  <2> QED
    BY <1>8, <2>1 DEF HmMain, HmSpuriousWake, HmSetRts, HmSetRunning, HmNotify, HmCheck,
              HmWoken, HmFinalize, HmStep, pyVars, mgrVars
<1>9. CASE HpxUp \/ HpxBroadcast \/ Aborted \/ UNCHANGED vars
  BY <1>9 DEF HpxUp, HpxBroadcast, Aborted, vars, pyVars, mgrVars
<1> QED
  BY <1>1, <1>2, <1>3, <1>4, <1>5, <1>6, <1>7, <1>8, <1>9 DEF Next, ConsoleNext, InCall, SharedCall

LEMMA BindInvariant ==
    ASSUME RunsMain
    PROVE  Spec => []BindInv
<1>1. Init => BindInv
  BY DEF Init, BindInv, OneManager, MainAgrees, PublishedReady, InDtor
<1> QED
  BY <1>1, BindStep, OwnInvariant, PTL DEF Spec

\* Every step of the console's manager is a step of HpxLifecycle or a stutter.
LEMMA LifecycleStep ==
    ASSUME RunsMain, ~SpuriousWakeups
    PROVE  TypeOK /\ OwnInv /\ StopInv /\ BindInv /\ [Next]_vars
             => [Lifecycle!Next]_(Lifecycle!vars)
<1> SUFFICES ASSUME TypeOK, OwnInv, StopInv, BindInv, [Next]_vars
             PROVE [Lifecycle!Next]_(Lifecycle!vars)
  OBVIOUS
<1> DEFINE Same == Phase' = Phase /\ aborted' = aborted /\ StopRequested' = StopRequested
<1>0. Same => [Lifecycle!Next]_(Lifecycle!vars)
  BY DEF Lifecycle!vars
<1> USE DEF TypeOK, PCs, HpxStates, HmPCs
<1>1. ASSUME NEW t \in Threads, InitCheck(t) \/ FinalizeCheck(t) \/ InitRuntimeExisting(t)
             \/ CtorBlock(t) \/ CtorSpurious(t) \/ CtorPoll(t) \/ CtorThrow(t)
             \/ CtorReturn(t) \/ InitFlag(t) \/ FinalizeFlag(t) \/ FinalizeRuntime(t)
      PROVE Same
  BY <1>1 DEF InitCheck, FinalizeCheck, InitRuntimeExisting, CtorBlock, CtorSpurious,
     CtorPoll, CtorThrow, CtorReturn, InitFlag, FinalizeFlag, FinalizeRuntime, HasGil, Goto,
     mgrVars, hpxVars, Phase, StopRequested
<1>2. ASSUME NEW t \in Threads, NEW m \in Managers, InitRuntimeNew(t, m)
      PROVE Lifecycle!Start \/ Lifecycle!Abort
  <2>1. StopRequested' = StopRequested /\ ~aborted
    BY <1>2 DEF InitRuntimeNew, HasGil, Goto, StopRequested
  <2>2. CASE hpx = "down"
    BY <1>2, <2>1, <2>2 DEF InitRuntimeNew, Lifecycle!Start, Phase
  <2>3. CASE hpx # "down"
    BY <1>2, <2>1, <2>3 DEF InitRuntimeNew, hpxVars, Lifecycle!Abort, Phase
  <2> QED
    BY <2>2, <2>3
<1>3. ASSUME NEW t \in Threads, DtorClear(t) PROVE Lifecycle!Request \/ Same
  <2>1. self[t] = hmThis /\ hm # "none" /\ ~aborted
    BY <1>3 DEF DtorClear, OwnInv, OwnedOnce, SelfHeld, InDtor, BindInv, OneManager
  <2>2. hm \notin {"entry", "set_running"}
    BY <1>3, <2>1 DEF DtorClear, BindInv, PublishedReady, InDtor
  <2>3. ASSUME hm \in {"woken", "finalize", "done"} PROVE FALSE
    BY <1>3, <2>1, <2>3, NoneAssumption
       DEF DtorClear, StopInv, StopOnRequest, OwnInv, OwnedOnce, MainBound
  <2>4. hpx = "running"
    BY <2>1, <2>2, <2>3 DEF BindInv, MainAgrees
  <2>5. StopRequested' /\ UNCHANGED <<hpx, aborted>>
    BY <1>3 DEF DtorClear, Goto, hpxVars, StopRequested
  <2>6. CASE StopRequested
    BY <2>5, <2>6 DEF Phase, StopRequested
  <2>7. CASE ~StopRequested
    <3>1. StopRequested' = TRUE /\ Phase = "up" /\ Phase' = Phase /\ aborted' = aborted
      BY <2>4, <2>5 DEF Phase, StopRequested
    <3> QED
      BY <2>1, <2>7, <3>1 DEF Lifecycle!Request
  <2> QED
    BY <2>6, <2>7
<1>4. ASSUME NEW t \in Threads, DtorNotify(t) PROVE Same
  BY <1>4 DEF DtorNotify, Goto, mgrVars, Phase, StopRequested
<1>5. ASSUME NEW t \in Threads, DtorStop(t) PROVE Lifecycle!Stop
  <2>1. \A u \in Threads : pc[u] \in InDtor => u = t
    BY <1>5 DEF DtorStop, OwnInv, OwnedOnce, SelfHeld, InCtor, InDtor, BindInv, OneManager
  <2>2. StopRequested' = FALSE
    BY <1>5, <2>1 DEF DtorStop, Goto, StopRequested, InDtor
  <2>3. Phase = "draining" /\ Phase' = "down" /\ ~aborted /\ aborted' = aborted
    BY <1>5 DEF DtorStop, Phase
  <2> QED
    BY <2>2, <2>3 DEF Lifecycle!Stop
<1>6. ASSUME HmSetRts \/ HmSetRunning \/ HmNotify \/ HmCheck \/ HmWoken PROVE Same
  BY <1>6 DEF HmSetRts, HmSetRunning, HmNotify, HmCheck, HmWoken, HmStep, pyVars, mgrVars,
     Phase, StopRequested
<1>7. ASSUME HmFinalize PROVE Lifecycle!Drain
  <2>1. hpx = "running" /\ StopRequested /\ ~aborted
    BY <1>7 DEF HmFinalize, HmStep, BindInv, MainAgrees, StopInv, StopOnRequest, StopRequested
  <2>2. Phase = "up" /\ Phase' = "draining" /\ aborted' = aborted
        /\ StopRequested' = StopRequested
    BY <1>7, <2>1 DEF HmFinalize, HmStep, pyVars, mgrVars, Phase, StopRequested
  <2> QED
    BY <2>1, <2>2 DEF Lifecycle!Drain
<1>8. ASSUME HpxUp PROVE Lifecycle!ComeUp
  <2>1. /\ ~aborted /\ aborted' = aborted /\ StopRequested' = StopRequested
        /\ Phase = "starting" /\ Phase' = "up"
    BY <1>8 DEF HpxUp, pyVars, mgrVars, Phase, StopRequested
  <2> QED
    BY <2>1 DEF Lifecycle!ComeUp
<1>9. ASSUME Aborted \/ UNCHANGED vars PROVE Same
  BY <1>9 DEF Aborted, vars, Phase, StopRequested
<1> QED
  BY <1>0, <1>1, <1>2, <1>3, <1>4, <1>5, <1>6, <1>7, <1>8, <1>9
     DEF Next, ConsoleNext, InCall, SharedCall, HmMain, HmSpuriousWake, HpxBroadcast, Lifecycle!Next

\* The console's runtime manager implements the abstract life cycle (its
\* safety part) for any number of racing threads.
THEOREM LifecycleRefined ==
    ASSUME RunsMain, ~SpuriousWakeups
    PROVE  Spec => LifecycleSafety
<1>1. Init => Lifecycle!Init
  <2>1. ASSUME Init PROVE Phase = "down" /\ StopRequested = FALSE /\ aborted = FALSE
    BY <2>1 DEF Init, Phase, StopRequested
  <2> QED
    BY <2>1 DEF Lifecycle!Init
<1> QED
  BY <1>1, LifecycleStep, StopInvariant, BindInvariant, PTL
     DEF Spec, LifecycleSafety, Lifecycle!Spec

-----------------------------------------------------------------------------
(* Programs that make one call at a time *)

\* What hpx_main stores in its manager stays until that manager's destructor
\* clears rts_.
HandlesSet ==
    /\ hm \notin {"none", "entry", "set_running"} => running[hmThis]
    /\ hm \notin {"none", "entry"} /\ ~rts[hmThis] =>
          \E t \in Threads : self[t] = hmThis /\ pc[t] \in {"dtor_notify", "dtor_stop"}

LEMMA HandlesStep == TypeOK /\ OwnInv /\ HandlesSet /\ [Next]_vars => HandlesSet'
<1> SUFFICES ASSUME TypeOK, OwnInv, HandlesSet, [Next]_vars PROVE HandlesSet'
  OBVIOUS
<1> USE DEF TypeOK, PCs, HpxStates, HmPCs, HandlesSet
<1>1. ASSUME NEW t \in Threads, InitCheck(t) \/ FinalizeCheck(t) \/ InitRuntimeExisting(t)
             \/ CtorBlock(t) \/ CtorSpurious(t)
      PROVE HandlesSet'
  BY <1>1 DEF InitCheck, FinalizeCheck, InitRuntimeExisting, CtorBlock, CtorSpurious,
              HasGil, Goto, mgrVars, hpxVars
<1>2. ASSUME NEW t \in Threads, NEW m \in Managers, InitRuntimeNew(t, m)
      PROVE HandlesSet'
  <2>1. CASE hpx = "down"
    BY <1>2, <2>1, FlagsAssumption DEF InitRuntimeNew
  <2>2. CASE hpx # "down"
    <3>1. UNCHANGED hpxVars /\ (hm # "none" => hmThis \in alive /\ hmThis # m)
      BY <1>2, <2>2 DEF InitRuntimeNew, OwnInv, MainBound
    <3>2. hm # "none" => rts'[hmThis] = rts[hmThis] /\ running'[hmThis] = running[hmThis]
      BY <1>2, <3>1 DEF InitRuntimeNew
    <3>3. \A u \in Threads : pc[u] \in {"dtor_notify", "dtor_stop"} =>
                               pc'[u] = pc[u] /\ self'[u] = self[u]
      BY <1>2 DEF InitRuntimeNew, HasGil, Goto
    <3> QED
      BY <3>1, <3>2, <3>3 DEF hpxVars
  <2> QED
    BY <2>1, <2>2
<1>3. ASSUME NEW t \in Threads, CtorReturn(t) \/ CtorPoll(t) \/ CtorThrow(t)
             \/ InitFlag(t) \/ FinalizeFlag(t) \/ FinalizeRuntime(t)
      PROVE HandlesSet'
  BY <1>3 DEF CtorReturn, CtorPoll, CtorThrow, InitFlag, FinalizeFlag, FinalizeRuntime,
              HasGil, Goto, mgrVars, hpxVars
<1>4. ASSUME NEW t \in Threads, DtorClear(t) PROVE HandlesSet'
  BY <1>4 DEF DtorClear, Goto, hpxVars
<1>5. ASSUME NEW t \in Threads, DtorNotify(t) PROVE HandlesSet'
  BY <1>5 DEF DtorNotify, Goto, mgrVars
<1>6. ASSUME NEW t \in Threads, DtorStop(t) PROVE HandlesSet'
  BY <1>6 DEF DtorStop
<1>7. CASE HmSetRts \/ HmSetRunning
  <2>1. hmThis \in Managers
    BY <1>7 DEF HmSetRts, HmSetRunning, HmStep, OwnInv, MainBound
  <2> QED
    BY <1>7, <2>1 DEF HmSetRts, HmSetRunning, HmStep, pyVars
<1>8. CASE HmNotify
  BY <1>8 DEF HmNotify, HmStep, mgrVars
<1>9. CASE HmCheck \/ HmWoken \/ HmFinalize \/ HmSpuriousWake
  BY <1>9 DEF HmCheck, HmWoken, HmFinalize, HmSpuriousWake, HmStep, pyVars, mgrVars
<1>10. CASE HpxUp \/ HpxBroadcast \/ Aborted \/ UNCHANGED vars
  BY <1>10 DEF HpxUp, HpxBroadcast, Aborted, vars, pyVars, mgrVars
<1> QED
  BY <1>1, <1>2, <1>3, <1>4, <1>5, <1>6, <1>7, <1>8, <1>9, <1>10
     DEF Next, ConsoleNext, InCall, SharedCall, HmMain

LEMMA HandlesInvariant == Spec => []HandlesSet
<1>1. Init => HandlesSet
  BY DEF Init, HandlesSet
<1> QED
  BY <1>1, HandlesStep, OwnInvariant, PTL DEF Spec

Quiet == \A t \in Threads : pc[t] = "idle"

\* One call at a time.
OneCall == \A t, u \in Threads : pc[t] # "idle" /\ pc[u] # "idle" => t = u

\* How far that call is says what the Python flag and g_rts are.
FlagAgrees ==
    /\ Quiet => (initialized <=> g_rts # None)
    /\ \A t \in Threads :
        /\ pc[t] = "i_call" \/ pc[t] \in InCtor => ~initialized /\ g_rts = None
        /\ pc[t] = "i_flag" => ~initialized /\ g_rts # None
        /\ pc[t] = "f_call" => initialized /\ g_rts # None
        /\ pc[t] \in InDtor \/ pc[t] = "f_flag" => initialized /\ g_rts = None

SerialInv == OneCall /\ FlagAgrees /\ NoAbort

LEMMA SerialStep ==
    ASSUME Serialized, RunsMain
    PROVE  TypeOK /\ OwnInv /\ BindInv /\ SerialInv /\ [Next]_vars => SerialInv'
<1> SUFFICES ASSUME TypeOK, OwnInv, BindInv, SerialInv, [Next]_vars PROVE SerialInv'
  OBVIOUS
<1> USE RoleAssumption DEF TypeOK, PCs, SerialInv, OneCall, FlagAgrees, Quiet, NoAbort, InCtor, InDtor
<1>1. ASSUME NEW t \in Threads, InitCheck(t) \/ FinalizeCheck(t) PROVE SerialInv'
  BY <1>1 DEF InitCheck, FinalizeCheck, HasGil, MayCall, Goto
<1>2. ASSUME NEW t \in Threads, NEW m \in Managers, InitRuntimeNew(t, m) PROVE SerialInv'
  <2>1. g_rts = None /\ \A u \in Threads : self[u] = None
    BY <1>2 DEF InitRuntimeNew, HasGil, OwnInv, SelfHeld
  <2>2. hpx = "down"
    BY <2>1 DEF OwnInv, OwnedOnce, MainBound, BindInv, OneManager
  <2> QED
    BY <1>2, <2>2 DEF InitRuntimeNew, HasGil, Goto
<1>3. ASSUME NEW t \in Threads, InitRuntimeExisting(t) \/ CtorBlock(t) \/ CtorSpurious(t)
      PROVE SerialInv'
  BY <1>3 DEF InitRuntimeExisting, CtorBlock, CtorSpurious, HasGil, Goto
<1>4. ASSUME NEW t \in Threads, CtorReturn(t) PROVE SerialInv'
  <2>1. self[t] # None
    BY <1>4 DEF CtorReturn, OwnInv, SelfHeld
  <2> QED
    BY <1>4, <2>1 DEF CtorReturn, Goto
<1>5. ASSUME NEW t \in Threads, InitFlag(t) \/ FinalizeFlag(t) PROVE SerialInv'
  BY <1>5 DEF InitFlag, FinalizeFlag, HasGil, Goto
<1>6. ASSUME NEW t \in Threads, FinalizeRuntime(t) PROVE SerialInv'
  BY <1>6 DEF FinalizeRuntime, HasGil, Goto
<1>7. ASSUME NEW t \in Threads, DtorClear(t) \/ DtorNotify(t) \/ DtorStop(t) PROVE SerialInv'
  BY <1>7 DEF DtorClear, DtorNotify, DtorStop, Goto
<1>8. CASE HmNotify
  BY <1>8 DEF HmNotify, HmStep
<1>9. CASE HmSetRts \/ HmSetRunning \/ HmCheck \/ HmWoken \/ HmFinalize \/ HmSpuriousWake
  BY <1>9 DEF HmSetRts, HmSetRunning, HmCheck, HmWoken, HmFinalize, HmSpuriousWake, HmStep,
              pyVars
<1>10. CASE HpxUp \/ Aborted \/ UNCHANGED vars
  BY <1>10 DEF HpxUp, Aborted, vars, pyVars
<1> QED
  BY <1>1, <1>2, <1>3, <1>4, <1>5, <1>6, <1>7, <1>8, <1>9, <1>10
     DEF Next, ConsoleNext, SharedCall, HmMain, CtorPoll, CtorThrow, HpxBroadcast

LEMMA SerialInvariant ==
    ASSUME Serialized, RunsMain
    PROVE  Spec => [](TypeOK /\ OwnInv /\ BindInv /\ HandlesSet /\ SerialInv)
<1>1. Init => SerialInv
  BY DEF Init, SerialInv, OneCall, FlagAgrees, Quiet, NoAbort, InCtor, InDtor
<1> QED
  BY <1>1, SerialStep, OwnInvariant, BindInvariant, HandlesInvariant, PTL DEF Spec

\* On a console whose program makes one init or finalize call at a time, no
\* call ever starts HPX twice.
THEOREM NoAbortHolds ==
    ASSUME Serialized, RunsMain
    PROVE  Spec => []NoAbort
<1>1. SerialInv => NoAbort
  BY DEF SerialInv
<1> QED
  BY <1>1, SerialInvariant, PTL

\* Between the calls of such a program the Python flag, g_rts and the runtime
\* agree, and a runtime that is there has both its handles: also when
\* condition variables wake for no reason.
THEOREM QuiescentAgreesHolds ==
    ASSUME Serialized, RunsMain
    PROVE  Spec => []QuiescentAgrees
<1>1. TypeOK /\ OwnInv /\ BindInv /\ HandlesSet /\ SerialInv => QuiescentAgrees
  <2> SUFFICES ASSUME TypeOK, OwnInv, BindInv, HandlesSet, SerialInv, ~aborted,
                      \A t \in Threads : pc[t] = "idle"
               PROVE  /\ initialized <=> hpx # "down"
                      /\ initialized <=> g_rts # None
                      /\ initialized => hpx # "starting" /\ rts[g_rts] /\ running[g_rts]
    BY DEF QuiescentAgrees
  <2>1. initialized <=> g_rts # None
    BY DEF SerialInv, FlagAgrees, Quiet
  <2>2. alive = {g_rts} \ {None}
    BY DEF OwnInv, SelfHeld, OwnedOnce, InCtor, InDtor
  <2>3. initialized <=> hpx # "down"
    BY <2>1, <2>2 DEF BindInv, OneManager
  <2>4. ASSUME initialized PROVE hpx # "starting" /\ rts[g_rts] /\ running[g_rts]
    <3>1. hmThis = g_rts /\ hm # "none"
      BY <2>1, <2>2, <2>3, <2>4 DEF BindInv, OneManager
    <3>2. hm \notin {"entry", "set_running"}
      BY <2>1, <2>4 DEF BindInv, PublishedReady
    <3>3. hpx # "starting"
      BY <3>1, <3>2 DEF TypeOK, HmPCs, BindInv, MainAgrees
    <3>4. rts[g_rts] /\ running[g_rts]
      BY <3>1, <3>2 DEF HandlesSet
    <3> QED
      BY <3>3, <3>4
  <2> QED
    BY <2>1, <2>3, <2>4
<1> QED
  BY <1>1, SerialInvariant, PTL

\* There finalize() returns with the runtime stopped.
THEOREM FinalizeReturnsStoppedHolds ==
    ASSUME Serialized, RunsMain
    PROVE  Spec => FinalizeReturnsStopped
<1>1. TypeOK /\ OwnInv /\ BindInv /\ HandlesSet /\ SerialInv /\ [Next]_vars
        => [\A t \in Threads : FinalizeFlag(t) => hpx = "down"]_vars
  <2> SUFFICES ASSUME OwnInv, BindInv, SerialInv, NEW t \in Threads, FinalizeFlag(t)
               PROVE  hpx = "down"
    OBVIOUS
  <2>1. g_rts = None /\ \A u \in Threads : self[u] = None
    BY DEF FinalizeFlag, HasGil, OwnInv, SelfHeld, InCtor, InDtor, SerialInv, OneCall, FlagAgrees
  <2> QED
    BY <2>1 DEF OwnInv, OwnedOnce, MainBound, BindInv, OneManager, SerialInv, NoAbort
<1> QED
  BY <1>1, SerialInvariant, PTL DEF Spec, FinalizeReturnsStopped

-----------------------------------------------------------------------------
(* The worker process runs RuntimeManager *)

\* The worker process does what RuntimeManager does, so that every theorem
\* about RuntimeManager holds of it.
THEOREM WorkerIsRuntime == LSpec => Spec
<1>1. LInit => Init
  BY DEF LInit
<1>2. [LNext]_allVars => [Next]_vars
  BY DEF LNext, allVars, WorkerStep, SumStep, ConsoleMoves, ConsoleDies
<1> QED
  BY <1>1, <1>2, PTL DEF LSpec, Spec

\* The worker's managers are owned once beside the console as well.
THEOREM WorkerOwnedOnce == LSpec => []OwnedOnce
BY WorkerIsRuntime, OwnedOnceHolds

-----------------------------------------------------------------------------
(* distributed_sum *)

LTypeOK ==
    /\ launched \in BOOLEAN
    /\ console \in {"down", "starting", "up", "draining"}
    /\ asked \in BOOLEAN /\ died \in BOOLEAN
    /\ caller \in [Sites -> {"none", "waiting", "answered", "returned"}]
    /\ slot = [i \in 0 .. 1 |-> slot[i]]
    /\ answer = [s \in Sites |-> answer[s]]

\* Each slot holds its own site's contribution once that site has called, and
\* no site is answered before both have.
SlotsAreCalls ==
    /\ \A s \in Sites : caller[s] = "waiting" => launched
    /\ launched => \A s \in Sites :
            slot[SiteNumber(s)] = IF caller[s] = "none" THEN None ELSE Local(s)
    /\ launched => \A s, u \in Sites :
            caller[s] \in {"answered", "returned"} => caller[u] # "none"

\* Both sites are past all_reduce, and the console's call has returned.
Over == caller[Console] = "returned" /\ caller[WorkerSite] # "waiting"

\* The console asks for the end after its own call, and HPX winds down only
\* when the worker is past its own as well.
ConsoleLasts ==
    /\ asked => caller[Console] = "returned"
    /\ console = "draining" => asked /\ Over

\* Until then the worker's runtime runs on once it is up: init() returned after
\* it had come up, and only the console's end stops it.
WorkerLasts ==
    /\ ~launched => ~initialized
    /\ hpx = "running" => console \in {"starting", "up"} \/ Over
    /\ initialized \/ g_rts # None \/ (\E t \in Threads : pc[t] = "i_flag") =>
            hpx = "running" \/ Over

SumInv == SlotsAreCalls /\ SumAgrees /\ ConsoleLasts /\ WorkerLasts /\ SumNotCutOff

LEMMA SiteNumbers ==
    /\ Console \in Sites /\ WorkerSite \in Sites /\ Console # WorkerSite
    /\ \A s \in Sites : s = Console \/ s = WorkerSite
    /\ SiteNumber(Console) = 0 /\ SiteNumber(WorkerSite) = 1
    /\ \A s \in Sites : Local(s) \in Nat /\ Local(s) # None
BY SlotAssumption DEF Sites, Console, WorkerSite, SiteNumber, Local

\* Calls, answers and returns of the two sites, in any order, keep the slots
\* and the sums right.
LEMMA SlotsStep ==
    ASSUME LTypeOK, SlotsAreCalls, SumAgrees, WorkerLasts, [LNext]_allVars
    PROVE  (LTypeOK /\ SlotsAreCalls /\ SumAgrees)'
<1> USE SiteNumbers DEF LTypeOK, SlotsAreCalls, SumAgrees, CallerAt
<1>1. CASE WorkerStep \/ UNCHANGED allVars
  BY <1>1 DEF WorkerStep, allVars, locVars
<1>2. CASE ConsoleMoves \/ ConsoleDies
  <2>1. UNCHANGED <<launched, caller, slot, answer>>
    BY <1>2 DEF ConsoleMoves, ConsoleDies, ConsoleStart, ConsoleUp, ConsoleFinalize,
       ConsoleDrain, ConsoleStop, ConsoleAbort, ConsoleStep
  <2>2. /\ console' \in {"down", "starting", "up", "draining"}
        /\ asked' \in BOOLEAN /\ died' \in BOOLEAN
    BY <1>2 DEF ConsoleMoves, ConsoleDies, ConsoleStart, ConsoleUp, ConsoleFinalize,
       ConsoleDrain, ConsoleStop, ConsoleAbort, ConsoleStep, Promise!Start, Promise!ComeUp,
       Promise!Request, Promise!Drain, Promise!Stop, Promise!Abort
  <2> QED
    BY <2>1, <2>2
<1>3. ASSUME NEW s \in Sites, SumAlone(s) PROVE (LTypeOK /\ SlotsAreCalls /\ SumAgrees)'
  <2>1. ~launched /\ launched' = launched /\ s = Console
    BY <1>3 DEF SumAlone, Calls, NumLocalities, WorkerLasts
  <2>2. LTypeOK'
    BY <1>3 DEF SumAlone
  <2> QED
    BY <1>3, <2>1, <2>2 DEF SumAlone
<1>4. ASSUME NEW s \in Sites, SumCall(s) PROVE (LTypeOK /\ SlotsAreCalls /\ SumAgrees)'
  <2>1. launched /\ launched' /\ caller[s] = "none" /\ caller'[s] = "waiting"
    BY <1>4 DEF SumCall, Calls, NumLocalities
  <2>2. \A u \in Sites \ {s} : SiteNumber(u) # SiteNumber(s) /\ caller'[u] = caller[u]
    BY <1>4 DEF SumCall
  <2>3. /\ slot'[SiteNumber(s)] = Local(s)
        /\ \A u \in Sites \ {s} : slot'[SiteNumber(u)] = slot[SiteNumber(u)]
    BY <1>4, <2>2 DEF SumCall
  <2>4. LTypeOK'
    BY <1>4 DEF SumCall
  <2>5. SumAgrees'
    BY <1>4, <2>1, <2>2 DEF SumCall
  <2>6. SlotsAreCalls'
    BY <1>4, <2>1, <2>2, <2>3
  <2> QED
    BY <2>4, <2>5, <2>6
<1>5. ASSUME NEW s \in Sites, Deliver(s) PROVE (LTypeOK /\ SlotsAreCalls /\ SumAgrees)'
  <2>1. launched /\ launched' /\ slot' = slot /\ caller'[s] = "answered" /\ caller[s] = "waiting"
    BY <1>5 DEF Deliver
  <2>2. \A u \in Sites \ {s} : caller'[u] = caller[u] /\ answer'[u] = answer[u]
    BY <1>5 DEF Deliver
  <2>3. slot[0] # None /\ slot[1] # None
    BY <1>5 DEF Deliver
  <2>4. \A u \in Sites : caller[u] # "none"
    BY <2>1, <2>3
  <2>5. answer'[s] = Local(Console) + Local(WorkerSite)
    BY <1>5, <2>1, <2>4 DEF Deliver
  <2>6. LTypeOK'
    BY <1>5 DEF Deliver
  <2> QED
    BY <2>1, <2>2, <2>4, <2>5, <2>6
<1>6. ASSUME NEW s \in Sites, SumReturn(s) PROVE (LTypeOK /\ SlotsAreCalls /\ SumAgrees)'
  <2>1. /\ caller[s] = "answered" /\ caller'[s] = "returned"
        /\ \A u \in Sites \ {s} : caller'[u] = caller[u]
        /\ UNCHANGED <<launched, slot, answer>>
    BY <1>6 DEF SumReturn
  <2>2. LTypeOK'
    BY <1>6 DEF SumReturn
  <2> QED
    BY <2>1, <2>2
<1> QED
  BY <1>1, <1>2, <1>3, <1>4, <1>5, <1>6 DEF LNext, SumStep

LEMMA OverStays ==
    ASSUME LTypeOK, SlotsAreCalls, [LNext]_allVars
    PROVE  /\ caller[Console] = "returned" => caller'[Console] = "returned"
           /\ Over => Over'
<1> USE SiteNumbers DEF LTypeOK, SlotsAreCalls, Over, CallerAt
<1>1. CASE WorkerStep \/ ConsoleMoves \/ ConsoleDies \/ UNCHANGED allVars
  BY <1>1 DEF WorkerStep, ConsoleMoves, ConsoleDies, ConsoleStart, ConsoleUp, ConsoleFinalize,
     ConsoleDrain, ConsoleStop, ConsoleAbort, ConsoleStep, allVars, locVars
<1>2. ASSUME NEW s \in Sites, SumAlone(s) \/ Deliver(s) \/ SumReturn(s)
      PROVE  caller[s] \in {"none", "waiting", "answered"} /\ caller'[s] \in {"answered", "returned"}
             /\ \A u \in Sites \ {s} : caller'[u] = caller[u]
  BY <1>2 DEF SumAlone, Deliver, SumReturn, Calls
<1>3. ASSUME NEW s \in Sites, SumCall(s)
      PROVE  launched /\ caller[s] = "none" /\ \A u \in Sites \ {s} : caller'[u] = caller[u]
  BY <1>3 DEF SumCall, Calls, NumLocalities
<1> QED
  BY <1>1, <1>2, <1>3 DEF LNext, SumStep

\* The worker's own steps: its runtime leaves "running" only when the console's
\* has wound down.
LEMMA WorkerLastsStep ==
    ASSUME Worker
    PROVE  TypeOK /\ OwnInv /\ ConsoleLasts /\ WorkerLasts /\ WorkerStep
             => WorkerLasts' /\ (hpx = "running" => hpx' = "running" \/ Over)
<1> SUFFICES ASSUME TypeOK, OwnInv, ConsoleLasts, WorkerLasts, WorkerStep
             PROVE  WorkerLasts' /\ (hpx = "running" => hpx' = "running" \/ Over)
  OBVIOUS
<1> USE RoleAssumption DEF TypeOK, PCs, HpxStates, HmPCs, WorkerLasts
<1>0. launched /\ launched' /\ console' = console /\ Over' = Over
  BY DEF WorkerStep, WorkerMay, Over
<1> DEFINE Goal == WorkerLasts' /\ (hpx = "running" => hpx' = "running" \/ Over)
<1>1. ASSUME NEW t \in Threads, InitCheck(t) \/ FinalizeCheck(t) \/ InitRuntimeExisting(t)
             \/ CtorBlock(t) \/ CtorSpurious(t) \/ CtorPoll(t) \/ CtorThrow(t)
             \/ InitFlag(t) \/ FinalizeFlag(t) \/ FinalizeRuntime(t) \/ DtorClear(t)
      PROVE Goal
  BY <1>0, <1>1 DEF InitCheck, FinalizeCheck, InitRuntimeExisting, CtorBlock, CtorSpurious,
     CtorPoll, CtorThrow, InitFlag, FinalizeFlag, FinalizeRuntime, DtorClear, HasGil, Goto,
     mgrVars, hpxVars
<1>2. ASSUME NEW t \in Threads, NEW m \in Managers, InitRuntimeNew(t, m) PROVE Goal
  BY <1>0, <1>2 DEF InitRuntimeNew, HasGil, Goto, hpxVars
<1>3. ASSUME NEW t \in Threads, CtorReturn(t) PROVE Goal
  BY <1>0, <1>3 DEF CtorReturn, Goto, hpxVars
<1>4. ASSUME NEW t \in Threads, DtorNotify(t) PROVE Goal
  BY <1>0, <1>4 DEF DtorNotify, Goto, mgrVars
<1>5. ASSUME NEW t \in Threads, DtorStop(t) PROVE Goal
  BY <1>0, <1>5 DEF DtorStop, Goto
<1>6. CASE HmMain \/ HmSpuriousWake
  <2>1. hm = "none"
    BY DEF OwnInv, MainBound
  <2> QED
    BY <1>6, <2>1 DEF HmMain, HmSpuriousWake, HmSetRts, HmSetRunning, HmNotify, HmCheck, HmWoken,
       HmFinalize, HmStep
<1>7. CASE HpxUp
  <2>1. hpx' = "running" /\ UNCHANGED <<initialized, g_rts, pc>> /\ console \in {"starting", "up"}
    BY <1>7 DEF HpxUp, pyVars, WorkerStep, WorkerMay
  <2> QED
    BY <1>0, <1>7, <2>1 DEF HpxUp
<1>8. CASE HpxBroadcast
  <2>1. Over
    BY <1>8 DEF HpxBroadcast, WorkerStep, WorkerMay, ConsoleLasts
  <2> QED
    BY <1>0, <1>8, <2>1 DEF HpxBroadcast, pyVars
<1>9. CASE Aborted
  BY <1>0, <1>9 DEF Aborted, vars
<1> QED
  BY <1>1, <1>2, <1>3, <1>4, <1>5, <1>6, <1>7, <1>8, <1>9
     DEF WorkerStep, Next, ConsoleNext, SharedCall

LEMMA SumInvStep ==
    ASSUME Worker
    PROVE  TypeOK /\ OwnInv /\ LTypeOK /\ SumInv /\ [LNext]_allVars => (LTypeOK /\ SumInv)'
<1> SUFFICES ASSUME TypeOK, OwnInv, LTypeOK, SumInv, [LNext]_allVars
             PROVE  (LTypeOK /\ SumInv)'
  OBVIOUS
<1>1. (LTypeOK /\ SlotsAreCalls /\ SumAgrees)'
  BY SlotsStep DEF SumInv
<1>2. /\ caller[Console] = "returned" => caller'[Console] = "returned"
      /\ Over => Over'
  BY OverStays DEF SumInv
<1> USE SiteNumbers DEF LTypeOK, SumInv
<1>3. \A s \in Sites : caller[s] = "waiting" => ~Over
  BY DEF Over
<1>4. CASE WorkerStep
  <2>1. WorkerLasts' /\ (hpx = "running" => hpx' = "running" \/ Over)
    BY <1>4, WorkerLastsStep
  <2>2. UNCHANGED <<launched, console, asked, died, caller, slot, answer>>
    BY <1>4 DEF WorkerStep
  <2>3. ConsoleLasts'
    BY <2>2 DEF ConsoleLasts, Over
  <2>4. SumNotCutOff'
    BY <1>3, <2>1, <2>2 DEF SumNotCutOff
  <2> QED
    BY <1>1, <2>1, <2>3, <2>4
<1>5. CASE SumStep
  <2>1. UNCHANGED <<vars, launched, console, asked>>
    BY <1>5 DEF SumStep, SumAlone, SumCall, Deliver, SumReturn
  <2>2. ConsoleLasts' /\ WorkerLasts'
    BY <1>2, <2>1 DEF ConsoleLasts, WorkerLasts, vars
  <2>3. ASSUME NEW s \in Sites, caller'[s] = "waiting", caller[s] # "waiting"
        PROVE  SumCall(s)
    BY <1>5, <2>3 DEF SumStep, SumAlone, SumCall, Deliver, SumReturn, CallerAt
  <2>4. ASSUME SumCall(Console) PROVE console = "up" /\ ~asked
    BY <2>4 DEF SumCall, Calls, ConsoleLasts
  <2>5. ASSUME SumCall(WorkerSite)
        PROVE  hpx = "running" /\ console \in {"starting", "up"}
    <3>1. initialized /\ launched /\ caller[WorkerSite] = "none"
      BY <2>5 DEF SumCall, Calls, NumLocalities
    <3>2. ~Over
      BY <3>1 DEF SlotsAreCalls, Over
    <3> QED
      BY <3>1, <3>2 DEF WorkerLasts
  <2>6. SumNotCutOff'
    BY <2>1, <2>3, <2>4, <2>5 DEF SumNotCutOff, vars
  <2> QED
    BY <1>1, <2>2, <2>6
<1>6. CASE ConsoleMoves
  <2>1. UNCHANGED <<vars, launched, caller>>
    BY <1>6 DEF ConsoleMoves, ConsoleStart, ConsoleUp, ConsoleFinalize, ConsoleDrain, ConsoleStop,
       ConsoleStep
  <2>2. Over' = Over
    BY <2>1 DEF Over
  <2>3. \/ /\ console \in {"down", "starting"} /\ console' \in {"starting", "up"}
           /\ asked' = asked /\ caller[Console] # "waiting"
        \/ console = "up" /\ console' = "up" /\ caller[Console] = "returned"
        \/ Over /\ asked /\ console' = "draining" /\ asked'
        \/ Over /\ console' = "down" /\ ~asked'
    BY <1>6 DEF ConsoleMoves, ConsoleStart, ConsoleUp, ConsoleFinalize, ConsoleDrain, ConsoleStop,
       ConsoleStep, Promise!Start, Promise!ComeUp, Promise!Request, Promise!Drain, Promise!Stop,
       ConsoleLasts, SumNotCutOff, Over
  <2>4. ConsoleLasts' /\ WorkerLasts'
    BY <2>1, <2>2, <2>3 DEF ConsoleLasts, WorkerLasts, vars, Over
  <2>5. SumNotCutOff'
    BY <1>3, <2>1, <2>3 DEF SumNotCutOff, vars
  <2> QED
    BY <1>1, <2>4, <2>5
<1>7. CASE ConsoleDies \/ UNCHANGED allVars
  <2>1. UNCHANGED <<vars, launched, console, asked, caller>>
    BY <1>7 DEF ConsoleDies, ConsoleAbort, ConsoleStep, Promise!Abort, allVars, locVars
  <2> QED
    BY <1>1, <2>1 DEF ConsoleLasts, WorkerLasts, SumNotCutOff, vars, Over
<1> QED
  BY <1>4, <1>5, <1>6, <1>7 DEF LNext

LEMMA SumInvariant ==
    ASSUME Worker
    PROVE  LSpec => [](LTypeOK /\ SumInv)
<1>1. ASSUME LInit PROVE LTypeOK /\ SumInv
  <2> USE <1>1, SiteNumbers DEF LInit
  <2>1. LTypeOK
    <3>1. caller \in [Sites -> {"none", "waiting", "answered", "returned"}]
      OBVIOUS
    <3>2. /\ slot = [i \in 0 .. 1 |-> slot[i]]
          /\ answer = [s \in Sites |-> answer[s]]
      OBVIOUS
    <3> QED
      BY <3>1, <3>2 DEF LTypeOK
  <2>2. SlotsAreCalls /\ SumAgrees
    BY DEF SlotsAreCalls, SumAgrees
  <2>3. ConsoleLasts /\ WorkerLasts /\ SumNotCutOff
    BY DEF Init, ConsoleLasts, WorkerLasts, SumNotCutOff
  <2> QED
    BY <2>1, <2>2, <2>3 DEF SumInv
<1> QED
  BY <1>1, SumInvStep, OwnInvariant, WorkerIsRuntime, PTL DEF LSpec

\* In whatever order the two sites call, are answered and return, each gets the
\* sum of what both passed. This is the one call per site of the program: a
\* second use of the collective's name is outside the module.
THEOREM SumAgreesHolds ==
    ASSUME Worker
    PROVE  LSpec => []SumAgrees
<1>1. SumInv => SumAgrees
  BY DEF SumInv
<1> QED
  BY <1>1, SumInvariant, PTL

\* No runtime is shut down under a distributed_sum that waits: the console's
\* finalize() comes after its own call, and HPX winds down after the worker's.
THEOREM SumNotCutOffHolds ==
    ASSUME Worker
    PROVE  LSpec => []SumNotCutOff
<1>1. SumInv => SumNotCutOff
  BY DEF SumInv
<1> QED
  BY <1>1, SumInvariant, PTL
=============================================================================
