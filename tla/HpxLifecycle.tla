---------------------------- MODULE HpxLifecycle ----------------------------
(***************************************************************************)
(* What hpxpy's runtime layer promises of the HPX runtime of one console   *)
(* process: it is started at most once at a time, it is up until somebody  *)
(* asks for it to stop, it winds down only then, and a stop that has been  *)
(* asked for is carried through. A process that starts a second runtime    *)
(* beside the first dies.                                                  *)
(***************************************************************************)
VARIABLES
    phase,      \* "down", "starting", "up" or "draining"
    requested,  \* a stop of the current runtime has been requested
    dead        \* the process was aborted

vars == <<phase, requested, dead>>

Init == phase = "down" /\ requested = FALSE /\ dead = FALSE

Start ==
    /\ ~dead /\ phase = "down" /\ phase' = "starting"
    /\ UNCHANGED <<requested, dead>>

ComeUp ==
    /\ ~dead /\ phase = "starting" /\ phase' = "up"
    /\ UNCHANGED <<requested, dead>>

Request ==
    /\ ~dead /\ phase = "up" /\ ~requested /\ requested' = TRUE
    /\ UNCHANGED <<phase, dead>>

Drain ==
    /\ ~dead /\ phase = "up" /\ requested /\ phase' = "draining"
    /\ UNCHANGED <<requested, dead>>

Stop ==
    /\ ~dead /\ phase = "draining" /\ phase' = "down" /\ requested' = FALSE
    /\ UNCHANGED dead

\* A second start while a runtime exists.
Abort ==
    /\ ~dead /\ phase # "down" /\ dead' = TRUE
    /\ UNCHANGED <<phase, requested>>

Next == Start \/ ComeUp \/ Request \/ Drain \/ Stop \/ Abort

Spec == Init /\ [][Next]_vars

FairSpec == Spec /\ WF_vars(ComeUp) /\ WF_vars(Drain) /\ WF_vars(Stop)
=============================================================================
