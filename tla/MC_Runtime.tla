----------------------------- MODULE MC_Runtime -----------------------------
(* Model values and symmetry for the RuntimeManager runs. *)
EXTENDS RuntimeManager, TLC

CONSTANTS t1, t2, t3, m1, m2

\* Threads and addresses are interchangeable; used by the runs that check
\* safety only.
ThreadManagerSymmetry == Permutations(Threads) \cup Permutations(Managers)

\* The console's steps (RunsMain = TRUE disables the others, which run within
\* the worker process of Localities).
ConsoleSpec == Init /\ [][ConsoleNext]_vars

FairConsoleSpec == ConsoleSpec /\ Fairness
=============================================================================
