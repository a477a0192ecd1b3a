--------------------------- MODULE MC_Localities ---------------------------
(* A console and a worker with two Python threads. *)
EXTENDS Localities

CONSTANTS t1, t2, m1, m2
=============================================================================
