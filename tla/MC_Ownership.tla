--------------------------- MODULE MC_Ownership ---------------------------
(* Interchangeable threads, variables and addresses.                       *)
EXTENDS Ownership, TLC

CONSTANTS t1, t2, x, y, z, o1, o2, o3, o4, b1, b2, b3

Interchange ==
    Permutations(Threads) \cup Permutations(Names) \cup Permutations(Objects)
        \cup Permutations(Blocks)
=============================================================================
