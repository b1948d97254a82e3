------------------------- MODULE MCContentExecution -------------------------
(* A small instance of the content pipeline for TLC: two broker processes,  *)
(* so that a recovery may follow, or collide with, any run.                 *)
EXTENDS ContentExecution, TLC

CONSTANTS p1, p2

Symmetry == Permutations({p1, p2})

=============================================================================
