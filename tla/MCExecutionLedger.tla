-------------------------- MODULE MCExecutionLedger --------------------------
(* A small instance of the ledger for TLC: two processes, two plans and one *)
(* machine, so a plan can lapse and be requested again beside another one.  *)
EXTENDS LedgerAttempts, TLC

CONSTANTS p1, p2, k1, k2, m1, m2, human

Symmetry == Permutations({p1, p2}) \cup Permutations({k1, k2})

=============================================================================
