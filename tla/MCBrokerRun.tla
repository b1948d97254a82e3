----------------------------- MODULE MCBrokerRun -----------------------------
(* A small instance of the broker's commands for TLC.                       *)
EXTENDS BrokerRun, TLC

CONSTANTS p1, p2

Symmetry == Permutations({p1, p2})

=============================================================================
