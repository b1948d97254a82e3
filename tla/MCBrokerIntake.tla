---------------------------- MODULE MCBrokerIntake ----------------------------
(* A small instance of the broker's intake for TLC.                         *)
EXTENDS BrokerIntake, TLC

CONSTANTS p1, p2, lib1, lib2, plan, direct

Symmetry == Permutations({p1, p2}) \cup Permutations({lib1, lib2})

=============================================================================
