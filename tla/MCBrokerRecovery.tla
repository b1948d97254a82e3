-------------------------- MODULE MCBrokerRecovery --------------------------
(* A small instance of the recovery of operations: one process stands for   *)
(* every command that holds the execution lock in turn.                     *)
EXTENDS BrokerRecovery

CONSTANT p1

=============================================================================
