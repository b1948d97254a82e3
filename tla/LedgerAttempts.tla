--------------------------- MODULE LedgerAttempts ---------------------------
(* The refinement mapping from the operation ledger to PlanAttempts: rows,  *)
(* nonces, clocks and calls in flight are forgotten, what is left is where  *)
(* each plan stands and which plan holds each machine.                      *)
EXTENDS ExecutionLedger

CONSTANT NoKey   \* the holder of a machine that no plan holds

ASSUME NoKeyAssumption == NoKey \notin Keys

PhaseOf(s) ==
    CASE s = "pending_confirmation"  -> "asked"
      [] s = "authorized"            -> "cleared"
      [] s \in TerminalStates        -> "settled"
      [] OTHER                       -> "started"

\* The one row of a key that has not expired tells the phase of the plan.
Phase ==
    [k \in Keys |->
       IF \E i \in Rows : op[i].key = k /\ op[i].state # "expired"
       THEN PhaseOf(op[CHOOSE i \in Rows :
                         op[i].key = k /\ op[i].state # "expired"].state)
       ELSE "free"]

\* The one live row of a machine tells who holds it.
Holder ==
    [m \in Machines |->
       IF \E i \in Rows : Active(i) /\ op[i].machine = m
       THEN op[CHOOSE i \in Rows : Active(i) /\ op[i].machine = m].key
       ELSE NoKey]

Attempts == INSTANCE PlanAttempts WITH phase <- Phase, holder <- Holder

\* The ledger implements the plan attempts it promises: every committed
\* transaction is one abstract step or none.
ImplementsPlanAttempts == Attempts!Spec

=============================================================================
