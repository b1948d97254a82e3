--------------------------- MODULE BrokerRecovery ---------------------------
(***************************************************************************)
(* That recovery gets somewhere.  A broker command that gives up leaves    *)
(* the row for a later one; when commands give up, or are interfered with, *)
(* only so often, and the broker keeps being invoked, every operation that *)
(* has begun ends, of whatever kind, and the owner has the client back.    *)
(***************************************************************************)
EXTENDS BrokerRun

CONSTANT MaxSetbacks   \* bound: times a command gives up or is interfered with

ASSUME SetbackAssumption == MaxSetbacks \in Nat

VARIABLE setbacks

rvars == <<bvars, setbacks>>

Begun(i) == Live(i) /\ op[i].state # "authorized"

\* The command ends, or turns to a last restore, with its row still live.  An
\* interrupted row awaits its window, so leaving it before the step that
\* would end it costs nothing; nor does yielding to a client the owner started.
GivesUp(p) ==
    /\ pc[p] \notin {"idle", "release"}
    /\ pc'[p] \in {"idle", "release"}
    /\ ~(pc[p] = "repair_recheck" /\ client = "up")
    /\ LET s == op'[my[p].id].state
       IN s \in LiveStates \ {"authorized"} /\ (s = "interrupted" => pc[p] \in {"fail", "terminal"})

\* A refused run that could not bring the client back.
LeavesClient(p) == denied[p].at = "releasing" /\ denied'[p] = NoDenial /\ owed

\* The owner starts the client under a command that needs it stopped.
Interferes ==
    /\ lock # NoProc /\ pc' = pc /\ denied' = denied
    /\ client = "down" /\ client' = "up"

CountSetbacks ==
    /\ setbacks' = setbacks +
          IF Interferes \/ \E p \in Procs : GivesUp(p) \/ LeavesClient(p) THEN 1 ELSE 0
    /\ setbacks' <= MaxSetbacks

RecoveryInit == BrokerInit /\ setbacks = 0
RecoveryNext == BrokerNext /\ CountSetbacks

Running(A) == A /\ CountSetbacks
Executes(p, A) == denied[p] = NoDenial /\ A /\ UNCHANGED <<asked, denied>>
Dispatches(p, A) == denied[p] = NoDenial /\ A /\ UNCHANGED <<contentVars, denied>>
Passes(A) == A /\ Baseline /\ UNCHANGED <<journal, asked, denied>>

\* A process that has not died goes on; some process keeps reconciling while
\* another may hold the lock now and then; time passes; steamcmd ends.
Fairness ==
    /\ \A p \in Procs :
          /\ WF_rvars(Running(Executes(p, Continue(p))))
          /\ WF_rvars(Running(Dispatches(p, Dispatch!ContinueDispatch(p))))
          /\ WF_rvars(Running(EnterRelease(p) \/ LeaveRelease(p) \/ AbortRefused(p)))
          /\ SF_rvars(Running(Executes(p, Reconcile(p))))
          /\ SF_rvars(Running(Dispatches(p, Dispatch!RecoverDispatch(p))))
    /\ WF_rvars(Running(Passes(WindowLapses)))
    /\ WF_rvars(Running(Passes(OrphanExits)))

RecoverySpec == RecoveryInit /\ [][RecoveryNext]_rvars /\ Fairness

-----------------------------------------------------------------------------

\* "Map every non-terminal operation to exactly one recovery action": no
\* state an operation can be left in is one that recovery never leaves, a
\* request whose command died before its answer included.
EveryOperationEnds == \A i \in Ids : Begun(i) ~> op[i].state \in TerminalStates

\* A client the broker took down is brought back.
ClientComesBack == owed ~> ~owed

=============================================================================
