------------------------------ MODULE BrokerRun ------------------------------
(***************************************************************************)
(* The broker's commands over one ledger: run, confirm and reconcile as    *)
(* src/steam_agent/execution/broker_main.py and ClientExecutor dispatch    *)
(* them, with every kind of operation (ContentExecution, ClientDispatch)   *)
(* and the paths that end an operation without executing it.               *)
(*                                                                         *)
(* `run` reads the row and the policy without the execution lock.  Denied, *)
(* it takes the lock to bring the client back, gives the lock up, and only *)
(* then aborts the row it read; `confirm` aborts under no lock at all.     *)
(***************************************************************************)
EXTENDS ContentExecution

VARIABLES asked, denied   \* denied: a `run` or `confirm` and what it has read

Dispatch == INSTANCE ClientDispatch

bvars == <<hostVars, contentVars, asked, denied>>

NoDenial == [at |-> "idle", id |-> 0, seen |-> "none"]
Denials == [at: {"idle", "release", "releasing", "abort"}, id: 0 .. MaxOps,
            seen: States \cup {"none"}]

World == <<policy, client, owed, writers, contentVars, asked>>

BrokerInit ==
    /\ ContentInitAll /\ Dispatch!DispatchInit
    /\ denied = [p \in Procs |-> NoDenial]

Free(p) == pc[p] = "idle" /\ denied[p] = NoDenial

Step(p, l) == denied' = [denied EXCEPT ![p].at = l]
Forget(p) == denied' = [denied EXCEPT ![p] = NoDenial]

-----------------------------------------------------------------------------
(* run, refused *)

\* The row is read, then the policy: denied, or unreadable.
RefuseRun(p) ==
    \E i \in Ids, s \in {"authorized", "interrupted"} :
        /\ Free(p) /\ ~Permitted
        /\ op[i].state = s
        /\ denied' = [denied EXCEPT ![p] = [at |-> "release", id |-> i, seen |-> s]]
        /\ UNCHANGED <<op, lock, pc, my, World>>

\* release_client(): under the lock the row is read again and the client
\* restored; ExecutorLockedError ends the command.
EnterRelease(p) ==
    /\ denied[p].at = "release"
    /\ \/ /\ lock = NoProc /\ lock' = p
          /\ my' = [my EXCEPT ![p] = [Nothing EXCEPT !.id = denied[p].id,
                                                      !.prior = op[denied[p].id].prior]]
          /\ Step(p, "releasing")
       \/ lock # NoProc /\ Forget(p) /\ UNCHANGED <<lock, my>>
    /\ UNCHANGED <<op, pc, World>>

\* The lock is given up; a failed restore leaves the row for reconcile.
LeaveRelease(p) ==
    /\ denied[p].at = "releasing"
    /\ \/ RestoreSucceeds(p) /\ Step(p, "abort")
       \/ RestoreFails(p) /\ Forget(p)
    /\ lock' = NoProc
    /\ my' = [my EXCEPT ![p] = Nothing]
    /\ UNCHANGED <<op, pc, policy, writers, contentVars, asked>>

AbortsAnyLive(s, seen) == s \in LiveStates   \* faulty: no expected_from

Aborts(s, seen) == s = seen

\* ledger.transition(..., "aborted", expected_from=operation.state)
AbortRefused(p) ==
    /\ denied[p].at = "abort"
    /\ LET i == denied[p].id
       IN IF Aborts(op[i].state, denied[p].seen) /\ Allowed(i, "aborted")
          THEN SetState(i, "aborted") ELSE UNCHANGED op
    /\ Forget(p)
    /\ UNCHANGED <<lock, pc, my, World>>

-----------------------------------------------------------------------------
(* confirm, refused after the nonce was consumed *)

\* The policy is read after ledger.confirm(); expected_from "authorized"
\* keeps the abort off an operation a concurrent run has begun.
RefuseConfirm(p) ==
    \E i \in Ids :
        /\ Free(p) /\ ~Permitted
        /\ op[i].state = "authorized"
        /\ denied' = [denied EXCEPT ![p] = [at |-> "abort", id |-> i,
                                            seen |-> "authorized"]]
        /\ UNCHANGED <<op, lock, pc, my, World>>

CrashRefused(p) ==
    /\ denied[p] # NoDenial
    /\ Forget(p)
    /\ lock' = IF lock = p THEN NoProc ELSE lock
    /\ my' = [my EXCEPT ![p] = IF lock = p THEN Nothing ELSE @]
    /\ UNCHANGED <<op, pc, World>>

Refusal(p) ==
    \/ RefuseRun(p) \/ EnterRelease(p) \/ LeaveRelease(p) \/ AbortRefused(p)
    \/ RefuseConfirm(p) \/ CrashRefused(p)

-----------------------------------------------------------------------------

Execution(p) ==
    /\ denied[p] = NoDenial
    /\ \/ BeginContent(p) \/ Continue(p) \/ Reconcile(p)
    /\ UNCHANGED asked

Dispatching(p) ==
    /\ denied[p] = NoDenial
    /\ \/ Dispatch!BeginDispatch(p) \/ Dispatch!ContinueDispatch(p)
       \/ Dispatch!RecoverDispatch(p)
    /\ UNCHANGED contentVars

BrokerNext ==
    \/ Environment /\ Baseline /\ UNCHANGED <<journal, asked, denied>>
    \/ \E p \in Procs : Execution(p) /\ UNCHANGED denied
    \/ \E p \in Procs : Dispatching(p) /\ UNCHANGED denied
    \/ \E p \in Procs : Refusal(p)

BrokerSpec == BrokerInit /\ [][BrokerNext]_bvars

-----------------------------------------------------------------------------
(* Properties *)

BrokerTypeOK ==
    /\ denied \in [Procs -> Denials]
    /\ my \in [Procs -> Locals]
    /\ op \in [Ids -> OpRow \cup {NoOp}]
    /\ \A p \in Procs : pc[p] # "idle" => lock = p /\ denied[p] = NoDenial

\* Where a command is that has taken its row on: the lease, the commitment to
\* write content or the dispatch intent is recorded.
Advanced ==
    {"leased", "stop", "mark", "spawn", "installing", "installed", "reassert",
     "commit", "journal", "swap", "repair", "repair_stop", "repair_recheck",
     "swapped", "clear", "restart", "verify", "verdict",
     "l_send", "s_ask", "s_confirm", "result"}

\* run() and confirm(): "a revocation abort must dead-end only a not-yet-started
\* operation, never terminalize one a concurrent run has already advanced".
\* Whatever a refused command read before another one started, content, an
\* adoption and a request are only under way for an operation that has not
\* ended, and a steamcmd, orphans included, has its content_running row.  A
\* resumed operation counts from its commitment on: its row stays interrupted
\* through the window, the intake and the client stop, and can be ended
\* there (StoppedClientHasRow); then no content follows.
AdvancedRowsKept ==
    /\ WriterHasRow
    /\ \A p \in Procs : pc[p] \in Advanced => Live(my[p].id)

NeverReplayed == Dispatch!NeverReplayed
IntentDurable == Dispatch!IntentDurable

=============================================================================
