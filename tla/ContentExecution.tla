--------------------------- MODULE ContentExecution ---------------------------
(***************************************************************************)
(* One install or verify, from authorization to its verdict: the executor  *)
(* stops the client, runs steamcmd, adopts the manifest it wrote into the  *)
(* client's library and brings the client back                             *)
(* (src/steam_agent/execution/executor.py, _execute_locked), and the       *)
(* recovery that takes over from wherever an earlier run died              *)
(* (_reconcile_locked).                                                    *)
(*                                                                         *)
(* Every probe of the code is a point where the owner's policy, the window *)
(* or the client may have changed; every ledger write, journal write and   *)
(* client command is a step of its own, so a crash can fall between any    *)
(* two.  Abstracted: which of the intake checks refuses, the mount         *)
(* identity (free to change at each check), the directory marker, and the  *)
(* file steps inside an adoption, which module Adoption details.           *)
(***************************************************************************)
EXTENDS BrokerHost

VARIABLES
    manifest,  \* the client's manifest: before the operation, or adopted
    journal    \* the operation whose adoption journal exists, or 0

contentVars == <<manifest, journal>>
cvars == <<hostVars, contentVars>>

ContentInit == manifest = "old" /\ journal = 0

\* Restore the client, then record the terminal state `to`.
Fail(p, to) ==
    /\ pc' = [pc EXCEPT ![p] = "fail"]
    /\ my' = [my EXCEPT ![p].to = to]
    /\ UNCHANGED lock

KeepRest == UNCHANGED <<policy, writers, contentVars>>
Locally == UNCHANGED <<op, client, owed>> /\ KeepRest

-----------------------------------------------------------------------------
(* execute(): before anything is touched. *)

\* release: the client is restored, as far as it goes, and the row is kept.
BeginContent(p) ==
    \E i \in Ids :
        LET m == [Nothing EXCEPT !.id = i, !.prior = op[i].prior,
                                 !.resuming = (op[i].state = "interrupted")]
        IN /\ op[i].kind = "content"
           /\ op[i].state \in {"authorized", "interrupted"}
           /\ IF Permitted THEN Enter(p, "window", m) ELSE Enter(p, "release", m)
           /\ Locally

CheckWindow(p) ==
    /\ At(p, "window")
    /\ \/ Row(p).open /\ Go(p, "intake") /\ UNCHANGED op
       \/ ~Row(p).open /\ my[p].resuming /\ Fail(p, "failed") /\ Sweep
       \/ ~Row(p).open /\ ~my[p].resuming /\ Leave(p) /\ Sweep
    /\ UNCHANGED <<client, owed>> /\ KeepRest

\* Unprovisioned, no library, a steamcmd alive, a gate not clear, the client's
\* presence unknown: deferred with nothing touched.
DeferIntake(p) == At(p, "intake") /\ Leave(p) /\ Locally

\* An unsafe, foreign or contested target: _abort_intake.
RefuseIntake(p) == At(p, "intake") /\ Fail(p, "aborted") /\ Locally

NoWriterUnchecked == TRUE   \* faulty: the probe is skipped

NoWriter == writers = 0

PassIntake(p) ==
    /\ At(p, "intake") /\ NoWriter
    /\ pc' = [pc EXCEPT ![p] = "decide"]
    /\ my' = [my EXCEPT ![p].prior =
                IF my[p].resuming THEN @ ELSE client = "up"]
    /\ UNCHANGED lock
    /\ Locally

\* The last policy read before the lease is taken or the client is stopped.
\* A fresh operation has no recorded client state to restore yet.
Decide(p) ==
    /\ At(p, "decide")
    /\ \/ /\ ~Permitted
          /\ pc' = [pc EXCEPT ![p] = "release"]
          /\ my' = [my EXCEPT ![p].prior = Row(p).prior]
          /\ UNCHANGED <<lock, op>>
       \/ Permitted /\ my[p].resuming /\ Go(p, "resume_stop") /\ UNCHANGED op
       \/ /\ Permitted /\ ~my[p].resuming
          /\ \/ /\ Allowed(my[p].id, "lease_acquired")
                /\ op' = [op EXCEPT ![my[p].id].state = "lease_acquired",
                                    ![my[p].id].prior = my[p].prior]
                /\ Go(p, "leased")
             \/ /\ ~Allowed(my[p].id, "lease_acquired")
                /\ Leave(p) /\ UNCHANGED op
    /\ UNCHANGED <<client, owed>> /\ KeepRest

Leased(p) ==
    /\ At(p, "leased")
    /\ Advance(p, "client_stopping", "stop")
    /\ UNCHANGED <<client, owed>> /\ KeepRest

-----------------------------------------------------------------------------
(* Stopping the client. *)

StopClient(p) ==
    /\ At(p, "stop")
    /\ \/ ~Permitted /\ Fail(p, "aborted") /\ SameClient
       \/ Permitted /\ ~my[p].prior /\ Go(p, "stopped") /\ SameClient
       \/ Permitted /\ my[p].prior /\ StopSucceeds(p) /\ Go(p, "stopped")
       \/ Permitted /\ my[p].prior /\ StopFails(p) /\ Fail(p, "aborted")
    /\ UNCHANGED op /\ KeepRest

\* A resumed operation stops whatever client may be running now; its row
\* stays interrupted meanwhile.
StopForResume(p) ==
    /\ At(p, "resume_stop")
    /\ \/ client = "down" /\ Go(p, "stopped") /\ SameClient
       \/ StopSucceeds(p) /\ Go(p, "stopped")
       \/ StopFails(p) /\ Go(p, "release")
    /\ UNCHANGED op /\ KeepRest

\* The gates again, the client provably absent, the window, the mount and
\* the policy; then the intent to write content is durable.
RegressAfterStop(p) ==
    /\ At(p, "stopped")
    /\ Fail(p, "aborted") /\ Locally

ClientAbsent == client = "down"

CommitContent(p) ==
    /\ At(p, "stopped") /\ ClientAbsent /\ Row(p).open /\ Permitted
    /\ Advance(p, "content_running", "mark")
    /\ UNCHANGED <<client, owed>> /\ KeepRest

-----------------------------------------------------------------------------
(* steamcmd. *)

\* _record_owned_dir between two policy reads; it may fail either way.
MarkTarget(p) ==
    /\ At(p, "mark")
    /\ \/ Permitted /\ Go(p, "spawn")
       \/ Fail(p, "aborted")
       \/ Fail(p, "failed")
    /\ Locally

SpawnSteamcmd(p) ==
    /\ At(p, "spawn")
    /\ \/ Permitted /\ writers' = writers + 1 /\ Go(p, "installing")
       \/ ~Permitted /\ Fail(p, "aborted") /\ UNCHANGED writers
       \/ Permitted /\ Fail(p, "failed") /\ UNCHANGED writers
    /\ UNCHANGED <<op, client, owed, policy, contentVars>>

SteamcmdEnds(p) ==
    /\ At(p, "installing")
    /\ writers' = writers - 1
    /\ Go(p, "installed") \/ Fail(p, "failed")
    /\ UNCHANGED <<op, client, owed, policy, contentVars>>

\* The poll: a denied or unreadable policy, a client that may be running, a
\* lapsed window, another mount, the deadline or a failed probe kills the
\* process group; a kill that cannot be confirmed leaves it alive.
KillSteamcmd(p) ==
    /\ At(p, "installing")
    /\ writers' \in {writers - 1, writers}
    /\ Fail(p, "failed")
    /\ UNCHANGED <<op, client, owed, policy, contentVars>>

\* Policy, exit, window, manifest, mount and gates are read again.
CheckInstalled(p) ==
    /\ At(p, "installed")
    /\ \/ Permitted /\ Row(p).open /\ Go(p, "reassert")
       \/ Fail(p, "failed")
    /\ Locally

ReassertStopped(p) ==
    /\ At(p, "reassert")
    /\ \/ client = "down" /\ Go(p, "commit") /\ SameClient
       \/ ~Permitted /\ Fail(p, "failed") /\ SameClient
       \/ Permitted /\ StopSucceeds(p) /\ (Go(p, "commit") \/ Fail(p, "failed"))
       \/ Permitted /\ StopFails(p) /\ Fail(p, "failed")
    /\ UNCHANGED op /\ KeepRest

CommitAdoption(p) ==
    /\ At(p, "commit")
    /\ \/ Permitted /\ Advance(p, "adopting", "journal")
       \/ ~Permitted /\ Fail(p, "failed") /\ UNCHANGED op
    /\ UNCHANGED <<client, owed>> /\ KeepRest

-----------------------------------------------------------------------------
(* Adoption: journal, then manifest, then the ledger, then no journal. *)

WriteJournal(p) ==
    /\ At(p, "journal")
    /\ \/ journal' = my[p].id /\ Go(p, "swap")
       \/ journal' \in {journal, my[p].id} /\ Go(p, "repair")   \* it raised
    /\ UNCHANGED <<op, client, owed, policy, writers, manifest>>

SwapManifest(p) ==
    /\ At(p, "swap")
    /\ \/ manifest' = "new" /\ Go(p, "swapped")
       \/ manifest' \in {manifest, "new"} /\ Go(p, "repair")    \* it raised
    /\ UNCHANGED <<op, client, owed, policy, writers, journal>>

RepairUnproven(p) ==   \* faulty: no journal proves a swap
    /\ At(p, "repair")
    /\ journal' = 0
    /\ Fail(p, "failed")
    /\ UNCHANGED <<op, client, owed, policy, writers, manifest>>

\* reconcile_adoption(): completed keeps the journal; clean, stale and
\* restored leave none; anything unreadable leaves everything as it is.
RepairAdoption(p) ==
    /\ At(p, "repair")
    /\ \/ /\ journal = my[p].id /\ manifest = "new"
          /\ Go(p, "swapped") /\ UNCHANGED contentVars
       \/ /\ ~(journal = my[p].id /\ manifest = "new")
          /\ journal' = 0
          /\ Fail(p, "failed") /\ UNCHANGED manifest
       \/ journal # 0 /\ Go(p, "release") /\ UNCHANGED contentVars
    /\ UNCHANGED <<op, client, owed, policy, writers>>

ClearBeforeRecord(p) ==   \* faulty: the journal goes before the ledger moves
    /\ At(p, "swapped")
    /\ journal' = 0 /\ Go(p, "clear")
    /\ UNCHANGED <<op, client, owed, policy, writers, manifest>>

RecordSwap(p) ==
    /\ At(p, "swapped")
    /\ Advance(p, "client_restart_pending", "clear")
    /\ UNCHANGED <<client, owed>> /\ KeepRest

ClearJournal(p) ==
    /\ At(p, "clear")
    /\ \/ journal' = 0 /\ Go(p, "restart")
       \/ journal' \in {journal, 0} /\ Go(p, "release")         \* it raised
    /\ UNCHANGED <<op, client, owed, policy, writers, manifest>>

RestartClient(p) ==
    /\ At(p, "restart")
    /\ \/ RestoreSucceeds(p) /\ Go(p, "verify")
       \/ RestoreFails(p) /\ Leave(p)
    /\ UNCHANGED op /\ KeepRest

\* A recovery that finds the row verifying already goes on from there.
StartVerifying(p) ==
    /\ At(p, "verify")
    /\ \/ Row(p).state = "verifying" /\ Go(p, "verdict") /\ UNCHANGED op
       \/ Row(p).state # "verifying" /\ Advance(p, "verifying", "verdict")
    /\ UNCHANGED <<client, owed>> /\ KeepRest

Verdict(p) ==
    /\ At(p, "verdict")
    /\ \E to \in {"confirmed", "unconfirmed", "contradicted"} :
          IF Allowed(my[p].id, to) THEN SetState(my[p].id, to) ELSE UNCHANGED op
    /\ Leave(p)
    /\ UNCHANGED <<client, owed>> /\ KeepRest

-----------------------------------------------------------------------------
(* _finish_failure() and the best-effort restore of the deferring paths. *)

FinishUnrestored(p) ==   \* faulty: terminal whether or not the client is back
    RestoreSucceeds(p) \/ RestoreFails(p)

FinishRestored(p) == RestoreSucceeds(p)

RestoreForFailure(p) ==
    /\ At(p, "fail")
    /\ \/ FinishRestored(p) /\ Go(p, "terminal")
       \/ RestoreFails(p) /\ Leave(p)
    /\ UNCHANGED op /\ KeepRest

Terminalize(p) ==
    /\ At(p, "terminal")
    /\ IF Allowed(my[p].id, my[p].to) THEN SetState(my[p].id, my[p].to)
                                      ELSE UNCHANGED op
    /\ Leave(p)
    /\ UNCHANGED <<client, owed>> /\ KeepRest

Release(p) ==
    /\ At(p, "release")
    /\ RestoreSucceeds(p) \/ RestoreFails(p)
    /\ Leave(p)
    /\ UNCHANGED op /\ KeepRest

-----------------------------------------------------------------------------
(* reconcile(): one recovery action for the one live row. *)

Recovered(i) == [Nothing EXCEPT !.id = i, !.prior = op[i].prior]
RecoverTo(i, to) == [Recovered(i) EXCEPT !.to = to]

\* Died before content ran.
RecoverLease(p) ==
    \E i \in Ids :
        /\ op[i].state \in {"lease_acquired", "client_stopping"}
        /\ Enter(p, "fail", RecoverTo(i, "aborted"))
        /\ Locally

\* Died while content ran: resumable, unless a steamcmd may be alive.
RecoverContent(p) ==
    \E i \in Ids :
        /\ op[i].state = "content_running" /\ NoWriter
        /\ \/ /\ op[i].open /\ pc[p] = "idle" /\ lock = NoProc
              /\ SetState(i, "interrupted")
              /\ UNCHANGED <<lock, pc, my>>
           \/ ~op[i].open /\ Enter(p, "fail", RecoverTo(i, "failed")) /\ UNCHANGED op
        /\ UNCHANGED <<client, owed>> /\ KeepRest

\* A resume candidate is left alone while its window holds.
RecoverInterrupted(p) ==
    \E i \in Ids :
        /\ op[i].state = "interrupted" /\ ~op[i].open
        /\ Enter(p, "fail", RecoverTo(i, "failed"))
        /\ Locally

RecoverAdopting(p) ==
    \E i \in Ids :
        /\ op[i].state = "adopting"
        /\ Enter(p, "repair_stop", Recovered(i))
        /\ Locally

\* Gates, then the client stopped if it may be running.
StopForRepair(p) ==
    /\ At(p, "repair_stop")
    /\ \/ Leave(p) /\ SameClient
       \/ client = "down" /\ Go(p, "repair") /\ SameClient
       \/ StopSucceeds(p) /\ Go(p, "repair_recheck")
       \/ StopFails(p) /\ Go(p, "release")
    /\ UNCHANGED op /\ KeepRest

RecheckForRepair(p) ==
    /\ At(p, "repair_recheck")
    /\ \/ ClientAbsent /\ Go(p, "repair")
       \/ Go(p, "release")
    /\ Locally

RecoverRestartPending(p) ==   \* faulty: a dead verification is not picked up
    \E i \in Ids :
        /\ op[i].state = "client_restart_pending"
        /\ Enter(p, "clear", Recovered(i))
        /\ Locally

RecoverRestart(p) ==
    \E i \in Ids :
        /\ op[i].state \in {"client_restart_pending", "verifying"}
        /\ Enter(p, "clear", Recovered(i))
        /\ Locally

-----------------------------------------------------------------------------

Reconcile(p) ==
    \/ RecoverLease(p) \/ RecoverContent(p) \/ RecoverInterrupted(p)
    \/ RecoverAdopting(p) \/ RecoverRestart(p)

\* What a running command does next.
Continue(p) ==
    \/ CheckWindow(p) \/ DeferIntake(p) \/ RefuseIntake(p) \/ PassIntake(p)
    \/ Decide(p) \/ Leased(p) \/ StopClient(p) \/ StopForResume(p)
    \/ RegressAfterStop(p) \/ CommitContent(p) \/ MarkTarget(p)
    \/ SpawnSteamcmd(p) \/ SteamcmdEnds(p) \/ KillSteamcmd(p)
    \/ CheckInstalled(p) \/ ReassertStopped(p) \/ CommitAdoption(p)
    \/ WriteJournal(p) \/ SwapManifest(p) \/ RepairAdoption(p)
    \/ RecordSwap(p) \/ ClearJournal(p) \/ RestartClient(p)
    \/ StartVerifying(p) \/ Verdict(p)
    \/ RestoreForFailure(p) \/ Terminalize(p) \/ Release(p)
    \/ StopForRepair(p) \/ RecheckForRepair(p)

\* A new operation starts from the manifest the last one left.
Baseline == IF \E i \in Ids : op[i].state = "none" /\ op'[i].state = "authorized"
            THEN manifest' = "old" ELSE UNCHANGED manifest

ContentInitAll == HostInit /\ ContentInit

ContentNext ==
    \/ Environment /\ Baseline /\ UNCHANGED journal
    \/ \E p \in Procs : BeginContent(p) \/ Reconcile(p) \/ Continue(p)

ContentSpec == ContentInitAll /\ [][ContentNext]_cvars

-----------------------------------------------------------------------------
(* Properties *)

Places ==
    {"idle", "window", "intake", "decide", "leased", "stop", "resume_stop",
     "stopped", "mark", "spawn", "installing", "installed", "reassert",
     "commit", "journal", "swap", "repair", "swapped", "clear", "restart",
     "verify", "verdict", "fail", "terminal", "release", "repair_stop",
     "repair_recheck"}

\* Only one process is ever inside a command, and it holds the lock.
ContentTypeOK ==
    /\ op \in [Ids -> OpRow \cup {NoOp}]
    /\ lock \in Procs \cup {NoProc}
    /\ pc \in [Procs -> Places]
    /\ my \in [Procs -> Locals]
    /\ policy \in Policies
    /\ client \in {"up", "down"} /\ owed \in BOOLEAN
    /\ writers \in Nat
    /\ manifest \in {"old", "new"} /\ journal \in 0 .. MaxOps
    /\ \A p \in Procs : pc[p] # "idle" <=> lock = p

\* "never start another beside it": however brokers crash and recover, two
\* steamcmd processes never write the library at once.
SingleWriter == writers <= 1

\* A steamcmd is never left without a row that will account for it: while
\* one is alive, the operation that spawned it is content_running.
WriterHasRow ==
    writers > 0 => \E i \in Ids : op[i].state = "content_running"

\* "restore it before this row becomes terminal (terminal rows are invisible
\* to reconciliation)": while the broker owes the owner a client it took
\* down, some live row remembers it.
StoppedClientHasRow ==
    owed => \E i \in Ids : Live(i) /\ op[i].prior

\* The verdict tells the library's fate: a failed operation left the
\* client's own manifest, a judged one left the adopted manifest, and
\* neither leaves a journal that a later operation could trip over.
Latest(i) == op[i].state # "none" /\ \A j \in Ids : j > i => op[j].state = "none"

VerdictMatchesLibrary ==
    \A i \in Ids :
        /\ op[i].state \in TerminalStates => journal # i
        /\ Latest(i) /\ op[i].state \in {"failed", "aborted", "expired"}
              => manifest = "old"
        /\ Latest(i) /\ op[i].state \in {"confirmed", "unconfirmed", "contradicted"}
              => manifest = "new"

\* The journal covers the swap: a manifest that was swapped in while the
\* ledger does not say so yet is named by a journal, so recovery completes
\* it instead of failing it.
JournalCoversSwap ==
    \A i \in Ids :
        Live(i) /\ manifest = "new"
        => \/ journal = i
           \/ op[i].state \in {"client_restart_pending", "verifying"}

=============================================================================
