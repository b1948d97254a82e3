----------------------------- MODULE EvalMatrix -----------------------------
(***************************************************************************)
(* A matrix of the evaluation harness: its work items are run one after    *)
(* the other, each as a cohort in a child process, by a command that holds *)
(* the matrix lock (evals/runner/matrix.py).  An attempt directory is made *)
(* for every try; its result is published before the manifest counts it.   *)
(* A command may die anywhere, its child lives on, and `resume` continues  *)
(* at the first item the manifest does not count.                          *)
(***************************************************************************)
EXTENDS EvalRun, Sequences, SequencesExt

CONSTANTS
    Proc,          \* matrix and resume commands
    Nobody,        \* the lock is free
    Items,         \* how many work items the plan has
    MaxStarts      \* how often a command is started

MatrixAssumption == {Items, MaxRuns} \subseteq Nat /\ Nobody \notin Proc

VARIABLES
    manifest,      \* the completions the manifest on disk lists, in plan order
    attempts,      \* of each item: its attempt directories
    lock,          \* who holds matrix.lock
    cmd,           \* where each command is
    starts,        \* commands started so far
    spoiled        \* the directory holds something its layout check refuses

matrixvars == <<tree, run, manifest, attempts, lock, cmd, starts, spoiled>>

Item == 1..Items
Idle == [pc |-> "idle", seen |-> <<>>, inputs |-> "none", child |-> NoRun]

(* What an attempt directory holds: started.json always; then result.json,  *)
(* with the cohort it observed, or failure.json, or neither.                *)
Open == [has |-> "start", observed |-> NoRun]

MatrixInit ==
    /\ EvalRunInit
    /\ manifest = <<>>
    /\ attempts = [i \in Item |-> <<>>]
    /\ lock = Nobody
    /\ cmd = [p \in Proc |-> Idle]
    /\ starts = 0
    /\ spoiled = FALSE

Complete(m) == Len(m) = Items
NextItem(p) == Len(cmd[p].seen) + 1
Attempt(p) == Len(attempts[NextItem(p)])

(* The manifest is read and the inputs are collected before the lock.       *)
Load(p) ==
    /\ cmd[p].pc = "idle" /\ starts < MaxStarts
    /\ starts' = starts + 1
    /\ cmd' = [cmd EXCEPT ![p] = [pc |-> "loaded", seen |-> manifest,
                                  inputs |-> tree.holds, child |-> NoRun]]
    /\ UNCHANGED <<tree, run, manifest, attempts, lock, spoiled>>

AlreadyRunning(p) ==
    /\ cmd[p].pc = "loaded" /\ lock # Nobody
    /\ cmd' = [cmd EXCEPT ![p] = Idle]
    /\ UNCHANGED <<tree, run, manifest, attempts, lock, starts, spoiled>>

(* Under the lock the manifest is read again.                               *)
ReadBeforeLock(p) == cmd[p].seen        \* a faulty command uses what it read before
Reloaded(p) == manifest

(* _verify_matrix_layout and _verify_resume.                                *)
Resumable(p) == ~spoiled /\ cmd[p].inputs = "campaign"

Enter(p) ==
    /\ cmd[p].pc = "loaded" /\ lock = Nobody
    /\ IF Resumable(p) /\ ~Complete(Reloaded(p))
       THEN /\ lock' = p
            /\ cmd' = [cmd EXCEPT ![p].pc = "attempt", ![p].seen = Reloaded(p)]
       ELSE cmd' = [cmd EXCEPT ![p] = Idle] /\ UNCHANGED lock
    /\ UNCHANGED <<tree, run, manifest, attempts, starts, spoiled>>

(* The attempt is staged, then renamed to the next number of its item.      *)
OpenAttempt(p) ==
    /\ cmd[p].pc = "attempt"
    /\ attempts' = [attempts EXCEPT ![NextItem(p)] = Append(@, Open)]
    /\ cmd' = [cmd EXCEPT ![p].pc = "launch"]
    /\ UNCHANGED <<tree, run, manifest, lock, starts, spoiled>>

Leave(p) == lock' = Nobody /\ cmd' = [cmd EXCEPT ![p] = Idle]

(* A route that is not advertised counts as unavailable, without a cohort.  *)
RouteUnavailable(p) ==
    /\ cmd[p].pc = "launch"
    /\ cmd' = [cmd EXCEPT ![p].pc = "publish", ![p].child = NoRun]
    /\ UNCHANGED <<tree, run, manifest, attempts, lock, starts, spoiled>>

LaunchChild(p) ==
    /\ cmd[p].pc = "launch"
    /\ \E r \in Run :
        /\ run[r] = Unborn /\ \A q \in 1..(r - 1) : run[q] # Unborn
        /\ run' = [run EXCEPT ![r] = NewRun(NextItem(p))]
        /\ cmd' = [cmd EXCEPT ![p].pc = "await", ![p].child = r]
    /\ UNCHANGED <<tree, manifest, attempts, lock, starts, spoiled>>

(* validate_child_result: what a cohort must be to count.                   *)
Observable(r, i) ==
    /\ run[r].pc = "exited"
    /\ run[r].disk.state = "completed" /\ run[r].disk.done
    /\ run[r].snapshot = "campaign"
    /\ run[r].item = i

Fresh(p, r) == \A k \in DOMAIN cmd[p].seen : cmd[p].seen[k].observed # r

ChildCounts(p) ==
    /\ cmd[p].pc = "await"
    /\ Observable(cmd[p].child, NextItem(p)) /\ Fresh(p, cmd[p].child)
    /\ cmd' = [cmd EXCEPT ![p].pc = "publish"]
    /\ UNCHANGED <<tree, run, manifest, attempts, lock, starts, spoiled>>

(* An ended cohort that does not count fails its attempt and the command;   *)
(* so does one that takes too long, whose processes are ended first.        *)
ChildFails(p) ==
    /\ cmd[p].pc = "await"
    /\ \/ /\ ~Alive(cmd[p].child)
          /\ ~(Observable(cmd[p].child, NextItem(p)) /\ Fresh(p, cmd[p].child))
          /\ UNCHANGED run
       \/ CutShort(cmd[p].child)
    /\ attempts' = [attempts EXCEPT ![NextItem(p)][Attempt(p)].has = "failure"]
    /\ Leave(p)
    /\ UNCHANGED <<tree, manifest, starts, spoiled>>

Completion(p) == [attempt |-> Attempt(p), observed |-> cmd[p].child]

(* result.json; one that ends before it began, by a clock set back, is      *)
(* refused by every later check of the directory.                           *)
PublishResult(p) ==
    /\ cmd[p].pc = "publish"
    /\ attempts' = [attempts EXCEPT ![NextItem(p)][Attempt(p)] =
                        [has |-> "result", observed |-> cmd[p].child]]
    /\ cmd' = [cmd EXCEPT ![p].pc = "checkpoint"]
    /\ spoiled' \in {spoiled, TRUE}
    /\ UNCHANGED <<tree, run, manifest, lock, starts>>

(* persist: the file must be the revision the command holds.                *)
Checkpoint(p) ==
    /\ cmd[p].pc = "checkpoint"
    /\ manifest = cmd[p].seen
    /\ manifest' = Append(manifest, Completion(p))
    /\ IF Complete(manifest') THEN Leave(p)
       ELSE /\ cmd' = [cmd EXCEPT ![p].pc = IF spoiled THEN "refused" ELSE "attempt",
                                  ![p].seen = manifest', ![p].child = NoRun]
            /\ UNCHANGED lock
    /\ UNCHANGED <<tree, run, attempts, starts, spoiled>>

(* The clock went back behind the last revision, or the file is another:    *)
(* the result stays and the manifest does not count it.                     *)
CheckpointRefused(p) ==
    /\ cmd[p].pc = "checkpoint"
    /\ Leave(p)
    /\ UNCHANGED <<tree, run, manifest, attempts, starts, spoiled>>

(* The next attempt's layout check refuses a spoiled directory.             *)
LayoutRefused(p) ==
    /\ cmd[p].pc = "refused"
    /\ Leave(p)
    /\ UNCHANGED <<tree, run, manifest, attempts, starts, spoiled>>

(* A kill frees the lock, leaves the child running and, in the middle of a  *)
(* write, a temporary file.                                                 *)
Writing == {"attempt", "publish", "checkpoint"}

Killed(p) ==
    /\ cmd[p].pc # "idle"
    /\ cmd' = [cmd EXCEPT ![p] = Idle]
    /\ lock' = IF lock = p THEN Nobody ELSE lock
    /\ spoiled' \in {spoiled} \cup (IF cmd[p].pc \in Writing THEN {TRUE} ELSE {})
    /\ UNCHANGED <<tree, run, manifest, attempts, starts>>

(* Ctrl-C while a child runs: its processes are ended, and the attempt      *)
(* stays without a result or a failure.                                     *)
Cancelled(p) ==
    /\ cmd[p].pc = "await"
    /\ CutShort(cmd[p].child)
    /\ Leave(p)
    /\ UNCHANGED <<tree, manifest, attempts, starts, spoiled>>

RunSteps ==
    /\ \/ Edit
       \/ \E r \in Run : EvalRunStep(r)
    /\ UNCHANGED <<manifest, attempts, lock, cmd, starts, spoiled>>

MatrixNext ==
    \/ RunSteps
    \/ \E p \in Proc :
        \/ Load(p) \/ AlreadyRunning(p) \/ Enter(p) \/ OpenAttempt(p) \/ RouteUnavailable(p)
        \/ LaunchChild(p) \/ ChildCounts(p) \/ ChildFails(p) \/ PublishResult(p)
        \/ Checkpoint(p) \/ CheckpointRefused(p) \/ LayoutRefused(p)
        \/ Killed(p) \/ Cancelled(p)

MatrixSpec == MatrixInit /\ [][MatrixNext]_matrixvars

-----------------------------------------------------------------------------
(* Types of the attempts, the manifest and the cohorts' files.              *)
MatrixTypeOK ==
    /\ run \in [Run -> [item : 0..Items, pc : STRING, clean : BOOLEAN,
                        snapshot : {"none", "campaign", "edited"},
                        seen : [state : STRING, rev : Nat, done : BOOLEAN],
                        next : [state : STRING, rev : Nat, done : BOOLEAN],
                        disk : [state : STRING, rev : Nat, done : BOOLEAN]]]
    /\ \A i \in Item : \A k \in DOMAIN attempts[i] :
        attempts[i][k] \in [has : {"start", "result", "failure"}, observed : {NoRun} \cup Run]
    /\ \A k \in DOMAIN manifest : manifest[k].observed \in {NoRun} \cup Run
    /\ lock \in Proc \cup {Nobody}
    /\ \A p \in Proc : lock # p => cmd[p].pc \in {"idle", "loaded"}

(* Every completion the manifest lists is the last attempt of its item, has *)
(* its result published with the same cohort, and the cohort it observed is *)
(* of that item, completed, made from the campaign's source and counted     *)
(* once.  No command, resumed or late, tries a counted item again.          *)
ObservationsStand ==
    \A i \in DOMAIN manifest :
        LET c == manifest[i] IN
        /\ c.attempt = Len(attempts[i])
        /\ attempts[i][c.attempt] = [has |-> "result", observed |-> c.observed]
        /\ c.observed # NoRun =>
            /\ run[c.observed].item = i
            /\ run[c.observed].disk.state = "completed"
            /\ run[c.observed].snapshot = "campaign"
            /\ \A j \in DOMAIN manifest \ {i} : manifest[j].observed # c.observed

=============================================================================
