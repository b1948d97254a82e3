------------------------------ MODULE EvalRun ------------------------------
(***************************************************************************)
(* A cohort of the evaluation harness: one process that freezes the        *)
(* source, runs its controls and a scenario, and keeps a manifest of how   *)
(* far it came (evals/runner/__main__.py, run_state.py).  A cohort a       *)
(* matrix starts has one scenario.  The working tree may be edited at any  *)
(* time, and a signal may end the process at any time, within a write of   *)
(* the manifest too.                                                       *)
(***************************************************************************)
EXTENDS Integers, FiniteSets

CONSTANTS
    MaxRuns,       \* how many cohorts are started
    MaxEdits       \* how many times the working tree changes

VARIABLES
    tree,          \* the working tree: what it holds, and the edits so far
    run            \* what each cohort's process and its directory hold

Run == 1..MaxRuns
NoRun == 0

Terminal == {"completed", "failed", "interrupted", "contaminated"}

AllowedTransitions ==
    [s \in {"initializing", "controls", "running"} |->
        CASE s = "initializing" -> {"controls"} \cup (Terminal \ {"completed"})
          [] s = "controls" -> {"running"} \cup (Terminal \ {"completed"})
          [] s = "running" -> {"running"} \cup Terminal]

(* A manifest: its lifecycle state, its revision and whether the scenario   *)
(* is accounted for.                                                        *)
NoManifest == [state |-> "none", rev |-> 0, done |-> FALSE]
First == [state |-> "initializing", rev |-> 0, done |-> FALSE]
Advanced(m, s, d) == [state |-> s, rev |-> m.rev + 1, done |-> d]

(* persist replaces the file by the next revision of it and by nothing      *)
(* else: a finished manifest has none.                                      *)
Follows(m, d) ==
    /\ d.state \in DOMAIN AllowedTransitions
    /\ m.state \in AllowedTransitions[d.state]
    /\ m.rev = d.rev + 1
    /\ d.done => m.done

(* clean: the revision and the cleanliness read before the snapshot; seen:  *)
(* the manifest in memory; next: the one being written; disk: the file.     *)
NewRun(i) ==
    [item |-> i, pc |-> "read", clean |-> FALSE, snapshot |-> "none",
     seen |-> NoManifest, next |-> NoManifest, disk |-> NoManifest]
Unborn == [NewRun(0) EXCEPT !.pc = "unborn"]

(* A process that ended leaves its snapshot's digest and its manifest.      *)
Ended(r, pc, d) ==
    [run[r] EXCEPT !.pc = pc, !.clean = FALSE, !.seen = NoManifest,
                   !.next = NoManifest, !.disk = d]

EvalRunInit ==
    /\ tree = [holds |-> "campaign", edits |-> 0]
    /\ run = [r \in Run |-> Unborn]

SourceUnchanged == tree.holds = "campaign"

ReadSource(r) ==
    /\ run[r].pc = "read"
    /\ run' = [run EXCEPT ![r].pc = "begin", ![r].clean = SourceUnchanged]
    /\ UNCHANGED tree

(* The snapshot is sealed, the directory is made and the manifest is born.  *)
Begin(r) ==
    /\ run[r].pc = "begin"
    /\ run' = [run EXCEPT ![r].pc = "check", ![r].snapshot = tree.holds,
                          ![r].seen = First, ![r].disk = First]
    /\ UNCHANGED tree

Advance(r, s, d) ==
    /\ run' = [run EXCEPT ![r].pc = "persist", ![r].next = Advanced(run[r].seen, s, d)]
    /\ UNCHANGED tree

(* A tree that is not the clean revision fails the cohort before it starts. *)
CheckSource(r) ==
    /\ run[r].pc = "check"
    /\ IF run[r].clean /\ SourceUnchanged
       THEN run' = [run EXCEPT ![r].pc = "preflight"] /\ UNCHANGED tree
       ELSE Advance(r, "failed", FALSE)

Preflight(r) ==
    /\ run[r].pc = "preflight"
    /\ \E s \in {"controls", "failed", "contaminated"} : Advance(r, s, FALSE)

Controls(r) ==
    /\ run[r].pc = "controls"
    /\ \E s \in {"running", "failed"} : Advance(r, s, FALSE)

(* The inputs are compared before the scenario is run, and again before the *)
(* cohort is declared complete; the scenario itself may fail.               *)
Scenario(r) ==
    /\ run[r].pc = "scenario"
    /\ \/ SourceUnchanged /\ Advance(r, "running", TRUE)
       \/ \E s \in {"failed", "contaminated"} : Advance(r, s, FALSE)

Conclude(r) ==
    /\ run[r].pc = "conclude"
    /\ \/ SourceUnchanged /\ Advance(r, "completed", TRUE)
       \/ \E s \in {"failed", "contaminated"} : Advance(r, s, TRUE)

(* _advance_manifest: the file first, then the process's own copy.          *)
Persist(r) ==
    /\ run[r].pc = "persist"
    /\ run' = [run EXCEPT ![r] =
                  IF Follows(run[r].next, run[r].disk)
                  THEN [@ EXCEPT !.pc = "return", !.disk = run[r].next]
                  ELSE Ended(r, "exited", run[r].disk)]
    /\ UNCHANGED tree

After(m) ==
    IF m.state = "controls" THEN "controls" ELSE IF m.done THEN "conclude" ELSE "scenario"

Return(r) ==
    /\ run[r].pc = "return"
    /\ run' = [run EXCEPT ![r] =
                  IF run[r].next.state \in Terminal
                  THEN Ended(r, "exited", run[r].disk)
                  ELSE [@ EXCEPT !.pc = After(run[r].next), !.seen = run[r].next,
                                 !.next = NoManifest]]
    /\ UNCHANGED tree

(* _terminalize_interruption: the cancellation follows the manifest in      *)
(* memory, or the one being written, whichever the file holds; a finished   *)
(* file is left alone.                                                      *)
Candidates(r) ==
    {run[r].seen} \cup (IF run[r].pc \in {"persist", "return"} THEN {run[r].next} ELSE {})

Terminalized(r) ==
    {m \in {Advanced(c, "interrupted", c.done) : c \in Candidates(r) \ {NoManifest}} :
        Follows(m, run[r].disk)}

(* A signal, or a kill: it may also fall where nothing catches it.          *)
Alive(r) == run[r].pc \notin {"unborn", "exited", "cut"}

CutShort(r) ==
    /\ Alive(r)
    /\ \E d \in {run[r].disk} \cup Terminalized(r) :
        run' = [run EXCEPT ![r] = Ended(r, "cut", d)]

Signal(r) == CutShort(r) /\ UNCHANGED tree

Edit ==
    /\ tree.edits < MaxEdits
    /\ tree' = [holds |-> IF SourceUnchanged THEN "edited" ELSE "campaign",
                edits |-> tree.edits + 1]
    /\ UNCHANGED run

EvalRunStep(r) ==
    \/ ReadSource(r) \/ Begin(r) \/ CheckSource(r) \/ Preflight(r) \/ Controls(r)
    \/ Scenario(r) \/ Conclude(r) \/ Persist(r) \/ Return(r) \/ Signal(r)

-----------------------------------------------------------------------------
(* A cohort that ended keeps its verdict: a late cancellation of the same   *)
(* process never overwrites it (_terminalize_interruption).                 *)
VerdictKept ==
    \A r \in Run :
        run[r].disk.state \in Terminal => run'[r].disk = run[r].disk

=============================================================================
