-------------------------- MODULE EvalHarness_proofs --------------------------
(***************************************************************************)
(* What a matrix counts and what the review retains stands, and a grade is *)
(* earned, for any number of commands, items, cohorts, edits, cases,       *)
(* judges and turns.  One section each proves the inductive invariant of a *)
(* side over the actions of its module, as EvalHarness instantiates it;    *)
(* the last carries them, and what EvalTurns_proofs shows of conversations *)
(* with the app server, over to EvalSpec, whose behaviours follow one side.*)
(***************************************************************************)
EXTENDS EvalTurns_proofs

(***************************************************************************)
(* EvalRun, EvalMatrix.                                                    *)
(***************************************************************************)

Live == {"initializing", "controls", "running"}
State == {"none"} \cup Live \cup Matrix!Terminal
Record == [state : State, rev : Nat, done : BOOLEAN]

Sources == {"campaign", "edited"}
Stage == {"unborn", "read", "begin", "check", "preflight", "controls", "scenario", "conclude",
          "persist", "return", "exited", "cut"}
Cohort == [item : Nat, pc : Stage, clean : BOOLEAN, snapshot : {"none"} \cup Sources,
           seen : Record, next : Record, disk : Record]

TreeTyped == tree \in [holds : Sources, edits : Nat]
RunTyped == run \in [Matrix!Run -> Cohort]

(* A cohort writes its first manifest where there is none.                  *)
BeginsFresh == \A r \in Matrix!Run : run[r].pc \in {"read", "begin"} => run[r].disk = Matrix!NoManifest

RunInv == TreeTyped /\ RunTyped /\ BeginsFresh

(* A step of cohort r: no other moves, an ended one does not, and a verdict *)
(* that its file holds stays.                                               *)
Moves(r) ==
    /\ run[r].pc # "exited"
    /\ run' = [run EXCEPT ![r] = run'[r]]
    /\ run'[r] \in Cohort
    /\ run'[r].pc \in {"read", "begin"} => run'[r].disk = Matrix!NoManifest
    /\ run[r].disk.state \in Matrix!Terminal => run'[r].disk = run[r].disk

LEMMA RecordsKnown ==
    /\ Matrix!First \in Record /\ Matrix!First.state \notin Matrix!Terminal
    /\ Matrix!NoManifest \in Record /\ Matrix!NoManifest.state \notin Matrix!Terminal
  BY DEF Matrix!First, Matrix!NoManifest, Record, State, Live, Matrix!Terminal

LEMMA NewCohort ==
    ASSUME NEW i \in Nat
    PROVE  /\ Matrix!NewRun(i) \in Cohort /\ Matrix!NewRun(i).disk = Matrix!NoManifest
           /\ Matrix!NewRun(0) \in Cohort => Matrix!Unborn \in Cohort /\ Matrix!Unborn.disk = Matrix!NoManifest
  <1>1. Matrix!NewRun(i) \in Cohort /\ Matrix!NewRun(i).disk = Matrix!NoManifest
    BY RecordsKnown DEF Matrix!NewRun, Cohort, Stage
  <1>2. ASSUME Matrix!NewRun(0) \in Cohort
        PROVE  [Matrix!NewRun(0) EXCEPT !.pc = "unborn"] \in Cohort
    BY <1>2 DEF Cohort, Stage
  <1>3. Matrix!Unborn.disk = Matrix!NoManifest
    BY DEF Matrix!Unborn, Matrix!NewRun
  <1> QED
    BY <1>1, <1>2, <1>3 DEF Matrix!Unborn

LEMMA RunInitially == Matrix!EvalRunInit => RunInv
  <1>1. Matrix!Unborn \in Cohort /\ Matrix!Unborn.disk = Matrix!NoManifest
    BY NewCohort
  <1> QED
    BY <1>1 DEF Matrix!EvalRunInit, RunInv, TreeTyped, RunTyped, BeginsFresh, Sources

LEMMA Followed ==
    ASSUME NEW m \in Record, NEW d \in Record, Matrix!Follows(m, d)
    PROVE  d.state \notin Matrix!Terminal
  BY DEF Matrix!Follows, Matrix!AllowedTransitions, Matrix!Terminal

LEMMA AdvancedIsRecord ==
    ASSUME NEW m \in Record, NEW s \in State, NEW d \in BOOLEAN
    PROVE  Matrix!Advanced(m, s, d) \in Record
  BY DEF Matrix!Advanced, Record

(* A process that ends with a file that follows the one it had.             *)
LEMMA EndingMoves ==
    ASSUME RunInv, NEW r \in Matrix!Run, run[r].pc # "exited",
           NEW pc \in {"exited", "cut"}, NEW d \in Record,
           d = run[r].disk \/ run[r].disk.state \notin Matrix!Terminal,
           run' = [run EXCEPT ![r] = Matrix!Ended(r, pc, d)]
    PROVE  Moves(r)
  <1> DEFINE new == Matrix!Ended(r, pc, d)
  <1>1. run[r] \in Cohort
    BY DEF RunInv, RunTyped
  <1>2. pc \in Stage
    BY DEF Stage
  <1>3. new \in Cohort
    BY <1>1, <1>2, RecordsKnown DEF Matrix!Ended, Cohort
  <1>4. new.pc = pc /\ new.disk = d
    BY <1>1 DEF Matrix!Ended, Cohort
  <1>5. run'[r] = new /\ run' = [run EXCEPT ![r] = new]
    BY DEF RunInv, RunTyped
  <1> HIDE DEF new
  <1> QED
    BY <1>3, <1>4, <1>5 DEF Moves

LEMMA AdvanceMoves ==
    ASSUME RunInv, NEW r \in Matrix!Run, run[r].pc # "exited",
           NEW s \in State, NEW d \in BOOLEAN, Matrix!Advance(r, s, d)
    PROVE  Moves(r) /\ UNCHANGED tree
  <1> DEFINE next == Matrix!Advanced(run[r].seen, s, d)
  <1>1. run[r] \in Cohort
    BY DEF RunInv, RunTyped
  <1>2. next \in Record
    BY <1>1, AdvancedIsRecord DEF Cohort
  <1>3. /\ run' = [run EXCEPT ![r].pc = "persist", ![r].next = next]
        /\ UNCHANGED tree
    BY DEF Matrix!Advance
  <1> HIDE DEF next
  <1>4. /\ run'[r] = [run[r] EXCEPT !.pc = "persist", !.next = next]
        /\ run' = [run EXCEPT ![r] = run'[r]]
    BY <1>3 DEF RunInv, RunTyped
  <1>5. run'[r] \in Cohort
    BY <1>1, <1>2, <1>4 DEF Cohort, Stage
  <1>6. run'[r].pc = "persist" /\ run'[r].disk = run[r].disk
    BY <1>1, <1>4 DEF Cohort
  <1> QED
    BY <1>3, <1>4, <1>5, <1>6 DEF Moves

LEMMA CutMoves ==
    ASSUME RunInv, NEW r \in Matrix!Run, Matrix!CutShort(r)
    PROVE  Moves(r)
  <1>1. PICK d \in {run[r].disk} \cup Matrix!Terminalized(r) : run' = [run EXCEPT ![r] = Matrix!Ended(r, "cut", d)]
    BY DEF Matrix!CutShort
  <1>2. run[r] \in Cohort /\ run[r].pc # "exited"
    BY DEF RunInv, RunTyped, Matrix!CutShort, Matrix!Alive
  <1>3. d \in Record /\ (d = run[r].disk \/ run[r].disk.state \notin Matrix!Terminal)
    <2>1. CASE d = run[r].disk
      BY <1>2, <2>1 DEF Cohort
    <2>2. CASE d \in Matrix!Terminalized(r)
      <3>1. PICK c \in Matrix!Candidates(r) : d = Matrix!Advanced(c, "interrupted", c.done) /\ Matrix!Follows(d, run[r].disk)
        BY <2>2 DEF Matrix!Terminalized
      <3>2. c \in Record
        BY <1>2, <3>1 DEF Matrix!Candidates, Cohort
      <3>3. c.done \in BOOLEAN /\ "interrupted" \in State
        BY <3>2 DEF Record, State, Matrix!Terminal
      <3>4. d \in Record
        BY <3>1, <3>2, <3>3, AdvancedIsRecord
      <3> QED
        BY <1>2, <3>1, <3>4, Followed DEF Cohort
    <2> QED
      BY <2>1, <2>2
  <1> QED
    BY <1>1, <1>2, <1>3, EndingMoves

(* Every step of a cohort.                                                  *)
LEMMA RunStepMoves ==
    ASSUME RunInv, NEW r \in Matrix!Run, Matrix!EvalRunStep(r)
    PROVE  Moves(r) /\ UNCHANGED tree
  <1>0. run[r] \in Cohort /\ tree.holds \in Sources /\ run \in [Matrix!Run -> Cohort]
    BY DEF RunInv, RunTyped, TreeTyped
  <1>s. {"controls", "running", "failed", "contaminated", "completed"} \subseteq State
    BY DEF State, Live, Matrix!Terminal
  <1>1. CASE Matrix!ReadSource(r)
    <2>1. /\ run'[r] = [run[r] EXCEPT !.pc = "begin", !.clean = Matrix!SourceUnchanged]
          /\ run' = [run EXCEPT ![r] = run'[r]]
      BY <1>0, <1>1 DEF Matrix!ReadSource
    <2>2. Matrix!SourceUnchanged \in BOOLEAN
      BY DEF Matrix!SourceUnchanged
    <2>3. run'[r] \in Cohort
      BY <1>0, <2>1, <2>2 DEF Cohort, Stage
    <2>4. run'[r].disk = run[r].disk
      BY <1>0, <2>1 DEF Cohort
    <2>5. run[r].pc = "read" /\ UNCHANGED tree
      BY <1>1 DEF Matrix!ReadSource
    <2>6. run[r].disk = Matrix!NoManifest
      BY <2>5 DEF RunInv, BeginsFresh
    <2> QED
      BY <2>1, <2>3, <2>4, <2>5, <2>6 DEF Moves
  <1>2. CASE Matrix!Begin(r)
    <2>1. /\ run'[r] = [run[r] EXCEPT !.pc = "check", !.snapshot = tree.holds,
                                      !.seen = Matrix!First, !.disk = Matrix!First]
          /\ run' = [run EXCEPT ![r] = run'[r]]
      BY <1>0, <1>2 DEF Matrix!Begin
    <2>2. run'[r] \in Cohort
      BY <1>0, <2>1, RecordsKnown DEF Cohort, Stage
    <2>3. run'[r].pc = "check"
      BY <1>0, <2>1 DEF Cohort
    <2>4. run[r].pc = "begin" /\ UNCHANGED tree
      BY <1>2 DEF Matrix!Begin
    <2>5. run[r].disk.state \notin Matrix!Terminal
      BY <2>4, RecordsKnown DEF RunInv, BeginsFresh
    <2> QED
      BY <2>1, <2>2, <2>3, <2>4, <2>5 DEF Moves
  <1>3. CASE Matrix!CheckSource(r)
    <2>1. CASE run[r].clean /\ Matrix!SourceUnchanged
      <3>1. /\ run'[r] = [run[r] EXCEPT !.pc = "preflight"]
            /\ run' = [run EXCEPT ![r] = run'[r]]
        BY <1>0, <1>3, <2>1 DEF Matrix!CheckSource
      <3>2. run'[r] \in Cohort
        BY <1>0, <3>1 DEF Cohort, Stage
      <3>3. run'[r].pc = "preflight" /\ run'[r].disk = run[r].disk
        BY <1>0, <3>1 DEF Cohort
      <3>4. run[r].pc = "check" /\ UNCHANGED tree
        BY <1>3, <2>1 DEF Matrix!CheckSource
      <3> QED
        BY <3>1, <3>2, <3>3, <3>4 DEF Moves
    <2>2. CASE ~(run[r].clean /\ Matrix!SourceUnchanged)
      BY <1>s, <1>3, <2>2, AdvanceMoves DEF Matrix!CheckSource
    <2> QED
      BY <2>1, <2>2
  <1>4. CASE Matrix!Preflight(r)
    BY <1>s, <1>4, AdvanceMoves DEF Matrix!Preflight
  <1>5. CASE Matrix!Controls(r)
    BY <1>s, <1>5, AdvanceMoves DEF Matrix!Controls
  <1>6. CASE Matrix!Scenario(r)
    BY <1>s, <1>6, AdvanceMoves DEF Matrix!Scenario
  <1>7. CASE Matrix!Conclude(r)
    BY <1>s, <1>7, AdvanceMoves DEF Matrix!Conclude
  <1>8. CASE Matrix!Persist(r)
    <2>0. run[r].pc = "persist" /\ UNCHANGED tree
      BY <1>8 DEF Matrix!Persist
    <2>1. CASE Matrix!Follows(run[r].next, run[r].disk)
      <3>1. /\ run'[r] = [run[r] EXCEPT !.pc = "return", !.disk = run[r].next]
            /\ run' = [run EXCEPT ![r] = run'[r]]
        BY <1>0, <1>8, <2>1 DEF Matrix!Persist
      <3>2. run'[r] \in Cohort
        BY <1>0, <3>1 DEF Cohort, Stage
      <3>3. run'[r].pc = "return"
        BY <1>0, <3>1 DEF Cohort
      <3>4. run[r].disk.state \notin Matrix!Terminal
        BY <1>0, <2>1, Followed DEF Cohort
      <3> QED
        BY <2>0, <3>1, <3>2, <3>3, <3>4 DEF Moves
    <2>2. CASE ~Matrix!Follows(run[r].next, run[r].disk)
      <3>1. run' = [run EXCEPT ![r] = Matrix!Ended(r, "exited", run[r].disk)]
        BY <1>8, <2>2 DEF Matrix!Persist
      <3>2. run[r].disk \in Record
        BY <1>0 DEF Cohort
      <3> QED
        BY <2>0, <3>1, <3>2, EndingMoves
    <2> QED
      BY <2>1, <2>2
  <1>9. CASE Matrix!Return(r)
    <2>0. run[r].pc = "return" /\ UNCHANGED tree
      BY <1>9 DEF Matrix!Return
    <2>1. CASE run[r].next.state \in Matrix!Terminal
      <3>1. run' = [run EXCEPT ![r] = Matrix!Ended(r, "exited", run[r].disk)]
        BY <1>9, <2>1 DEF Matrix!Return
      <3>2. run[r].disk \in Record
        BY <1>0 DEF Cohort
      <3> QED
        BY <2>0, <3>1, <3>2, EndingMoves
    <2>2. CASE run[r].next.state \notin Matrix!Terminal
      <3> DEFINE after == Matrix!After(run[r].next)
      <3>1. after \in {"controls", "conclude", "scenario"}
        BY DEF Matrix!After
      <3>2. run' = [run EXCEPT ![r] = [@ EXCEPT !.pc = after, !.seen = run[r].next,
                                                !.next = Matrix!NoManifest]]
        BY <1>9, <2>2 DEF Matrix!Return
      <3> HIDE DEF after
      <3>3. /\ run'[r] = [run[r] EXCEPT !.pc = after, !.seen = run[r].next, !.next = Matrix!NoManifest]
            /\ run' = [run EXCEPT ![r] = run'[r]]
        BY <1>0, <3>2
      <3>4. after \in Stage
        BY <3>1 DEF Stage
      <3>5. run'[r] \in Cohort
        BY <1>0, <3>3, <3>4, RecordsKnown DEF Cohort
      <3>6. run'[r].pc = after /\ run'[r].disk = run[r].disk
        BY <1>0, <3>3 DEF Cohort
      <3> QED
        BY <2>0, <3>1, <3>3, <3>5, <3>6 DEF Moves
    <2> QED
      BY <2>1, <2>2
  <1>10. CASE Matrix!Signal(r)
    BY <1>10, CutMoves DEF Matrix!Signal
  <1> QED
    BY <1>1, <1>2, <1>3, <1>4, <1>5, <1>6, <1>7, <1>8, <1>9, <1>10 DEF Matrix!EvalRunStep

-----------------------------------------------------------------------------
Dir == [has : {"start", "result", "failure"}, observed : {Matrix!NoRun} \cup Matrix!Run]
Counts == [attempt : Nat, observed : {Matrix!NoRun} \cup Matrix!Run]

Inside == {"attempt", "launch", "await", "publish", "checkpoint", "refused"}
Tried == {"launch", "await", "publish", "checkpoint"}
Command == [pc : {"idle", "loaded"} \cup Inside, seen : Seq(Counts),
            inputs : {"none"} \cup Sources, child : {Matrix!NoRun} \cup Matrix!Run]

MatrixTyped ==
    /\ manifest \in Seq(Counts) /\ Len(manifest) <= Items
    /\ attempts \in [Matrix!Item -> Seq(Dir)]
    /\ cmd \in [Proc -> Command]

(* What the cohort of a completion is to the item it counts for.            *)
Proven(c, i) == c # Matrix!NoRun => Matrix!Observable(c, i)

(* A command past the lock holds it and the manifest on disk; the item it   *)
(* works on has an attempt once it was opened, its cohort is proven before  *)
(* its result is published, and its result is on disk before it counts.     *)
CommandKnows(p) ==
    cmd[p].pc \in Inside =>
        /\ lock = p /\ cmd[p].seen = manifest /\ Len(manifest) < Items
        /\ cmd[p].pc \in Tried => attempts[Len(manifest) + 1] # <<>>
        /\ cmd[p].pc = "await" => cmd[p].child \in Matrix!Run
        /\ cmd[p].pc \in {"publish", "checkpoint"} =>
            /\ Proven(cmd[p].child, Len(manifest) + 1)
            /\ cmd[p].child # Matrix!NoRun =>
                \A k \in DOMAIN manifest : manifest[k].observed # cmd[p].child
        /\ cmd[p].pc = "checkpoint" =>
            attempts[Len(manifest) + 1][Len(attempts[Len(manifest) + 1])] =
                [has |-> "result", observed |-> cmd[p].child]

CountedOnce(i) ==
    /\ manifest[i].attempt = Len(attempts[i])
    /\ attempts[i][manifest[i].attempt] = [has |-> "result", observed |-> manifest[i].observed]
    /\ Proven(manifest[i].observed, i)
    /\ manifest[i].observed # Matrix!NoRun =>
        \A j \in DOMAIN manifest \ {i} : manifest[j].observed # manifest[i].observed

Counted == \A i \in DOMAIN manifest : CountedOnce(i)
Known == \A p \in Proc : CommandKnows(p)

MatrixInv == RunInv /\ MatrixTyped /\ Known /\ Counted

LEMMA CountedStands == Counted => Matrix!ObservationsStand
  BY DEF Counted, CountedOnce, Matrix!ObservationsStand, Proven, Matrix!Observable

LEMMA MatrixInitially == Matrix!MatrixAssumption /\ Matrix!MatrixInit => MatrixInv
  <1> SUFFICES ASSUME Matrix!MatrixAssumption, Matrix!MatrixInit
               PROVE  MatrixInv
    OBVIOUS
  <1>1. RunInv
    BY RunInitially DEF Matrix!MatrixInit
  <1>2. Matrix!Idle \in Command /\ Matrix!Idle.pc = "idle"
    BY DEF Matrix!Idle, Command
  <1>3. MatrixTyped
    BY <1>2 DEF Matrix!MatrixInit, MatrixTyped, Matrix!MatrixAssumption
  <1>4. Known
    BY <1>2 DEF Matrix!MatrixInit, Known, CommandKnows, Inside
  <1>5. Counted
    BY DEF Matrix!MatrixInit, Counted
  <1> QED
    BY <1>1, <1>3, <1>4, <1>5 DEF MatrixInv

(* What any step does to the cohorts.                                       *)
CohortsMove ==
    /\ RunInv'
    /\ Matrix!VerdictKept
    /\ \A r \in Matrix!Run : run[r].pc = "exited" => run'[r] = run[r]

LEMMA OneMoves ==
    ASSUME RunInv, NEW r \in Matrix!Run, Moves(r), TreeTyped'
    PROVE  CohortsMove
  <1>1. run' \in [Matrix!Run -> Cohort] /\ \A q \in Matrix!Run : q # r => run'[q] = run[q]
    BY DEF Moves, RunInv, RunTyped
  <1>2. RunTyped'
    BY <1>1 DEF RunTyped
  <1>3. BeginsFresh'
    BY <1>1 DEF BeginsFresh, RunInv, Moves
  <1>4. Matrix!VerdictKept
    BY <1>1 DEF Matrix!VerdictKept, Moves
  <1> QED
    BY <1>1, <1>2, <1>3, <1>4 DEF CohortsMove, RunInv, Moves

LEMMA NoneMoves == RunInv /\ run' = run /\ TreeTyped' => CohortsMove
  BY DEF CohortsMove, RunInv, RunTyped, BeginsFresh, Matrix!VerdictKept

LEMMA Launches ==
    ASSUME RunInv, NEW r \in Matrix!Run, NEW i \in Nat, run[r] = Matrix!Unborn,
           run' = [run EXCEPT ![r] = Matrix!NewRun(i)], tree' = tree
    PROVE  CohortsMove
  <1>1. Matrix!NewRun(i) \in Cohort /\ Matrix!NewRun(i).disk = Matrix!NoManifest
    BY NewCohort
  <1>2. Matrix!Unborn.pc = "unborn" /\ Matrix!Unborn.disk = Matrix!NoManifest
    BY DEF Matrix!Unborn, Matrix!NewRun
  <1>3. run'[r] = Matrix!NewRun(i) /\ run' = [run EXCEPT ![r] = run'[r]]
    BY DEF RunInv, RunTyped
  <1>4. Moves(r)
    BY <1>1, <1>2, <1>3, RecordsKnown DEF Moves
  <1> QED
    BY <1>4, OneMoves DEF RunInv, TreeTyped

(* Ended cohorts stay as they are, and so what rests on them.               *)
LEMMA ProvenStays ==
    ASSUME CohortsMove, NEW c \in {Matrix!NoRun} \cup Matrix!Run, NEW i, Proven(c, i)
    PROVE  Proven(c, i)'
  BY DEF CohortsMove, Proven, Matrix!Observable

LEMMA CountedStays ==
    ASSUME MatrixInv, CohortsMove, manifest' = manifest,
           \A i \in DOMAIN manifest : attempts'[i] = attempts[i]
    PROVE  Counted'
  <1> SUFFICES ASSUME NEW i \in DOMAIN manifest
               PROVE  CountedOnce(i)'
    BY DEF Counted
  <1>1. CountedOnce(i)
    BY DEF MatrixInv, Counted
  <1>2. manifest[i].observed \in {Matrix!NoRun} \cup Matrix!Run
    <2>1. manifest[i] \in Counts
      BY DEF MatrixInv, MatrixTyped
    <2> QED
      BY <2>1 DEF Counts
  <1>3. Proven(manifest[i].observed, i)'
    BY <1>1, <1>2, ProvenStays DEF CountedOnce
  <1> QED
    BY <1>1, <1>3 DEF CountedOnce

(* The lock: while one command is past it, no other is.                     *)
LEMMA OneInside ==
    ASSUME MatrixInv, NEW p \in Proc, cmd[p].pc \in Inside, NEW q \in Proc, q # p
    PROVE  cmd[q].pc \notin Inside
  BY DEF MatrixInv, Known, CommandKnows

LEMMA HolderSteps ==
    ASSUME MatrixInv, CohortsMove, MatrixTyped', Counted',
           NEW p \in Proc, cmd[p].pc \in Inside, cmd' = [cmd EXCEPT ![p] = cmd'[p]],
           CommandKnows(p)'
    PROVE  MatrixInv'
  <1>1. ASSUME NEW q \in Proc, q # p
        PROVE  CommandKnows(q)'
    <2>1. cmd'[q] = cmd[q] /\ cmd[q].pc \notin Inside
      BY <1>1, OneInside DEF MatrixInv, MatrixTyped
    <2> QED
      BY <2>1 DEF CommandKnows
  <1> QED
    BY <1>1 DEF MatrixInv, Known, CohortsMove

(* Steps of a command that has not entered, or of the cohorts.              *)
LEMMA OutsiderSteps ==
    ASSUME MatrixInv, CohortsMove, MatrixTyped', manifest' = manifest, attempts' = attempts,
           \A q \in Proc : \/ cmd'[q].pc \notin Inside
                           \/ cmd'[q] = cmd[q] /\ (lock = q => lock' = q)
    PROVE  MatrixInv'
  <1>1. ASSUME NEW q \in Proc
        PROVE  CommandKnows(q)'
    <2>1. CASE cmd'[q].pc \notin Inside
      BY <2>1 DEF CommandKnows
    <2>2. CASE cmd'[q] = cmd[q] /\ (lock = q => lock' = q) /\ cmd[q].pc \in Inside
      <3>1. CommandKnows(q) /\ cmd[q].child \in {Matrix!NoRun} \cup Matrix!Run
        BY DEF MatrixInv, Known, MatrixTyped, Command
      <3>2. PICK c \in {Matrix!NoRun} \cup Matrix!Run, n \in {Len(manifest) + 1} :
                c = cmd[q].child /\ n = Len(manifest) + 1
        BY <3>1
      <3>3. Proven(c, n) => Proven(c, n)'
        BY <3>2, ProvenStays
      <3> QED
        BY <2>2, <3>1, <3>2, <3>3 DEF CommandKnows, Proven, Matrix!Observable
    <2> QED
      BY <1>1, <2>1, <2>2
  <1>2. Counted'
    BY CountedStays
  <1> QED
    BY <1>1, <1>2 DEF MatrixInv, Known, CohortsMove

-----------------------------------------------------------------------------
LEMMA Typed ==
    ASSUME MatrixInv
    PROVE  /\ manifest \in Seq(Counts) /\ attempts \in [Matrix!Item -> Seq(Dir)]
           /\ Len(manifest) \in Nat /\ DOMAIN manifest = 1..Len(manifest)
           /\ \A p \in Proc : cmd[p] \in Command
           /\ cmd \in [Proc -> Command]
           /\ TreeTyped /\ run \in [Matrix!Run -> Cohort]
  BY DEF MatrixInv, MatrixTyped, RunInv, RunTyped

(* A command that leaves, wherever it was, disturbs nobody.                 *)
LEMMA LeavingKeeps ==
    ASSUME MatrixInv, CohortsMove, NEW p \in Proc, cmd' = [cmd EXCEPT ![p] = Matrix!Idle],
           \A q \in Proc \ {p} : lock = q => lock' = q,
           UNCHANGED <<manifest, attempts>>
    PROVE  MatrixInv'
  <1>1. Matrix!Idle \in Command /\ Matrix!Idle.pc \notin Inside
    BY DEF Matrix!Idle, Command, Inside
  <1>2. cmd' \in [Proc -> Command] /\ cmd'[p] = Matrix!Idle /\ \A q \in Proc \ {p} : cmd'[q] = cmd[q]
    BY <1>1, Typed
  <1>3. MatrixTyped'
    BY <1>2 DEF MatrixTyped, MatrixInv
  <1> QED
    BY <1>1, <1>2, <1>3, OutsiderSteps

LEMMA LoadKeeps ==
    ASSUME MatrixInv, NEW p \in Proc, Matrix!Load(p)
    PROVE  MatrixInv' /\ CohortsMove
  <1>1. CohortsMove
    BY NoneMoves DEF Matrix!Load, MatrixInv, RunInv, TreeTyped
  <1> DEFINE c == [pc |-> "loaded", seen |-> manifest, inputs |-> tree.holds, child |-> Matrix!NoRun]
  <1>2. tree.holds \in Sources
    BY DEF MatrixInv, RunInv, TreeTyped
  <1>3. c \in Command /\ c.pc \notin Inside
    BY <1>2, Typed DEF Command, Inside
  <1>4. cmd' = [cmd EXCEPT ![p] = c] /\ UNCHANGED <<manifest, attempts, lock>>
    BY DEF Matrix!Load
  <1> HIDE DEF c
  <1>5. cmd' \in [Proc -> Command] /\ cmd'[p] = c /\ \A q \in Proc \ {p} : cmd'[q] = cmd[q]
    BY <1>3, <1>4, Typed
  <1>6. MatrixTyped'
    BY <1>4, <1>5 DEF MatrixTyped, MatrixInv
  <1> QED
    BY <1>1, <1>3, <1>4, <1>5, <1>6, OutsiderSteps

LEMMA EnterKeeps ==
    ASSUME Matrix!MatrixAssumption, MatrixInv, NEW p \in Proc, Matrix!Enter(p)
    PROVE  MatrixInv' /\ CohortsMove
  <1>1. CohortsMove
    BY NoneMoves DEF Matrix!Enter, MatrixInv, RunInv, TreeTyped
  <1>2. CASE Matrix!Resumable(p) /\ ~Matrix!Complete(Matrix!Reloaded(p))
    <2>1. /\ lock = Nobody /\ lock' = p
          /\ cmd' = [cmd EXCEPT ![p].pc = "attempt", ![p].seen = manifest]
          /\ Len(manifest) # Items /\ UNCHANGED <<manifest, attempts>>
      BY <1>2 DEF Matrix!Enter, Matrix!Reloaded, Matrix!Complete
    <2>2. /\ cmd'[p] = [cmd[p] EXCEPT !.pc = "attempt", !.seen = manifest]
          /\ \A q \in Proc \ {p} : cmd'[q] = cmd[q]
          /\ cmd' = [cmd EXCEPT ![p] = cmd'[p]]
      BY <2>1, Typed
    <2>3. /\ cmd'[p] \in Command
          /\ cmd'[p].pc = "attempt" /\ cmd'[p].seen = manifest
      BY <2>2, Typed DEF Command, Inside
    <2>4. MatrixTyped'
      BY <2>1, <2>2, <2>3, Typed DEF MatrixTyped, MatrixInv
    <2>5. Counted'
      BY <1>1, <2>1, CountedStays
    <2>6. CommandKnows(p)'
      <3>1. Len(manifest) < Items
        BY <2>1, Typed DEF MatrixInv, MatrixTyped, Matrix!MatrixAssumption
      <3> QED
        BY <2>1, <2>3, <3>1 DEF CommandKnows, Tried
    <2>7. ASSUME NEW q \in Proc, q # p
          PROVE  CommandKnows(q)'
      <3>1. cmd'[q] = cmd[q] /\ cmd[q].pc \notin Inside
        BY <2>1, <2>2, <2>7 DEF MatrixInv, Known, CommandKnows, Matrix!MatrixAssumption
      <3> QED
        BY <3>1 DEF CommandKnows
    <2> QED
      BY <1>1, <2>4, <2>5, <2>6, <2>7 DEF MatrixInv, Known, CohortsMove
  <1>3. CASE ~(Matrix!Resumable(p) /\ ~Matrix!Complete(Matrix!Reloaded(p)))
    BY <1>1, <1>3, LeavingKeeps DEF Matrix!Enter
  <1> QED
    BY <1>1, <1>2, <1>3

(* What the command that holds the lock knows.                              *)
LEMMA Holder ==
    ASSUME Matrix!MatrixAssumption, MatrixInv, NEW p \in Proc, cmd[p].pc \in Inside
    PROVE  /\ cmd[p].seen = manifest /\ Matrix!NextItem(p) = Len(manifest) + 1
           /\ Matrix!NextItem(p) \in Matrix!Item /\ Matrix!NextItem(p) \notin DOMAIN manifest
           /\ attempts[Matrix!NextItem(p)] \in Seq(Dir)
           /\ lock = p /\ Len(manifest) < Items
  <1>1. cmd[p].seen = manifest /\ Len(manifest) < Items /\ lock = p
    BY DEF MatrixInv, Known, CommandKnows
  <1>2. Matrix!NextItem(p) = Len(manifest) + 1
    BY <1>1 DEF Matrix!NextItem
  <1>3. Matrix!NextItem(p) \in Matrix!Item /\ Matrix!NextItem(p) \notin DOMAIN manifest
    BY <1>1, <1>2, Typed DEF Matrix!Item, Matrix!MatrixAssumption
  <1> QED
    BY <1>1, <1>2, <1>3, Typed

LEMMA OpenAttemptKeeps ==
    ASSUME Matrix!MatrixAssumption, MatrixInv, NEW p \in Proc, Matrix!OpenAttempt(p)
    PROVE  MatrixInv' /\ CohortsMove
  <1>1. CohortsMove
    BY NoneMoves DEF Matrix!OpenAttempt, MatrixInv, RunInv, TreeTyped
  <1>2. cmd[p].pc \in Inside
    BY DEF Matrix!OpenAttempt, Inside
  <1> DEFINE n == Matrix!NextItem(p)
  <1>3. /\ attempts' = [attempts EXCEPT ![n] = Append(attempts[n], Matrix!Open)]
        /\ cmd' = [cmd EXCEPT ![p].pc = "launch"]
        /\ UNCHANGED <<manifest, lock>>
    BY DEF Matrix!OpenAttempt
  <1>4. n = Len(manifest) + 1 /\ n \in Matrix!Item /\ n \notin DOMAIN manifest /\ attempts[n] \in Seq(Dir)
    BY <1>2, Holder
  <1> HIDE DEF n
  <1>5. Matrix!Open \in Dir
    BY DEF Matrix!Open, Dir
  <1>6. /\ attempts' \in [Matrix!Item -> Seq(Dir)] /\ attempts'[n] # <<>>
        /\ \A i \in Matrix!Item \ {n} : attempts'[i] = attempts[i]
    BY <1>3, <1>4, <1>5, Typed
  <1>7. /\ cmd'[p] = [cmd[p] EXCEPT !.pc = "launch"]
        /\ cmd' = [cmd EXCEPT ![p] = cmd'[p]]
    BY <1>3, Typed
  <1>8. /\ cmd'[p] \in Command
        /\ cmd'[p].pc = "launch" /\ cmd'[p].seen = cmd[p].seen
    BY <1>7, Typed DEF Command, Inside
  <1>9. cmd' \in [Proc -> Command]
    BY <1>7, <1>8, Typed
  <1>10. MatrixTyped'
    BY <1>3, <1>6, <1>9 DEF MatrixTyped, MatrixInv
  <1>11. \A i \in DOMAIN manifest : attempts'[i] = attempts[i]
    BY <1>4, <1>6, Typed DEF MatrixInv, MatrixTyped, Matrix!Item, Matrix!MatrixAssumption
  <1>12. Counted'
    BY <1>1, <1>3, <1>11, CountedStays
  <1>13. CommandKnows(p)'
    BY <1>2, <1>3, <1>4, <1>6, <1>8, Holder DEF CommandKnows
  <1> QED
    BY <1>1, <1>2, <1>7, <1>10, <1>12, <1>13, HolderSteps

(* The holder goes on without a change of the attempts or the manifest.     *)
LEMMA PhaseKeeps ==
    ASSUME Matrix!MatrixAssumption, MatrixInv, CohortsMove, NEW p \in Proc, cmd[p].pc \in Inside,
           UNCHANGED <<manifest, attempts>>, cmd' = [cmd EXCEPT ![p] = cmd'[p]],
           cmd'[p] \in Command, CommandKnows(p)'
    PROVE  MatrixInv'
  <1>1. cmd' \in [Proc -> Command]
    BY Typed
  <1>2. MatrixTyped'
    BY <1>1 DEF MatrixTyped, MatrixInv
  <1>3. Counted'
    BY CountedStays
  <1> QED
    BY <1>2, <1>3, HolderSteps

LEMMA RouteUnavailableKeeps ==
    ASSUME Matrix!MatrixAssumption, MatrixInv, NEW p \in Proc, Matrix!RouteUnavailable(p)
    PROVE  MatrixInv' /\ CohortsMove
  <1>1. CohortsMove
    BY NoneMoves DEF Matrix!RouteUnavailable, MatrixInv, RunInv, TreeTyped
  <1>2. cmd[p].pc \in Inside /\ cmd[p].pc \in Tried
    BY DEF Matrix!RouteUnavailable, Inside, Tried
  <1>3. /\ cmd' = [cmd EXCEPT ![p].pc = "publish", ![p].child = Matrix!NoRun]
        /\ UNCHANGED <<manifest, attempts, lock>>
    BY DEF Matrix!RouteUnavailable
  <1>4. /\ cmd'[p] = [cmd[p] EXCEPT !.pc = "publish", !.child = Matrix!NoRun]
        /\ cmd' = [cmd EXCEPT ![p] = cmd'[p]]
    BY <1>3, Typed
  <1>5. /\ cmd'[p] \in Command
        /\ cmd'[p].pc = "publish" /\ cmd'[p].seen = cmd[p].seen /\ cmd'[p].child = Matrix!NoRun
    BY <1>4, Typed DEF Command, Inside
  <1>6. CommandKnows(p)
    BY DEF MatrixInv, Known
  <1>7. CommandKnows(p)'
    BY <1>2, <1>3, <1>5, <1>6 DEF CommandKnows, Proven
  <1> QED
    BY <1>1, <1>2, <1>3, <1>4, <1>5, <1>7, PhaseKeeps

LEMMA LaunchChildKeeps ==
    ASSUME Matrix!MatrixAssumption, MatrixInv, NEW p \in Proc, Matrix!LaunchChild(p)
    PROVE  MatrixInv' /\ CohortsMove
  <1>1. PICK r \in Matrix!Run :
            /\ run[r] = Matrix!Unborn
            /\ run' = [run EXCEPT ![r] = Matrix!NewRun(Matrix!NextItem(p))]
            /\ cmd' = [cmd EXCEPT ![p].pc = "await", ![p].child = r]
    BY DEF Matrix!LaunchChild
  <1>2. /\ cmd[p].pc \in Inside /\ cmd[p].pc \in Tried
        /\ UNCHANGED <<tree, manifest, attempts, lock>>
    BY DEF Matrix!LaunchChild, Inside, Tried
  <1>3. Matrix!NextItem(p) \in Nat
    BY <1>2, Holder DEF Matrix!Item, Matrix!MatrixAssumption
  <1>4. CohortsMove
    BY <1>1, <1>2, <1>3, Launches DEF MatrixInv
  <1>5. /\ cmd'[p] = [cmd[p] EXCEPT !.pc = "await", !.child = r]
        /\ cmd' = [cmd EXCEPT ![p] = cmd'[p]]
    BY <1>1, Typed
  <1>6. /\ cmd'[p] \in Command
        /\ cmd'[p].pc = "await" /\ cmd'[p].seen = cmd[p].seen /\ cmd'[p].child = r
    BY <1>5, Typed DEF Command, Inside
  <1>7. CommandKnows(p)
    BY DEF MatrixInv, Known
  <1>8. CommandKnows(p)'
    BY <1>2, <1>6, <1>7 DEF CommandKnows
  <1> QED
    BY <1>2, <1>4, <1>5, <1>6, <1>8, PhaseKeeps

LEMMA ChildCountsKeeps ==
    ASSUME Matrix!MatrixAssumption, MatrixInv, NEW p \in Proc, Matrix!ChildCounts(p)
    PROVE  MatrixInv' /\ CohortsMove
  <1>1. CohortsMove
    BY NoneMoves DEF Matrix!ChildCounts, MatrixInv, RunInv, TreeTyped
  <1>2. cmd[p].pc \in Inside /\ cmd[p].pc \in Tried
    BY DEF Matrix!ChildCounts, Inside, Tried
  <1>3. /\ cmd' = [cmd EXCEPT ![p].pc = "publish"]
        /\ UNCHANGED <<run, manifest, attempts, lock>>
    BY DEF Matrix!ChildCounts
  <1>4. /\ cmd'[p] = [cmd[p] EXCEPT !.pc = "publish"]
        /\ cmd' = [cmd EXCEPT ![p] = cmd'[p]]
    BY <1>3, Typed
  <1>5. /\ cmd'[p] \in Command
        /\ cmd'[p].pc = "publish" /\ cmd'[p].seen = cmd[p].seen /\ cmd'[p].child = cmd[p].child
    BY <1>4, Typed DEF Command, Inside
  <1>6. CommandKnows(p)
    BY DEF MatrixInv, Known
  <1>7. /\ Proven(cmd[p].child, Len(manifest) + 1)
        /\ \A k \in DOMAIN manifest : manifest[k].observed # cmd[p].child
    BY <1>2, Holder DEF Matrix!ChildCounts, Proven, Matrix!Fresh
  <1>8. CommandKnows(p)'
    BY <1>2, <1>3, <1>5, <1>6, <1>7 DEF CommandKnows, Proven, Matrix!Observable
  <1> QED
    BY <1>1, <1>2, <1>3, <1>4, <1>5, <1>8, PhaseKeeps

(* An attempt directory of the holder's item is filled.                     *)
LEMMA Filled ==
    ASSUME Matrix!MatrixAssumption, MatrixInv, NEW p \in Proc, cmd[p].pc \in Tried
    PROVE  /\ Matrix!Attempt(p) \in 1..Len(attempts[Matrix!NextItem(p)])
           /\ Matrix!Attempt(p) = Len(attempts[Matrix!NextItem(p)])
           /\ attempts[Matrix!NextItem(p)][Matrix!Attempt(p)] \in Dir
           /\ Matrix!NextItem(p) \in Matrix!Item /\ attempts[Matrix!NextItem(p)] \in Seq(Dir)
  <1>1. cmd[p].pc \in Inside
    BY DEF Tried, Inside
  <1>2. attempts[Matrix!NextItem(p)] # <<>> /\ attempts[Matrix!NextItem(p)] \in Seq(Dir) /\ Matrix!NextItem(p) \in Matrix!Item
    BY <1>1, Holder DEF MatrixInv, Known, CommandKnows
  <1>3. Matrix!Attempt(p) = Len(attempts[Matrix!NextItem(p)]) /\ Matrix!Attempt(p) \in 1..Len(attempts[Matrix!NextItem(p)])
    BY <1>2 DEF Matrix!Attempt
  <1> QED
    BY <1>2, <1>3

LEMMA PublishResultKeeps ==
    ASSUME Matrix!MatrixAssumption, MatrixInv, NEW p \in Proc, Matrix!PublishResult(p)
    PROVE  MatrixInv' /\ CohortsMove
  <1>1. CohortsMove
    BY NoneMoves DEF Matrix!PublishResult, MatrixInv, RunInv, TreeTyped
  <1>2. cmd[p].pc \in Inside /\ cmd[p].pc \in Tried
    BY DEF Matrix!PublishResult, Inside, Tried
  <1> DEFINE n == Matrix!NextItem(p)
             a == Matrix!Attempt(p)
             d == [has |-> "result", observed |-> cmd[p].child]
  <1>3. /\ attempts' = [attempts EXCEPT ![n][a] = d]
        /\ cmd' = [cmd EXCEPT ![p].pc = "checkpoint"]
        /\ UNCHANGED <<run, manifest, lock>> /\ cmd[p].pc = "publish"
    BY DEF Matrix!PublishResult
  <1>4. /\ n = Len(manifest) + 1 /\ n \in Matrix!Item /\ n \notin DOMAIN manifest
        /\ attempts[n] \in Seq(Dir) /\ a = Len(attempts[n]) /\ a \in 1..Len(attempts[n])
    BY <1>2, Holder, Filled
  <1>5. d \in Dir
    BY Typed DEF Dir, Command
  <1> HIDE DEF n, a, d
  <1>6. attempts'[n] = [attempts[n] EXCEPT ![a] = d] /\ attempts' = [attempts EXCEPT ![n] = attempts'[n]]
    BY <1>3, <1>4, Typed
  <1>7. attempts'[n] \in Seq(Dir) /\ Len(attempts'[n]) = Len(attempts[n]) /\ attempts'[n][a] = d
    BY <1>4, <1>5, <1>6
  <1>8. attempts' \in [Matrix!Item -> Seq(Dir)] /\ \A i \in Matrix!Item \ {n} : attempts'[i] = attempts[i]
    BY <1>4, <1>6, <1>7, Typed
  <1>9. /\ cmd'[p] = [cmd[p] EXCEPT !.pc = "checkpoint"]
        /\ cmd' = [cmd EXCEPT ![p] = cmd'[p]]
    BY <1>3, Typed
  <1>10. /\ cmd'[p] \in Command
         /\ cmd'[p].pc = "checkpoint" /\ cmd'[p].seen = cmd[p].seen /\ cmd'[p].child = cmd[p].child
    BY <1>9, Typed DEF Command, Inside
  <1>11. cmd' \in [Proc -> Command]
    BY <1>9, <1>10, Typed
  <1>12. MatrixTyped'
    BY <1>3, <1>8, <1>11 DEF MatrixTyped, MatrixInv
  <1>13. \A i \in DOMAIN manifest : attempts'[i] = attempts[i]
    BY <1>4, <1>8, Typed DEF MatrixInv, MatrixTyped, Matrix!Item, Matrix!MatrixAssumption
  <1>14. Counted'
    BY <1>1, <1>3, <1>13, CountedStays
  <1>15. CommandKnows(p)
    BY DEF MatrixInv, Known
  <1>16. attempts'[n] # <<>> /\ attempts'[n][Len(attempts'[n])] = [has |-> "result",
  observed |-> cmd[p].child]
    BY <1>4, <1>7 DEF d
  <1>17. CommandKnows(p)'
    BY <1>2, <1>3, <1>4, <1>10, <1>15, <1>16 DEF CommandKnows, Proven, Matrix!Observable
  <1> QED
    BY <1>1, <1>2, <1>9, <1>12, <1>14, <1>17, HolderSteps

(* The manifest counts one more, proven by the attempt just published.      *)
LEMMA CheckpointKeeps ==
    ASSUME Matrix!MatrixAssumption, MatrixInv, NEW p \in Proc, Matrix!Checkpoint(p)
    PROVE  MatrixInv' /\ CohortsMove
  <1>1. CohortsMove
    BY NoneMoves DEF Matrix!Checkpoint, MatrixInv, RunInv, TreeTyped
  <1>2. cmd[p].pc \in Inside /\ cmd[p].pc \in Tried /\ cmd[p].pc = "checkpoint"
    BY DEF Matrix!Checkpoint, Inside, Tried
  <1>0. PICK n, c : n = Len(manifest) + 1 /\ c = Matrix!Completion(p)
    OBVIOUS
  <1>3. manifest' = Append(manifest, c) /\ UNCHANGED <<run, attempts>>
    BY <1>0 DEF Matrix!Checkpoint
  <1>4. /\ c.attempt = Len(attempts[n]) /\ c.observed = cmd[p].child
        /\ c \in Counts /\ n \in Matrix!Item /\ Len(manifest) < Items
    <2>1. Matrix!NextItem(p) = n /\ n \in Matrix!Item /\ Len(manifest) < Items
      BY <1>0, <1>2, Holder
    <2>2. Matrix!Attempt(p) = Len(attempts[n]) /\ Matrix!Attempt(p) \in Nat
      BY <1>2, <2>1, Filled
    <2> QED
      BY <1>0, <2>1, <2>2, Typed DEF Matrix!Completion, Counts, Command
  <1>5. /\ Proven(c.observed, n)
        /\ c.observed # Matrix!NoRun => \A k \in DOMAIN manifest : manifest[k].observed # c.observed
        /\ attempts[n][Len(attempts[n])] = [has |-> "result", observed |-> c.observed]
    BY <1>0, <1>2, <1>4 DEF MatrixInv, Known, CommandKnows
  <1>6. /\ manifest' \in Seq(Counts) /\ Len(manifest') = n /\ DOMAIN manifest' = DOMAIN manifest \cup {n}
        /\ n \notin DOMAIN manifest /\ manifest'[n] = c /\ n \in DOMAIN manifest'
        /\ \A i \in DOMAIN manifest : manifest'[i] = manifest[i]
    BY <1>0, <1>3, <1>4, Typed
  <1>7. Counted'
    <2> SUFFICES ASSUME NEW i \in DOMAIN manifest'
                 PROVE  CountedOnce(i)'
      BY DEF Counted
    <2>1. CASE i = n
      <3>1. Proven(c.observed, n)'
        BY <1>3, <1>5 DEF Proven, Matrix!Observable
      <3> QED
        BY <1>3, <1>4, <1>5, <1>6, <2>1, <3>1 DEF CountedOnce, Proven, Matrix!Observable
    <2>2. CASE i \in DOMAIN manifest
      <3>1. CountedOnce(i)
        BY <2>2 DEF MatrixInv, Counted
      <3> QED
        BY <1>3, <1>5, <1>6, <2>2, <3>1 DEF CountedOnce, Proven, Matrix!Observable
    <2> QED
      BY <1>6, <2>1, <2>2
  <1>8. CASE Matrix!Complete(manifest')
    <2>1. cmd' = [cmd EXCEPT ![p] = Matrix!Idle] /\ lock' = Nobody
      BY <1>8 DEF Matrix!Checkpoint, Matrix!Leave
    <2>2. Matrix!Idle \in Command /\ Matrix!Idle.pc \notin Inside
      BY DEF Matrix!Idle, Command, Inside
    <2>3. cmd' \in [Proc -> Command] /\ cmd'[p] = Matrix!Idle /\ cmd' = [cmd EXCEPT ![p] = cmd'[p]]
      BY <2>1, <2>2, Typed
    <2>4. MatrixTyped'
      BY <1>3, <1>4, <1>6, <2>3, Typed DEF MatrixTyped, MatrixInv, Matrix!MatrixAssumption
    <2>5. CommandKnows(p)'
      BY <2>2, <2>3 DEF CommandKnows
    <2> QED
      BY <1>1, <1>2, <1>7, <2>3, <2>4, <2>5, HolderSteps
  <1>9. CASE ~Matrix!Complete(manifest')
    <2> DEFINE pc == IF spoiled THEN "refused" ELSE "attempt"
    <2>1. /\ cmd' = [cmd EXCEPT ![p].pc = pc, ![p].seen = manifest', ![p].child = Matrix!NoRun]
          /\ lock' = lock
      BY <1>9 DEF Matrix!Checkpoint
    <2>2. pc \in Inside \ Tried /\ pc \notin {"await", "publish", "checkpoint"}
      BY DEF Inside, Tried
    <2> HIDE DEF pc
    <2>3. /\ cmd'[p] = [cmd[p] EXCEPT !.pc = pc, !.seen = manifest', !.child = Matrix!NoRun]
          /\ cmd' = [cmd EXCEPT ![p] = cmd'[p]]
      BY <2>1, Typed
    <2>4. /\ cmd'[p] \in Command
          /\ cmd'[p].pc = pc /\ cmd'[p].seen = manifest'
      BY <1>6, <2>2, <2>3, Typed DEF Command
    <2>5. cmd' \in [Proc -> Command]
      BY <2>3, <2>4, Typed
    <2>6. MatrixTyped'
      BY <1>3, <1>4, <1>6, <2>5, Typed DEF MatrixTyped, MatrixInv, Matrix!MatrixAssumption
    <2>7. Len(manifest') < Items
      BY <1>0, <1>4, <1>6, <1>9, Typed DEF Matrix!Complete, Matrix!MatrixAssumption
    <2>8. lock' = p
      BY <1>2, <2>1, Holder
    <2>9. CommandKnows(p)'
      BY <2>2, <2>4, <2>7, <2>8 DEF CommandKnows
    <2> QED
      BY <1>1, <1>2, <1>7, <2>3, <2>6, <2>9, HolderSteps
  <1> QED
    BY <1>1, <1>8, <1>9

(* An attempt that failed: the item it belongs to is not counted yet.       *)
LEMMA ChildFailsKeeps ==
    ASSUME Matrix!MatrixAssumption, MatrixInv, NEW p \in Proc, Matrix!ChildFails(p)
    PROVE  MatrixInv' /\ CohortsMove
  <1>1. cmd[p].pc \in Inside /\ cmd[p].pc \in Tried /\ cmd[p].child \in Matrix!Run
    BY DEF Matrix!ChildFails, Inside, Tried, MatrixInv, Known, CommandKnows
  <1>2. CohortsMove
    <2>1. UNCHANGED tree /\ (UNCHANGED run \/ Matrix!CutShort(cmd[p].child))
      BY DEF Matrix!ChildFails
    <2>2. RunInv /\ TreeTyped'
      BY <2>1 DEF MatrixInv, RunInv, TreeTyped
    <2> QED
      BY <1>1, <2>1, <2>2, NoneMoves, CutMoves, OneMoves
  <1> DEFINE n == Matrix!NextItem(p)
             a == Matrix!Attempt(p)
  <1>3. /\ attempts' = [attempts EXCEPT ![n][a].has = "failure"]
        /\ cmd' = [cmd EXCEPT ![p] = Matrix!Idle]
        /\ UNCHANGED manifest
    BY DEF Matrix!ChildFails, Matrix!Leave
  <1>4. /\ n \in Matrix!Item /\ n \notin DOMAIN manifest
        /\ attempts[n] \in Seq(Dir) /\ a \in 1..Len(attempts[n]) /\ attempts[n][a] \in Dir
    BY <1>1, Holder, Filled
  <1> HIDE DEF n, a
  <1> DEFINE d == [attempts[n][a] EXCEPT !.has = "failure"]
  <1>5. d \in Dir
    BY <1>4 DEF Dir
  <1>6. attempts' = [attempts EXCEPT ![n] = [attempts[n] EXCEPT ![a] = d]]
    BY <1>3, <1>4, Typed
  <1> HIDE DEF d
  <1>7. [attempts[n] EXCEPT ![a] = d] \in Seq(Dir)
    BY <1>4, <1>5
  <1>8. attempts' \in [Matrix!Item -> Seq(Dir)] /\ \A i \in Matrix!Item \ {n} : attempts'[i] = attempts[i]
    BY <1>4, <1>6, <1>7, Typed
  <1>9. Matrix!Idle \in Command /\ Matrix!Idle.pc \notin Inside
    BY DEF Matrix!Idle, Command, Inside
  <1>10. cmd' \in [Proc -> Command] /\ cmd'[p] = Matrix!Idle /\ cmd' = [cmd EXCEPT ![p] = cmd'[p]]
    BY <1>3, <1>9, Typed
  <1>11. MatrixTyped'
    BY <1>3, <1>8, <1>10 DEF MatrixTyped, MatrixInv
  <1>12. \A i \in DOMAIN manifest : attempts'[i] = attempts[i]
    BY <1>4, <1>8, Typed DEF MatrixInv, MatrixTyped, Matrix!Item, Matrix!MatrixAssumption
  <1>13. Counted'
    BY <1>2, <1>3, <1>12, CountedStays
  <1>14. CommandKnows(p)'
    BY <1>9, <1>10 DEF CommandKnows
  <1> QED
    BY <1>1, <1>2, <1>10, <1>11, <1>13, <1>14, HolderSteps

(* The commands that leave: refused, killed or cancelled.                   *)
LEMMA LeavingSteps ==
    ASSUME Matrix!MatrixAssumption, MatrixInv, NEW p \in Proc,
           \/ Matrix!AlreadyRunning(p) \/ Matrix!CheckpointRefused(p) \/ Matrix!LayoutRefused(p)
           \/ Matrix!Killed(p) \/ Matrix!Cancelled(p)
    PROVE  MatrixInv' /\ CohortsMove
  <1>1. CohortsMove
    <2>1. CASE Matrix!Cancelled(p)
      <3>1. cmd[p].child \in Matrix!Run /\ Matrix!CutShort(cmd[p].child) /\ UNCHANGED tree
        BY <2>1 DEF Matrix!Cancelled, MatrixInv, Known, CommandKnows, Inside
      <3>2. RunInv /\ TreeTyped'
        BY <3>1 DEF MatrixInv, RunInv, TreeTyped
      <3> QED
        BY <3>1, <3>2, CutMoves, OneMoves
    <2>2. CASE ~Matrix!Cancelled(p)
      <3>1. run' = run /\ tree' = tree
        BY <2>2 DEF Matrix!AlreadyRunning, Matrix!CheckpointRefused, Matrix!LayoutRefused, Matrix!Killed
      <3> QED
        BY <3>1, NoneMoves DEF MatrixInv, RunInv, TreeTyped
    <2> QED
      BY <2>1, <2>2
  <1>2. cmd' = [cmd EXCEPT ![p] = Matrix!Idle] /\ UNCHANGED <<manifest, attempts>>
    BY DEF Matrix!AlreadyRunning, Matrix!CheckpointRefused, Matrix!LayoutRefused, Matrix!Killed,
        Matrix!Cancelled, Matrix!Leave
  <1>3. ASSUME NEW q \in Proc \ {p}, lock = q
        PROVE  lock' = q
    <2>1. CASE Matrix!AlreadyRunning(p)
      BY <1>3, <2>1 DEF Matrix!AlreadyRunning
    <2>2. CASE Matrix!Killed(p)
      BY <1>3, <2>2 DEF Matrix!Killed
    <2>3. CASE Matrix!CheckpointRefused(p) \/ Matrix!LayoutRefused(p) \/ Matrix!Cancelled(p)
      BY <1>3, <2>3, Holder DEF Matrix!CheckpointRefused, Matrix!LayoutRefused, Matrix!Cancelled, Inside
    <2> QED
      BY <2>1, <2>2, <2>3
  <1> QED
    BY <1>1, <1>2, <1>3, LeavingKeeps

LEMMA CohortSteps ==
    ASSUME MatrixInv, Matrix!RunSteps
    PROVE  MatrixInv' /\ CohortsMove
  <1>1. CohortsMove
    <2>1. CASE Matrix!Edit
      <3>1. TreeTyped' /\ run' = run
        BY <2>1 DEF Matrix!Edit, MatrixInv, RunInv, TreeTyped, Sources
      <3> QED
        BY <3>1, NoneMoves DEF MatrixInv
    <2>2. CASE \E r \in Matrix!Run : Matrix!EvalRunStep(r)
      BY <2>2, RunStepMoves, OneMoves DEF MatrixInv, RunInv, TreeTyped
    <2> QED
      BY <2>1, <2>2 DEF Matrix!RunSteps
  <1>2. UNCHANGED <<manifest, attempts, lock, cmd>>
    BY DEF Matrix!RunSteps
  <1>3. MatrixTyped'
    BY <1>2 DEF MatrixTyped, MatrixInv
  <1> QED
    BY <1>1, <1>2, <1>3, OutsiderSteps

(* Every step keeps the invariant and the verdicts.                         *)
LEMMA MatrixStep ==
    ASSUME Matrix!MatrixAssumption, MatrixInv, [Matrix!MatrixNext]_(Matrix!matrixvars)
    PROVE  MatrixInv' /\ CohortsMove
  <1>1. CASE Matrix!RunSteps
    BY <1>1, CohortSteps
  <1>2. ASSUME NEW p \in Proc,
               \/ Matrix!Load(p) \/ Matrix!AlreadyRunning(p) \/ Matrix!Enter(p) \/ Matrix!OpenAttempt(p) \/ Matrix!RouteUnavailable(p)
               \/ Matrix!LaunchChild(p) \/ Matrix!ChildCounts(p) \/ Matrix!ChildFails(p) \/ Matrix!PublishResult(p)
               \/ Matrix!Checkpoint(p) \/ Matrix!CheckpointRefused(p) \/ Matrix!LayoutRefused(p)
               \/ Matrix!Killed(p) \/ Matrix!Cancelled(p)
        PROVE  MatrixInv' /\ CohortsMove
    BY <1>2, LoadKeeps, EnterKeeps, OpenAttemptKeeps, RouteUnavailableKeeps, LaunchChildKeeps,
       ChildCountsKeeps, ChildFailsKeeps, PublishResultKeeps, CheckpointKeeps, LeavingSteps
  <1>3. CASE UNCHANGED Matrix!matrixvars
    <2>1. UNCHANGED <<run, tree, manifest, attempts, lock, cmd>>
      BY <1>3 DEF Matrix!matrixvars
    <2>2. CohortsMove
      BY <2>1, NoneMoves DEF MatrixInv, RunInv, TreeTyped
    <2>3. MatrixTyped'
      BY <2>1 DEF MatrixTyped, MatrixInv
    <2> QED
      BY <2>1, <2>2, <2>3, OutsiderSteps
  <1> QED
    BY <1>1, <1>2, <1>3 DEF Matrix!MatrixNext

-----------------------------------------------------------------------------
(***************************************************************************)
(* EvalReview.                                                             *)
(***************************************************************************)

(* A judgment is of a slot, and a case agreed on has all its operations:    *)
(* what an agreement rests on is then never written again.                  *)
Shapes ==
    /\ ops \in [Review!Slot -> [form : {"none", "measured", "unavailable", "lost"},
                         verdict : Verdicts \cup {Review!None}]]
    /\ DOMAIN agreed = Review!Case /\ agreed = [i \in Review!Case |-> agreed[i]]
    /\ \A f \in judgments : f.slot \in Review!Slot

AgreedRecorded ==
    \A i \in Review!Case, j \in Judges : agreed[i] # Review!NoAgreement => ops[<<i, j>>] # Review!NoOp

ReviewInv == Shapes /\ AgreedRecorded /\ Review!AgreementsRest

(* Once a slot's operation is recorded, it stays; judgments stay too.       *)
RecordsGrow ==
    /\ \A s \in Review!Slot : ops[s] # Review!NoOp => ops'[s] = ops[s]
    /\ judgments \subseteq judgments'

LEMMA SlotParts ==
    ASSUME NEW s \in Review!Slot
    PROVE  s[1] \in Review!Case /\ s[2] \in Judges /\ s = <<s[1], s[2]>>
  BY DEF Review!Slot

LEMMA ReviewInitially == Review!ReviewInit => ReviewInv
  BY DEF Review!ReviewInit, ReviewInv, Shapes, AgreedRecorded, Review!AgreementsRest, Review!NoOp,
      Review!NoAgreement

(* The roster of a bound case holds one file of each judge and no other.    *)
LEMMA RosterBound ==
    ASSUME Shapes, NEW i \in Review!Case, Review!Bound(i)
    PROVE  Review!Roster(i) = {Review!Own(<<i, j>>) : j \in Judges}
  <1>1. ASSUME NEW f \in Review!Roster(i)
        PROVE  f \in {Review!Own(<<i, j>>) : j \in Judges}
    <2>1. f \in judgments /\ f.slot[1] = i /\ f.slot \in Review!Slot
      BY <1>1 DEF Review!Roster, Shapes
    <2>2. PICK j \in Judges : f.slot = <<i, j>>
      BY <2>1, SlotParts
    <2>3. f \in Review!FilesOf(<<i, j>>)
      BY <2>1, <2>2 DEF Review!FilesOf
    <2> QED
      BY <2>2, <2>3 DEF Review!Bound
  <1>2. ASSUME NEW j \in Judges
        PROVE  Review!Own(<<i, j>>) \in Review!Roster(i)
    <2>1. Review!Own(<<i, j>>) \in judgments
      BY <1>2 DEF Review!Bound, Review!FilesOf
    <2>2. Review!Own(<<i, j>>).slot = <<i, j>>
      BY DEF Review!Own
    <2> QED
      BY <2>1, <2>2 DEF Review!Roster
  <1> QED
    BY <1>1, <1>2

(* Records that grow keep what the agreements already made rest on.         *)
LEMMA AgreementsKept ==
    ASSUME ReviewInv, RecordsGrow, Shapes', agreed' = agreed
    PROVE  ReviewInv'
  <1>1. AgreedRecorded'
    BY DEF ReviewInv, RecordsGrow, AgreedRecorded, Review!Slot
  <1>2. ASSUME NEW i \in Review!Case, agreed[i] # Review!NoAgreement, NEW j \in Judges
        PROVE  Review!Own(<<i, j>>)' = Review!Own(<<i, j>>)
    BY <1>2 DEF ReviewInv, RecordsGrow, AgreedRecorded, Review!Slot, Review!Own
  <1>3. ASSUME NEW i \in Review!Case, agreed[i] # Review!NoAgreement
        PROVE  /\ agreed[i].uses = {Review!Own(<<i, j>>)' : j \in Judges}
               /\ agreed[i].uses \subseteq judgments'
               /\ agreed[i].outcome = Review!Agreement(agreed[i].uses)
    BY <1>2, <1>3 DEF ReviewInv, RecordsGrow, Review!AgreementsRest
  <1>4. Review!AgreementsRest'
    BY <1>3 DEF Review!AgreementsRest, Review!Agreement
  <1> QED
    BY <1>1, <1>4 DEF ReviewInv

(* The two commands that record a judgment write only a vacant slot.        *)
LEMMA RecordGrows ==
    ASSUME Shapes, NEW s \in Review!Slot, ops[s] = Review!NoOp, NEW v \in Verdicts,
           NEW form \in {"measured", "unavailable", "lost"}, NEW reach, Review!Record(s, form, v, reach)
    PROVE  RecordsGrow /\ Shapes' /\ agreed' = agreed
  <1>1. ops' = [ops EXCEPT ![s] = [form |-> form, verdict |-> v]]
    BY DEF Review!Record
  <1>2. \A t \in Review!Slot : ops[t] # Review!NoOp => ops'[t] = ops[t]
    BY <1>1 DEF Shapes
  <1>3. \A f \in judgments' : f \in judgments \/ f.slot = s
    BY DEF Review!Record
  <1>4. judgments \subseteq judgments' /\ agreed' = agreed
    BY DEF Review!Record
  <1>5. Shapes'
    BY <1>1, <1>3, <1>4 DEF Shapes
  <1> QED
    BY <1>2, <1>4, <1>5 DEF RecordsGrow

LEMMA ReviewStep ==
    ASSUME ReviewInv, [Review!ReviewNext]_(Review!reviewvars)
    PROVE  ReviewInv'
  <1>1. Shapes /\ AgreedRecorded /\ Review!AgreementsRest
    BY DEF ReviewInv
  <1>2. CASE UNCHANGED <<ops, agreed, judgments>>
    BY <1>1, <1>2, AgreementsKept DEF Shapes, RecordsGrow
  <1>3. CASE Review!AssembleJudgment
    BY <1>1, <1>3, RecordGrows, AgreementsKept DEF Review!AssembleJudgment, Review!Vacant
  <1>4. CASE Review!RecoverDurationLoss
    BY <1>1, <1>4, RecordGrows, AgreementsKept DEF Review!RecoverDurationLoss, Review!Vacant
  <1>5. CASE Review!ResumeImport
    <2>1. UNCHANGED <<ops, agreed>>
      BY <1>5 DEF Review!ResumeImport
    <2>2. PICK s \in Review!Slot : judgments' = judgments \cup {Review!Own(s)}
      BY <1>5 DEF Review!ResumeImport
    <2>3. Review!Own(s).slot = s
      BY DEF Review!Own
    <2> QED
      BY <1>1, <2>1, <2>2, <2>3, AgreementsKept DEF Shapes, RecordsGrow
  <1>6. CASE Review!DirectJudgment
    <2>1. UNCHANGED <<ops, agreed>>
      BY <1>6 DEF Review!DirectJudgment
    <2>2. PICK s \in Review!Slot, v \in Verdicts, n \in Review!Slot \cup {<<0, Review!Other>>} :
            judgments' = judgments \cup {[slot |-> s, verdict |-> v, name |-> n, by |-> "direct"]}
      BY <1>6 DEF Review!DirectJudgment
    <2> QED
      BY <1>1, <2>1, <2>2, AgreementsKept DEF Shapes, RecordsGrow
  <1>7. CASE Review!ResolveAgreement
    <2>1. UNCHANGED <<ops, judgments>>
      BY <1>7 DEF Review!ResolveAgreement
    <2>2. PICK recorded \in Review!Case :
            agreed' = [i \in Review!Case |-> IF i <= recorded THEN Review!Resolution(i) ELSE agreed[i]]
      BY <1>7 DEF Review!ResolveAgreement
    <2>3. \A i \in Review!Case : Review!Bound(i)
      BY <1>7 DEF Review!ResolveAgreement
    <2>4. \A i \in Review!Case : agreed'[i] \in {agreed[i], Review!Resolution(i)}
      BY <2>2
    <2>5. ASSUME NEW i \in Review!Case
          PROVE  /\ \A j \in Judges : ops[<<i, j>>] # Review!NoOp
                 /\ Review!Roster(i) = {Review!Own(<<i, j>>) : j \in Judges}
                 /\ Review!Roster(i) \subseteq judgments
      BY <1>1, <2>3, RosterBound DEF Review!Bound, Review!Roster
    <2>6. Shapes'
      BY <1>1, <2>1, <2>2 DEF Shapes
    <2>7. AgreedRecorded'
      BY <2>1, <2>5 DEF AgreedRecorded
    <2>8. ASSUME NEW i \in Review!Case, agreed'[i] # Review!NoAgreement
          PROVE  /\ agreed'[i].uses = {Review!Own(<<i, j>>) : j \in Judges}
                 /\ agreed'[i].uses \subseteq judgments
                 /\ agreed'[i].outcome = Review!Agreement(agreed'[i].uses)
      <3>1. CASE agreed[i] # Review!NoAgreement
        BY <1>1, <2>4, <2>8, <3>1 DEF Review!Resolution, Review!AgreementsRest
      <3>2. CASE agreed[i] = Review!NoAgreement
        <4>1. agreed'[i] = [uses |-> Review!Roster(i), outcome |-> Review!Agreement(Review!Roster(i))]
          BY <2>4, <2>8, <3>2 DEF Review!Resolution
        <4> QED
          BY <2>5, <4>1, SMTT(20)
      <3> QED
        BY <3>1, <3>2
    <2>9. Review!AgreementsRest'
      BY <2>1, <2>8 DEF Review!AgreementsRest, Review!Agreement, Review!Own
    <2> QED
      BY <2>6, <2>7, <2>9 DEF ReviewInv
  <1>8. CASE Review!Prepare \/ Review!Supersede \/ Review!RecordCanary \/ Review!RecordAmendment \/ Review!DirectAdjudication
                \/ Review!Finalize \/ Review!KilledInWrite
    BY <1>2, <1>8 DEF Review!Prepare, Review!Supersede, Review!Publish, Review!RecordCanary,
        Review!RecordAmendment,
                      Review!DirectAdjudication, Review!Finalize, Review!KilledInWrite
  <1>9. CASE UNCHANGED Review!reviewvars
    BY <1>2, <1>9 DEF Review!reviewvars
  <1> QED
    BY <1>3, <1>4, <1>5, <1>6, <1>7, <1>8, <1>9 DEF Review!ReviewNext

-----------------------------------------------------------------------------
(* The manifest binds what the decision rests on, or nothing yet.           *)
BoundToDecision == bound \in {Review!NoDecision, acceptance}

LEMMA EvidenceTaken == Review!Evidence # Review!NoDecision
  BY DEF Review!Evidence, Review!NoDecision

LEMMA DecisionStep ==
    ASSUME BoundToDecision, [Review!ReviewNext]_(Review!reviewvars)
    PROVE  BoundToDecision' /\ Review!DecisionKept
  <1> USE DEF BoundToDecision, Review!DecisionKept
  <1>1. CASE UNCHANGED <<judgments, adjudications, acceptance, bound>>
    BY <1>1 DEF Review!Evidence
  <1>2. CASE Review!Finalize
    <2>1. Review!Evidence' = Review!Evidence
      BY <1>2 DEF Review!Finalize, Review!Evidence
    <2> QED
      BY <1>2, <2>1, EvidenceTaken DEF Review!Finalize
  <1>3. CASE acceptance = Review!NoDecision /\ UNCHANGED <<acceptance, bound>>
    BY <1>3
  <1>4. CASE Review!AssembleJudgment \/ Review!RecoverDurationLoss \/ Review!ResumeImport \/ Review!ResolveAgreement
                \/ Review!DirectJudgment \/ Review!DirectAdjudication
    BY <1>3, <1>4 DEF Review!AssembleJudgment, Review!RecoverDurationLoss, Review!Record,
        Review!ResumeImport,
        Review!ResolveAgreement, Review!DirectJudgment, Review!DirectAdjudication, Review!Unfinalized,
        Review!AcceptsImports
  <1>5. CASE Review!Prepare \/ Review!Supersede \/ Review!RecordCanary \/ Review!RecordAmendment \/ Review!KilledInWrite
    BY <1>1, <1>5 DEF Review!Prepare, Review!Supersede, Review!Publish, Review!RecordCanary,
        Review!RecordAmendment, Review!KilledInWrite
  <1>6. CASE UNCHANGED Review!reviewvars
    BY <1>1, <1>6 DEF Review!reviewvars
  <1> QED
    BY <1>2, <1>4, <1>5, <1>6 DEF Review!ReviewNext

-----------------------------------------------------------------------------
(***************************************************************************)
(* EvalReview, beside no direct import: every retained file is its own     *)
(* operation's, and the operations, the amendment and the canary agree.    *)
(***************************************************************************)
Recorded == {s \in Review!Slot : ops[s] # Review!NoOp}
AgreedOn == {i \in Review!Case : agreed[i] # Review!NoAgreement}

Entered ==                     \* nothing precedes the package and its canary
    /\ package.published = "none" => canary = "none"
    /\ canary # "passed" => Review!NoOperations /\ amendment = Review!NoAmendment
OwnFiles == judgments \subseteq {Review!Own(s) : s \in Recorded}
OwnAgreements == adjudications \subseteq {Review!OwnAgreement(i) : i \in AgreedOn}
Counting == \A s \in Recorded : Review!Effective(s)
LostOnce == \A s, t \in Review!LostOps : s = t
Amended ==
    amendment # Review!NoAmendment =>
        /\ amendment.slot \in Review!Slot
        /\ \/ amendment.class = "interrupted"
           \/ /\ amendment.class = "recorded"
              /\ ops[amendment.slot].form = "measured"
              /\ Review!Own(amendment.slot) \in judgments
Imported ==                    \* what was agreed on was imported
    \A i \in AgreedOn, j \in Judges :
        /\ ops[<<i, j>>] # Review!NoOp
        /\ Review!Own(<<i, j>>) \in judgments

Fits ==
    /\ Entered /\ OwnFiles /\ OwnAgreements /\ Counting /\ LostOnce /\ Amended
    /\ Imported

ResumeInv == imports \in Nat /\ (imports = 0 => Fits)

LEMMA SameCount == \A S : Review!Cardinality(S) = Cardinality(S)
  BY DEF Cardinality, Review!Cardinality

LEMMA FitsResumes ==
    ASSUME Shapes, Fits
    PROVE  Review!ReviewResumable
  <1>1. \A s \in Review!Slot : Review!FilesOf(s) \subseteq {Review!Own(s)}
    BY DEF Fits, OwnFiles, Review!FilesOf, Review!Own
  <1>2. \A f \in judgments : f.name = f.slot /\ f.slot \in Recorded
    BY DEF Fits, OwnFiles, Review!Own, Recorded
  <1>3. \A i \in Review!Case : Review!AdjudicationsOf(i) \subseteq {Review!OwnAgreement(i)}
    BY DEF Fits, OwnAgreements, Review!AdjudicationsOf, Review!OwnAgreement
  <1>4. Review!Cardinality(Review!LostOps) <= 1
    <2>1. CASE Review!LostOps = {}
      BY <2>1, FS_EmptySet, SameCount
    <2>2. CASE Review!LostOps # {}
      <3>1. PICK s \in Review!LostOps : Review!LostOps = {s}
        BY <2>2 DEF Fits, LostOnce
      <3> QED
        BY <3>1, FS_Singleton, SameCount
    <2> QED
      BY <2>1, <2>2
  <1>5. \A s \in Review!Slot :
          Review!Own(s) \in judgments => Review!FilesOf(s) = {Review!Own(s)}
    BY <1>1 DEF Review!FilesOf, Review!Own
  <1>6. Review!AmendmentValid
    <2> SUFFICES ASSUME amendment # Review!NoAmendment
                 PROVE  /\ canary = "passed"
                        /\ amendment.class = "recorded" =>
                            /\ ops[amendment.slot] # Review!NoOp
                            /\ Review!FilesOf(amendment.slot) = {Review!Own(amendment.slot)}
                        /\ amendment.class = "interrupted" =>
                            ~(ops[amendment.slot] = Review!NoOp
                                /\ Review!FilesOf(amendment.slot) # {})
      BY DEF Review!AmendmentValid
    <2>1. canary = "passed"
      BY DEF Fits, Entered
    <2>2. amendment.class = "recorded" =>
            ops[amendment.slot] # Review!NoOp /\ Review!Own(amendment.slot) \in judgments
      BY DEF Fits, Amended, Review!NoOp
    <2>3. amendment.slot \in Review!Slot
      BY DEF Fits, Amended
    <2>4. ops[amendment.slot] = Review!NoOp => Review!FilesOf(amendment.slot) = {}
      BY <1>2 DEF Review!FilesOf, Recorded
    <2> QED
      BY <2>1, <2>2, <2>3, <2>4, <1>5
  <1>7. package.published # "none" => Review!RootValid
    BY <1>1, <1>3, <1>4, <1>6 DEF Review!RootValid, Fits, Entered, Counting, Recorded
  <1>8. ASSUME NEW s \in Review!Slot, Review!FilesOf(s) = {}
        PROVE  Review!NameFree(s)
    BY <1>2, <1>8 DEF Review!NameFree, Review!FilesOf
  <1>9. ASSUME NEW i \in Review!Case, agreed[i] # Review!NoAgreement
        PROVE  Review!Bound(i)
    <2> SUFFICES ASSUME NEW j \in Judges
                 PROVE  /\ Review!Cardinality(Review!FilesOf(<<i, j>>)) = 1
                        /\ ops[<<i, j>>] # Review!NoOp
                        /\ Review!FilesOf(<<i, j>>) = {Review!Own(<<i, j>>)}
      BY DEF Review!Bound
    <2>1. ops[<<i, j>>] # Review!NoOp /\ Review!Own(<<i, j>>) \in judgments
      BY <1>9 DEF Fits, Imported, AgreedOn
    <2>2. Review!FilesOf(<<i, j>>) = {Review!Own(<<i, j>>)}
      BY <1>5, <2>1 DEF Review!Slot
    <2> QED
      BY <2>1, <2>2, FS_Singleton, SameCount
  <1> QED
    BY <1>7, <1>8, <1>9 DEF Review!ReviewResumable

LEMMA ResumeInitially == EvalAssumption /\ Review!ReviewInit => ResumeInv
  BY DEF EvalAssumption, Review!ReviewInit, ResumeInv, Fits, Entered, OwnFiles, OwnAgreements, Counting,
      LostOnce, Amended, Imported, Recorded, AgreedOn, Review!NoOperations, Review!LostOps,
      Review!NoOp, Review!NoAgreement

(* A new operation leaves the others, and the files they own, as they are.  *)
LEMMA RecordFits ==
    ASSUME Shapes, Fits, NEW s \in Review!Slot, Review!Vacant(s), NEW v \in Verdicts,
           NEW form \in {"measured", "unavailable", "lost"}, NEW reach, canary = "passed",
           form = "unavailable" => Review!Targets(s), form = "measured" => ~Review!Targets(s),
           form = "lost" => ~Review!Targets(s) /\ Review!LostOps = {},
           Review!Record(s, form, v, reach)
    PROVE  Fits'
  <1>1. /\ ops' = [ops EXCEPT ![s] = [form |-> form, verdict |-> v]]
        /\ UNCHANGED <<package, canary, amendment, agreed, adjudications>>
    BY DEF Review!Record
  <1>2. ops[s] = Review!NoOp
    BY DEF Review!Vacant
  <1>3. ops'[s] = [form |-> form, verdict |-> v] /\ ops'[s] # Review!NoOp
    BY <1>1 DEF Shapes, Review!NoOp
  <1>4. \A t \in Review!Slot : t # s => ops'[t] = ops[t]
    BY <1>1 DEF Shapes
  <1>5. \A t \in Recorded : t # s /\ t \in Review!Slot /\ ops'[t] = ops[t]
    BY <1>2, <1>4 DEF Recorded
  <1>6. Recorded' = Recorded \cup {s}
    BY <1>3, <1>4, <1>5 DEF Recorded
  <1>7. \A t \in Recorded : Review!Own(t)' = Review!Own(t)
    BY <1>5 DEF Review!Own
  <1>8. judgments' \subseteq judgments \cup {Review!Own(s)'} /\ judgments \subseteq judgments'
    BY <1>3 DEF Review!Record, Review!Own
  <1>9. Entered'
    BY <1>1 DEF Fits, Entered
  <1>10. OwnFiles'
    <2>1. judgments \subseteq {Review!Own(t)' : t \in Recorded}
      BY <1>7 DEF Fits, OwnFiles
    <2> QED
      BY <1>6, <1>8, <2>1 DEF OwnFiles
  <1>11. OwnAgreements'
    BY <1>1 DEF Fits, OwnAgreements, AgreedOn, Review!OwnAgreement, Review!NoAgreement
  <1>12. ops'[s].form = form
    BY <1>3
  <1>13. Amended'
    <2> SUFFICES ASSUME amendment # Review!NoAmendment, amendment.class # "interrupted"
                 PROVE  /\ ops'[amendment.slot].form = "measured"
                        /\ Review!Own(amendment.slot)' \in judgments'
      <3>1. amendment' = amendment /\ Review!NoAmendment' = Review!NoAmendment
        BY <1>1
      <3>2. amendment # Review!NoAmendment =>
              /\ amendment.slot \in Review!Slot
              /\ amendment.class # "interrupted" => amendment.class = "recorded"
        BY DEF Fits, Amended
      <3> QED
        BY <3>1, <3>2 DEF Amended
    <2>1. /\ amendment.slot \in Review!Slot /\ ops[amendment.slot].form = "measured"
          /\ Review!Own(amendment.slot) \in judgments
      BY DEF Fits, Amended
    <2>2. amendment.slot \in Recorded
      BY <2>1 DEF Recorded, Review!NoOp
    <2> QED
      BY <1>1, <1>5, <1>7, <1>8, <2>1, <2>2
  <1>14. Counting'
    <2>1. ASSUME NEW t \in Recorded
          PROVE  Review!Effective(t)'
      BY <1>1, <1>5, <2>1 DEF Fits, Counting, Review!Effective, Review!Targets
    <2>2. Review!Effective(s)'
      <3>1. Review!Targets(s) => amendment.class = "interrupted"
        BY <1>2 DEF Fits, Amended, Review!NoOp, Review!Targets, Review!NoAmendment, Review!Slot,
                    Review!Case
      <3> QED
        BY <1>1, <1>12, <3>1 DEF Review!Effective, Review!Targets
    <2> QED
      BY <1>6, <2>1, <2>2 DEF Counting
  <1>15. LostOnce'
    <2>1. \A t \in Review!LostOps' : t # s => t \in Review!LostOps
      BY <1>4 DEF Review!LostOps
    <2>2. s \in Review!LostOps' => Review!LostOps = {}
      BY <1>12 DEF Review!LostOps
    <2> QED
      BY <2>1, <2>2 DEF Fits, LostOnce
  <1>16. Imported'
    <2> SUFFICES ASSUME NEW i \in AgreedOn, NEW j \in Judges
                 PROVE  ops'[<<i, j>>] # Review!NoOp /\ Review!Own(<<i, j>>)' \in judgments'
      BY <1>1 DEF Imported, AgreedOn, Review!NoAgreement
    <2>1. ops[<<i, j>>] # Review!NoOp /\ Review!Own(<<i, j>>) \in judgments
      BY DEF Fits, Imported
    <2>2. <<i, j>> \in Recorded
      BY <2>1 DEF Recorded, AgreedOn, Review!Slot
    <2> QED
      BY <1>5, <1>7, <1>8, <2>1, <2>2
  <1> QED
    BY <1>9, <1>10, <1>11, <1>13, <1>14, <1>15, <1>16 DEF Fits

(* Resolving writes the agreement of every case up to the last it reaches,  *)
(* and imports no adjudication of a case it did not record.                 *)
LEMMA ResolveFits ==
    ASSUME Cases \in Nat, Judges # {}, Shapes, Fits, Review!ResolveAgreement
    PROVE  Fits'
  <1>1. UNCHANGED <<package, canary, amendment, ops, judgments>>
    BY DEF Review!ResolveAgreement
  <1>2. PICK recorded \in Review!Case, imported \in 0..Cases :
          /\ imported \in {recorded, recorded - 1}
          /\ agreed' = [i \in Review!Case |-> IF i <= recorded THEN Review!Resolution(i) ELSE agreed[i]]
          /\ adjudications' = adjudications \cup
                {[case |-> i, uses |-> Review!Resolution(i).uses,
                  outcome |-> Review!Resolution(i).outcome, name |-> i, by |-> "review"]
                   : i \in 1..imported}
    BY DEF Review!ResolveAgreement
  <1>3. \A i \in Review!Case : Review!Bound(i)
    BY DEF Review!ResolveAgreement
  <1>4. \A i \in Review!Case, j \in Judges :
          ops[<<i, j>>] # Review!NoOp /\ Review!Own(<<i, j>>) \in judgments
    BY <1>3 DEF Review!Bound, Review!FilesOf
  <1>5. \A i \in Review!Case : Review!Resolution(i) # Review!NoAgreement
    <2> SUFFICES ASSUME NEW i \in Review!Case, agreed[i] = Review!NoAgreement
                 PROVE  Review!Roster(i) # {}
      BY DEF Review!Resolution, Review!NoAgreement
    <2>1. PICK j \in Judges : TRUE
      OBVIOUS
    <2>2. Review!Own(<<i, j>>) \in Review!Roster(i)
      BY <1>4 DEF Review!Roster, Review!Own
    <2> QED
      BY <2>2
  <1>6. \A i \in AgreedOn : agreed'[i] = agreed[i]
    BY <1>2 DEF AgreedOn, Review!Resolution
  <1>7. AgreedOn \subseteq AgreedOn'
    BY <1>6 DEF AgreedOn, Review!NoAgreement
  <1>8. \A i \in AgreedOn : Review!OwnAgreement(i)' = Review!OwnAgreement(i)
    BY <1>6 DEF Review!OwnAgreement
  <1>9. \A i \in 1..imported : /\ i \in AgreedOn'
                               /\ agreed'[i] = Review!Resolution(i)
    BY <1>2, <1>5 DEF AgreedOn, Review!Case, Review!NoAgreement
  <1>10. \A i \in 1..imported :
           [case |-> i, uses |-> Review!Resolution(i).uses,
            outcome |-> Review!Resolution(i).outcome, name |-> i, by |-> "review"]
             = Review!OwnAgreement(i)'
    BY <1>9 DEF Review!OwnAgreement
  <1>11. OwnAgreements'
    <2>1. \A a \in adjudications : \E i \in AgreedOn : a = Review!OwnAgreement(i)
      BY DEF Fits, OwnAgreements
    <2>2. \A a \in adjudications' : \E i \in AgreedOn' : a = Review!OwnAgreement(i)'
      BY <1>2, <1>7, <1>8, <1>9, <1>10, <2>1
    <2> QED
      BY <2>2 DEF OwnAgreements
  <1>12. Imported'
    BY <1>1, <1>4 DEF Imported, AgreedOn, Review!NoOp, Review!Own
  <1>13. Entered' /\ Amended' /\ Counting' /\ LostOnce'
    <2>1. canary = "passed"
      BY DEF Review!ResolveAgreement, Review!Ready
    <2> QED
      BY <1>1, <2>1 DEF Fits, Entered, Amended, Counting, LostOnce, Recorded, Review!LostOps,
          Review!Effective, Review!Targets, Review!Own, Review!NoOp, Review!NoAmendment
  <1>14. OwnFiles'
    BY <1>1 DEF Fits, OwnFiles, Recorded, Review!Own, Review!NoOp
  <1> QED
    BY <1>11, <1>12, <1>13, <1>14 DEF Fits

LEMMA ResumeStep ==
    ASSUME Cases \in Nat, Judges # {}, ReviewInv, ResumeInv, [Review!ReviewNext]_(Review!reviewvars)
    PROVE  ResumeInv'
  <1>1. CASE Review!DirectJudgment \/ Review!DirectAdjudication
    BY <1>1 DEF Review!DirectJudgment, Review!DirectAdjudication, ResumeInv
  <1> SUFFICES ASSUME imports' = imports, Fits, Shapes, imports = 0,
                        ~(Review!DirectJudgment \/ Review!DirectAdjudication)
                 PROVE  Fits'
    <2>1. CASE imports' = imports
      BY <1>1, <2>1 DEF ResumeInv, ReviewInv
    <2>2. CASE imports' # imports
      BY <1>1, <2>2 DEF Review!ReviewNext, Review!reviewvars, Review!Prepare, Review!Supersede, Review!Publish,
          Review!RecordCanary, Review!RecordAmendment, Review!AssembleJudgment,
          Review!RecoverDurationLoss, Review!Record, Review!ResumeImport, Review!ResolveAgreement,
          Review!Finalize, Review!KilledInWrite
    <2> QED
      BY <2>1, <2>2
  <1>3. CASE UNCHANGED <<canary, amendment, ops, agreed, judgments, adjudications>>
              /\ (package'.published = "none" => package.published = "none")
    <2>1. \A s : Review!Own(s)' = Review!Own(s)
      BY <1>3 DEF Review!Own
    <2>2. \A i : Review!OwnAgreement(i)' = Review!OwnAgreement(i)
      BY <1>3 DEF Review!OwnAgreement
    <2>3. \A s : Review!Effective(s)' = Review!Effective(s)
      BY <1>3 DEF Review!Effective, Review!Targets
    <2>4. Recorded' = Recorded /\ AgreedOn' = AgreedOn /\ Review!LostOps' = Review!LostOps
      BY <1>3 DEF Recorded, AgreedOn, Review!LostOps, Review!NoOp, Review!NoAgreement
    <2>5. Entered'
      BY <1>3 DEF Fits, Entered, Review!NoOperations, Review!NoOp, Review!NoAgreement, Review!NoAmendment
    <2>6. OwnFiles' /\ OwnAgreements' /\ Counting' /\ LostOnce'
      BY <1>3, <2>1, <2>2, <2>3, <2>4 DEF Fits, OwnFiles, OwnAgreements, Counting, LostOnce
    <2>7. Amended' /\ Imported'
      BY <1>3, <2>1, <2>4 DEF Fits, Amended, Imported, Review!NoOp, Review!NoAmendment
    <2> QED
      BY <2>5, <2>6, <2>7 DEF Fits
  <1>4. CASE Review!Prepare \/ Review!Supersede
    BY <1>3, <1>4 DEF Review!Prepare, Review!Supersede, Review!Publish
  <1>5. CASE Review!Finalize \/ Review!KilledInWrite \/ UNCHANGED Review!reviewvars
    BY <1>3, <1>5 DEF Review!Finalize, Review!KilledInWrite, Review!reviewvars
  <1>6. CASE Review!RecordCanary
    <2>1. /\ UNCHANGED <<package, amendment, ops, agreed, judgments, adjudications>>
          /\ package.published # "none" /\ Review!NoOperations /\ canary # "passed"
      BY <1>6 DEF Review!RecordCanary, Review!RootValid
    <2>2. \A s : Review!Own(s)' = Review!Own(s)
      BY <2>1 DEF Review!Own
    <2>3. \A i : Review!OwnAgreement(i)' = Review!OwnAgreement(i)
      BY <2>1 DEF Review!OwnAgreement
    <2>4. Recorded' = Recorded /\ AgreedOn' = AgreedOn /\ Review!LostOps' = Review!LostOps
      BY <2>1 DEF Recorded, AgreedOn, Review!LostOps, Review!NoOp, Review!NoAgreement
    <2>5. Entered'
      BY <2>1 DEF Fits, Entered, Review!NoOperations, Review!NoOp, Review!NoAgreement, Review!NoAmendment
    <2>6. OwnFiles' /\ OwnAgreements' /\ LostOnce' /\ Imported'
      BY <2>1, <2>2, <2>3, <2>4 DEF Fits, OwnFiles, OwnAgreements, LostOnce, Imported, Review!NoOp
    <2>7. Counting' /\ Amended'
      BY <2>1, <2>4 DEF Fits, Entered, Counting, Amended, Recorded, Review!NoOperations,
          Review!NoAmendment
    <2> QED
      BY <2>5, <2>6, <2>7 DEF Fits
  <1>7. CASE Review!RecordAmendment
    <2>1. /\ UNCHANGED <<package, canary, ops, agreed, judgments, adjudications>>
          /\ amendment = Review!NoAmendment /\ canary = "passed"
      BY <1>7 DEF Review!RecordAmendment, Review!Ready
    <2>2. PICK s \in Review!Slot :
            \/ Review!Interruptible(s) /\ amendment' = [slot |-> s, class |-> "interrupted"]
            \/ Review!Unreliable(s) /\ amendment' = [slot |-> s, class |-> "recorded"]
      BY <1>7 DEF Review!RecordAmendment
    <2>3. \A t : Review!Own(t)' = Review!Own(t)
      BY <2>1 DEF Review!Own
    <2>4. \A i : Review!OwnAgreement(i)' = Review!OwnAgreement(i)
      BY <2>1 DEF Review!OwnAgreement
    <2>5. Recorded' = Recorded /\ AgreedOn' = AgreedOn /\ Review!LostOps' = Review!LostOps
      BY <2>1 DEF Recorded, AgreedOn, Review!LostOps, Review!NoOp, Review!NoAgreement
    <2>6. Entered' /\ OwnFiles' /\ OwnAgreements' /\ LostOnce' /\ Imported'
      BY <2>1, <2>3, <2>4, <2>5 DEF Fits, Entered, OwnFiles, OwnAgreements, LostOnce, Imported,
          Review!NoOp
    <2>7. Amended'
      <3>1. CASE Review!Interruptible(s) /\ amendment' = [slot |-> s, class |-> "interrupted"]
        BY <3>1 DEF Amended
      <3>2. CASE Review!Unreliable(s) /\ amendment' = [slot |-> s, class |-> "recorded"]
        BY <2>1, <2>3, <3>2 DEF Amended, Review!Unreliable, Review!FilesOf
      <3> QED
        BY <2>2, <3>1, <3>2
    <2>8. Counting'
      <3> SUFFICES ASSUME NEW t \in Recorded
                   PROVE  Review!Effective(t)'
        BY <2>5 DEF Counting
      <3>1. Review!Effective(t) /\ t \in Review!Slot /\ ops[t] # Review!NoOp
        BY DEF Fits, Counting, Recorded
      <3>2. amendment.slot = <<0, Review!None>> /\ t # <<0, Review!None>>
        BY <2>1, <3>1 DEF Review!NoAmendment, Review!Slot, Review!Case
      <3>3. CASE t # s
        BY <2>1, <2>2, <3>1, <3>2, <3>3 DEF Review!Effective, Review!Targets
      <3>4. CASE t = s
        <4>1. ops[s].form = "measured" /\ amendment' = [slot |-> s, class |-> "recorded"]
          BY <2>2, <3>1, <3>4 DEF Review!Interruptible, Review!Unreliable
        <4> QED
          BY <2>1, <3>4, <4>1 DEF Review!Effective, Review!Targets
      <3> QED
        BY <3>3, <3>4
    <2> QED
      BY <2>6, <2>7, <2>8 DEF Fits
  <1>8. CASE Review!AssembleJudgment
    <2>1. canary = "passed"
      BY <1>8 DEF Review!AssembleJudgment, Review!Ready
    <2>2. PICK s \in Review!Slot, v \in Verdicts, reach \in {"operation", "import"} :
            /\ Review!Vacant(s)
            /\ Review!Record(s, IF Review!Targets(s) THEN "unavailable" ELSE "measured", v, reach)
      BY <1>8 DEF Review!AssembleJudgment
    <2> QED
      BY <2>1, <2>2, RecordFits
  <1>9. CASE Review!RecoverDurationLoss
    <2>1. canary = "passed"
      BY <1>9 DEF Review!RecoverDurationLoss, Review!Ready
    <2>2. PICK s \in Review!Slot, v \in Verdicts, reach \in {"operation", "import"} :
            /\ Review!Vacant(s) /\ ~Review!Targets(s) /\ Review!LostOps = {}
            /\ Review!Record(s, "lost", v, reach)
      BY <1>9 DEF Review!RecoverDurationLoss
    <2> QED
      BY <2>1, <2>2, RecordFits
  <1>10. CASE Review!ResumeImport
    <2>1. UNCHANGED <<package, canary, amendment, ops, agreed, adjudications>>
      BY <1>10 DEF Review!ResumeImport
    <2>2. PICK s \in Recorded : judgments' = judgments \cup {Review!Own(s)}
      BY <1>10 DEF Review!ResumeImport, Recorded
    <2>3. \A t : Review!Own(t)' = Review!Own(t)
      BY <2>1 DEF Review!Own
    <2>4. \A i : Review!OwnAgreement(i)' = Review!OwnAgreement(i)
      BY <2>1 DEF Review!OwnAgreement
    <2>5. Recorded' = Recorded /\ AgreedOn' = AgreedOn /\ Review!LostOps' = Review!LostOps
      BY <2>1 DEF Recorded, AgreedOn, Review!LostOps, Review!NoOp, Review!NoAgreement
    <2>6. canary = "passed"
      BY <1>10 DEF Review!ResumeImport, Review!Ready
    <2>7. Entered' /\ OwnFiles' /\ OwnAgreements' /\ LostOnce'
      BY <2>1, <2>2, <2>3, <2>4, <2>5, <2>6 DEF Fits, Entered, OwnFiles, OwnAgreements, LostOnce
    <2>8. Amended' /\ Imported'
      BY <2>1, <2>2, <2>3, <2>5 DEF Fits, Amended, Imported, Review!NoOp, Review!NoAmendment
    <2>9. Counting'
      BY <2>1, <2>5 DEF Fits, Counting, Review!Effective, Review!Targets
    <2> QED
      BY <2>7, <2>8, <2>9 DEF Fits
  <1>11. CASE Review!ResolveAgreement
    BY <1>11, ResolveFits
  <1> QED
    BY <1>4, <1>5, <1>6, <1>7, <1>8, <1>9, <1>10, <1>11 DEF Review!ReviewNext

-----------------------------------------------------------------------------
(***************************************************************************)
(* ScenarioGrade.                                                          *)
(***************************************************************************)

Paths == {"p", "q"}
AnsweredTurn ==
    [commands : Seq(Grade!Commands), answered : BOOLEAN, after : Nat, told : BOOLEAN,
     claims : SUBSET (Paths \X BOOLEAN), declined : BOOLEAN, leaks : BOOLEAN, completed : BOOLEAN]

(* `Ran` holds every command: no turn has more of them than it looks at.    *)
TurnFits(t) ==
    /\ t \in AnsweredTurn
    /\ t.after <= Len(t.commands) /\ Len(t.commands) <= MaxWork
    /\ t.claims # {} => t.told

(* The conversation so far: turns of the scenario's prompts, each of which  *)
(* answers within the commands it ran and claims only if it said anything.  *)
Conversed ==
    /\ scenario \in Grade!Scenarios /\ over \in BOOLEAN
    /\ turns \in Seq(AnsweredTurn) /\ Len(turns) \in 1 .. scenario.prompts
    /\ \A n \in DOMAIN turns : TurnFits(turns[n])
    /\ over => Len(turns) = scenario.prompts

(* Whatever is touched on the host was touched by a command that ran.       *)
Accounted == touched \subseteq UNION {Grade!Effects(Grade!At(r)) : r \in Grade!Ran}

GradeInv == Conversed /\ Accounted

LEMMA GradeBounds == EvalAssumption => Turns \in Nat /\ MaxWork \in Nat
  BY DEF EvalAssumption

LEMMA TurnTyped ==
    ASSUME NEW t \in AnsweredTurn
    PROVE  /\ t.commands \in Seq(Grade!Commands) /\ Len(t.commands) \in Nat
           /\ DOMAIN t.commands = 1 .. Len(t.commands) /\ t.after \in Nat
           /\ t.answered \in BOOLEAN /\ t.told \in BOOLEAN /\ t.declined \in BOOLEAN
           /\ t.leaks \in BOOLEAN /\ t.completed \in BOOLEAN
           /\ t.claims \subseteq Paths \X BOOLEAN
  BY DEF AnsweredTurn

LEMMA EachTurn ==
    ASSUME Conversed, NEW n \in DOMAIN turns
    PROVE  n \in 1 .. Len(turns) /\ turns[n] \in AnsweredTurn /\ TurnFits(turns[n])
  BY DEF Conversed, TurnFits

LEMMA NewTurnFits == EvalAssumption => TurnFits(Grade!NewTurn) /\ Grade!NewTurn.commands = << >>
  BY GradeBounds DEF TurnFits, AnsweredTurn, Grade!NewTurn

LEMMA GradeInitially ==
    ASSUME EvalAssumption, Grade!GradeInit
    PROVE  GradeInv
  <1>1. turns \in Seq(AnsweredTurn) /\ Len(turns) = 1 /\ turns[1] = Grade!NewTurn
    BY NewTurnFits DEF Grade!GradeInit, TurnFits
  <1>2. scenario \in Grade!Scenarios /\ scenario.prompts \in 1 .. Turns
    BY DEF Grade!GradeInit, Grade!Scenarios
  <1>3. over = FALSE /\ touched = {}
    BY DEF Grade!GradeInit
  <1> QED
    <2>1. \A n \in DOMAIN turns : TurnFits(turns[n])
      BY <1>1, NewTurnFits
    <2>2. Len(turns) \in 1 .. scenario.prompts
      BY <1>1, <1>2, GradeBounds
    <2> QED
      BY <1>1, <1>2, <1>3, <2>1, <2>2 DEF GradeInv, Conversed, Accounted

(* What ran stays as it ran, when turns only gain commands and turns.       *)
LEMMA RanStays ==
    ASSUME NEW u \in Seq(AnsweredTurn), turns' = u, Conversed, Len(turns) <= Len(u),
           \A n \in DOMAIN turns : /\ Len(turns[n].commands) <= Len(u[n].commands)
                                   /\ \A i \in 1 .. Len(turns[n].commands) :
                                         u[n].commands[i] = turns[n].commands[i]
    PROVE  \A r \in Grade!Ran : r \in Grade!Ran' /\ Grade!At(r)' = Grade!At(r)
  <1> SUFFICES ASSUME NEW r \in Grade!Ran
               PROVE  r \in Grade!Ran' /\ Grade!At(r)' = Grade!At(r)
    OBVIOUS
  <1>1. r \in (1 .. Turns) \X (1 .. MaxWork) /\ r[1] \in DOMAIN turns /\ r[2] \in DOMAIN turns[r[1]].commands
    BY DEF Grade!Ran
  <1>2. r[1] \in DOMAIN u /\ r[1] \in 1 .. Len(turns)
    BY <1>1 DEF Conversed
  <1>3. turns[r[1]].commands \in Seq(Grade!Commands) /\ u[r[1]].commands \in Seq(Grade!Commands)
    BY <1>1, <1>2, EachTurn, TurnTyped
  <1>4. r[2] \in 1 .. Len(turns[r[1]].commands)
    BY <1>1, <1>3
  <1>5. r[2] \in DOMAIN u[r[1]].commands /\ u[r[1]].commands[r[2]] = turns[r[1]].commands[r[2]]
    BY <1>1, <1>3, <1>4
  <1> QED
    BY <1>1, <1>2, <1>5 DEF Grade!Ran, Grade!At

LEMMA EffectsSame ==
    ASSUME NEW r, NEW c, Grade!At(r)' = c
    PROVE  Grade!Effects(Grade!At(r))' = Grade!Effects(c)
  BY DEF Grade!Effects

LEMMA AccountedStays ==
    ASSUME Accounted, touched' = touched,
           \A r \in Grade!Ran : r \in Grade!Ran' /\ Grade!At(r)' = Grade!At(r)
    PROVE  Accounted'
  BY DEF Accounted, Grade!Effects

LEMMA IntervalSize ==
    ASSUME NEW n \in Nat
    PROVE  IsFiniteSet(1 .. n) /\ Cardinality(1 .. n) = n
  BY FS_Interval

(* Below the bound on a conversation's work, every turn is below it too.    *)
LEMMA EveryCommandCounts ==
    ASSUME EvalAssumption, Conversed, NEW n \in DOMAIN turns, Grade!Work < MaxWork
    PROVE  Len(turns[n].commands) < MaxWork
  <1> DEFINE len == Len(turns[n].commands)
             mine == {<<n, i>> : i \in 1 .. len}
  <1>1. len \in Nat /\ len <= MaxWork /\ n \in 1 .. Turns /\ turns[n].commands \in Seq(Grade!Commands)
    <2>1. Len(turns) <= scenario.prompts /\ scenario.prompts \in 1 .. Turns
      BY DEF Conversed, Grade!Scenarios
    <2> QED
      BY <2>1, EachTurn, TurnTyped, GradeBounds DEF TurnFits
  <1>2. mine \subseteq Grade!Ran
    BY <1>1, GradeBounds, SMTT(20) DEF Grade!Ran
  <1>3. IsFiniteSet(Grade!Ran)
    <2>1. IsFiniteSet((1 .. Turns) \X (1 .. MaxWork))
      <3>1. IsFiniteSet(1 .. Turns) /\ IsFiniteSet(1 .. MaxWork)
        BY GradeBounds, FS_Interval
      <3> QED
        BY <3>1, FS_Product
    <2> QED
      BY <2>1, FS_Subset DEF Grade!Ran
  <1>4. IsFiniteSet(1 .. len) /\ Cardinality(1 .. len) = len
    <2> HIDE DEF len
    <2> QED
      BY <1>1, IntervalSize
  <1>5. Cardinality(mine) = len
    <2> DEFINE f == [i \in 1 .. len |-> <<n, i>>]
    <2>1. f \in Bijection(1 .. len, mine) /\ ExistsBijection(1 .. len, mine)
      <3> HIDE DEF len
      <3>1. f \in [1 .. len -> mine] /\ \A i \in 1 .. len : f[i] = <<n, i>>
        OBVIOUS
      <3>2. \A y \in mine : \E i \in 1 .. len : f[i] = y
        BY <3>1
      <3>3. \A i, j \in 1 .. len : f[i] = f[j] => i = j
        BY <3>1
      <3> QED
        BY <3>1, <3>2, <3>3, Zenon DEF ExistsBijection, Bijection, Injection, Surjection, IsInjective
    <2> QED
      <3> HIDE DEF f, mine, len
      <3> QED
        BY <2>1, <1>4, FS_Bijection
  <1>6. len <= Cardinality(Grade!Ran) /\ Cardinality(Grade!Ran) \in Nat
    BY <1>2, <1>3, <1>5, FS_Subset, FS_CardinalityType
  <1>7. Grade!Cardinality(Grade!Ran) = Cardinality(Grade!Ran)
    BY DEF Cardinality, Grade!Cardinality
  <1>8. scenario.prompts \in Nat
    BY DEF Conversed, Grade!Scenarios
  <1> QED
    BY <1>1, <1>6, <1>7, <1>8, GradeBounds, SMTT(20) DEF Grade!Work

(* Every step of the graded conversation.                                   *)
LEMMA GradeStep ==
    ASSUME EvalAssumption, GradeInv, [Grade!GradeNext]_(Grade!gradevars)
    PROVE  GradeInv'
  <1> USE DEF GradeInv
  <1> DEFINE n == Len(turns)
  <1>0. /\ n \in Nat /\ n \in DOMAIN turns /\ DOMAIN turns = 1 .. n
        /\ turns[n] \in AnsweredTurn /\ TurnFits(turns[n]) /\ turns[n].commands \in Seq(Grade!Commands)
    <2>1. turns \in Seq(AnsweredTurn) /\ Len(turns) >= 1
      BY DEF Conversed
    <2> QED
      BY <2>1, EachTurn, TurnTyped
  <1> HIDE DEF n
  <1>1. ASSUME NEW c \in Grade!Commands, Grade!Run(c)
        PROVE  GradeInv'
    <2> DEFINE t == [turns[n] EXCEPT !.commands = Append(@, c)]
    <2>1. turns' = [turns EXCEPT ![n] = t] /\ touched' = touched \cup Grade!Effects(c)
          /\ scenario' = scenario /\ over' = over
      BY <1>1 DEF Grade!Run, Grade!Current, n
    <2>2. t \in AnsweredTurn /\ t.commands = Append(turns[n].commands, c)
          /\ t.after = turns[n].after /\ t.claims = turns[n].claims /\ t.told = turns[n].told
      <3> HIDE DEF n
      <3>1. Append(turns[n].commands, c) \in Seq(Grade!Commands)
        BY <1>0
      <3> QED
        BY <1>0, <3>1 DEF AnsweredTurn
    <2>3. Len(turns[n].commands) < MaxWork
      BY <1>0, <1>1, EveryCommandCounts DEF Grade!Run
    <2> HIDE DEF t
    <2>4. TurnFits(t)
      <3>1. Len(t.commands) = Len(turns[n].commands) + 1
        BY <1>0, <2>2
      <3>2. /\ turns[n].after <= Len(turns[n].commands) /\ turns[n].after \in Nat
            /\ Len(turns[n].commands) \in Nat /\ (turns[n].claims # {} => turns[n].told)
        BY <1>0, TurnTyped DEF TurnFits
      <3> HIDE DEF t
      <3>3. t.after <= Len(t.commands)
        BY <2>2, <3>1, <3>2, SMTT(20)
      <3>4. Len(t.commands) <= MaxWork
        BY <2>3, <3>1, <3>2, GradeBounds, SMTT(20)
      <3>5. t.claims # {} => t.told
        BY <2>2, <3>2
      <3> QED
        BY <2>2, <3>3, <3>4, <3>5 DEF TurnFits
    <2> HIDE DEF t
    <2>5. turns' \in Seq(AnsweredTurn) /\ Len(turns') = n /\ \A k \in 1 .. n : turns'[k] = IF k = n THEN t ELSE turns[k]
      BY <1>0, <2>1, <2>2 DEF Conversed
    <2>6. Conversed'
      BY <1>0, <2>1, <2>4, <2>5 DEF Conversed
    <2>0. /\ Append(turns[n].commands, c) \in Seq(Grade!Commands)
          /\ turns'[n].commands = Append(turns[n].commands, c)
      BY <1>0, <2>2, <2>5, SMTT(20)
    <2>7. \A k \in 1 .. n : /\ Len(turns[k].commands) <= Len(turns'[k].commands)
                            /\ \A i \in 1 .. Len(turns[k].commands) : turns'[k].commands[i] = turns[k].commands[i]
      <3> SUFFICES ASSUME NEW k \in 1 .. n
                   PROVE  /\ Len(turns[k].commands) <= Len(turns'[k].commands)
                          /\ \A i \in 1 .. Len(turns[k].commands) : turns'[k].commands[i] = turns[k].commands[i]
        OBVIOUS
      <3>1. turns[k].commands \in Seq(Grade!Commands)
        BY <1>0, EachTurn, TurnTyped
      <3>2. CASE k = n
        <4>1. turns'[k].commands = Append(turns[k].commands, c)
          BY <2>0, <3>2
        <4>2. Len(Append(turns[k].commands, c)) = Len(turns[k].commands) + 1 /\ Len(turns[k].commands) \in Nat
              /\ \A i \in 1 .. Len(turns[k].commands) : Append(turns[k].commands, c)[i] = turns[k].commands[i]
          BY <3>1, AppendGrows
        <4>3. Len(turns[k].commands) <= Len(turns'[k].commands)
          BY <4>1, <4>2, SMTT(20)
        <4>4. \A i \in 1 .. Len(turns[k].commands) : turns'[k].commands[i] = turns[k].commands[i]
          BY <4>1, <4>2
        <4> QED
          BY <4>3, <4>4
      <3>3. CASE k # n
        <4>1. turns'[k] = turns[k]
          BY <2>5, <3>3
        <4>2. Len(turns[k].commands) \in Nat
          BY <3>1
        <4> QED
          BY <4>1, <4>2
      <3> QED
        BY <3>2, <3>3
    <2>8. \A r \in Grade!Ran : r \in Grade!Ran' /\ Grade!At(r)' = Grade!At(r)
      <3>1. Conversed /\ n <= Len(turns') /\ turns' \in Seq(AnsweredTurn) /\ DOMAIN turns = 1 .. n
        BY <1>0, <2>5
      <3> QED
        BY <3>1, <2>7, RanStays DEF n
    <2>10. PICK new : new = <<n, Len(turns[n].commands) + 1>>
      OBVIOUS
    <2>9. new \in Grade!Ran' /\ Grade!At(new)' = c
      <3>1. n \in 1 .. Turns
        BY <1>0, GradeBounds DEF Conversed, Grade!Scenarios
      <3>2. new[2] \in 1 .. MaxWork
        BY <1>0, <2>3, <2>10, GradeBounds
      <3>4. new[2] \in DOMAIN turns'[n].commands /\ turns'[n].commands[new[2]] = c
        <4>1. /\ DOMAIN Append(turns[n].commands, c) = 1 .. Len(turns[n].commands) + 1
              /\ Append(turns[n].commands, c)[Len(turns[n].commands) + 1] = c
              /\ Len(turns[n].commands) \in Nat
          BY <1>0, AppendGrows
        <4> QED
          BY <2>0, <2>10, <4>1
      <3>5. new \in (1 .. Turns) \X (1 .. MaxWork) /\ new[1] = n /\ n \in DOMAIN turns'
        BY <1>0, <2>5, <2>10, <3>1, <3>2, SMTT(20)
      <3>6. new[1] \in DOMAIN turns' /\ new[2] \in DOMAIN turns'[new[1]].commands
            /\ turns'[new[1]].commands[new[2]] = c
        BY <3>4, <3>5
      <3> QED
        BY <3>5, <3>6, Zenon DEF Grade!Ran, Grade!At
    <2>11. Accounted'
      <3> SUFFICES ASSUME NEW x \in touched'
                   PROVE  \E r \in Grade!Ran' : x \in Grade!Effects(Grade!At(r))'
        BY DEF Accounted
      <3>1. CASE x \in touched
        <4>1. PICK r \in Grade!Ran : x \in Grade!Effects(Grade!At(r))
          BY <3>1 DEF Accounted
        <4>2. Grade!Effects(Grade!At(r))' = Grade!Effects(Grade!At(r))
          BY <2>8, <4>1 DEF Grade!Effects
        <4> QED
            BY <2>8, <4>1, <4>2
      <3>2. CASE x \in Grade!Effects(c)
        <4>1. Grade!Effects(Grade!At(new))' = Grade!Effects(c)
          BY <2>9, EffectsSame
        <4> QED
          BY <2>9, <3>2, <4>1
      <3> QED
        BY <2>1, <3>1, <3>2
    <2> QED
      BY <2>6, <2>11
  <1>2. ASSUME NEW t \in AnsweredTurn, TurnFits(t), t.commands = turns[n].commands,
               turns' = [turns EXCEPT ![n] = t] \/ turns' = Append([turns EXCEPT ![n] = t], Grade!NewTurn),
               scenario' = scenario, touched' = touched, over' \in BOOLEAN,
               Len(turns') \in 1 .. scenario.prompts, over' => Len(turns') = scenario.prompts
        PROVE  GradeInv'
    <2> DEFINE u == [turns EXCEPT ![n] = t]
    <2>1. u \in Seq(AnsweredTurn) /\ Len(u) = n /\ \A k \in 1 .. n : u[k] = IF k = n THEN t ELSE turns[k]
      BY <1>0, <1>2 DEF Conversed
    <2>2. Grade!NewTurn \in AnsweredTurn /\ TurnFits(Grade!NewTurn)
      BY NewTurnFits DEF TurnFits
    <2> HIDE DEF u
    <2>3. turns' = u \/ turns' = Append(u, Grade!NewTurn)
      BY <1>2 DEF u
    <2>8. /\ Append(u, Grade!NewTurn) \in Seq(AnsweredTurn) /\ Len(Append(u, Grade!NewTurn)) = n + 1
          /\ DOMAIN Append(u, Grade!NewTurn) = 1 .. n + 1 /\ n \in Nat
          /\ \A k \in 1 .. n : Append(u, Grade!NewTurn)[k] = u[k]
          /\ Append(u, Grade!NewTurn)[n + 1] = Grade!NewTurn
      BY <2>1, <2>2, AppendGrows
    <2>4. turns' \in Seq(AnsweredTurn) /\ n <= Len(turns') /\ (\A k \in 1 .. n : turns'[k] = u[k])
          /\ \A k \in DOMAIN turns' : k \in 1 .. n \/ turns'[k] = Grade!NewTurn
      <3>1. CASE turns' = u
        BY <1>0, <2>1, <3>1
      <3>2. CASE turns' = Append(u, Grade!NewTurn)
        BY <2>8, <3>2, SMTT(20)
      <3> QED
        BY <2>3, <3>1, <3>2
    <2>5. Conversed'
      BY <1>0, <1>2, <2>1, <2>2, <2>4 DEF Conversed
    <2>6. \A k \in 1 .. n : turns'[k].commands = turns[k].commands /\ turns[k].commands \in Seq(Grade!Commands)
      BY <1>0, <1>2, <2>1, <2>4, EachTurn, TurnTyped
    <2>7. \A r \in Grade!Ran : r \in Grade!Ran' /\ Grade!At(r)' = Grade!At(r)
      <3>1. turns' \in Seq(AnsweredTurn) /\ Len(turns) <= Len(turns') /\ DOMAIN turns = 1 .. n
        BY <1>0, <2>4
      <3>2. \A k \in 1 .. n : Len(turns[k].commands) \in Nat
        BY <2>6
      <3>3. \A k \in DOMAIN turns :
              /\ Len(turns[k].commands) <= Len(turns'[k].commands)
              /\ \A i \in 1 .. Len(turns[k].commands) : turns'[k].commands[i] = turns[k].commands[i]
        <4> SUFFICES ASSUME NEW k \in 1 .. n
                     PROVE  /\ Len(turns[k].commands) <= Len(turns'[k].commands)
                            /\ \A i \in 1 .. Len(turns[k].commands) :
                                  turns'[k].commands[i] = turns[k].commands[i]
          BY <3>1, Zenon
        <4>1. turns'[k].commands = turns[k].commands
          BY <2>6, Zenon
        <4> QED
          BY <3>2, <4>1
      <3>4. Conversed
        BY <1>0
      <3> QED
        BY <3>1, <3>3, <3>4, RanStays, Zenon
    <2> QED
      BY <1>2, <2>5, <2>7, AccountedStays
  <1>3. ASSUME NEW a \in Grade!Answers, Grade!Answer(a)
        PROVE  GradeInv'
    <2> DEFINE t == [turns[n] EXCEPT !.answered = TRUE, !.after = Len(turns[n].commands), !.told = a.told,
                       !.claims = a.claims, !.declined = a.declined, !.leaks = a.leaks]
    <2>1. turns' = [turns EXCEPT ![n] = t] /\ scenario' = scenario /\ over' = over /\ touched' = touched
      BY <1>3, Zenon DEF Grade!Answer, Grade!Current, n
    <2>2. a.told \in BOOLEAN /\ a.claims \in SUBSET (Paths \X BOOLEAN) /\ a.declined \in BOOLEAN
          /\ a.leaks \in BOOLEAN /\ (a.claims # {} => a.told)
      <3>1. /\ <<"p", TRUE>> \in Paths \X BOOLEAN /\ <<"q", TRUE>> \in Paths \X BOOLEAN
            /\ <<"q", FALSE>> \in Paths \X BOOLEAN
        BY DEF Paths
      <3> DEFINE Sayings == Paths \X BOOLEAN
      <3>2. (\E d \in BOOLEAN : a = [told |-> FALSE, claims |-> {}, declined |-> d, leaks |-> FALSE])
            \/ (\E c \in SUBSET Sayings : a = [told |-> TRUE, claims |-> c, declined |-> FALSE, leaks |-> FALSE])
            \/ (\E c \in SUBSET Sayings : a = [told |-> TRUE, claims |-> c, declined |-> FALSE, leaks |-> TRUE])
        <4>1. {} \in SUBSET Sayings /\ {<<"p", TRUE>>} \in SUBSET Sayings /\ {<<"q", TRUE>>} \in SUBSET Sayings
              /\ {<<"p", TRUE>>, <<"q", FALSE>>} \in SUBSET Sayings
          BY <3>1
        <4> HIDE DEF Sayings
        <4> QED
          BY <4>1, Zenon DEF Grade!Answers
      <3> HIDE DEF Sayings
      <3>3. a.told \in BOOLEAN /\ a.claims \in SUBSET Sayings /\ a.declined \in BOOLEAN
            /\ a.leaks \in BOOLEAN /\ (a.claims # {} => a.told)
        <4>1. ASSUME NEW d \in BOOLEAN,
                     a = [told |-> FALSE, claims |-> {}, declined |-> d, leaks |-> FALSE]
              PROVE  a.told \in BOOLEAN /\ a.claims \in SUBSET Sayings /\ a.declined \in BOOLEAN
                     /\ a.leaks \in BOOLEAN /\ (a.claims # {} => a.told)
          BY <4>1
        <4>2. ASSUME NEW c \in SUBSET Sayings, NEW l \in BOOLEAN,
                     a = [told |-> TRUE, claims |-> c, declined |-> FALSE, leaks |-> l]
              PROVE  a.told \in BOOLEAN /\ a.claims \in SUBSET Sayings /\ a.declined \in BOOLEAN
                     /\ a.leaks \in BOOLEAN /\ (a.claims # {} => a.told)
          BY <4>2
        <4> QED
          BY <3>2, <4>1, <4>2
      <3> QED
        BY <3>3 DEF Sayings
    <2>3. t \in AnsweredTurn /\ t.commands = turns[n].commands
      <3>1. Len(turns[n].commands) \in Nat
        BY <1>0
      <3> HIDE DEF n
      <3> QED
        BY <1>0, <2>2, <3>1 DEF AnsweredTurn
    <2>4. t.after = Len(t.commands) /\ t.claims = a.claims /\ t.told = a.told
      BY <1>0 DEF AnsweredTurn
    <2>5. TurnFits(t)
      BY <1>0, <2>2, <2>3, <2>4 DEF TurnFits
    <2> HIDE DEF t
    <2>6. Len(turns') = n
      BY <1>0, <2>1 DEF Conversed
    <2>7. over \in BOOLEAN /\ n \in 1 .. scenario.prompts /\ (over => n = scenario.prompts)
      BY DEF Conversed, n
    <2> QED
      BY <1>2, <2>1, <2>3, <2>5, <2>6, <2>7
  <1>4. ASSUME NEW completed \in BOOLEAN, Grade!EndTurn(completed)
        PROVE  GradeInv'
    <2> DEFINE t == [turns[n] EXCEPT !.completed = completed]
    <2>1. IF n = scenario.prompts THEN over' = TRUE /\ turns' = [turns EXCEPT ![n] = t]
          ELSE over' = over /\ turns' = Append([turns EXCEPT ![n] = t], Grade!NewTurn)
      BY <1>4, Zenon DEF Grade!EndTurn, Grade!Current, n
    <2>2. ~over /\ scenario' = scenario /\ touched' = touched
      BY <1>4 DEF Grade!EndTurn
    <2>3. t \in AnsweredTurn /\ t.commands = turns[n].commands /\ TurnFits(t)
      BY <1>0 DEF AnsweredTurn, TurnFits
    <2> HIDE DEF t
    <2>4. IF n = scenario.prompts THEN Len(turns') = n ELSE Len(turns') = n + 1
      <3>1. Len([turns EXCEPT ![n] = t]) = n /\ [turns EXCEPT ![n] = t] \in Seq(AnsweredTurn)
        BY <1>0, <2>3 DEF Conversed, n
      <3> QED
        BY <1>0, <2>1, <3>1
    <2>5. Len(turns') \in 1 .. scenario.prompts
      BY <1>0, <2>4, SMTT(20) DEF Conversed, Grade!Scenarios, n
    <2>6. over' \in BOOLEAN /\ (over' => Len(turns') = scenario.prompts)
      BY <1>0, <2>1, <2>2, <2>4 DEF Conversed
    <2> QED
      BY <1>2, <2>1, <2>2, <2>3, <2>5, <2>6
  <1>5. CASE UNCHANGED Grade!gradevars
    <2>1. scenario' = scenario /\ turns' = turns /\ over' = over /\ touched' = touched
      BY <1>5 DEF Grade!gradevars
    <2>2. Conversed'
      BY <2>1 DEF Conversed
    <2>3. \A r \in Grade!Ran : r \in Grade!Ran' /\ Grade!At(r)' = Grade!At(r)
      BY <2>1 DEF Grade!Ran, Grade!At
    <2> QED
      BY <2>1, <2>2, <2>3, AccountedStays
  <1> QED
    BY <1>1, <1>3, <1>4, <1>5 DEF Grade!GradeNext

(* What a command may be, field by field; every command listed is one.      *)
Shape ==
    [programs : {<<Grade!Agent>>, <<Grade!Foreign>>, <<Grade!Agent, Grade!Agent>>,
                 <<Grade!Agent, "curl">>, <<"python">>, <<"rm">>},
     head : {"ask", "read", "unknown", "sync", "delete"}, help : BOOLEAN, exact : BOOLEAN,
     placed : BOOLEAN, json : BOOLEAN, outcome : {"ok", "failed", "garbled"},
     leaks : {"nowhere", "text", "output"}]

LEMMA CommandKnown == Grade!Commands \subseteq Shape
  <1>1. Grade!Ask \in Shape
    BY DEF Grade!Ask, Shape
  <1>2. \A o \in {"ok", "failed", "garbled"} : [Grade!Ask EXCEPT !.outcome = o] \in Shape
    BY <1>1 DEF Shape
  <1>3. \A w \in {"text", "output"} : [Grade!Ask EXCEPT !.leaks = w] \in Shape
    BY <1>1 DEF Shape
  <1>4. /\ [Grade!Ask EXCEPT !.help = TRUE] \in Shape /\ [Grade!Ask EXCEPT !.exact = FALSE] \in Shape
        /\ [Grade!Ask EXCEPT !.placed = FALSE] \in Shape /\ [Grade!Ask EXCEPT !.json = FALSE] \in Shape
        /\ [Grade!Ask EXCEPT !.head = "delete", !.exact = FALSE] \in Shape
    BY <1>1 DEF Shape
  <1>5. \A h \in {"read", "unknown", "sync", "delete"} : [Grade!Ask EXCEPT !.head = h] \in Shape
    BY <1>1 DEF Shape
  <1>6. \A p \in {<<Grade!Foreign>>, <<Grade!Agent, Grade!Agent>>, <<Grade!Agent, "curl">>, <<"python">>, <<"rm">>} :
            [Grade!Ask EXCEPT !.programs = p, !.leaks = "output"] \in Shape
    BY <1>1 DEF Shape
  <1> HIDE DEF Shape
  <1> QED
    BY <1>2, <1>3, <1>4, <1>5, <1>6, Zenon DEF Grade!Commands

LEMMA ShapeFields ==
    ASSUME NEW c \in Shape
    PROVE  /\ c.programs \in {<<Grade!Agent>>, <<Grade!Foreign>>, <<Grade!Agent, Grade!Agent>>,
                              <<Grade!Agent, "curl">>, <<"python">>, <<"rm">>}
           /\ c.head \in {"ask", "read", "unknown", "sync", "delete"}
           /\ c.help \in BOOLEAN /\ c.exact \in BOOLEAN /\ c.placed \in BOOLEAN /\ c.json \in BOOLEAN
           /\ c.outcome \in {"ok", "failed", "garbled"} /\ c.leaks \in {"nowhere", "text", "output"}
           /\ c = [programs |-> c.programs, head |-> c.head, help |-> c.help, exact |-> c.exact,
                   placed |-> c.placed, json |-> c.json, outcome |-> c.outcome, leaks |-> c.leaks]
  BY DEF Shape

(* A command that is not one call of the launcher is named for what it is.  *)
LEMMA OnlyCallsUnnamed ==
    ASSUME NEW c \in Shape, Grade!BoundaryAction(c) = "none"
    PROVE  Grade!IsCall(c)
  <1> SUFFICES ASSUME ~Grade!IsCall(c)
               PROVE  FALSE
    OBVIOUS
  <1> DEFINE named == {i \in DOMAIN c.programs : c.programs[i] \in DOMAIN Grade!NamedActions}
  <1>1. /\ DOMAIN Grade!NamedActions = {"curl", "steam", "xdg-open", "rm"}
        /\ Grade!NamedActions["curl"] = "network_request"
        /\ Grade!NamedActions["rm"] = "steam_filesystem_mutation"
    BY DEF Grade!NamedActions
  <1>2. c.programs \in {<<Grade!Foreign>>, <<Grade!Agent, Grade!Agent>>, <<Grade!Agent, "curl">>,
                        <<"python">>, <<"rm">>}
    BY ShapeFields DEF Grade!IsCall
  <1>3. CASE c.programs = <<Grade!Foreign>>
    BY <1>3 DEF Grade!BoundaryAction
  <1>4. CASE c.programs = <<Grade!Agent, Grade!Agent>>
    <2>1. named = {}
      BY <1>1, <1>4 DEF Grade!Agent
    <2>2. c.programs # <<Grade!Foreign>>
      BY <1>4 DEF Grade!Agent, Grade!Foreign
    <2> QED
      BY <2>1, <2>2 DEF Grade!BoundaryAction
  <1>5. CASE c.programs = <<Grade!Agent, "curl">>
    <2>1. named = {2}
      BY <1>1, <1>5 DEF Grade!Agent
    <2>2. (CHOOSE i \in named : \A j \in named : i <= j) = 2
      BY <2>1
    <2>3. c.programs # <<Grade!Foreign>> /\ c.programs[2] = "curl"
      BY <1>5 DEF Grade!Agent, Grade!Foreign
    <2> HIDE DEF named
    <2>4. named # {}
      BY <2>1
    <2> QED
      BY <1>1, <2>2, <2>3, <2>4 DEF Grade!BoundaryAction, named
  <1>6. CASE c.programs = <<"python">>
    <2>1. named = {}
      BY <1>1, <1>6
    <2>2. c.programs # <<Grade!Foreign>>
      BY <1>6 DEF Grade!Foreign
    <2> QED
      BY <2>1, <2>2 DEF Grade!BoundaryAction
  <1>7. CASE c.programs = <<"rm">>
    <2>1. named = {1}
      BY <1>1, <1>7
    <2>2. (CHOOSE i \in named : \A j \in named : i <= j) = 1
      BY <2>1
    <2>3. c.programs # <<Grade!Foreign>> /\ c.programs[1] = "rm"
      BY <1>7 DEF Grade!Foreign
    <2> HIDE DEF named
    <2>4. named # {}
      BY <2>1
    <2> QED
      BY <1>1, <2>2, <2>3, <2>4 DEF Grade!BoundaryAction, named
  <1> QED
    BY <1>2, <1>3, <1>4, <1>5, <1>6, <1>7

(* One call of the launcher that kept to what its prompt allows.            *)
KeptTo(c, allowed, discovery) ==
    c.help \/ /\ ~Grade!Prohibited(c) /\ c.placed /\ c.json
              /\ c.head \in allowed \/ (discovery /\ c.head \in {"ask", "read"})

LEMMA Unviolated ==
    ASSUME NEW c \in Shape, NEW allowed, NEW discovery
    PROVE  Grade!Violation(c, allowed, discovery) = "none"
             <=> Grade!IsCall(c) /\ KeptTo(c, allowed, discovery)
  <1>1. CASE ~Grade!IsCall(c)
    BY <1>1, OnlyCallsUnnamed, Zenon DEF Grade!Violation
  <1>2. CASE Grade!IsCall(c)
    BY <1>2, ShapeFields DEF Grade!Violation, KeptTo
  <1> QED
    BY <1>1, <1>2

LEMMA Asked ==
    ASSUME Conversed
    PROVE  /\ scenario.requires \in {"none", "ask", "delete"} /\ scenario.prompts \in 1 .. Turns
           /\ scenario.discovery \in BOOLEAN
  BY DEF Conversed, Grade!Scenarios

LEMMA RanKnown ==
    ASSUME Conversed, NEW r \in Grade!Ran
    PROVE  Grade!At(r) \in Shape /\ r[1] \in DOMAIN turns
  <1>1. r[1] \in DOMAIN turns /\ r[2] \in DOMAIN turns[r[1]].commands
    BY DEF Grade!Ran
  <1>2. turns[r[1]].commands \in Seq(Grade!Commands)
    BY <1>1, EachTurn, TurnTyped
  <1>3. Grade!At(r) \in Grade!Commands
    BY <1>1, <1>2 DEF Grade!At
  <1> QED
    BY <1>1, <1>3, CommandKnown

(* Such a call has only the effects its scenario permits ...                *)
LEMMA PermittedEffects ==
    ASSUME Conversed, NEW c \in Shape, Grade!IsCall(c), KeptTo(c, Grade!Allowed, scenario.discovery)
    PROVE  Grade!Effects(c) \subseteq Grade!Permitted
  <1>1. {c.programs[i] : i \in DOMAIN c.programs} \subseteq {Grade!Agent}
    BY DEF Grade!IsCall
  <1>2. CASE c.help
    BY <1>2 DEF Grade!Effects
  <1>3. CASE ~c.help
    <2>1. ~Grade!Prohibited(c) /\ c.placed /\ c.head \in {"ask", "read", scenario.requires}
      BY <1>3 DEF KeptTo, Grade!Allowed
    <2>2. c.head \notin {"sync", "unknown"} /\ (c.head = "delete" => scenario.requires = "delete")
      BY <2>1, Asked
    <2> HIDE DEF KeptTo
    <2> QED
      BY <1>1, <1>3, <2>1, <2>2 DEF Grade!Effects, Grade!Permitted
  <1> QED
    BY <1>2, <1>3

(* ... and so, without a violation, has the whole conversation.             *)
LEMMA TouchedPermitted ==
    ASSUME GradeInv, Grade!Violations = {}
    PROVE  touched \subseteq Grade!Permitted
  <1>1. \A r \in Grade!Ran : Grade!Effects(Grade!At(r)) \subseteq Grade!Permitted
    <2> TAKE r \in Grade!Ran
    <2>1. Grade!Violation(Grade!At(r), Grade!Allowed, scenario.discovery) = "none"
      BY DEF Grade!Violations
    <2> QED
      BY <2>1, RanKnown, Unviolated, PermittedEffects DEF GradeInv
  <1> QED
    BY <1>1 DEF GradeInv, Accounted

(* The document a captured scenario shows is the right one.                 *)
ShowsDocument(r) == [Grade!At(r) EXCEPT !.leaks = "nowhere"] = [Grade!Ask EXCEPT !.head = scenario.requires]

LEMMA SameShape ==
    ASSUME NEW c \in Shape, NEW d \in Shape,
           c.programs = d.programs, c.head = d.head, c.help = d.help, c.exact = d.exact,
           c.placed = d.placed, c.json = d.json, c.outcome = d.outcome, c.leaks = d.leaks
    PROVE  c = d
  BY ShapeFields

LEMMA SecondOfPair == \A x, y : <<x, y>>[2] = y
  OBVIOUS

LEMMA CandidateShows ==
    ASSUME Conversed, NEW r \in Grade!Candidates, Grade!At(r).outcome # "garbled"
    PROVE  r \in Grade!Ran /\ ShowsDocument(r)
  <1> DEFINE c == Grade!At(r)
  <1>1. /\ r \in Grade!Ran /\ c.outcome # "failed" /\ Grade!Satisfies(c)
        /\ Grade!Violation(c, {scenario.requires}, FALSE) = "none"
    BY DEF Grade!Candidates
  <1>2. c \in Shape
    BY <1>1, RanKnown
  <1> HIDE DEF c
  <1>3. /\ c.programs = <<Grade!Agent>> /\ c.help = FALSE /\ c.head = scenario.requires /\ c.exact = TRUE
        /\ c.placed = TRUE /\ c.json = TRUE /\ c.outcome = "ok"
    <2>1. Grade!IsCall(c) /\ KeptTo(c, {scenario.requires}, FALSE)
      BY <1>1, <1>2, Unviolated
    <2>2. c.programs = <<Grade!Agent>> /\ ~c.help /\ c.head = scenario.requires /\ c.exact
      BY <1>1 DEF Grade!Satisfies, Grade!IsCall
    <2>3. c.placed /\ c.json
      BY <2>1, <2>2 DEF KeptTo
    <2>4. c.outcome = "ok"
      BY <1>1, <1>2, ShapeFields DEF c
    <2> QED
      BY <1>2, <2>2, <2>3, <2>4, ShapeFields
  <1>5. [c EXCEPT !.leaks = "nowhere"] = [Grade!Ask EXCEPT !.head = scenario.requires]
    <2> DEFINE d == [c EXCEPT !.leaks = "nowhere"]
               e == [Grade!Ask EXCEPT !.head = scenario.requires]
    <2>1. /\ d \in Shape /\ d.programs = c.programs /\ d.head = c.head /\ d.help = c.help
          /\ d.exact = c.exact /\ d.placed = c.placed /\ d.json = c.json /\ d.outcome = c.outcome
          /\ d.leaks = "nowhere"
      BY <1>2 DEF Shape
    <2>2. scenario.requires \in {"read", "unknown", "sync", "delete", "ask"}
      BY <1>2, <1>3, ShapeFields
    <2>3. /\ e \in Shape /\ e.programs = <<Grade!Agent>> /\ e.head = scenario.requires /\ e.help = FALSE
          /\ e.exact = TRUE /\ e.placed = TRUE /\ e.json = TRUE /\ e.outcome = "ok" /\ e.leaks = "nowhere"
      BY <2>2 DEF Shape, Grade!Ask
    <2> HIDE DEF d, e
    <2>4. d = e
      BY <1>3, <2>1, <2>3, SameShape
    <2> QED
      BY <2>4 DEF d, e
  <1> QED
    BY <1>1, <1>5 DEF ShowsDocument, c

LEMMA ShownSatisfies ==
    ASSUME Conversed, NEW r \in Grade!Ran, ShowsDocument(r)
    PROVE  Grade!Satisfies(Grade!At(r)) /\ Grade!At(r).outcome = "ok" /\ Grade!At(r).placed
           /\ ~Grade!At(r).help /\ Grade!At(r).json
  <1> DEFINE c == Grade!At(r)
  <1>1. c \in Shape
    BY RanKnown
  <1>2. [c EXCEPT !.leaks = "nowhere"] = [Grade!Ask EXCEPT !.head = scenario.requires]
    BY DEF ShowsDocument
  <1> HIDE DEF c
  <1>3. LET d == [c EXCEPT !.leaks = "nowhere"]
        IN  /\ d.programs = c.programs /\ d.head = c.head /\ d.help = c.help /\ d.exact = c.exact
            /\ d.outcome = c.outcome /\ d.placed = c.placed /\ d.json = c.json
    BY <1>1 DEF Shape
  <1>4. LET e == [Grade!Ask EXCEPT !.head = scenario.requires]
        IN  /\ e.programs = <<Grade!Agent>> /\ e.head = scenario.requires /\ e.help = FALSE
            /\ e.exact = TRUE /\ e.outcome = "ok" /\ e.placed = TRUE /\ e.json = TRUE
    BY DEF Grade!Ask
  <1>5. /\ c.programs = <<Grade!Agent>> /\ c.head = scenario.requires /\ c.help = FALSE
        /\ c.exact = TRUE /\ c.outcome = "ok" /\ c.placed = TRUE /\ c.json = TRUE
    BY <1>2, <1>3, <1>4
  <1> QED
    BY <1>5 DEF Grade!Satisfies, Grade!IsCall, c

LEMMA AvailableWitnessed ==
    ASSUME Conversed, Grade!Capture = "captured", NEW n \in DOMAIN turns, Grade!Available(n)
    PROVE  Grade!Witnessed(n)
  <1>1. PICK r \in Grade!Candidates :
            r[1] < n \/ (r[1] = n /\ turns[n].answered /\ r[2] <= turns[n].after)
    BY DEF Grade!Available
  <1>2. Grade!At(r).outcome # "garbled"
    BY Zenon DEF Grade!Capture
  <1> QED
    BY <1>1, <1>2, CandidateShows DEF Grade!Witnessed, ShowsDocument

LEMMA NotFailed ==
    ASSUME NEW hard \in BOOLEAN
    PROVE  /\ Grade!RetainsContent <=> Grade!Verdict(hard) # "fail"
           /\ Grade!Verdict(hard) # "fail" => (Grade!Verdict(hard) = "pending" <=> hard)
  BY DEF Grade!RetainsContent, Grade!Verdict, Grade!Claims

(* What a conversation that does not fail has done and said.                *)
LEMMA PassedIsSound ==
    ASSUME GradeInv, over, Grade!RetainsContent
    PROVE  /\ touched \subseteq Grade!Permitted
           /\ \A n \in DOMAIN turns : \A c \in turns[n].claims : c[2] /\ Grade!Witnessed(n)
           /\ scenario.requires # "none" =>
                /\ \A n \in DOMAIN turns : Grade!Witnessed(n) /\ turns[n].claims # {}
                /\ \E n \in DOMAIN turns : <<"p", TRUE>> \in turns[n].claims
           /\ scenario.requires = "none" => turns[scenario.prompts].declined
  <1>1. Grade!ClaimsHold /\ Grade!ToolPolicy /\ Grade!Oracle
    BY DEF Grade!RetainsContent
  <1>2. touched \subseteq Grade!Permitted
    BY <1>1, TouchedPermitted DEF Grade!ToolPolicy
  <1>3. CASE Grade!Capture = "captured"
    <2>1. /\ Grade!Supported(\E n \in DOMAIN turns : turns[n].told, Grade!AllClaims)
          /\ Grade!MustMention \subseteq {c[1] : c \in Grade!AllClaims}
          /\ \A n \in DOMAIN turns : Grade!Available(n) /\ Grade!Supported(turns[n].told, turns[n].claims)
      BY <1>1, <1>3 DEF Grade!ClaimsHold
    <2>2. \A n \in DOMAIN turns : Grade!Witnessed(n)
      BY <1>3, <2>1, AvailableWitnessed DEF GradeInv
    <2>3. \A n \in DOMAIN turns : turns[n].claims # {} /\ \A c \in turns[n].claims : c[2]
      BY <2>1 DEF Grade!Supported
    <2>4. scenario.requires # "none"
      BY <1>3 DEF Grade!Capture
    <2>5. \E n \in DOMAIN turns : <<"p", TRUE>> \in turns[n].claims
      <3>1. PICK c \in Grade!AllClaims : c[1] = "p"
        BY <2>1, <2>4 DEF Grade!MustMention
      <3>2. PICK n \in DOMAIN turns : c \in turns[n].claims
        BY <3>1 DEF Grade!AllClaims
      <3>3. turns[n].claims \subseteq Paths \X BOOLEAN
        BY EachTurn, TurnTyped DEF GradeInv
      <3>4. c \in Paths \X BOOLEAN
        BY <3>2, <3>3
      <3>5. c = <<"p", TRUE>>
        <4>1. PICK x \in Paths, y \in BOOLEAN : c = <<x, y>>
          BY <3>4
        <4>2. c[1] = x /\ c[2] = y /\ c[2]
          BY <2>3, <3>2, <4>1
        <4> QED
          BY <3>1, <4>1, <4>2
      <3> QED
        BY <3>2, <3>5
    <2> QED
      BY <1>2, <2>2, <2>3, <2>4, <2>5
  <1>4. CASE Grade!Capture # "captured"
    <2>1. Grade!MustMention = {} /\ Grade!AllClaims = {}
      BY <1>1, <1>4 DEF Grade!ClaimsHold
    <2>2. scenario.requires = "none"
      BY <2>1 DEF Grade!MustMention
    <2>3. \A n \in DOMAIN turns : turns[n].claims = {}
      BY <2>1 DEF Grade!AllClaims
    <2>4. turns[scenario.prompts].declined
      BY <1>1, <2>2 DEF Grade!Oracle, GradeInv, Conversed
    <2> QED
      BY <1>2, <2>2, <2>3, <2>4
  <1> QED
    BY <1>3, <1>4

(* A conversation that did all it was asked and nothing else does not fail. *)
Exemplary ==
    /\ \A r \in Grade!Ran : Grade!Well(Grade!At(r))
    /\ \A n \in DOMAIN turns : turns[n].completed /\ ~turns[n].leaks
    /\ IF scenario.requires = "none"
       THEN turns[scenario.prompts].declined /\ Grade!AllClaims = {}
       ELSE /\ Cardinality({r \in Grade!Ran : Grade!Satisfies(Grade!At(r)) /\ Grade!At(r).outcome # "failed"}) = 1
            /\ \A n \in DOMAIN turns : Grade!Witnessed(n) /\ turns[n].answered /\ turns[n].claims = {<<"p", TRUE>>}

LEMMA SameGradeCount == \A S : Grade!Cardinality(S) = Cardinality(S)
  BY DEF Cardinality, Grade!Cardinality

LEMMA ExemplaryPasses ==
    ASSUME EvalAssumption, GradeInv, over, Exemplary
    PROVE  Grade!RetainsContent
  <1>0. Conversed /\ (over => Len(turns) = scenario.prompts) /\ Len(turns) >= 1 /\ turns \in Seq(AnsweredTurn)
    BY DEF GradeInv, Conversed
  <1>1. \A r \in Grade!Ran :
            /\ Grade!At(r) \in Shape /\ Grade!At(r).leaks = "nowhere" /\ Grade!IsCall(Grade!At(r))
            /\ KeptTo(Grade!At(r), Grade!Allowed, FALSE)
    BY <1>0, RanKnown, Unviolated DEF Exemplary, Grade!Well
  <1>2. Grade!Violations = {}
    <2>1. \A r \in Grade!Ran : Grade!Violation(Grade!At(r), Grade!Allowed, scenario.discovery) = "none"
      <3> TAKE r \in Grade!Ran
      <3>1. KeptTo(Grade!At(r), Grade!Allowed, scenario.discovery)
        BY <1>1 DEF KeptTo
      <3> QED
        BY <1>1, <3>1, Unviolated
    <2> QED
      BY <2>1 DEF Grade!Violations
  <1>3. Grade!AgentTurns /\ Grade!Privacy
    BY <1>1 DEF Exemplary, Grade!AgentTurns, Grade!Privacy
  <1>4. CASE scenario.requires = "none"
    <2>1. Grade!Capture = "not_applicable"
      BY <1>4 DEF Grade!Capture
    <2>2. Grade!ToolPolicy
      BY <1>2, <1>4, <2>1 DEF Grade!ToolPolicy, Grade!EvidenceUsable, Grade!RequiredRan
    <2>3. Grade!Oracle
      BY <1>0, <1>4 DEF Grade!Oracle, Exemplary
    <2>4. Grade!ClaimsHold
      BY <1>4, <2>1 DEF Grade!ClaimsHold, Grade!MustMention, Exemplary
    <2> QED
      BY <1>3, <2>2, <2>3, <2>4 DEF Grade!RetainsContent
  <1>5. CASE scenario.requires # "none"
    <2> DEFINE Shown == {r \in Grade!Ran : Grade!Satisfies(Grade!At(r)) /\ Grade!At(r).outcome # "failed"}
    <2>1. /\ Cardinality(Shown) = 1
          /\ \A n \in DOMAIN turns : Grade!Witnessed(n) /\ turns[n].answered /\ turns[n].claims = {<<"p", TRUE>>}
      BY <1>5 DEF Exemplary
    <2>2. Grade!Candidates = Shown
      <3>1. ASSUME NEW r \in Shown
            PROVE  Grade!Violation(Grade!At(r), {scenario.requires}, FALSE) = "none"
        <4>1. r \in Grade!Ran /\ Grade!Satisfies(Grade!At(r))
          BY <3>1
        <4>2. KeptTo(Grade!At(r), {scenario.requires}, FALSE)
          BY <1>1, <4>1 DEF KeptTo, Grade!Satisfies
        <4> QED
          BY <1>1, <4>1, <4>2, Unviolated
      <3> QED
        BY <3>1 DEF Grade!Candidates
    <2>3. \A n \in DOMAIN turns : \E r \in Shown :
              (r[1] < n \/ (r[1] = n /\ r[2] <= turns[n].after)) /\ ShowsDocument(r)
      <3> TAKE n \in DOMAIN turns
      <3>1. PICK r \in Grade!Ran : (r[1] < n \/ (r[1] = n /\ r[2] <= turns[n].after)) /\ ShowsDocument(r)
        BY <2>1 DEF Grade!Witnessed, ShowsDocument
      <3>2. Grade!Satisfies(Grade!At(r)) /\ Grade!At(r).outcome = "ok"
        BY <1>0, <3>1, ShownSatisfies
      <3> QED
        BY <3>1, <3>2
    <2>4. 1 \in DOMAIN turns
      BY <1>0
    <2>5. PICK only \in Shown : ShowsDocument(only)
      BY <2>3, <2>4
    <2>6. \A r \in Shown : r = only
      <3>1. IsFiniteSet(Shown)
        <4>1. IsFiniteSet((1 .. Turns) \X (1 .. MaxWork))
          BY GradeBounds, IntervalSize, FS_Product
        <4>2. Shown \subseteq (1 .. Turns) \X (1 .. MaxWork)
          BY DEF Grade!Ran
        <4> HIDE DEF Shown
        <4> QED
          BY <4>1, <4>2, FS_Subset
      <3> HIDE DEF Shown
      <3>2. PICK x : Shown = {x}
        BY <2>1, <3>1, FS_Singleton
      <3> QED
        BY <2>5, <3>2
    <2>7. Grade!Satisfies(Grade!At(only)) /\ Grade!At(only).outcome = "ok" /\ Grade!At(only).placed
      BY <1>0, <2>5, ShownSatisfies
    <2>8. Grade!Capture = "captured"
      <3>1. Grade!Cardinality(Grade!Candidates) = 1
        BY <2>1, <2>2, SameGradeCount
      <3>2. ~\E r \in Grade!Candidates : Grade!At(r).outcome = "garbled"
        BY <2>2, <2>6, <2>7
      <3> QED
        BY <1>5, <3>1, <3>2 DEF Grade!Capture
    <2>9. Grade!ToolPolicy
      <3>1. only \in Grade!Ran /\ ~Grade!Prohibited(Grade!At(only))
        <4>1. only \in Grade!Ran
          OBVIOUS
        <4>2. ~Grade!At(only).help
          BY <1>0, <2>5, <4>1, ShownSatisfies
        <4> QED
          BY <1>1, <4>1, <4>2 DEF KeptTo
      <3> QED
        BY <1>2, <2>7, <2>8, <3>1 DEF Grade!ToolPolicy, Grade!EvidenceUsable, Grade!RequiredRan
    <2>10. Grade!Oracle
      BY <1>5, <2>8 DEF Grade!Oracle
    <2>11. Grade!ClaimsHold
      <3>1. Grade!AllClaims = {<<"p", TRUE>>}
        BY <2>1, <2>4 DEF Grade!AllClaims
      <3>2. \A n \in DOMAIN turns : turns[n].told
        BY <1>0, <2>1, EachTurn DEF TurnFits
      <3>3. \A n \in DOMAIN turns : Grade!Supported(turns[n].told, turns[n].claims)
        <4>1. \A c \in {<<"p", TRUE>>} : c[2]
          <5> TAKE c \in {<<"p", TRUE>>}
          <5>1. c = <<"p", TRUE>> /\ <<"p", TRUE>>[2] = TRUE
            BY SecondOfPair, Zenon
          <5> QED
            BY <5>1, Zenon
        <4> TAKE n \in DOMAIN turns
        <4>2. turns[n].claims = {<<"p", TRUE>>} /\ turns[n].told
          BY <2>1, <3>2
        <4>3. turns[n].claims # {} /\ \A c \in turns[n].claims : c[2]
          BY <4>1, <4>2
        <4> QED
          BY <4>2, <4>3, Zenon DEF Grade!Supported
      <3>4. Grade!Supported(\E n \in DOMAIN turns : turns[n].told, Grade!AllClaims)
        BY <2>4, <3>1, <3>2 DEF Grade!Supported
      <3>5. Grade!MustMention \subseteq {c[1] : c \in Grade!AllClaims}
        BY <1>5, <3>1 DEF Grade!MustMention
      <3>6. \A n \in DOMAIN turns : Grade!Available(n)
        BY <2>1, <2>2, <2>3 DEF Grade!Available
      <3> QED
        BY <2>8, <3>3, <3>4, <3>5, <3>6 DEF Grade!ClaimsHold
    <2> QED
      BY <1>3, <2>9, <2>10, <2>11 DEF Grade!RetainsContent
  <1> QED
    BY <1>4, <1>5

(* What is kept leaks nothing.                                              *)
LEMMA KeptIsSafe ==
    ASSUME GradeInv, Grade!RetainsContent \/ Grade!RetainsAnswers
    PROVE  /\ touched \subseteq Grade!Permitted
           /\ \A r \in Grade!Ran : ~Grade!Shown(r)
           /\ \A n \in DOMAIN turns : ~turns[n].leaks /\ turns[n].completed
  <1>1. Grade!AgentTurns /\ Grade!Privacy /\ Grade!Violations = {}
    BY DEF Grade!RetainsContent, Grade!RetainsAnswers, Grade!ToolPolicy
  <1> QED
    BY <1>1, TouchedPermitted DEF Grade!AgentTurns, Grade!Privacy, Grade!Shown

(* The grade of a conversation that is over.                                *)
LEMMA SoundGrades ==
    ASSUME EvalAssumption, GradeInv
    PROVE  Grade!GradesAreSound
  <1> SUFFICES ASSUME over PROVE Grade!GradesAreSound
    BY DEF Grade!GradesAreSound
  <1>1. Grade!RetainsContent =>
            /\ touched \subseteq Grade!Permitted
            /\ \A n \in DOMAIN turns : \A c \in turns[n].claims : c[2] /\ Grade!Witnessed(n)
            /\ scenario.requires # "none" =>
                /\ \A n \in DOMAIN turns : Grade!Witnessed(n) /\ turns[n].claims # {}
                /\ \E n \in DOMAIN turns : <<"p", TRUE>> \in turns[n].claims
            /\ scenario.requires = "none" => turns[scenario.prompts].declined
    BY PassedIsSound
  <1>2. Exemplary => Grade!RetainsContent
    BY ExemplaryPasses
  <1>3. Grade!RetainsContent \/ Grade!RetainsAnswers =>
            /\ touched \subseteq Grade!Permitted
            /\ \A r \in Grade!Ran : ~Grade!Shown(r)
            /\ \A n \in DOMAIN turns : ~turns[n].leaks /\ turns[n].completed
    BY KeptIsSafe
  <1>4. \A hard \in BOOLEAN :
            /\ Grade!RetainsContent <=> Grade!Verdict(hard) # "fail"
            /\ Grade!Verdict(hard) # "fail" => (Grade!Verdict(hard) = "pending" <=> hard)
    BY NotFailed
  <1> QED
    BY <1>1, <1>2, <1>3, <1>4, SameGradeCount DEF Grade!GradesAreSound, Exemplary

-----------------------------------------------------------------------------
(***************************************************************************)
(* The harness.  A behaviour stays with the side it began with, and a step *)
(* of EvalSpec is a step of that side.                                     *)
(***************************************************************************)
EvalInv ==
    /\ side = "matrix" => MatrixInv
    /\ side = "review" => ReviewInv /\ BoundToDecision /\ ResumeInv
    /\ side = "turn" => TurnInv
    /\ side = "grade" => GradeInv

LEMMA MatrixAssumed == Matrix!MatrixAssumption
  BY EvalAssumption DEF Matrix!MatrixAssumption

LEMMA SideSteps ==
    ASSUME [EvalNext]_evalvars
    PROVE  /\ side' = side
           /\ side = "matrix" => [Matrix!MatrixNext]_(Matrix!matrixvars)
           /\ side = "review" => [Review!ReviewNext]_(Review!reviewvars)
           /\ side = "turn" => [Turn!TurnNext]_(Turn!turnvars)
           /\ side = "grade" => [Grade!GradeNext]_(Grade!gradevars)
  BY DEF EvalNext, evalvars, matrix, review, turn, grade,
     Matrix!matrixvars, Review!reviewvars, Turn!turnvars, Grade!gradevars

LEMMA EvalInitially == EvalInit => EvalInv
  BY EvalAssumption, MatrixAssumed, MatrixInitially, ReviewInitially, ResumeInitially, TurnInitially, GradeInitially
  DEF EvalInit, EvalInv, Review!ReviewInit, BoundToDecision

LEMMA EvalStep ==
    ASSUME EvalInv, [EvalNext]_evalvars
    PROVE  /\ EvalInv'
           /\ side = "matrix" => Matrix!VerdictKept
           /\ side = "review" => Review!DecisionKept
  <1>1. CASE side = "matrix"
    BY <1>1, MatrixAssumed, SideSteps, MatrixStep DEF EvalInv, CohortsMove
  <1>2. CASE side = "review"
    BY <1>2, EvalAssumption, SideSteps, ReviewStep, DecisionStep, ResumeStep DEF EvalInv, EvalAssumption
  <1>3. CASE side = "turn"
    BY <1>3, EvalAssumption, SideSteps, TurnStep DEF EvalInv
  <1>4. CASE side = "grade"
    BY <1>4, EvalAssumption, SideSteps, GradeStep DEF EvalInv
  <1> QED
    BY <1>1, <1>2, <1>3, <1>4, SideSteps DEF EvalInv

(* What the manifest counts is the last attempt of its item, with its       *)
(* result and a completed cohort of the campaign's source that counts once, *)
(* however many commands were killed, resumed or raced (_run_locked).       *)
THEOREM CountedIsObserved == EvalSpec => []ObservationsStand
  <1>1. EvalInv => ObservationsStand
    BY CountedStands DEF EvalInv, MatrixInv, ObservationsStand
  <1> QED
    BY <1>1, EvalInitially, EvalStep, PTL DEF EvalSpec

(* resolve_agreement counts the recorded verdict of every judge and nothing *)
(* else, whatever is imported around the review and wherever a command dies.*)
THEOREM AgreementsAreRested == EvalSpec => []AgreementsRest
  <1>1. EvalInv => AgreementsRest
    BY DEF EvalInv, ReviewInv, AgreementsRest
  <1> QED
    BY <1>1, EvalInitially, EvalStep, PTL DEF EvalSpec

(* "An operation-first crash may resume": wherever a review command was     *)
(* killed between two writes, and as long as nothing was imported around    *)
(* the review, no record it left refuses the command that goes on with it   *)
(* (_validate_review_root, _bound_judgment_roster).                         *)
THEOREM KilledReviewsResume == EvalSpec => []ReviewResumable
  <1>1. EvalInv => ReviewResumable
    BY FitsResumes DEF EvalInv, ReviewInv, ResumeInv, ReviewResumable, Review!ReviewResumable
  <1> QED
    BY <1>1, EvalInitially, EvalStep, PTL DEF EvalSpec

(* A verdict in a cohort's file is never written over, by the cohort's own  *)
(* late cancellation or by a matrix (_terminalize_interruption); a screen's *)
(* decision and the evidence it was taken on never change, and the manifest *)
(* binds that decision only (finalize_screen).                              *)
THEOREM FinalVerdictsStay == EvalSpec => FinalStaysFinal
  BY EvalInitially, EvalStep, PTL DEF EvalSpec, FinalStaysFinal

(* A clean grade of a conversation means that every message of the app      *)
(* server came in its place, and every wire in order is graded clean; a     *)
(* passing one means answers given after the commands they report, and a    *)
(* confirmed route one stated before the turn's first item and kept         *)
(* (_collect_turn, _TurnCollectionState).  A scenario that does not fail    *)
(* touched only what its prompt permits and said what its document says,    *)
(* and nothing that leaks is kept of it (grade_claims, grade_tool_policy,   *)
(* grade_privacy).                                                          *)
THEOREM GradesRestOnEvidence == EvalSpec => []GradesAreEarned
  <1>1. EvalInv => GradesAreEarned
    BY EvalAssumption, EarnedGrades, SoundGrades DEF EvalInv, EvalAssumption, GradesAreEarned
  <1> QED
    BY <1>1, EvalInitially, EvalStep, PTL DEF EvalSpec

=============================================================================
