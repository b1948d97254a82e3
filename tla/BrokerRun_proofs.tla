--------------------------- MODULE BrokerRun_proofs ---------------------------
(***************************************************************************)
(* What the broker's commands may never do to one ledger, for any number   *)
(* of broker processes and operations.                                     *)
(*                                                                         *)
(* The first part is ContentExecution's: no install or verify runs a       *)
(* second steamcmd, retires the row that accounts for one, or forgets that *)
(* it took the owner's client down.  It begins with how a step moves a     *)
(* process and its row, which serves every command.  The second part is    *)
(* BrokerRun's: a request that may have left is never sent again and never *)
(* forgotten, over executions that crash anywhere, recoveries, refusals    *)
(* outside the lock and the owner's edits.                                 *)
(***************************************************************************)
EXTENDS BrokerRun, TLAPS

(***************************************************************************)
(* ContentExecution.                                                       *)
(***************************************************************************)
OpTyped == op \in [Ids -> [state: States \cup {"none"}, kind: Kinds \cup {"none"},
                           open: BOOLEAN, prior: BOOLEAN]]
PlacesTyped == DOMAIN pc = Procs /\ pc = [p \in Procs |-> pc[p]]
LocalsTyped == my \in [Procs -> [id: 0 .. MaxOps, to: States \cup {"none"},
                                 resuming: BOOLEAN, prior: BOOLEAN]]

HostTyped == OpTyped /\ PlacesTyped /\ LocalsTyped

\* Where a launch or a stop stands when its next step may send the request.
Sending == {"l_send", "s_ask"}

-----------------------------------------------------------------------------
\* What a step may do to the rows: nothing, a step of the table, or the
\* authorization of a new one.
RowMoves(i) ==
    \/ op'[i].state = op[i].state
    \/ op[i].state = "none" /\ op'[i].state = "authorized"
    \/ op[i].state \in States /\ op'[i].state \in Transitions[op[i].state]

OpMoves == OpTyped' /\ \A i \in Ids : RowMoves(i)

LEMMA TransitionsType == Transitions \in [States -> SUBSET States]
  BY DEF Transitions, States, LiveStates, TerminalStates

LEMMA SameMoves == OpTyped /\ op' = op => OpMoves
  BY DEF OpTyped, OpMoves, RowMoves

LEMMA SetStateMoves ==
    ASSUME OpTyped, NEW i \in Ids, NEW to, Allowed(i, to), SetState(i, to)
    PROVE  OpMoves
  <1>1. op[i].state \in States /\ to \in Transitions[op[i].state] /\ to \in States
    BY TransitionsType DEF Allowed
  <1>2. op' = [op EXCEPT ![i] = [op[i] EXCEPT !.state = to]]
    BY DEF SetState, OpTyped
  <1>3. [op[i] EXCEPT !.state = to] \in [state: States \cup {"none"}, kind: Kinds \cup {"none"},
                                        open: BOOLEAN, prior: BOOLEAN]
    BY <1>1 DEF OpTyped
  <1>4. OpTyped' /\ \A j \in Ids \ {i} : op'[j] = op[j]
    BY <1>2, <1>3 DEF OpTyped
  <1>5. op'[i].state = to
    BY <1>2 DEF OpTyped
  <1> QED
    BY <1>1, <1>4, <1>5 DEF OpMoves, RowMoves

LEMMA SweepMoves ==
    ASSUME OpTyped, Sweep
    PROVE  OpMoves
  <1> SUFFICES ASSUME NEW i \in Ids
               PROVE  /\ op'[i] \in [state: States \cup {"none"}, kind: Kinds \cup {"none"},
                                     open: BOOLEAN, prior: BOOLEAN]
                      /\ RowMoves(i)
    BY DEF OpMoves, OpTyped, Sweep
  <1>1. "authorized" \in States /\ "expired" \in Transitions["authorized"] /\ "expired" \in States
    BY DEF Transitions, States, LiveStates, TerminalStates
  <1>2. CASE op[i].state = "authorized" /\ ~op[i].open
    <2>1. op'[i] = [op[i] EXCEPT !.state = "expired"]
      BY <1>2 DEF Sweep
    <2> QED
      BY <1>1, <1>2, <2>1 DEF OpTyped, RowMoves
  <1>3. CASE ~(op[i].state = "authorized" /\ ~op[i].open)
    <2>1. op'[i] = op[i]
      BY <1>3 DEF Sweep
    <2> QED
      BY <2>1 DEF OpTyped, RowMoves
  <1> QED
    BY <1>2, <1>3

-----------------------------------------------------------------------------
\* How one process goes on: inside its command, out of it, or into one.
Stays(p) == pc[p] # "idle" /\ pc'[p] # "idle" /\ lock' = lock /\ my'[p].id = my[p].id
Leaves(p) == pc'[p] = "idle" /\ lock' = IF lock = p THEN NoProc ELSE lock
Enters(p) == pc[p] = "idle" /\ lock = NoProc /\ lock' = p /\ my'[p].id \in Ids
Waits(p) == pc'[p] = pc[p] /\ my'[p] = my[p] /\ lock' = lock

Mine(p) ==
    /\ pc' = [pc EXCEPT ![p] = pc'[p]]
    /\ my' = [my EXCEPT ![p] = my'[p]]
    /\ my'[p] \in [id: 0 .. MaxOps, to: States \cup {"none"}, resuming: BOOLEAN, prior: BOOLEAN]

\* It goes on to a place from which nothing is sent next.
Walks(p) ==
    /\ Mine(p)
    /\ Stays(p) \/ Leaves(p) \/ Enters(p) \/ (Waits(p) /\ pc[p] = "idle")
    /\ pc'[p] \notin Sending

LEMMA NothingIsLocal ==
    Nothing \in [id: 0 .. MaxOps, to: States \cup {"none"}, resuming: BOOLEAN, prior: BOOLEAN]
  BY HostAssumption DEF Nothing

LEMMA GoWalks ==
    ASSUME HostTyped, NEW p \in Procs, pc[p] # "idle", NEW l, l \notin Sending, l # "idle", Go(p, l)
    PROVE  Walks(p)
  BY DEF Walks, Mine, Stays, Go, HostTyped, PlacesTyped, LocalsTyped

LEMMA LeaveWalks ==
    ASSUME HostTyped, NEW p \in Procs, Leave(p)
    PROVE  Walks(p)
  <1>1. "idle" \notin Sending
    BY DEF Sending
  <1> QED
    BY <1>1, NothingIsLocal DEF Walks, Mine, Leaves, Leave, HostTyped, PlacesTyped, LocalsTyped

LEMMA EnterWalks ==
    ASSUME HostTyped, NEW p \in Procs, NEW l, l \notin Sending, NEW m, Enter(p, l, m),
           m \in [id: 0 .. MaxOps, to: States \cup {"none"}, resuming: BOOLEAN, prior: BOOLEAN],
           m.id \in Ids
    PROVE  Walks(p)
  BY DEF Walks, Mine, Enters, Enter, HostTyped, PlacesTyped, LocalsTyped

\* A command that only changes what it remembers, and goes on.
LEMMA RemembersWalks ==
    ASSUME HostTyped, NEW p \in Procs, pc[p] # "idle", NEW l, l \notin Sending, l # "idle",
           pc' = [pc EXCEPT ![p] = l], lock' = lock, NEW m,
           m \in [id: 0 .. MaxOps, to: States \cup {"none"}, resuming: BOOLEAN, prior: BOOLEAN],
           m.id = my[p].id, my' = [my EXCEPT ![p] = m]
    PROVE  Walks(p)
  BY DEF Walks, Mine, Stays, HostTyped, PlacesTyped, LocalsTyped

LEMMA FailWalks ==
    ASSUME HostTyped, NEW p \in Procs, pc[p] # "idle", NEW to \in States, Fail(p, to)
    PROVE  Walks(p)
  <1> DEFINE m == [my[p] EXCEPT !.to = to]
  <1>1. /\ m \in [id: 0 .. MaxOps, to: States \cup {"none"}, resuming: BOOLEAN, prior: BOOLEAN]
        /\ m.id = my[p].id
    BY DEF HostTyped, LocalsTyped
  <1>2. /\ pc' = [pc EXCEPT ![p] = "fail"] /\ lock' = lock
        /\ my' = [my EXCEPT ![p] = m]
    BY DEF Fail, HostTyped, LocalsTyped
  <1>3. "fail" \notin Sending /\ "fail" # "idle"
    BY DEF Sending
  <1> HIDE DEF m
  <1> QED
    BY <1>1, <1>2, <1>3, RemembersWalks

-----------------------------------------------------------------------------
LEMMA KnownStates == {"aborted", "failed", "authorized"} \subseteq States
  BY DEF States, LiveStates, TerminalStates

LEMMA AdvanceSteps ==
    ASSUME HostTyped, NEW p \in Procs, pc[p] # "idle", my[p].id \in Ids, NEW to, NEW l,
           l \notin Sending, l # "idle", Advance(p, to, l)
    PROVE  Walks(p) /\ OpMoves
  <1>1. CASE Allowed(my[p].id, to) /\ SetState(my[p].id, to) /\ Go(p, l)
    BY <1>1, GoWalks, SetStateMoves DEF HostTyped
  <1>2. CASE Leave(p) /\ UNCHANGED op
    BY <1>2, LeaveWalks, SameMoves DEF HostTyped
  <1> QED
    BY <1>1, <1>2 DEF Advance

\* The steps of a content command that leave the rows alone.
LEMMA QuietContinue ==
    ASSUME HostTyped, NEW p \in Procs, pc[p] # "idle",
           \/ DeferIntake(p) \/ RefuseIntake(p) \/ StopClient(p)
           \/ StopForResume(p) \/ RegressAfterStop(p) \/ MarkTarget(p) \/ SpawnSteamcmd(p)
           \/ SteamcmdEnds(p) \/ KillSteamcmd(p) \/ CheckInstalled(p) \/ ReassertStopped(p)
           \/ WriteJournal(p) \/ SwapManifest(p) \/ RepairAdoption(p) \/ ClearJournal(p)
           \/ RestartClient(p) \/ RestoreForFailure(p) \/ Release(p) \/ StopForRepair(p)
           \/ RecheckForRepair(p)
    PROVE  Walks(p) /\ OpMoves
  <1>1. op' = op
    BY DEF DeferIntake, RefuseIntake, StopClient, StopForResume, RegressAfterStop, MarkTarget,
           SpawnSteamcmd, SteamcmdEnds, KillSteamcmd, CheckInstalled, ReassertStopped,
           WriteJournal, SwapManifest, RepairAdoption, ClearJournal, RestartClient,
           RestoreForFailure, Release, StopForRepair, RecheckForRepair, Locally
  <1>2. \/ Leave(p)
        \/ Fail(p, "aborted") \/ Fail(p, "failed")
        \/ \E l \in {"stopped", "release", "spawn", "installing", "installed", "reassert",
                     "commit", "swap", "repair", "swapped", "restart", "verify", "terminal",
                     "repair_recheck"} : Go(p, l)
    <2>1. CASE \/ DeferIntake(p) \/ RefuseIntake(p) \/ RegressAfterStop(p) \/ KillSteamcmd(p)
               \/ Release(p)
      BY <2>1 DEF DeferIntake, RefuseIntake, RegressAfterStop, KillSteamcmd, Release
    <2>2. CASE StopClient(p) \/ StopForResume(p) \/ MarkTarget(p) \/ SpawnSteamcmd(p)
      BY <2>2 DEF StopClient, StopForResume, MarkTarget, SpawnSteamcmd
    <2>3. CASE SteamcmdEnds(p) \/ CheckInstalled(p) \/ ReassertStopped(p)
      BY <2>3 DEF SteamcmdEnds, CheckInstalled, ReassertStopped
    <2>4. CASE WriteJournal(p) \/ SwapManifest(p) \/ RepairAdoption(p) \/ ClearJournal(p)
      BY <2>4 DEF WriteJournal, SwapManifest, RepairAdoption, ClearJournal
    <2>5. CASE RestartClient(p) \/ RestoreForFailure(p) \/ StopForRepair(p) \/ RecheckForRepair(p)
      BY <2>5 DEF RestartClient, RestoreForFailure, StopForRepair, RecheckForRepair
    <2> QED
      BY <2>1, <2>2, <2>3, <2>4, <2>5
  <1>3. \A l \in {"stopped", "release", "spawn", "installing", "installed", "reassert",
                  "commit", "swap", "repair", "swapped", "restart", "verify", "terminal",
                  "repair_recheck"} : l \notin Sending /\ l # "idle"
    BY DEF Sending
  <1>4. Walks(p)
    BY <1>2, <1>3, GoWalks, LeaveWalks, FailWalks, KnownStates
  <1> QED
    BY <1>1, <1>4, SameMoves DEF HostTyped

\* The steps of a content command that write to the ledger.
LEMMA RowContinue ==
    ASSUME HostTyped, NEW p \in Procs, pc[p] # "idle", my[p].id \in Ids,
           \/ CheckWindow(p) \/ PassIntake(p) \/ Decide(p) \/ Leased(p) \/ CommitContent(p)
           \/ CommitAdoption(p) \/ RecordSwap(p) \/ StartVerifying(p) \/ Verdict(p) \/ Terminalize(p)
    PROVE  Walks(p) /\ OpMoves
  <1>0. OpTyped /\ my[p] \in [id: 0 .. MaxOps, to: States \cup {"none"}, resuming: BOOLEAN, prior: BOOLEAN]
    BY DEF HostTyped, LocalsTyped
  <1>1. CASE CheckWindow(p)
    <2>1. (op' = op \/ Sweep) /\ (Go(p, "intake") \/ Fail(p, "failed") \/ Leave(p))
      BY <1>1 DEF CheckWindow
    <2>2. "intake" \notin Sending /\ "intake" # "idle"
      BY DEF Sending
    <2> QED
      BY <1>0, <2>1, <2>2, GoWalks, FailWalks, LeaveWalks, KnownStates, SameMoves, SweepMoves
  <1>2. CASE PassIntake(p)
    <2> DEFINE b == IF my[p].resuming THEN my[p].prior ELSE client = "up"
               m == [my[p] EXCEPT !.prior = b]
    <2>1. b \in BOOLEAN
      BY <1>0
    <2>2. /\ pc' = [pc EXCEPT ![p] = "decide"] /\ lock' = lock /\ op' = op
          /\ my' = [my EXCEPT ![p].prior = b]
      BY <1>2 DEF PassIntake, Locally
    <2> HIDE DEF b
    <2>3. /\ my' = [my EXCEPT ![p] = m] /\ m.id = my[p].id
          /\ m \in [id: 0 .. MaxOps, to: States \cup {"none"}, resuming: BOOLEAN, prior: BOOLEAN]
      BY <1>0, <2>1, <2>2 DEF HostTyped, LocalsTyped
    <2>4. "decide" \notin Sending /\ "decide" # "idle"
      BY DEF Sending
    <2> HIDE DEF m
    <2> QED
      BY <1>0, <2>2, <2>3, <2>4, RemembersWalks, SameMoves
  <1>3. CASE Decide(p)
    <2>0. \A l \in {"release", "resume_stop", "leased"} : l \notin Sending /\ l # "idle"
      BY DEF Sending
    <2>1. CASE ~Permitted
      <3> DEFINE m == [my[p] EXCEPT !.prior = Row(p).prior]
      <3>1. /\ pc' = [pc EXCEPT ![p] = "release"] /\ lock' = lock /\ op' = op
            /\ my' = [my EXCEPT ![p].prior = Row(p).prior]
        BY <1>3, <2>1 DEF Decide
      <3>2. Row(p).prior \in BOOLEAN
        BY <1>0 DEF Row, OpTyped
      <3>3. /\ my' = [my EXCEPT ![p] = m] /\ m.id = my[p].id
            /\ m \in [id: 0 .. MaxOps, to: States \cup {"none"}, resuming: BOOLEAN, prior: BOOLEAN]
        BY <1>0, <3>1, <3>2 DEF HostTyped, LocalsTyped
      <3> HIDE DEF m
      <3> QED
        BY <1>0, <2>0, <3>1, <3>3, RemembersWalks, SameMoves
    <2>2. CASE Go(p, "resume_stop") /\ op' = op
      BY <1>0, <2>0, <2>2, GoWalks, SameMoves
    <2>3. CASE Leave(p) /\ op' = op
      BY <1>0, <2>3, LeaveWalks, SameMoves
    <2>4. CASE /\ Allowed(my[p].id, "lease_acquired") /\ Go(p, "leased")
               /\ op' = [op EXCEPT ![my[p].id].state = "lease_acquired",
                                   ![my[p].id].prior = my[p].prior]
      <3>1. PICK i \in Ids : i = my[p].id
        OBVIOUS
      <3>2. /\ op[i].state \in States /\ "lease_acquired" \in Transitions[op[i].state]
            /\ "lease_acquired" \in States
        BY <2>4, <3>1, TransitionsType DEF Allowed
      <3>3. /\ op' = [op EXCEPT ![i] = op'[i]]
            /\ op'[i] = [op[i] EXCEPT !.state = "lease_acquired", !.prior = my[p].prior]
        BY <1>0, <2>4, <3>1 DEF OpTyped
      <3>4. /\ op'[i] \in [state: States \cup {"none"}, kind: Kinds \cup {"none"},
                           open: BOOLEAN, prior: BOOLEAN]
            /\ op'[i].state = "lease_acquired"
        <4>0. PICK row : row = op[i]
          OBVIOUS
        <4>1. PICK b \in BOOLEAN : b = my[p].prior
          BY <1>0
        <4>2. row \in [state: States \cup {"none"}, kind: Kinds \cup {"none"},
                       open: BOOLEAN, prior: BOOLEAN]
          BY <1>0, <4>0 DEF OpTyped
        <4>3. op'[i] = [row EXCEPT !.state = "lease_acquired", !.prior = b]
          BY <3>3, <4>0, <4>1
        <4> QED
          BY <3>2, <4>2, <4>3
      <3>5. OpTyped' /\ \A j \in Ids \ {i} : op'[j] = op[j]
        BY <1>0, <3>3, <3>4 DEF OpTyped
      <3>6. OpMoves
        BY <3>2, <3>4, <3>5 DEF OpMoves, RowMoves
      <3> QED
        BY <2>0, <2>4, <3>6, GoWalks
    <2> QED
      BY <1>3, <2>1, <2>2, <2>3, <2>4 DEF Decide
  <1>4. CASE Leased(p) \/ CommitContent(p) \/ RecordSwap(p)
    <2>1. \E to, l : l \in {"stop", "mark", "clear"} /\ Advance(p, to, l)
      BY <1>4 DEF Leased, CommitContent, RecordSwap
    <2> QED
      BY <2>1, AdvanceSteps DEF Sending
  <1>5. CASE CommitAdoption(p)
    <2>1. Advance(p, "adopting", "journal") \/ (Fail(p, "failed") /\ op' = op)
      BY <1>5 DEF CommitAdoption
    <2>2. "journal" \notin Sending /\ "journal" # "idle"
      BY DEF Sending
    <2> QED
      BY <1>0, <2>1, <2>2, AdvanceSteps, FailWalks, SameMoves, KnownStates
  <1>6. CASE StartVerifying(p)
    <2>1. Advance(p, "verifying", "verdict") \/ (Go(p, "verdict") /\ op' = op)
      BY <1>6 DEF StartVerifying
    <2>2. "verdict" \notin Sending /\ "verdict" # "idle"
      BY DEF Sending
    <2> QED
      BY <1>0, <2>1, <2>2, AdvanceSteps, GoWalks, SameMoves
  <1>7. CASE Verdict(p) \/ Terminalize(p)
    <2>1. Leave(p) /\ \E to : IF Allowed(my[p].id, to) THEN SetState(my[p].id, to) ELSE UNCHANGED op
      BY <1>7 DEF Verdict, Terminalize
    <2>2. PICK to : IF Allowed(my[p].id, to) THEN SetState(my[p].id, to) ELSE UNCHANGED op
      BY <2>1
    <2>3. OpMoves
      BY <1>0, <2>2, SetStateMoves, SameMoves
    <2> QED
      BY <2>1, <2>3, LeaveWalks
  <1> QED
    BY <1>1, <1>2, <1>3, <1>4, <1>5, <1>6, <1>7

\* A command that begins, or a recovery that takes a row over.
LEMMA ContentBegins ==
    ASSUME HostTyped, NEW p \in Procs, BeginContent(p) \/ Reconcile(p)
    PROVE  Walks(p) /\ OpMoves
  <1>0. \A i \in Ids : op[i].prior \in BOOLEAN
    BY DEF HostTyped, OpTyped
  <1>1. \A l \in {"window", "release", "fail", "repair_stop", "clear"} : l \notin Sending
    BY DEF Sending
  <1>2. ASSUME NEW i \in Ids
        PROVE  i \in 0 .. MaxOps
    BY HostAssumption DEF Ids
  <1>a. ASSUME NEW i \in Ids, NEW b \in BOOLEAN
        PROVE  /\ [Nothing EXCEPT !.id = i, !.prior = op[i].prior, !.resuming = b] \in
                    [id: 0 .. MaxOps, to: States \cup {"none"}, resuming: BOOLEAN, prior: BOOLEAN]
               /\ [Nothing EXCEPT !.id = i, !.prior = op[i].prior, !.resuming = b].id = i
    BY <1>0, <1>2, NothingIsLocal DEF Nothing
  <1>b. ASSUME NEW i \in Ids
        PROVE  /\ Recovered(i) \in [id: 0 .. MaxOps, to: States \cup {"none"}, resuming: BOOLEAN, prior: BOOLEAN]
               /\ Recovered(i).id = i
    BY <1>0, <1>2, NothingIsLocal DEF Recovered, Nothing
  <1>c. ASSUME NEW i \in Ids, NEW to \in States
        PROVE  /\ RecoverTo(i, to) \in
                    [id: 0 .. MaxOps, to: States \cup {"none"}, resuming: BOOLEAN, prior: BOOLEAN]
               /\ RecoverTo(i, to).id = i
    <2>1. PICK m : m = Recovered(i)
      OBVIOUS
    <2>2. m \in [id: 0 .. MaxOps, to: States \cup {"none"}, resuming: BOOLEAN, prior: BOOLEAN] /\ m.id = i
      BY <1>b, <2>1
    <2>3. RecoverTo(i, to) = [m EXCEPT !.to = to]
      BY <2>1 DEF RecoverTo
    <2> QED
      BY <2>2, <2>3
  <1>3. CASE BeginContent(p)
    <2>1. PICK i \in Ids, b \in BOOLEAN :
            LET m == [Nothing EXCEPT !.id = i, !.prior = op[i].prior, !.resuming = b]
            IN Enter(p, "window", m) \/ Enter(p, "release", m)
      BY <1>3 DEF BeginContent
    <2>2. op' = op
      BY <1>3 DEF BeginContent, Locally
    <2> DEFINE m == [Nothing EXCEPT !.id = i, !.prior = op[i].prior, !.resuming = b]
    <2>3. /\ m \in [id: 0 .. MaxOps, to: States \cup {"none"}, resuming: BOOLEAN, prior: BOOLEAN]
          /\ m.id = i
      BY <1>a
    <2>4. Enter(p, "window", m) \/ Enter(p, "release", m)
      BY <2>1
    <2> HIDE DEF m
    <2> QED
      BY <1>1, <2>2, <2>3, <2>4, EnterWalks, SameMoves DEF HostTyped
  <1>4. CASE RecoverContent(p)
    <2>1. PICK i \in Ids :
            \/ pc[p] = "idle" /\ SetState(i, "interrupted") /\ UNCHANGED <<lock, pc, my>>
               /\ op[i].state = "content_running"
            \/ Enter(p, "fail", RecoverTo(i, "failed")) /\ UNCHANGED op
      BY <1>4 DEF RecoverContent
    <2>2. CASE Enter(p, "fail", RecoverTo(i, "failed")) /\ UNCHANGED op
      BY <1>1, <1>c, <2>2, KnownStates, EnterWalks, SameMoves DEF HostTyped
    <2>3. CASE /\ pc[p] = "idle" /\ SetState(i, "interrupted") /\ UNCHANGED <<lock, pc, my>>
               /\ op[i].state = "content_running"
      <3>1. Allowed(i, "interrupted")
        BY <2>3 DEF Allowed, Transitions, States, LiveStates
      <3>2. Walks(p)
        BY <2>3 DEF Walks, Mine, Waits, Sending, HostTyped, PlacesTyped, LocalsTyped
      <3> QED
        BY <2>3, <3>1, <3>2, SetStateMoves DEF HostTyped
    <2> QED
      BY <2>1, <2>2, <2>3
  <1>5. CASE RecoverLease(p) \/ RecoverInterrupted(p) \/ RecoverAdopting(p) \/ RecoverRestart(p)
    <2>1. op' = op
      BY <1>5 DEF RecoverLease, RecoverInterrupted, RecoverAdopting, RecoverRestart, Locally
    <2>2. PICK i \in Ids, l \in {"fail", "repair_stop", "clear"}, to \in States :
            Enter(p, l, RecoverTo(i, to)) \/ Enter(p, l, Recovered(i))
      BY <1>5, KnownStates DEF RecoverLease, RecoverInterrupted, RecoverAdopting, RecoverRestart
    <2> QED
      BY <1>1, <1>b, <1>c, <2>1, <2>2, EnterWalks, SameMoves DEF HostTyped
  <1> QED
    BY <1>3, <1>4, <1>5 DEF Reconcile

-----------------------------------------------------------------------------
\* Places where no steamcmd is alive, and places where the row says that one
\* may be.
Clear == {"decide", "leased", "stop", "resume_stop", "stopped", "mark", "spawn", "installed",
          "reassert", "commit", "terminal"}
Running == {"mark", "spawn", "installing", "installed", "reassert", "commit"}

Holding(p) ==
    pc[p] # "idle" => lock = p /\ my[p].id \in Ids /\ op[my[p].id].state # "none"

WritersKnown(p) ==
    /\ pc[p] \in Clear => writers = 0
    /\ pc[p] = "installing" => writers = 1

RowExpected(p) ==
    /\ pc[p] \in Running => op[my[p].id].state = "content_running"
    /\ pc[p] = "stop" => op[my[p].id].state = "client_stopping"
    /\ pc[p] = "repair_stop" => op[my[p].id].state = "adopting"
    /\ pc[p] = "resume_stop" => op[my[p].id].state = "interrupted"
    /\ pc[p] \in {"window", "intake", "decide"} /\ my[p].resuming =>
           op[my[p].id].state = "interrupted"

\* A command remembers what the row does of the client it found; before it
\* ends the row, or judges it, that client is back.
PriorKnown(p) ==
    /\ pc[p] \notin {"idle", "decide"} => (my[p].prior <=> op[my[p].id].prior)
    /\ pc[p] = "decide" /\ my[p].resuming => (my[p].prior <=> op[my[p].id].prior)
    /\ pc[p] \in {"terminal", "verify", "verdict"} /\ my[p].prior => ~owed

Standing(p) == Holding(p) /\ WritersKnown(p) /\ RowExpected(p) /\ PriorKnown(p)

Accounted == writers \in Nat /\ SingleWriter /\ WriterHasRow

\* Nothing is remembered of the client before the lease.
Unleased ==
    \A i \in Ids :
        op[i].state \in {"none", "pending_confirmation", "authorized"} => ~op[i].prior

ContentInv ==
    /\ HostTyped
    /\ \A p \in Procs : Standing(p)
    /\ Accounted
    /\ StoppedClientHasRow
    /\ Unleased

LEMMA StepKeeps ==
    ASSUME ContentInv, NEW p \in Procs, Walks(p), OpMoves, pc[p] # "idle" \/ lock = NoProc,
           Standing(p)', Accounted', StoppedClientHasRow', Unleased'
    PROVE  ContentInv'
  <1>1. HostTyped'
    BY DEF HostTyped, ContentInv, OpMoves, Walks, Mine, PlacesTyped, LocalsTyped
  <1>2. ASSUME NEW q \in Procs, q # p
        PROVE  Standing(q)'
    <2>1. pc[q] = "idle"
      BY <1>2, HostAssumption DEF ContentInv, Standing, Holding
    <2>2. pc'[q] = "idle"
      BY <1>2, <2>1 DEF Walks, Mine, ContentInv, HostTyped, PlacesTyped
    <2> QED
      BY <2>2 DEF Standing, Holding, WritersKnown, RowExpected, PriorKnown, Clear, Running
  <1> QED
    BY <1>1, <1>2 DEF ContentInv

\* What a command that leaves must still see to: the rows and the writers.
LEMMA LeavingStands ==
    ASSUME NEW p \in Procs, pc'[p] = "idle"
    PROVE  Standing(p)'
  BY DEF Standing, Holding, WritersKnown, RowExpected, PriorKnown, Clear, Running

LEMMA FailingStands ==
    ASSUME ContentInv, NEW p \in Procs, NEW to \in States, pc[p] \notin {"idle", "decide"},
           Fail(p, to), op' = op
    PROVE  Standing(p)'
  <1>1. /\ pc'[p] = "fail" /\ lock' = lock
        /\ my'[p].id = my[p].id /\ my'[p].prior = my[p].prior
    BY DEF Fail, ContentInv, HostTyped, PlacesTyped, LocalsTyped
  <1>2. Holding(p) /\ (my[p].prior <=> op[my[p].id].prior)
    BY DEF ContentInv, Standing, PriorKnown
  <1>3. Holding(p)' /\ WritersKnown(p)' /\ RowExpected(p)'
    BY <1>1, <1>2 DEF Holding, WritersKnown, RowExpected, Clear, Running
  <1>4. PriorKnown(p)'
    BY <1>1, <1>2 DEF PriorKnown
  <1> QED
    BY <1>3, <1>4 DEF Standing

\* The command goes on to l, which nothing but the row, the writers and the
\* client's return is asked about.
LEMMA GoingStands ==
    ASSUME ContentInv, NEW p \in Procs, pc[p] \notin {"idle", "decide"}, NEW l, l # "idle",
           Go(p, l), op' = op,
           l \in Clear => writers' = 0,
           l = "installing" => writers' = 1,
           l \in Running => op[my[p].id].state = "content_running",
           l \notin {"stop", "repair_stop", "resume_stop", "window", "intake", "decide"},
           l \in {"terminal", "verify", "verdict"} /\ my[p].prior => ~owed'
    PROVE  Standing(p)'
  <1>1. pc'[p] = l /\ lock' = lock /\ my' = my
    BY DEF Go, ContentInv, HostTyped, PlacesTyped
  <1>2. Holding(p) /\ (my[p].prior <=> op[my[p].id].prior)
    BY DEF ContentInv, Standing, PriorKnown
  <1>3. Holding(p)' /\ WritersKnown(p)' /\ RowExpected(p)'
    BY <1>1, <1>2 DEF Holding, WritersKnown, RowExpected, Clear, Running
  <1>4. PriorKnown(p)'
    BY <1>1, <1>2 DEF PriorKnown
  <1> QED
    BY <1>3, <1>4 DEF Standing

\* The client while the rows stay: taken down only for a row that says so.
LEMMA ClientKeeps ==
    ASSUME ContentInv, op' = op, NEW p \in Procs,
           \/ SameClient
           \/ GoUp
           \/ GoDown(p) /\ my[p].id \in Ids /\ Live(my[p].id)
              /\ (my[p].prior => op[my[p].id].prior)
    PROVE  StoppedClientHasRow' /\ Unleased'
  <1>1. Unleased'
    BY DEF ContentInv, Unleased
  <1>2. owed' => owed \/ (my[p].prior /\ my[p].id \in Ids /\ Live(my[p].id) /\ op[my[p].id].prior)
    BY DEF SameClient, GoUp, GoDown
  <1>3. StoppedClientHasRow'
    BY <1>2 DEF ContentInv, StoppedClientHasRow, Live
  <1> QED
    BY <1>1, <1>3

LEMMA WritersKeep ==
    ASSUME ContentInv, op' = op, writers' \in Nat, writers' <= writers
    PROVE  Accounted'
  BY DEF ContentInv, Accounted, SingleWriter, WriterHasRow

\* The steps that leave the rows alone.
LEMMA QuietStands ==
    ASSUME ContentInv, NEW p \in Procs,
           \/ DeferIntake(p) \/ RefuseIntake(p) \/ StopClient(p)
           \/ StopForResume(p) \/ RegressAfterStop(p) \/ MarkTarget(p) \/ SpawnSteamcmd(p)
           \/ SteamcmdEnds(p) \/ KillSteamcmd(p) \/ CheckInstalled(p) \/ ReassertStopped(p)
           \/ WriteJournal(p) \/ SwapManifest(p) \/ RepairAdoption(p) \/ ClearJournal(p)
           \/ RestartClient(p) \/ RestoreForFailure(p) \/ Release(p) \/ StopForRepair(p)
           \/ RecheckForRepair(p)
    PROVE  Standing(p)' /\ Accounted' /\ StoppedClientHasRow' /\ Unleased'
  <1>0. /\ Holding(p) /\ WritersKnown(p) /\ RowExpected(p) /\ PriorKnown(p)
        /\ writers \in Nat
    BY DEF ContentInv, Standing, Accounted
  <1>l. /\ {"client_stopping", "adopting", "interrupted", "content_running"} \subseteq LiveStates
        /\ {"aborted", "failed"} \subseteq States
    BY DEF LiveStates, States, TerminalStates
  <1>1. CASE \/ DeferIntake(p) \/ RefuseIntake(p) \/ RegressAfterStop(p) \/ MarkTarget(p)
             \/ CheckInstalled(p) \/ WriteJournal(p) \/ SwapManifest(p) \/ RepairAdoption(p)
             \/ ClearJournal(p) \/ RecheckForRepair(p)
    <2>1. op' = op /\ SameClient /\ writers' = writers
      BY <1>1 DEF DeferIntake, RefuseIntake, RegressAfterStop, MarkTarget, CheckInstalled, WriteJournal,
             SwapManifest, RepairAdoption, ClearJournal, RecheckForRepair, Locally, KeepRest, SameClient
    <2>2. Accounted' /\ StoppedClientHasRow' /\ Unleased'
      BY <1>0, <2>1, WritersKeep, ClientKeeps
    <2>3. pc[p] \notin {"idle", "decide"}
      BY <1>1 DEF DeferIntake, RefuseIntake, RegressAfterStop, MarkTarget, CheckInstalled, WriteJournal,
             SwapManifest, RepairAdoption, ClearJournal, RecheckForRepair, At
    <2>4. Standing(p)'
      <3>1. \/ Leave(p) \/ Fail(p, "aborted") \/ Fail(p, "failed")
            \/ \E l \in {"swap", "repair", "swapped", "restart", "release"} : Go(p, l)
            \/ Go(p, "spawn") /\ pc[p] = "mark"
            \/ Go(p, "reassert") /\ pc[p] = "installed"
        <4>1. CASE DeferIntake(p) \/ RefuseIntake(p) \/ RegressAfterStop(p) \/ MarkTarget(p) \/ CheckInstalled(p)
          BY <4>1 DEF DeferIntake, RefuseIntake, RegressAfterStop, MarkTarget, CheckInstalled, At
        <4>2. CASE \/ WriteJournal(p) \/ SwapManifest(p) \/ RepairAdoption(p)
                   \/ ClearJournal(p) \/ RecheckForRepair(p)
          BY <4>2 DEF WriteJournal, SwapManifest, RepairAdoption, ClearJournal, RecheckForRepair
        <4> QED
          BY <1>1, <4>1, <4>2
      <3>2. CASE Leave(p)
        <4>1. pc'[p] = "idle"
          BY <3>2 DEF Leave, ContentInv, HostTyped, PlacesTyped
        <4> QED
          BY <4>1, LeavingStands
      <3>3. CASE Fail(p, "aborted") \/ Fail(p, "failed")
        BY <1>l, <2>1, <2>3, <3>3, FailingStands
      <3>4. ASSUME NEW l \in {"swap", "repair", "swapped", "restart", "release"}, Go(p, l)
            PROVE  Standing(p)'
        <4>1. l \notin Clear \cup Running \cup {"idle", "installing", "stop", "repair_stop", "resume_stop",
                 "window", "intake", "decide", "terminal", "verify", "verdict"}
          BY DEF Clear, Running
        <4> QED
          BY <2>1, <2>3, <3>4, <4>1, GoingStands
      <3>5. CASE Go(p, "spawn") /\ pc[p] = "mark"
        <4>1. writers = 0 /\ op[my[p].id].state = "content_running"
          BY <1>0, <3>5 DEF WritersKnown, RowExpected, Clear, Running
        <4> QED
          BY <2>1, <2>3, <3>5, <4>1, GoingStands
      <3>6. CASE Go(p, "reassert") /\ pc[p] = "installed"
        <4>1. writers = 0 /\ op[my[p].id].state = "content_running"
          BY <1>0, <3>6 DEF WritersKnown, RowExpected, Clear, Running
        <4> QED
          BY <2>1, <2>3, <3>6, <4>1, GoingStands
      <3> QED
        BY <3>1, <3>2, <3>3, <3>4, <3>5, <3>6
    <2> QED
      BY <2>2, <2>4
  <1>2. CASE SpawnSteamcmd(p) \/ SteamcmdEnds(p) \/ KillSteamcmd(p)
    <2>1. op' = op /\ SameClient
      BY <1>2 DEF SpawnSteamcmd, SteamcmdEnds, KillSteamcmd, SameClient
    <2>2. StoppedClientHasRow' /\ Unleased'
      BY <2>1, ClientKeeps
    <2>3. pc[p] \notin {"idle", "decide"} /\ op[my[p].id].state = "content_running" /\ my[p].id \in Ids
      BY <1>0, <1>2 DEF SpawnSteamcmd, SteamcmdEnds, KillSteamcmd, At, RowExpected, Running, Holding
    <2>4. CASE SpawnSteamcmd(p)
      <3>1. writers = 0
        BY <1>0, <2>4 DEF SpawnSteamcmd, At, WritersKnown, Clear
      <3>2. CASE writers' = writers + 1 /\ Go(p, "installing")
        <4>1. writers' = 1
          BY <3>1, <3>2
        <4>2. Accounted'
          BY <2>1, <2>3, <4>1 DEF Accounted, SingleWriter, WriterHasRow
        <4>3. "installing" \notin Clear
          BY DEF Clear
        <4> QED
          BY <2>1, <2>2, <2>3, <3>2, <4>1, <4>2, <4>3, GoingStands
      <3>3. CASE UNCHANGED writers /\ (Fail(p, "aborted") \/ Fail(p, "failed"))
        BY <1>0, <1>l, <2>1, <2>2, <2>3, <3>3, WritersKeep, FailingStands
      <3> QED
        BY <2>4, <3>2, <3>3 DEF SpawnSteamcmd
    <2>5. CASE SteamcmdEnds(p) \/ KillSteamcmd(p)
      <3>1. writers = 1
        BY <1>0, <2>5 DEF SteamcmdEnds, KillSteamcmd, At, WritersKnown
      <3>2. writers' \in Nat /\ writers' <= writers
        BY <2>5, <3>1 DEF SteamcmdEnds, KillSteamcmd
      <3>3. (Go(p, "installed") /\ writers' = 0) \/ Fail(p, "failed")
        BY <2>5, <3>1 DEF SteamcmdEnds, KillSteamcmd
      <3>4. Standing(p)'
        BY <1>l, <2>1, <2>3, <3>3, GoingStands, FailingStands
      <3> QED
        BY <2>1, <2>2, <3>2, <3>4, WritersKeep
    <2> QED
      BY <1>2, <2>4, <2>5
  <1>3. CASE StopClient(p) \/ StopForResume(p) \/ ReassertStopped(p) \/ StopForRepair(p)
    <2>1. op' = op /\ writers' = writers
      BY <1>3 DEF StopClient, StopForResume, ReassertStopped, StopForRepair, KeepRest
    <2>2. /\ pc[p] \in {"stop", "resume_stop", "reassert", "repair_stop"}
          /\ SameClient \/ GoDown(p)
      BY <1>3 DEF StopClient, StopForResume, ReassertStopped, StopForRepair, At, StopSucceeds, StopFails
    <2>3. my[p].id \in Ids /\ Live(my[p].id) /\ (my[p].prior <=> op[my[p].id].prior)
      BY <1>0, <1>l, <2>2 DEF Holding, RowExpected, PriorKnown, Live, Running
    <2>4. Accounted' /\ StoppedClientHasRow' /\ Unleased'
      BY <1>0, <2>1, <2>2, <2>3, WritersKeep, ClientKeeps
    <2>5. \/ Leave(p) \/ Fail(p, "aborted") \/ Fail(p, "failed")
          \/ Go(p, "stopped") /\ pc[p] \in {"stop", "resume_stop"}
          \/ \E l \in {"release", "repair", "repair_recheck"} : Go(p, l)
          \/ Go(p, "commit") /\ pc[p] = "reassert"
      BY <1>3 DEF StopClient, StopForResume, ReassertStopped, StopForRepair, At
    <2>6. CASE Leave(p)
      <3>1. pc'[p] = "idle"
        BY <2>6 DEF Leave, ContentInv, HostTyped, PlacesTyped
      <3> QED
        BY <2>4, <3>1, LeavingStands
    <2>7. CASE Fail(p, "aborted") \/ Fail(p, "failed")
      BY <1>l, <2>1, <2>2, <2>4, <2>7, FailingStands
    <2>8. CASE Go(p, "stopped") /\ pc[p] \in {"stop", "resume_stop"}
      <3>1. writers = 0 /\ "stopped" \notin Running
        BY <1>0, <2>8 DEF WritersKnown, Clear, Running
      <3> QED
        BY <2>1, <2>2, <2>4, <2>8, <3>1, GoingStands
    <2>9. ASSUME NEW l \in {"release", "repair", "repair_recheck"}, Go(p, l)
          PROVE  Standing(p)'
      <3>1. l \notin Clear \cup Running \cup {"idle", "installing", "stop", "repair_stop", "resume_stop",
               "window", "intake", "decide", "terminal", "verify", "verdict"}
        BY DEF Clear, Running
      <3> QED
        BY <2>1, <2>2, <2>9, <3>1, GoingStands
    <2>10. CASE Go(p, "commit") /\ pc[p] = "reassert"
      <3>1. writers = 0 /\ op[my[p].id].state = "content_running"
        BY <1>0, <2>10 DEF WritersKnown, RowExpected, Clear, Running
      <3> QED
        BY <2>1, <2>2, <2>4, <2>10, <3>1, GoingStands
    <2> QED
      BY <2>4, <2>5, <2>6, <2>7, <2>8, <2>9, <2>10
  <1>4. CASE RestartClient(p) \/ RestoreForFailure(p) \/ Release(p)
    <2>1. op' = op /\ writers' = writers /\ pc[p] \notin {"idle", "decide"}
      BY <1>4 DEF RestartClient, RestoreForFailure, Release, KeepRest, At
    <2>2. SameClient \/ GoUp
      BY <1>4 DEF RestartClient, RestoreForFailure, Release, RestoreSucceeds, RestoreFails, FinishRestored,
             StartSucceeds, StartFails
    <2>3. Accounted' /\ StoppedClientHasRow' /\ Unleased'
      BY <1>0, <2>1, <2>2, WritersKeep, ClientKeeps
    <2>4. \/ Leave(p)
          \/ \E l \in {"verify", "terminal"} : Go(p, l) /\ RestoreSucceeds(p)
      BY <1>4 DEF RestartClient, RestoreForFailure, Release, FinishRestored
    <2>5. CASE Leave(p)
      <3>1. pc'[p] = "idle"
        BY <2>5 DEF Leave, ContentInv, HostTyped, PlacesTyped
      <3> QED
        BY <2>3, <3>1, LeavingStands
    <2>6. ASSUME NEW l \in {"verify", "terminal"}, Go(p, l), RestoreSucceeds(p)
          PROVE  Standing(p)'
      <3>1. writers = 0 /\ (my[p].prior => ~owed')
        BY <2>6 DEF RestoreSucceeds, StartSucceeds, GoUp
      <3>2. l \notin Running /\ l \notin {"idle", "installing", "stop", "repair_stop", "resume_stop",
               "window", "intake", "decide"}
        BY DEF Running
      <3> QED
        BY <2>1, <2>6, <3>1, <3>2, GoingStands
    <2> QED
      BY <2>3, <2>4, <2>5, <2>6
  <1> QED
    BY <1>1, <1>2, <1>3, <1>4

-----------------------------------------------------------------------------
\* One row changes: it still remembers the client, or nothing is owed, and no
\* steamcmd is alive when it stops saying that one may be.
LEMMA LedgerKeeps ==
    ASSUME ContentInv, SameClient, writers' = writers, NEW i \in Ids,
           \A j \in Ids \ {i} : op'[j] = op[j],
           op'[i].state \in {"none", "pending_confirmation", "authorized"} => ~op'[i].prior,
           \/ op[i].prior => (Live(i)' /\ op'[i].prior)
           \/ op[i].prior => ~owed,
           op[i].state = "content_running" => writers = 0
    PROVE  Accounted' /\ StoppedClientHasRow' /\ Unleased'
  <1>1. Unleased'
    BY DEF ContentInv, Unleased
  <1>2. Accounted'
    BY DEF ContentInv, Accounted, SingleWriter, WriterHasRow
  <1>3. ASSUME NEW j \in Ids, Live(j), op[j].prior, owed'
        PROVE  \E k \in Ids : Live(k)' /\ op'[k].prior
    <2>1. owed
      BY <1>3 DEF SameClient
    <2>2. CASE j = i
      BY <1>3, <2>1, <2>2
    <2>3. CASE j # i
      BY <1>3, <2>3 DEF Live
    <2> QED
      BY <2>2, <2>3
  <1>4. StoppedClientHasRow'
    BY <1>3 DEF ContentInv, StoppedClientHasRow, SameClient
  <1> QED
    BY <1>1, <1>2, <1>4

LEMMA SweepKeeps ==
    ASSUME ContentInv, Sweep, SameClient, writers' = writers
    PROVE  /\ Accounted' /\ StoppedClientHasRow' /\ Unleased'
           /\ \A i \in Ids : op[i].state # "authorized" => op'[i] = op[i]
           /\ \A i \in Ids : op'[i].prior = op[i].prior
           /\ \A i \in Ids : op[i].state # "none" => op'[i].state # "none"
  <1>1. \A i \in Ids : op[i].state # "authorized" => op'[i] = op[i]
    BY DEF Sweep
  <1>2. ASSUME NEW i \in Ids
        PROVE  op'[i].prior = op[i].prior /\ op'[i].state \in {op[i].state, "expired"}
               /\ (op[i].state # "none" => op'[i].state # "none")
    BY DEF Sweep, ContentInv, HostTyped, OpTyped
  <1>3. Unleased'
    <2> SUFFICES ASSUME NEW i \in Ids,
                        op'[i].state \in {"none", "pending_confirmation", "authorized"}
                 PROVE  ~op'[i].prior
      BY DEF Unleased
    <2> QED
      BY <1>2 DEF ContentInv, Unleased
  <1>4. Accounted'
    BY <1>1 DEF ContentInv, Accounted, SingleWriter, WriterHasRow
  <1>5. StoppedClientHasRow'
    <2> SUFFICES ASSUME owed'
                 PROVE  \E i \in Ids : Live(i)' /\ op'[i].prior
      BY DEF StoppedClientHasRow
    <2>1. PICK i \in Ids : Live(i) /\ op[i].prior
      BY DEF ContentInv, StoppedClientHasRow, SameClient
    <2>2. op[i].state # "authorized"
      BY <2>1 DEF ContentInv, Unleased
    <2> QED
      BY <1>1, <2>1, <2>2 DEF Live
  <1> QED
    BY <1>1, <1>2, <1>3, <1>4, <1>5

LEMMA TransitionFacts ==
    ASSUME NEW i \in Ids, NEW to, Allowed(i, to)
    PROVE  /\ to \notin {"none", "pending_confirmation"}
           /\ to = "authorized" => op[i].state = "pending_confirmation"
           /\ to = "lease_acquired" => op[i].state = "authorized"
           /\ op[i].state = "content_running" =>
                 to \in {"adopting", "failed", "interrupted", "aborted"}
           /\ op[i].state # "none"
  BY DEF Allowed, Transitions, States, LiveStates, TerminalStates

\* The row takes one step of the table and the command goes on.
LEMMA AdvancingStands ==
    ASSUME ContentInv, NEW p \in Procs, pc[p] \notin {"idle", "decide"}, NEW to, NEW l,
           l \in {"stop", "mark", "journal", "clear", "verdict"},
           to \in LiveStates \ {"pending_confirmation", "authorized"},
           Advance(p, to, l), SameClient, writers' = writers,
           l \in {"stop", "mark"} => writers = 0,
           l = "stop" => to = "client_stopping",
           l = "mark" => to = "content_running",
           l = "verdict" => pc[p] = "verify",
           to \in {"adopting", "failed", "interrupted", "aborted"} => writers = 0
    PROVE  Standing(p)' /\ Accounted' /\ StoppedClientHasRow' /\ Unleased'
  <1>0. /\ Holding(p) /\ PriorKnown(p) /\ my[p].id \in Ids
        /\ (my[p].prior <=> op[my[p].id].prior) /\ writers \in Nat
    BY DEF ContentInv, Standing, Holding, PriorKnown, Accounted
  <1>1. CASE Leave(p) /\ UNCHANGED op
    <2>1. pc'[p] = "idle"
      BY <1>1 DEF Leave, ContentInv, HostTyped, PlacesTyped
    <2> QED
      BY <1>0, <1>1, <2>1, LeavingStands, WritersKeep, ClientKeeps
  <1>2. CASE Allowed(my[p].id, to) /\ SetState(my[p].id, to) /\ Go(p, l)
    <2>0. PICK i \in Ids : i = my[p].id
      BY <1>0
    <2>1. pc'[p] = l /\ lock' = lock /\ my' = my
      BY <1>2 DEF Go, ContentInv, HostTyped, PlacesTyped
    <2>2. /\ \A j \in Ids \ {i} : op'[j] = op[j]
          /\ op'[i].state = to /\ op'[i].prior = op[i].prior
      BY <1>2, <2>0 DEF SetState, ContentInv, HostTyped, OpTyped
    <2>3. to \notin {"none", "pending_confirmation", "authorized"}
      BY DEF LiveStates
    <2>4. op[i].state = "content_running" => writers = 0
      BY <1>2, <2>0, TransitionFacts
    <2>5. Live(i)'
      BY <2>2 DEF Live
    <2>6. Accounted' /\ StoppedClientHasRow' /\ Unleased'
      BY <2>2, <2>3, <2>4, <2>5, LedgerKeeps
    <2>7. Holding(p)'
      BY <1>0, <2>0, <2>1, <2>2, <2>3 DEF Holding
    <2>8. WritersKnown(p)' /\ RowExpected(p)'
      BY <1>0, <2>0, <2>1, <2>2 DEF WritersKnown, RowExpected, Clear, Running
    <2>9. PriorKnown(p)'
      BY <1>0, <2>0, <2>1, <2>2 DEF PriorKnown, SameClient
    <2> QED
      BY <2>6, <2>7, <2>8, <2>9 DEF Standing
  <1> QED
    BY <1>1, <1>2 DEF Advance

\* The row ends, and so does the command.
LEMMA EndingStands ==
    ASSUME ContentInv, NEW p \in Procs, pc[p] \in {"terminal", "verdict"}, NEW to,
           pc[p] = "verdict" => to \in {"confirmed", "unconfirmed", "contradicted"},
           IF Allowed(my[p].id, to) THEN SetState(my[p].id, to) ELSE UNCHANGED op,
           Leave(p), SameClient, writers' = writers
    PROVE  Standing(p)' /\ Accounted' /\ StoppedClientHasRow' /\ Unleased'
  <1>0. /\ my[p].id \in Ids /\ (my[p].prior <=> op[my[p].id].prior)
        /\ (my[p].prior => ~owed) /\ writers \in Nat
        /\ pc[p] = "terminal" => writers = 0
    BY DEF ContentInv, Standing, Holding, PriorKnown, WritersKnown, Clear, Accounted
  <1>1. pc'[p] = "idle"
    BY DEF Leave, ContentInv, HostTyped, PlacesTyped
  <1>2. CASE UNCHANGED op
    BY <1>0, <1>1, <1>2, LeavingStands, WritersKeep, ClientKeeps
  <1>3. CASE Allowed(my[p].id, to) /\ SetState(my[p].id, to)
    <2>0. PICK i \in Ids : i = my[p].id
      BY <1>0
    <2>1. \A j \in Ids \ {i} : op'[j] = op[j]
      BY <1>3, <2>0 DEF SetState, ContentInv, HostTyped, OpTyped
    <2>2. op'[i].state = to /\ op'[i].prior = op[i].prior
      BY <1>3, <2>0 DEF SetState, ContentInv, HostTyped, OpTyped
    <2>3. to \in {"none", "pending_confirmation", "authorized"} => ~op[i].prior
      BY <1>3, <2>0, TransitionFacts DEF ContentInv, Unleased
    <2>4. op[i].state = "content_running" => writers = 0
      <3>1. op[i].state = "content_running" => to \in {"adopting", "failed", "interrupted", "aborted"}
        BY <1>3, <2>0, TransitionFacts
      <3> QED
        BY <1>0, <3>1
    <2>5. op[i].prior => ~owed
      BY <1>0, <2>0
    <2> QED
      BY <1>1, <2>1, <2>2, <2>3, <2>4, <2>5, LedgerKeeps, LeavingStands
  <1> QED
    BY <1>2, <1>3

\* The lease writes to the row what became of the client.
LEMMA LeaseStands ==
    ASSUME ContentInv, NEW p \in Procs, Decide(p)
    PROVE  Standing(p)' /\ Accounted' /\ StoppedClientHasRow' /\ Unleased'
  <1>0. /\ Holding(p) /\ my[p].id \in Ids /\ writers = 0 /\ pc[p] = "decide"
        /\ my[p].resuming => op[my[p].id].state = "interrupted"
        /\ my[p].resuming => (my[p].prior <=> op[my[p].id].prior)
        /\ my[p].prior \in BOOLEAN
    BY DEF ContentInv, Standing, Holding, PriorKnown, WritersKnown, RowExpected, Clear, Decide, At,
           HostTyped, LocalsTyped
  <1>1. SameClient /\ writers' = writers
    BY DEF Decide, KeepRest, SameClient
  <1>2. CASE /\ UNCHANGED <<lock, op>> /\ pc' = [pc EXCEPT ![p] = "release"]
             /\ my' = [my EXCEPT ![p].prior = Row(p).prior]
    <2>1. /\ pc'[p] = "release" /\ my'[p].id = my[p].id
          /\ (my'[p].prior <=> op[my[p].id].prior)
      BY <1>2 DEF Row, ContentInv, HostTyped, PlacesTyped, LocalsTyped
    <2>2. Holding(p)' /\ WritersKnown(p)' /\ RowExpected(p)' /\ PriorKnown(p)'
      BY <1>0, <1>2, <2>1 DEF Holding, WritersKnown, RowExpected, PriorKnown, Clear, Running
    <2> QED
      BY <1>0, <1>1, <1>2, <2>2, WritersKeep, ClientKeeps DEF Standing
  <1>3. CASE my[p].resuming /\ Go(p, "resume_stop") /\ UNCHANGED op
    <2>1. pc'[p] = "resume_stop" /\ my' = my /\ lock' = lock
      BY <1>3 DEF Go, ContentInv, HostTyped, PlacesTyped
    <2>2. Holding(p)' /\ WritersKnown(p)' /\ RowExpected(p)' /\ PriorKnown(p)'
      BY <1>0, <1>1, <1>3, <2>1 DEF Holding, WritersKnown, RowExpected, PriorKnown, Clear, Running
    <2> QED
      BY <1>0, <1>1, <1>3, <2>2, WritersKeep, ClientKeeps DEF Standing
  <1>4. CASE Leave(p) /\ UNCHANGED op
    <2>1. pc'[p] = "idle"
      BY <1>4 DEF Leave, ContentInv, HostTyped, PlacesTyped
    <2> QED
      BY <1>0, <1>1, <1>4, <2>1, LeavingStands, WritersKeep, ClientKeeps
  <1>5. CASE /\ Allowed(my[p].id, "lease_acquired") /\ Go(p, "leased")
             /\ op' = [op EXCEPT ![my[p].id].state = "lease_acquired",
                                 ![my[p].id].prior = my[p].prior]
    <2>0. PICK i \in Ids : i = my[p].id
      BY <1>0
    <2>p. PICK b \in BOOLEAN : b = my[p].prior
      BY <1>0
    <2>1. pc'[p] = "leased" /\ my' = my /\ lock' = lock
      BY <1>5 DEF Go, ContentInv, HostTyped, PlacesTyped
    <2>2. /\ op' = [op EXCEPT ![i] = op'[i]]
          /\ op'[i] = [op[i] EXCEPT !.state = "lease_acquired", !.prior = b]
      BY <1>5, <2>0, <2>p DEF ContentInv, HostTyped, OpTyped
    <2>3. op[i].state = "authorized"
      BY <1>5, <2>0, TransitionFacts
    <2>4. ~op[i].prior
      BY <2>3 DEF ContentInv, Unleased
    <2>5. \A j \in Ids \ {i} : op'[j] = op[j]
      BY <2>2 DEF ContentInv, HostTyped, OpTyped
    <2>6. op'[i].state = "lease_acquired" /\ (op'[i].prior <=> b)
      <3>1. PICK row \in [state: States \cup {"none"}, kind: Kinds \cup {"none"},
                          open: BOOLEAN, prior: BOOLEAN] : row = op[i]
        BY DEF ContentInv, HostTyped, OpTyped
      <3>2. op'[i] = [row EXCEPT !.state = "lease_acquired", !.prior = b]
        BY <2>2, <3>1
      <3> QED
        BY <3>2
    <2>7. Accounted' /\ StoppedClientHasRow' /\ Unleased'
      BY <1>1, <2>3, <2>4, <2>5, <2>6, LedgerKeeps
    <2>8. Holding(p)' /\ WritersKnown(p)' /\ RowExpected(p)' /\ PriorKnown(p)'
      BY <1>0, <1>1, <2>0, <2>p, <2>1, <2>6 DEF Holding, WritersKnown, RowExpected, PriorKnown, Clear, Running
    <2> QED
      BY <2>7, <2>8 DEF Standing
  <1> QED
    BY <1>2, <1>3, <1>4, <1>5 DEF Decide

\* The steps that write to the ledger, or to what the command remembers.
LEMMA RowStands ==
    ASSUME ContentInv, NEW p \in Procs,
           \/ CheckWindow(p) \/ PassIntake(p) \/ Leased(p) \/ CommitContent(p)
           \/ CommitAdoption(p) \/ RecordSwap(p) \/ StartVerifying(p) \/ Verdict(p) \/ Terminalize(p)
    PROVE  Standing(p)' /\ Accounted' /\ StoppedClientHasRow' /\ Unleased'
  <1>0. /\ Holding(p) /\ WritersKnown(p) /\ RowExpected(p) /\ PriorKnown(p)
        /\ writers \in Nat
    BY DEF ContentInv, Standing, Accounted
  <1>1. CASE CheckWindow(p)
    <2>0. pc[p] = "window" /\ my[p].id \in Ids /\ SameClient /\ writers' = writers
      BY <1>0, <1>1 DEF CheckWindow, At, Holding, SameClient, KeepRest
    <2>1. Accounted' /\ StoppedClientHasRow' /\ Unleased'
      BY <1>0, <1>1, <2>0, SweepKeeps, WritersKeep, ClientKeeps DEF CheckWindow
    <2>2. CASE Go(p, "intake") /\ UNCHANGED op
      <3>1. pc'[p] = "intake" /\ my' = my /\ lock' = lock
        BY <2>2 DEF Go, ContentInv, HostTyped, PlacesTyped
      <3>2. Holding(p)' /\ WritersKnown(p)' /\ RowExpected(p)' /\ PriorKnown(p)'
        BY <1>0, <2>0, <2>2, <3>1 DEF Holding, WritersKnown, RowExpected, PriorKnown, Clear, Running
      <3> QED
        BY <2>1, <3>2 DEF Standing
    <2>3. CASE my[p].resuming /\ Fail(p, "failed") /\ Sweep
      <3>1. op'[my[p].id] = op[my[p].id]
        BY <1>0, <2>0, <2>3, SweepKeeps DEF RowExpected
      <3>2. /\ pc'[p] = "fail" /\ lock' = lock
            /\ my'[p].id = my[p].id /\ (my'[p].prior <=> my[p].prior)
        BY <2>3 DEF Fail, ContentInv, HostTyped, PlacesTyped, LocalsTyped
      <3>3. Holding(p)' /\ WritersKnown(p)' /\ RowExpected(p)' /\ PriorKnown(p)'
        BY <1>0, <2>0, <3>1, <3>2 DEF Holding, WritersKnown, RowExpected, PriorKnown, Clear, Running
      <3> QED
        BY <2>1, <3>3 DEF Standing
    <2>4. CASE Leave(p)
      <3>1. pc'[p] = "idle"
        BY <2>4 DEF Leave, ContentInv, HostTyped, PlacesTyped
      <3> QED
        BY <2>1, <3>1, LeavingStands
    <2> QED
      BY <1>1, <2>2, <2>3, <2>4 DEF CheckWindow
  <1>2. CASE PassIntake(p)
    <2>0. /\ pc[p] = "intake" /\ my[p].id \in Ids /\ SameClient /\ writers' = writers
          /\ op' = op /\ writers = 0
      BY <1>0, <1>2 DEF PassIntake, At, Holding, SameClient, Locally, KeepRest, NoWriter
    <2>1. PICK b : b = IF my[p].resuming THEN my[p].prior ELSE client = "up"
      OBVIOUS
    <2>2. pc'[p] = "decide" /\ lock' = lock /\ my' = [my EXCEPT ![p].prior = b]
      BY <1>2, <2>1 DEF PassIntake, ContentInv, HostTyped, PlacesTyped, LocalsTyped
    <2>3. /\ my'[p].id = my[p].id /\ (my'[p].resuming <=> my[p].resuming)
          /\ my[p].resuming => (my'[p].prior <=> my[p].prior)
      BY <2>1, <2>2 DEF ContentInv, HostTyped, LocalsTyped
    <2>4. Holding(p)' /\ WritersKnown(p)' /\ RowExpected(p)' /\ PriorKnown(p)'
      BY <1>0, <2>0, <2>2, <2>3 DEF Holding, WritersKnown, RowExpected, PriorKnown, Clear, Running
    <2> QED
      BY <1>0, <2>0, <2>4, WritersKeep, ClientKeeps DEF Standing
  <1>l. {"client_stopping", "content_running", "adopting", "client_restart_pending", "verifying"} \subseteq
           LiveStates \ {"pending_confirmation", "authorized"}
    BY DEF LiveStates
  <1>3. CASE Leased(p)
    <2>1. /\ Advance(p, "client_stopping", "stop") /\ SameClient /\ writers' = writers
          /\ pc[p] = "leased" /\ writers = 0
      BY <1>0, <1>3 DEF Leased, At, KeepRest, SameClient, WritersKnown, Clear
    <2> QED
      BY <1>l, <2>1, AdvancingStands
  <1>4. CASE CommitContent(p)
    <2>1. /\ Advance(p, "content_running", "mark") /\ SameClient /\ writers' = writers
          /\ pc[p] = "stopped" /\ writers = 0
      BY <1>0, <1>4 DEF CommitContent, At, KeepRest, SameClient, WritersKnown, Clear
    <2> QED
      BY <1>l, <2>1, AdvancingStands
  <1>5. CASE CommitAdoption(p)
    <2>1. SameClient /\ writers' = writers /\ pc[p] = "commit" /\ writers = 0
      BY <1>0, <1>5 DEF CommitAdoption, At, KeepRest, SameClient, WritersKnown, Clear
    <2>2. CASE Advance(p, "adopting", "journal")
      BY <1>l, <2>1, <2>2, AdvancingStands
    <2>3. CASE Fail(p, "failed") /\ op' = op
      BY <1>0, <2>1, <2>3, KnownStates, FailingStands, WritersKeep, ClientKeeps
    <2> QED
      BY <1>5, <2>2, <2>3 DEF CommitAdoption
  <1>6. CASE RecordSwap(p)
    <2>1. /\ Advance(p, "client_restart_pending", "clear") /\ SameClient /\ writers' = writers
          /\ pc[p] = "swapped"
      BY <1>6 DEF RecordSwap, At, KeepRest, SameClient
    <2> QED
      BY <1>l, <2>1, AdvancingStands
  <1>7. CASE StartVerifying(p)
    <2>1. SameClient /\ writers' = writers /\ pc[p] = "verify"
      BY <1>7 DEF StartVerifying, At, KeepRest, SameClient
    <2>2. CASE Advance(p, "verifying", "verdict")
      BY <1>l, <2>1, <2>2, AdvancingStands
    <2>3. CASE Go(p, "verdict") /\ op' = op
      <3>1. "verdict" \notin Clear \cup Running
        BY DEF Clear, Running
      <3>2. my[p].prior => ~owed'
        BY <1>0, <2>1 DEF PriorKnown, SameClient
      <3>3. Standing(p)'
        BY <2>1, <2>3, <3>1, <3>2, GoingStands
      <3> QED
        BY <1>0, <2>1, <2>3, <3>3, WritersKeep, ClientKeeps
    <2> QED
      BY <1>7, <2>2, <2>3 DEF StartVerifying
  <1>8. CASE Verdict(p)
    <2>1. /\ pc[p] = "verdict" /\ Leave(p) /\ SameClient /\ writers' = writers
      BY <1>8 DEF Verdict, At, KeepRest, SameClient
    <2>2. PICK to \in {"confirmed", "unconfirmed", "contradicted"} :
            IF Allowed(my[p].id, to) THEN SetState(my[p].id, to) ELSE UNCHANGED op
      BY <1>8 DEF Verdict
    <2> QED
      BY <2>1, <2>2, EndingStands
  <1>9. CASE Terminalize(p)
    <2>1. /\ pc[p] = "terminal" /\ Leave(p) /\ SameClient /\ writers' = writers
          /\ IF Allowed(my[p].id, my[p].to) THEN SetState(my[p].id, my[p].to) ELSE UNCHANGED op
      BY <1>9 DEF Terminalize, At, KeepRest, SameClient
    <2> QED
      BY <2>1, EndingStands
  <1> QED
    BY <1>1, <1>2, <1>3, <1>4, <1>5, <1>6, <1>7, <1>8, <1>9

-----------------------------------------------------------------------------
\* A command enters at l, remembering m.
LEMMA EnteringStands ==
    ASSUME ContentInv, NEW p \in Procs, NEW i \in Ids, NEW l, NEW m, Enter(p, l, m),
           op' = op, op[i].state # "none", m.id = i, m.prior <=> op[i].prior,
           l \in {"window", "release", "fail", "repair_stop", "clear"},
           l = "window" /\ m.resuming => op[i].state = "interrupted",
           l = "repair_stop" => op[i].state = "adopting"
    PROVE  Standing(p)'
  <1>1. pc'[p] = l /\ my'[p] = m /\ lock' = p
    BY DEF Enter, ContentInv, HostTyped, PlacesTyped, LocalsTyped
  <1>2. Holding(p)' /\ WritersKnown(p)' /\ RowExpected(p)' /\ PriorKnown(p)'
    BY <1>1 DEF Holding, WritersKnown, RowExpected, PriorKnown, Clear, Running
  <1> QED
    BY <1>2 DEF Standing

\* A command that begins, and a recovery that takes a row over.
LEMMA BeginStands ==
    ASSUME ContentInv, NEW p \in Procs, BeginContent(p) \/ Reconcile(p)
    PROVE  /\ pc[p] = "idle" /\ lock = NoProc
           /\ Standing(p)' /\ Accounted' /\ StoppedClientHasRow' /\ Unleased'
  <1>0. writers \in Nat
    BY DEF ContentInv, Accounted
  <1>2. CASE BeginContent(p)
    <2>1. op' = op /\ SameClient /\ writers' = writers
      BY <1>2 DEF BeginContent, Locally, KeepRest, SameClient
    <2>2. PICK i \in Ids, b \in BOOLEAN :
            /\ op[i].state \in {"authorized", "interrupted"}
            /\ b <=> op[i].state = "interrupted"
            /\ LET m == [Nothing EXCEPT !.id = i, !.prior = op[i].prior, !.resuming = b]
               IN Enter(p, "window", m) \/ Enter(p, "release", m)
      BY <1>2 DEF BeginContent
    <2> DEFINE m == [Nothing EXCEPT !.id = i, !.prior = op[i].prior, !.resuming = b]
    <2>3. m.id = i /\ (m.prior <=> op[i].prior) /\ (m.resuming <=> b)
      BY DEF Nothing
    <2>4. Enter(p, "window", m) \/ Enter(p, "release", m)
      BY <2>2
    <2> HIDE DEF m
    <2>5. Standing(p)'
      BY <2>1, <2>2, <2>3, <2>4, EnteringStands
    <2> QED
      BY <1>0, <2>1, <2>4, <2>5, WritersKeep, ClientKeeps DEF Enter
  <1>r. ASSUME NEW i \in Ids
        PROVE  Recovered(i).id = i /\ (Recovered(i).prior <=> op[i].prior)
    BY DEF Recovered, Nothing
  <1>t. ASSUME NEW i \in Ids, NEW to
        PROVE  RecoverTo(i, to).id = i /\ (RecoverTo(i, to).prior <=> op[i].prior)
    <2>1. PICK m : m = Recovered(i)
      OBVIOUS
    <2>2. m = [Nothing EXCEPT !.id = i, !.prior = op[i].prior]
      BY <2>1 DEF Recovered
    <2>3. RecoverTo(i, to) = [Nothing EXCEPT !.id = i, !.prior = op[i].prior, !.to = to]
      BY <2>2, <2>1 DEF RecoverTo, Nothing
    <2> QED
      BY <2>3 DEF Nothing
  <1>3. CASE RecoverLease(p) \/ RecoverInterrupted(p) \/ RecoverAdopting(p) \/ RecoverRestart(p)
    <2>1. op' = op /\ SameClient /\ writers' = writers
      BY <1>3 DEF RecoverLease, RecoverInterrupted, RecoverAdopting, RecoverRestart, Locally, KeepRest, SameClient
    <2>2. PICK i \in Ids, to \in {"aborted", "failed"} :
            \/ Enter(p, "fail", RecoverTo(i, to)) /\ op[i].state # "none"
            \/ Enter(p, "repair_stop", Recovered(i)) /\ op[i].state = "adopting"
            \/ Enter(p, "clear", Recovered(i)) /\ op[i].state # "none"
      BY <1>3 DEF RecoverLease, RecoverInterrupted, RecoverAdopting, RecoverRestart
    <2>3. Standing(p)'
      BY <1>r, <1>t, <2>1, <2>2, EnteringStands
    <2> QED
      BY <1>0, <2>1, <2>2, <2>3, WritersKeep, ClientKeeps DEF Enter
  <1>4. CASE RecoverContent(p)
    <2>1. SameClient /\ writers' = writers /\ writers = 0
      BY <1>4 DEF RecoverContent, KeepRest, SameClient, NoWriter
    <2>2. PICK i \in Ids :
            /\ op[i].state = "content_running"
            /\ \/ /\ pc[p] = "idle" /\ lock = NoProc
                  /\ SetState(i, "interrupted") /\ UNCHANGED <<lock, pc, my>>
               \/ Enter(p, "fail", RecoverTo(i, "failed")) /\ op' = op
      BY <1>4 DEF RecoverContent
    <2>3. CASE Enter(p, "fail", RecoverTo(i, "failed")) /\ op' = op
      <3>1. Standing(p)'
        BY <1>t, <2>2, <2>3, EnteringStands
      <3> QED
        BY <1>0, <2>1, <2>3, <3>1, WritersKeep, ClientKeeps DEF Enter
    <2>4. CASE /\ pc[p] = "idle" /\ lock = NoProc
               /\ SetState(i, "interrupted") /\ UNCHANGED <<lock, pc, my>>
      <3>1. /\ \A j \in Ids \ {i} : op'[j] = op[j]
            /\ op'[i].state = "interrupted" /\ op'[i].prior = op[i].prior
        BY <2>4 DEF SetState, ContentInv, HostTyped, OpTyped
      <3>2. Live(i)'
        BY <3>1 DEF Live, LiveStates
      <3> QED
        BY <2>1, <2>4, <3>1, <3>2, LedgerKeeps, LeavingStands
    <2> QED
      BY <2>2, <2>3, <2>4
  <1> QED
    BY <1>2, <1>3, <1>4 DEF Reconcile

-----------------------------------------------------------------------------
\* Around the commands: a row that one of them works on keeps its state.
LEMMA RowsAround ==
    ASSUME ContentInv, UNCHANGED <<lock, pc, my, client, owed, writers>>, OpTyped', Unleased',
           \A i \in Ids : op[i].state \notin {"none", "authorized"} => op'[i].state = op[i].state,
           \A i \in Ids : op[i].state # "none" =>
               op'[i].state # "none" /\ (op'[i].prior <=> op[i].prior)
    PROVE  ContentInv'
  <1>1. HostTyped'
    BY DEF ContentInv, HostTyped, PlacesTyped, LocalsTyped
  <1>2. ASSUME NEW p \in Procs
        PROVE  Standing(p)'
    <2>1. Standing(p)
      BY DEF ContentInv
    <2>2. Holding(p)' /\ WritersKnown(p)'
      BY <2>1 DEF Standing, Holding, WritersKnown
    <2>3. RowExpected(p)'
      BY <2>1 DEF Standing, Holding, RowExpected, Clear, Running
    <2>4. PriorKnown(p)'
      BY <2>1 DEF Standing, Holding, PriorKnown
    <2> QED
      BY <2>2, <2>3, <2>4 DEF Standing
  <1>3. Accounted'
    BY DEF ContentInv, Accounted, SingleWriter, WriterHasRow
  <1>4. StoppedClientHasRow'
    <2> SUFFICES ASSUME owed'
                 PROVE  \E i \in Ids : Live(i)' /\ op'[i].prior
      BY DEF StoppedClientHasRow
    <2>1. PICK i \in Ids : Live(i) /\ op[i].prior
      BY DEF ContentInv, StoppedClientHasRow
    <2>2. op[i].state \notin {"none", "authorized"}
      BY <2>1 DEF ContentInv, Unleased
    <2> QED
      BY <2>1, <2>2 DEF Live
  <1> QED
    BY <1>1, <1>2, <1>3, <1>4 DEF ContentInv

LEMMA SurroundingsKeep ==
    ASSUME ContentInv, Environment
    PROVE  ContentInv'
  <1>1. CASE Authorize
    <2>1. PICK i \in Ids, k \in Kinds :
            /\ op[i].state = "none"
            /\ op' = [op EXCEPT ![i] = [state |-> "authorized", kind |-> k,
                                        open |-> TRUE, prior |-> FALSE]]
      BY <1>1 DEF Authorize
    <2>2. "authorized" \in States
      BY KnownStates
    <2>3. /\ OpTyped' /\ \A j \in Ids \ {i} : op'[j] = op[j]
          /\ ~op'[i].prior
      BY <2>1, <2>2 DEF ContentInv, HostTyped, OpTyped
    <2>4. Unleased'
      BY <2>3 DEF ContentInv, Unleased
    <2>5. UNCHANGED <<lock, pc, my, client, owed, writers>>
      BY <1>1 DEF Authorize
    <2> QED
      BY <2>1, <2>3, <2>4, <2>5, RowsAround
  <1>2. CASE WindowLapses
    <2>1. PICK i \in Ids : op' = [op EXCEPT ![i].open = FALSE]
      BY <1>2 DEF WindowLapses
    <2>2. /\ OpTyped' /\ \A j \in Ids : op'[j].state = op[j].state /\ op'[j].prior = op[j].prior
      BY <2>1 DEF ContentInv, HostTyped, OpTyped
    <2>3. Unleased'
      BY <2>2 DEF ContentInv, Unleased
    <2>4. UNCHANGED <<lock, pc, my, client, owed, writers>>
      BY <1>2 DEF WindowLapses
    <2> QED
      BY <2>2, <2>3, <2>4, RowsAround
  <1>3. CASE ExpireLapsed
    <2>1. Sweep /\ SameClient /\ UNCHANGED <<lock, pc, my, writers>>
      BY <1>3 DEF ExpireLapsed, SameClient
    <2>2. OpTyped'
      BY <2>1, SweepMoves DEF ContentInv, HostTyped, OpMoves
    <2> QED
      BY <2>1, <2>2, SweepKeeps, RowsAround DEF SameClient
  <1>4. ASSUME op' = op, \A p \in Procs : pc'[p] = pc[p] /\ my'[p] = my[p], HostTyped', lock' = lock,
               Accounted', StoppedClientHasRow', owed' => owed, writers' <= writers,
               \A p \in Procs : pc[p] = "installing" => writers' = writers
        PROVE  ContentInv'
    <2>1. ASSUME NEW p \in Procs
          PROVE  Standing(p)'
      <3>1. Standing(p) /\ writers' \in Nat
        BY <1>4 DEF ContentInv, Accounted
      <3>2. Holding(p)' /\ RowExpected(p)' /\ PriorKnown(p)'
        BY <1>4, <3>1 DEF Standing, Holding, RowExpected, PriorKnown, Clear, Running
      <3>3. WritersKnown(p)'
        BY <1>4, <3>1 DEF Standing, WritersKnown
      <3> QED
        BY <3>2, <3>3 DEF Standing
    <2> QED
      BY <1>4, <2>1 DEF ContentInv, Unleased
  <1>5. CASE EditPolicy \/ UserStartsClient \/ UserQuitsClient \/ OrphanExits
    <2>1. op' = op /\ pc' = pc /\ my' = my /\ lock' = lock /\ (owed' => owed) /\ writers \in Nat
      BY <1>5 DEF EditPolicy, UserStartsClient, UserQuitsClient, OrphanExits, GoUp, ContentInv, Accounted
    <2>2. HostTyped'
      BY <2>1 DEF ContentInv, HostTyped, OpTyped, PlacesTyped, LocalsTyped
    <2>3. writers' \in Nat /\ writers' <= writers
      BY <1>5, <2>1 DEF EditPolicy, UserStartsClient, UserQuitsClient, OrphanExits
    <2>4. \A p \in Procs : pc[p] = "installing" => writers' = writers
      BY <1>5 DEF EditPolicy, UserStartsClient, UserQuitsClient, OrphanExits
    <2>5. Accounted' /\ StoppedClientHasRow'
      BY <2>1, <2>3, WritersKeep DEF ContentInv, StoppedClientHasRow, Live
    <2> QED
      BY <1>4, <2>1, <2>2, <2>3, <2>4, <2>5
  <1>6. ASSUME NEW p \in Procs, Crash(p)
        PROVE  ContentInv'
    <2>1. Walks(p) /\ OpMoves
      BY <1>6, LeaveWalks, SameMoves DEF Crash, ContentInv, HostTyped
    <2>2. pc'[p] = "idle" /\ SameClient /\ writers' = writers /\ writers \in Nat /\ op' = op
      BY <1>6 DEF Crash, Leave, SameClient, ContentInv, HostTyped, PlacesTyped, Accounted
    <2> QED
      BY <1>6, <2>1, <2>2, LeavingStands, WritersKeep, ClientKeeps, StepKeeps DEF Crash
  <1> QED
    BY <1>1, <1>2, <1>3, <1>5, <1>6 DEF Environment

-----------------------------------------------------------------------------
LEMMA ContentInitHolds == ContentInitAll => ContentInv
  <1> SUFFICES ASSUME ContentInitAll
               PROVE  ContentInv
    OBVIOUS
  <1>1. HostTyped
    BY NothingIsLocal DEF ContentInitAll, HostInit, HostTyped, OpTyped, NoOp, PlacesTyped, LocalsTyped
  <1>2. \A p \in Procs : Standing(p)
    BY DEF ContentInitAll, HostInit, Standing, Holding, WritersKnown, RowExpected, PriorKnown, Clear, Running
  <1>3. Accounted /\ StoppedClientHasRow /\ Unleased
    BY DEF ContentInitAll, HostInit, NoOp, Accounted, SingleWriter, WriterHasRow, StoppedClientHasRow, Unleased
  <1> QED
    BY <1>1, <1>2, <1>3 DEF ContentInv

LEMMA ContinueKeeps ==
    ASSUME ContentInv, NEW p \in Procs, Continue(p)
    PROVE  ContentInv'
  <1>0. HostTyped /\ (pc[p] # "idle" => my[p].id \in Ids)
    BY DEF ContentInv, Standing, Holding
  <1>1. CASE \/ DeferIntake(p) \/ RefuseIntake(p) \/ StopClient(p)
             \/ StopForResume(p) \/ RegressAfterStop(p) \/ MarkTarget(p) \/ SpawnSteamcmd(p)
             \/ SteamcmdEnds(p) \/ KillSteamcmd(p) \/ CheckInstalled(p) \/ ReassertStopped(p)
             \/ WriteJournal(p) \/ SwapManifest(p) \/ RepairAdoption(p) \/ ClearJournal(p)
             \/ RestartClient(p) \/ RestoreForFailure(p) \/ Release(p) \/ StopForRepair(p)
             \/ RecheckForRepair(p)
    <2>1. pc[p] # "idle"
      BY <1>1 DEF At, DeferIntake, RefuseIntake, StopClient, StopForResume, RegressAfterStop, MarkTarget,
             SpawnSteamcmd, SteamcmdEnds, KillSteamcmd, CheckInstalled, ReassertStopped, WriteJournal,
             SwapManifest, RepairAdoption, ClearJournal, RestartClient, RestoreForFailure, Release,
             StopForRepair, RecheckForRepair
    <2>2. Walks(p) /\ OpMoves
      BY <1>0, <1>1, <2>1, QuietContinue
    <2>3. Standing(p)' /\ Accounted' /\ StoppedClientHasRow' /\ Unleased'
      BY <1>1, QuietStands
    <2> QED
      BY <2>1, <2>2, <2>3, StepKeeps
  <1>2. CASE \/ CheckWindow(p) \/ PassIntake(p) \/ Decide(p) \/ Leased(p) \/ CommitContent(p)
             \/ CommitAdoption(p) \/ RecordSwap(p) \/ StartVerifying(p) \/ Verdict(p) \/ Terminalize(p)
    <2>1. pc[p] # "idle"
      BY <1>2 DEF At, CheckWindow, PassIntake, Decide, Leased, CommitContent, CommitAdoption, RecordSwap,
             StartVerifying, Verdict, Terminalize
    <2>2. Walks(p) /\ OpMoves
      BY <1>0, <1>2, <2>1, RowContinue
    <2>3. Standing(p)' /\ Accounted' /\ StoppedClientHasRow' /\ Unleased'
      BY <1>2, RowStands, LeaseStands
    <2> QED
      BY <2>1, <2>2, <2>3, StepKeeps
  <1> QED
    BY <1>1, <1>2 DEF Continue

LEMMA ContentStepKeeps == ContentInv /\ [ContentNext]_cvars => ContentInv'
  <1> SUFFICES ASSUME ContentInv, [ContentNext]_cvars
               PROVE  ContentInv'
    OBVIOUS
  <1>1. CASE Environment
    BY <1>1, SurroundingsKeep
  <1>2. ASSUME NEW p \in Procs, BeginContent(p) \/ Reconcile(p)
        PROVE  ContentInv'
    <2>1. Walks(p) /\ OpMoves
      BY <1>2, ContentBegins DEF ContentInv
    <2> QED
      BY <1>2, <2>1, BeginStands, StepKeeps
  <1>3. ASSUME NEW p \in Procs, Continue(p)
        PROVE  ContentInv'
    BY <1>3, ContinueKeeps
  <1>4. CASE UNCHANGED cvars
    <2>1. UNCHANGED <<lock, pc, my, client, owed, writers>> /\ op' = op
      BY <1>4 DEF cvars, hostVars
    <2>2. OpTyped' /\ Unleased'
      BY <2>1 DEF ContentInv, HostTyped, OpTyped, Unleased
    <2> QED
      BY <2>1, <2>2, RowsAround
  <1> QED
    BY <1>1, <1>2, <1>3, <1>4 DEF ContentNext

\* Every install and verify keeps ContentInv.  What the properties need
\* beside themselves: where no steamcmd is alive (Clear), what the row of the
\* command says meanwhile (RowExpected), and that the command remembers of
\* the client what its row does (PriorKnown).
THEOREM ContentIsAccounted == ContentSpec => []ContentInv
  BY ContentInitHolds, ContentStepKeeps, PTL DEF ContentSpec

\* steamcmd is spawned only under the lock, by a run that saw no other at
\* intake: whichever brokers crash, and whatever steamcmd they leave behind,
\* two never write the library at once (executor.py, steamcmd_running).
THEOREM OneWriterAtATime == ContentSpec => []SingleWriter
  <1>1. ContentInv => SingleWriter
    BY DEF ContentInv, Accounted
  <1> QED
    BY <1>1, ContentIsAccounted, PTL

\* The row that spawned a steamcmd stays content_running until the process is
\* seen to have ended: reconcile leaves it alone while one may be alive.
THEOREM WritersAreAccounted == ContentSpec => []WriterHasRow
  <1>1. ContentInv => WriterHasRow
    BY DEF ContentInv, Accounted
  <1> QED
    BY <1>1, ContentIsAccounted, PTL

\* _finish_failure and the verdict come after the restore: a client the
\* broker took down is never forgotten by a row that became terminal.
THEOREM StoppedClientIsRemembered == ContentSpec => []StoppedClientHasRow
  <1>1. ContentInv => StoppedClientHasRow
    BY DEF ContentInv
  <1> QED
    BY <1>1, ContentIsAccounted, PTL

-----------------------------------------------------------------------------
(* What the ledger, the journal and the client's manifest say of each      *)
(* other.                                                                   *)

\* A row in one of these states has an adoption under way, or behind it.
AdoptedStates ==
    {"client_restart_pending", "verifying", "confirmed", "unconfirmed", "contradicted"}
TouchedStates == {"adopting"} \cup AdoptedStates

\* What the state of the newest row says of the client's manifest.
RowLibrary(i) ==
    /\ op[i].state \in States \ TouchedStates => manifest = "old"
    /\ op[i].state = "adopting" /\ manifest = "new" => journal = i
    /\ op[i].state \in AdoptedStates => manifest = "new"

\* Operations come one after the other.
OneByOne ==
    \A i, j \in Ids : j < i /\ op[i].state # "none" => op[j].state \in TerminalStates

\* A journal belongs to an adoption that the ledger has not recorded as over.
JournalHasRow ==
    journal # 0 => /\ journal \in Ids
                   /\ op[journal].state \in {"adopting", "client_restart_pending"}

LibraryRows ==
    /\ manifest \in {"old", "new"}
    /\ OneByOne
    /\ JournalHasRow
    /\ \A i \in Ids : Latest(i) => RowLibrary(i)

\* Places before the adoption, and after it has been undone.
UntouchedPlaces ==
    {"window", "intake", "decide", "leased", "stop", "resume_stop", "stopped", "mark",
     "spawn", "installing", "installed", "reassert", "commit", "fail", "terminal"}

\* What a command knows of the library where it stands.
PlaceLibrary(p) ==
    /\ pc[p] \in UntouchedPlaces => manifest = "old" /\ journal = 0
    /\ pc[p] \in {"fail", "terminal"} => my[p].to \in {"aborted", "failed"}
    /\ pc[p] \in {"journal", "swap", "repair", "swapped", "repair_stop", "repair_recheck"}
          => op[my[p].id].state = "adopting"
    /\ pc[p] \in {"swap", "swapped"} => journal = my[p].id
    /\ pc[p] = "swapped" => manifest = "new"
    /\ pc[p] \in {"clear", "restart", "verify", "verdict"}
          => op[my[p].id].state \in {"client_restart_pending", "verifying"}
    /\ pc[p] \in {"restart", "verify", "verdict"} => journal = 0

LibraryInv == LibraryRows /\ \A p \in Procs : PlaceLibrary(p)

LEMMA LibraryStates ==
  /\ TouchedStates \subseteq States
  /\ \A s \in {"adopting", "client_restart_pending", "verifying"} :
        s \in LiveStates /\ s \notin TerminalStates /\ s # "none"
  /\ LiveStates \cap TerminalStates = {} /\ "none" \notin States
  /\ States = LiveStates \cup TerminalStates
  BY DEF TouchedStates, AdoptedStates, States, LiveStates, TerminalStates

\* Only the newest operation is ever live.
LEMMA LiveIsLatest ==
  ASSUME OneByOne, NEW i \in Ids, Live(i)
  PROVE  Latest(i) /\ \A j \in Ids : Latest(j) => j = i
  <1>1. op[i].state # "none" /\ op[i].state \notin TerminalStates
    BY LibraryStates DEF Live
  <1>2. \A j \in Ids : j > i => op[j].state = "none"
    BY <1>1 DEF OneByOne, Ids
  <1> QED
    BY <1>1, <1>2 DEF Latest, Ids

\* A step that leaves the states of the rows, the manifest and the journal.
LEMMA LibraryStays ==
  ASSUME LibraryRows, \A i \in Ids : op'[i].state = op[i].state, UNCHANGED contentVars
  PROVE  LibraryRows'
  BY DEF LibraryRows, OneByOne, JournalHasRow, RowLibrary, Latest, contentVars

\* A step of an adoption on the library, while its row stands.
LEMMA LibraryMoves ==
  ASSUME LibraryRows, op' = op, NEW i \in Ids,
         op[i].state \in {"adopting", "client_restart_pending", "verifying"},
         manifest' \in {"old", "new"}, journal' \in {0, i},
         op[i].state = "adopting" /\ manifest' = "new" => journal' = i,
         op[i].state # "adopting" => manifest' = manifest,
         op[i].state = "verifying" => journal' = 0
  PROVE  LibraryRows'
  <1>1. Live(i)
    BY LibraryStates DEF Live
  <1>2. Latest(i) /\ \A j \in Ids : Latest(j) => j = i
    BY <1>1, LiveIsLatest DEF LibraryRows
  <1>3. RowLibrary(i)
    BY <1>2 DEF LibraryRows
  <1>4. RowLibrary(i)'
    BY <1>3 DEF RowLibrary, TouchedStates, AdoptedStates
  <1>5. \A j \in Ids : Latest(j)' => j = i
    BY <1>2 DEF Latest
  <1>6. OneByOne' /\ JournalHasRow'
    BY DEF LibraryRows, OneByOne, JournalHasRow
  <1> QED
    BY <1>4, <1>5, <1>6 DEF LibraryRows

\* The row of a live operation takes a step of the table.
LEMMA LibraryRecorded ==
  ASSUME LibraryRows, NEW i \in Ids, NEW to, Allowed(i, to),
         op'[i].state = to, \A j \in Ids \ {i} : op'[j].state = op[j].state,
         UNCHANGED contentVars,
         to \in States \ TouchedStates => manifest = "old" /\ journal = 0,
         to = "adopting" => manifest = "old",
         to \in AdoptedStates => manifest = "new",
         to \in AdoptedStates \ {"client_restart_pending"} => journal = 0
  PROVE  LibraryRows'
  <1>1. op'[i].state = to /\ \A j \in Ids \ {i} : op'[j].state = op[j].state
    OBVIOUS
  <1>2. Live(i) /\ to \in States
    BY TransitionsType DEF Allowed, Live, Transitions, States, LiveStates, TerminalStates
  <1>3. Latest(i) /\ \A j \in Ids : Latest(j) => j = i
    BY <1>2, LiveIsLatest DEF LibraryRows
  <1>4. \A j \in Ids : op'[j].state = "none" <=> op[j].state = "none"
    BY <1>1, <1>2, <1>3, LibraryStates DEF Latest
  <1>5. \A j \in Ids : Latest(j)' => j = i
    BY <1>3, <1>4 DEF Latest
  <1>6. RowLibrary(i)'
    BY <1>1 DEF RowLibrary, contentVars
  <1>7. OneByOne'
    <2> SUFFICES ASSUME NEW x \in Ids, NEW y \in Ids, y < x, op'[x].state # "none"
                 PROVE  op'[y].state \in TerminalStates
      BY DEF OneByOne
    <2>1. op[x].state # "none" /\ op[y].state \in TerminalStates
      BY <1>4 DEF LibraryRows, OneByOne
    <2>2. y # i
      BY <1>2, <2>1, LibraryStates DEF Live
    <2> QED
      BY <1>1, <2>1, <2>2
  <1>8. JournalHasRow'
    <2>1. ASSUME journal # 0 PROVE journal = i
      <3>1. journal \in Ids /\ Live(journal)
        BY <2>1, LibraryStates DEF LibraryRows, JournalHasRow, Live
      <3> QED
        BY <1>3, <3>1, LiveIsLatest DEF LibraryRows
    <2>2. ASSUME journal # 0 PROVE to \in {"adopting", "client_restart_pending"}
      BY <1>2, <2>2 DEF TouchedStates
    <2> QED
      BY <1>1, <2>1, <2>2 DEF JournalHasRow, contentVars
  <1> QED
    BY <1>5, <1>6, <1>7, <1>8 DEF LibraryRows, contentVars

LEMMA LibraryRecords ==
  ASSUME LibraryRows, OpTyped, NEW i \in Ids, NEW to, Allowed(i, to), SetState(i, to),
         UNCHANGED contentVars,
         to \in States \ TouchedStates => manifest = "old" /\ journal = 0,
         to = "adopting" => manifest = "old",
         to \in AdoptedStates => manifest = "new",
         to \in AdoptedStates \ {"client_restart_pending"} => journal = 0
  PROVE  LibraryRows'
  <1>1. op'[i].state = to /\ \A j \in Ids \ {i} : op'[j].state = op[j].state
    BY DEF SetState, OpTyped
  <1> QED
    BY <1>1, LibraryRecorded

\* expire_lapsed() ends rows that touched nothing.
LEMMA LibrarySweeps ==
  ASSUME LibraryRows, OpTyped, Sweep, UNCHANGED contentVars
  PROVE  LibraryRows'
  <1>1. \A i \in Ids : \/ op'[i].state = op[i].state
                       \/ op[i].state = "authorized" /\ op'[i].state = "expired"
    BY DEF Sweep, OpTyped
  <1>2. /\ "expired" \in TerminalStates /\ "expired" \in States \ TouchedStates
        /\ "authorized" \in States \ TouchedStates /\ "authorized" \notin TerminalStates
        /\ "expired" # "none" /\ "authorized" # "none"
    BY DEF TouchedStates, AdoptedStates, States, LiveStates, TerminalStates
  <1>3. OneByOne'
    BY <1>1, <1>2 DEF LibraryRows, OneByOne
  <1>4. JournalHasRow'
    BY <1>1 DEF LibraryRows, JournalHasRow, contentVars
  <1>5. \A i \in Ids : Latest(i)' => Latest(i)
    BY <1>1, <1>2 DEF Latest
  <1>6. \A i \in Ids : RowLibrary(i) => RowLibrary(i)'
    BY <1>1, <1>2 DEF RowLibrary, contentVars, TouchedStates
  <1> QED
    BY <1>3, <1>4, <1>5, <1>6 DEF LibraryRows, contentVars

\* A new operation begins where no adoption is under way.
LEMMA LibraryBegins ==
  ASSUME LibraryRows, OpTyped, Authorize, manifest' = "old", journal' = journal
  PROVE  LibraryRows' /\ journal = 0
  <1>1. PICK i \in Ids, k \in Kinds :
          /\ op[i].state = "none"
          /\ \A j \in Ids : j < i => op[j].state \in TerminalStates
          /\ op' = [op EXCEPT ![i] = [state |-> "authorized", kind |-> k,
                                      open |-> TRUE, prior |-> FALSE]]
    BY DEF Authorize
  <1>2. op'[i].state = "authorized" /\ \A j \in Ids \ {i} : op'[j] = op[j]
    BY <1>1 DEF OpTyped
  <1>3. /\ "none" \notin TerminalStates /\ "authorized" # "none"
        /\ "authorized" \notin TouchedStates
    BY DEF TouchedStates, AdoptedStates, TerminalStates
  <1>4. \A j \in Ids : j > i => op[j].state = "none"
    BY <1>1, <1>3 DEF LibraryRows, OneByOne
  <1>5. journal = 0
    <2> SUFFICES ASSUME journal # 0 PROVE FALSE
      OBVIOUS
    <2>1. journal \in Ids /\ op[journal].state \in {"adopting", "client_restart_pending"}
      BY DEF LibraryRows, JournalHasRow
    <2>2. journal < i \/ journal = i \/ journal > i
      BY <2>1 DEF Ids
    <2> QED
      BY <1>1, <1>4, <2>1, <2>2, LibraryStates
  <1>6. OneByOne'
    BY <1>1, <1>2, <1>3, <1>4 DEF LibraryRows, OneByOne, Ids
  <1>7. \A j \in Ids : Latest(j)' => j = i
    BY <1>2, <1>3, <1>4 DEF Latest, Ids
  <1>8. RowLibrary(i)'
    BY <1>2, <1>3 DEF RowLibrary, TouchedStates
  <1> QED
    BY <1>5, <1>6, <1>7, <1>8 DEF LibraryRows, JournalHasRow

-----------------------------------------------------------------------------
(* What each command does to them. *)

LEMMA LibraryStepKeeps ==
  ASSUME ContentInv, LibraryInv, NEW p \in Procs, Walks(p), pc[p] # "idle" \/ lock = NoProc,
         LibraryRows', PlaceLibrary(p)'
  PROVE  LibraryInv'
  <1>1. ASSUME NEW q \in Procs, q # p PROVE PlaceLibrary(q)'
    <2>1. pc[q] = "idle"
      BY <1>1, HostAssumption DEF ContentInv, Standing, Holding
    <2>2. pc'[q] = "idle"
      BY <1>1, <2>1 DEF Walks, Mine, ContentInv, HostTyped, PlacesTyped
    <2> QED
      BY <2>2 DEF PlaceLibrary, UntouchedPlaces
  <1> QED
    BY <1>1 DEF LibraryInv

\* A command that returned, raised or only has the client to restore holds
\* nothing of the library any more.
LEMMA OutsideLibrary ==
  ASSUME NEW p \in Procs, pc'[p] \in {"idle", "release"}
  PROVE  PlaceLibrary(p)'
  BY DEF PlaceLibrary, UntouchedPlaces

\* Before the adoption, and after a failure, the manifest is the client's own.
LEMMA UntouchedStays ==
  ASSUME NEW p \in Procs, PlaceLibrary(p), pc[p] \in UntouchedPlaces, UNCHANGED contentVars,
         pc'[p] \in UntouchedPlaces \cup {"idle", "release"},
         pc'[p] \in {"fail", "terminal"} => my'[p].to \in {"aborted", "failed"}
  PROVE  PlaceLibrary(p)'
  BY DEF PlaceLibrary, UntouchedPlaces, contentVars

LEMMA MovesTo ==
  ASSUME HostTyped, NEW p \in Procs
  PROVE  /\ \A l : Go(p, l) => pc'[p] = l /\ my' = my
         /\ \A to : Fail(p, to) => /\ pc'[p] = "fail" /\ my'[p].to = to
                                   /\ my'[p].id = my[p].id
         /\ Leave(p) => pc'[p] = "idle"
         /\ \A to, l : Advance(p, to, l) =>
               \/ Allowed(my[p].id, to) /\ SetState(my[p].id, to) /\ Go(p, l)
               \/ Leave(p) /\ UNCHANGED op
  <1>1. \A l : Go(p, l) => pc'[p] = l /\ my' = my
    BY DEF Go, HostTyped, PlacesTyped
  <1>2. \A to : Fail(p, to) => /\ pc'[p] = "fail" /\ my'[p].to = to
                               /\ my'[p].id = my[p].id
    BY DEF Fail, HostTyped, PlacesTyped, LocalsTyped
  <1>3. Leave(p) => pc'[p] = "idle"
    BY DEF Leave, HostTyped, PlacesTyped
  <1>4. \A to, l : Advance(p, to, l) =>
           \/ Allowed(my[p].id, to) /\ SetState(my[p].id, to) /\ Go(p, l)
           \/ Leave(p) /\ UNCHANGED op
    BY DEF Advance
  <1> QED
    BY <1>1, <1>2, <1>3, <1>4

\* Until the adoption: no command touches the library.
LEMMA BeforeAdoption ==
  ASSUME ContentInv, LibraryInv, NEW p \in Procs,
         \/ DeferIntake(p) \/ RefuseIntake(p) \/ PassIntake(p) \/ StopClient(p)
         \/ StopForResume(p) \/ RegressAfterStop(p) \/ MarkTarget(p) \/ SpawnSteamcmd(p)
         \/ SteamcmdEnds(p) \/ KillSteamcmd(p) \/ CheckInstalled(p) \/ ReassertStopped(p)
         \/ RestoreForFailure(p)
  PROVE  LibraryRows' /\ PlaceLibrary(p)'
  <1>0. PlaceLibrary(p) /\ LibraryRows /\ HostTyped
    BY DEF ContentInv, LibraryInv
  <1>1. op' = op /\ UNCHANGED contentVars
    BY DEF DeferIntake, RefuseIntake, PassIntake, StopClient, StopForResume, RegressAfterStop,
           MarkTarget, SpawnSteamcmd, SteamcmdEnds, KillSteamcmd, CheckInstalled,
           ReassertStopped, RestoreForFailure, Locally, KeepRest
  <1>2. pc[p] \in UntouchedPlaces /\ pc[p] # "terminal"
    BY DEF DeferIntake, RefuseIntake, PassIntake, StopClient, StopForResume, RegressAfterStop,
           MarkTarget, SpawnSteamcmd, SteamcmdEnds, KillSteamcmd, CheckInstalled,
           ReassertStopped, RestoreForFailure, At, UntouchedPlaces
  <1>3. \/ Leave(p) \/ Fail(p, "aborted") \/ Fail(p, "failed")
        \/ \E l \in {"stopped", "release", "spawn", "installing", "installed", "reassert",
                     "commit"} : Go(p, l)
        \/ pc[p] = "fail" /\ Go(p, "terminal")
        \/ PassIntake(p)
    <2>1. CASE \/ DeferIntake(p) \/ RefuseIntake(p) \/ RegressAfterStop(p) \/ KillSteamcmd(p)
               \/ PassIntake(p)
      BY <2>1 DEF DeferIntake, RefuseIntake, RegressAfterStop, KillSteamcmd
    <2>2. CASE StopClient(p) \/ StopForResume(p) \/ MarkTarget(p) \/ SpawnSteamcmd(p)
      BY <2>2 DEF StopClient, StopForResume, MarkTarget, SpawnSteamcmd
    <2>3. CASE SteamcmdEnds(p) \/ CheckInstalled(p) \/ ReassertStopped(p) \/ RestoreForFailure(p)
      BY <2>3 DEF SteamcmdEnds, CheckInstalled, ReassertStopped, RestoreForFailure, At
    <2> QED
      BY <2>1, <2>2, <2>3
  <1>4. CASE PassIntake(p)
    <2>1. pc'[p] = "decide"
      BY <1>0, <1>4 DEF PassIntake, HostTyped, PlacesTyped
    <2> QED
      BY <1>0, <1>1, <1>2, <2>1, LibraryStays, UntouchedStays DEF UntouchedPlaces
  <1>5. CASE ~PassIntake(p)
    <2>1. /\ pc'[p] \in UntouchedPlaces \cup {"idle", "release"}
          /\ pc'[p] \in {"fail", "terminal"} => my'[p].to \in {"aborted", "failed"}
      BY <1>0, <1>3, <1>5, MovesTo DEF UntouchedPlaces, PlaceLibrary
    <2> QED
      BY <1>0, <1>1, <1>2, <2>1, LibraryStays, UntouchedStays
  <1> QED
    BY <1>4, <1>5

\* The steps there that write to the ledger.
LEMMA RecordsBeforeAdoption ==
  ASSUME ContentInv, LibraryInv, NEW p \in Procs,
         \/ CheckWindow(p) \/ Decide(p) \/ Leased(p) \/ CommitContent(p)
         \/ CommitAdoption(p) \/ Terminalize(p)
  PROVE  LibraryRows' /\ PlaceLibrary(p)'
  <1>0. /\ PlaceLibrary(p) /\ LibraryRows /\ HostTyped /\ OpTyped
        /\ pc[p] # "idle" => my[p].id \in Ids
    BY DEF ContentInv, LibraryInv, HostTyped, Standing, Holding
  <1>1. UNCHANGED contentVars
    BY DEF CheckWindow, Decide, Leased, CommitContent, CommitAdoption, Terminalize, KeepRest
  <1>2. pc[p] \in UntouchedPlaces /\ pc[p] # "idle"
    BY DEF CheckWindow, Decide, Leased, CommitContent, CommitAdoption, Terminalize, At,
           UntouchedPlaces
  <1>3. manifest = "old" /\ journal = 0 /\ my[p].id \in Ids
    BY <1>0, <1>2 DEF PlaceLibrary
  <1>4. {"lease_acquired", "client_stopping", "content_running", "aborted", "failed"} \subseteq
           States \ TouchedStates
    BY DEF TouchedStates, AdoptedStates, States, LiveStates, TerminalStates
  <1>5. \A to \in (States \ TouchedStates) \cup {"adopting"} :
           Allowed(my[p].id, to) /\ SetState(my[p].id, to) => LibraryRows'
    BY <1>0, <1>1, <1>3, LibraryRecords DEF TouchedStates, AdoptedStates
  <1>6. op' = op => LibraryRows'
    BY <1>0, <1>1, LibraryStays
  <1>7. CASE CheckWindow(p)
    <2>1. /\ op' = op \/ Sweep
          /\ Go(p, "intake") \/ Fail(p, "failed") \/ Leave(p)
      BY <1>7 DEF CheckWindow
    <2>2. LibraryRows'
      BY <1>0, <1>1, <1>6, <2>1, LibrarySweeps
    <2> QED
      BY <1>0, <1>1, <1>2, <2>1, <2>2, MovesTo, UntouchedStays DEF UntouchedPlaces
  <1>8. CASE Decide(p)
    <2>1. pc'[p] \in {"release", "resume_stop", "leased", "idle"}
      BY <1>0, <1>8 DEF Decide, Go, Leave, HostTyped, PlacesTyped
    <2>2. PlaceLibrary(p)'
      BY <1>0, <1>1, <1>2, <2>1, UntouchedStays DEF UntouchedPlaces
    <2>3. CASE UNCHANGED op
      BY <1>6, <2>2, <2>3
    <2>4. CASE /\ Allowed(my[p].id, "lease_acquired")
               /\ op' = [op EXCEPT ![my[p].id].state = "lease_acquired",
                                   ![my[p].id].prior = my[p].prior]
      <3>1. PICK i \in Ids, b \in BOOLEAN : i = my[p].id /\ b = my[p].prior
        BY <1>0, <1>3 DEF HostTyped, LocalsTyped
      <3>2. PICK mid \in [Ids -> [state: States \cup {"none"}, kind: Kinds \cup {"none"},
                                  open: BOOLEAN, prior: BOOLEAN]] :
              mid = [op EXCEPT ![i].state = "lease_acquired"]
        BY <1>0, <1>4 DEF OpTyped
      <3>3. op' = [mid EXCEPT ![i].prior = b]
        BY <2>4, <3>1, <3>2
      <3>4. \A j \in Ids : op'[j].state = mid[j].state
        BY <3>2, <3>3
      <3>5. mid[i].state = "lease_acquired" /\ \A j \in Ids \ {i} : mid[j] = op[j]
        BY <1>0, <3>2 DEF OpTyped
      <3>6. op'[i].state = "lease_acquired" /\ \A j \in Ids \ {i} : op'[j].state = op[j].state
        BY <3>4, <3>5
      <3>7. /\ "lease_acquired" \in States \ TouchedStates
            /\ "lease_acquired" # "adopting" /\ "lease_acquired" \notin AdoptedStates
        BY <1>4 DEF TouchedStates
      <3>8. Allowed(i, "lease_acquired") /\ i \in Ids
        BY <2>4, <3>1
      <3>9. LibraryRows'
        BY <1>0, <1>1, <1>3, <3>6, <3>7, <3>8, LibraryRecorded
      <3> QED
        BY <2>2, <3>9
    <2> QED
      BY <1>8, <2>3, <2>4 DEF Decide
  <1>9. CASE Leased(p) \/ CommitContent(p)
    <2>1. \E to \in {"client_stopping", "content_running"}, l \in {"stop", "mark"} :
             Advance(p, to, l)
      BY <1>9 DEF Leased, CommitContent
    <2>2. LibraryRows'
      BY <1>0, <1>4, <1>5, <1>6, <2>1, MovesTo
    <2> QED
      BY <1>0, <1>1, <1>2, <2>1, <2>2, MovesTo, UntouchedStays DEF UntouchedPlaces
  <1>10. CASE CommitAdoption(p)
    <2>1. CASE Advance(p, "adopting", "journal")
      <3>1. CASE Leave(p) /\ UNCHANGED op
        BY <1>0, <1>6, <3>1, MovesTo, OutsideLibrary
      <3>2. CASE Allowed(my[p].id, "adopting") /\ SetState(my[p].id, "adopting") /\ Go(p, "journal")
        <4>1. pc'[p] = "journal" /\ my' = my
          BY <1>0, <3>2, MovesTo
        <4>2. op'[my[p].id].state = "adopting"
          BY <1>0, <1>3, <3>2 DEF SetState, OpTyped
        <4>3. PlaceLibrary(p)'
          BY <4>1, <4>2 DEF PlaceLibrary, UntouchedPlaces
        <4> QED
          BY <1>5, <3>2, <4>3
      <3> QED
        BY <1>0, <2>1, <3>1, <3>2, MovesTo
    <2>2. CASE Fail(p, "failed") /\ UNCHANGED op
      BY <1>0, <1>1, <1>2, <1>6, <2>2, MovesTo, UntouchedStays DEF UntouchedPlaces
    <2> QED
      BY <1>10, <2>1, <2>2 DEF CommitAdoption
  <1>11. CASE Terminalize(p)
    <2>1. /\ my[p].to \in {"aborted", "failed"} /\ Leave(p)
          /\ IF Allowed(my[p].id, my[p].to) THEN SetState(my[p].id, my[p].to) ELSE UNCHANGED op
      BY <1>0, <1>11 DEF Terminalize, At, PlaceLibrary
    <2> QED
      BY <1>0, <1>4, <1>5, <1>6, <2>1, MovesTo, OutsideLibrary
  <1> QED
    BY <1>7, <1>8, <1>9, <1>10, <1>11

-----------------------------------------------------------------------------
\* During the adoption: the journal, the manifest, the ledger, no journal.
LEMMA DuringAdoption ==
  ASSUME ContentInv, LibraryInv, NEW p \in Procs,
         WriteJournal(p) \/ SwapManifest(p) \/ RepairAdoption(p) \/ ClearJournal(p)
  PROVE  LibraryRows' /\ PlaceLibrary(p)'
  <1> DEFINE i == my[p].id
  <1>0. /\ PlaceLibrary(p) /\ LibraryRows /\ HostTyped /\ op' = op
        /\ i \in Ids
        /\ manifest \in {"old", "new"}
    BY DEF WriteJournal, SwapManifest, RepairAdoption, ClearJournal, At,
           ContentInv, LibraryInv, LibraryRows, HostTyped, Standing, Holding
  <1>1. op[i].state \in {"adopting", "client_restart_pending", "verifying"}
    BY <1>0 DEF WriteJournal, SwapManifest, RepairAdoption, ClearJournal, At, PlaceLibrary
  <1>2. Live(i)
    BY <1>1, LibraryStates DEF Live
  <1>3. Latest(i) /\ RowLibrary(i)
    BY <1>0, <1>2, LiveIsLatest DEF LibraryRows
  <1>4. journal \in {0, i}
    <2>1. ASSUME journal # 0 PROVE journal = i
      <3>1. journal \in Ids /\ Live(journal)
        BY <1>0, <2>1, LibraryStates DEF LibraryRows, JournalHasRow, Live
      <3> QED
        BY <1>0, <1>2, <3>1, LiveIsLatest DEF LibraryRows
    <2> QED
      BY <2>1
  <1>5. 0 \notin Ids
    BY DEF Ids
  <1>6. CASE WriteJournal(p)
    <2>1. /\ op[i].state = "adopting" /\ manifest' = manifest
          /\ \/ journal' = i /\ Go(p, "swap")
             \/ journal' \in {journal, i} /\ Go(p, "repair")
      BY <1>0, <1>6 DEF WriteJournal, At, PlaceLibrary
    <2>2. manifest' = "new" => journal' = i
      BY <1>3, <2>1 DEF RowLibrary
    <2>3. LibraryRows'
      BY <1>0, <1>1, <1>4, <2>1, <2>2, LibraryMoves
    <2>4. pc'[p] \in {"swap", "repair"} /\ my' = my /\ (pc'[p] = "swap" => journal' = i)
      BY <1>0, <2>1, MovesTo
    <2> QED
      BY <1>0, <2>1, <2>3, <2>4 DEF PlaceLibrary, UntouchedPlaces
  <1>7. CASE SwapManifest(p)
    <2>1. /\ op[i].state = "adopting" /\ journal' = journal /\ journal = i
          /\ manifest' \in {manifest, "new"}
          /\ \/ manifest' = "new" /\ Go(p, "swapped")
             \/ Go(p, "repair")
      BY <1>0, <1>7 DEF SwapManifest, At, PlaceLibrary
    <2>2. LibraryRows'
      BY <1>0, <1>1, <1>4, <2>1, LibraryMoves
    <2>3. /\ pc'[p] \in {"swapped", "repair"} /\ my' = my
          /\ pc'[p] = "swapped" => manifest' = "new"
      BY <1>0, <2>1, MovesTo
    <2> QED
      BY <1>0, <2>1, <2>2, <2>3 DEF PlaceLibrary, UntouchedPlaces
  <1>8. CASE RepairAdoption(p)
    <2>1. op[i].state = "adopting" /\ manifest' = manifest
      BY <1>0, <1>8 DEF RepairAdoption, At, PlaceLibrary, contentVars
    <2>2. CASE journal = i /\ manifest = "new" /\ Go(p, "swapped") /\ UNCHANGED contentVars
      <3>1. LibraryRows'
        BY <1>0, <2>2, LibraryStays
      <3>2. pc'[p] = "swapped" /\ my' = my
        BY <1>0, <2>2, MovesTo
      <3> QED
        BY <1>0, <2>1, <2>2, <3>1, <3>2 DEF PlaceLibrary, UntouchedPlaces, contentVars
    <2>3. CASE ~(journal = i /\ manifest = "new") /\ journal' = 0 /\ Fail(p, "failed")
      <3>1. manifest = "old"
        BY <1>0, <1>3, <2>1, <2>3 DEF RowLibrary
      <3>2. LibraryRows'
        BY <1>0, <1>1, <2>1, <2>3, <3>1, LibraryMoves
      <3>3. pc'[p] = "fail" /\ my'[p].to = "failed"
        BY <1>0, <2>3, MovesTo
      <3> QED
        BY <2>1, <2>3, <3>1, <3>2, <3>3 DEF PlaceLibrary, UntouchedPlaces
    <2>4. CASE Go(p, "release") /\ UNCHANGED contentVars
      BY <1>0, <2>4, LibraryStays, MovesTo, OutsideLibrary
    <2> QED
      BY <1>8, <2>2, <2>3, <2>4 DEF RepairAdoption
  <1>9. CASE ClearJournal(p)
    <2>1. /\ op[i].state \in {"client_restart_pending", "verifying"} /\ manifest' = manifest
          /\ \/ journal' = 0 /\ Go(p, "restart")
             \/ journal' \in {journal, 0} /\ Go(p, "release")
      BY <1>0, <1>9 DEF ClearJournal, At, PlaceLibrary
    <2>2. op[i].state = "verifying" => journal = 0
      <3>1. journal = i => op[i].state # "verifying"
        BY <1>0, <1>5 DEF LibraryRows, JournalHasRow
      <3> QED
        BY <1>4, <3>1
    <2>3. LibraryRows'
      BY <1>0, <1>1, <1>4, <2>1, <2>2, LibraryMoves
    <2>4. CASE journal' = 0 /\ Go(p, "restart")
      <3>1. pc'[p] = "restart" /\ my' = my
        BY <1>0, <2>4, MovesTo
      <3> QED
        BY <1>0, <2>1, <2>3, <2>4, <3>1 DEF PlaceLibrary, UntouchedPlaces
    <2>5. CASE Go(p, "release")
      BY <1>0, <2>3, <2>5, MovesTo, OutsideLibrary
    <2> QED
      BY <2>1, <2>4, <2>5
  <1> QED
    BY <1>6, <1>7, <1>8, <1>9

\* After the swap, and the steps of a recovery up to it.
LEMMA AroundAdoption ==
  ASSUME ContentInv, LibraryInv, NEW p \in Procs,
         \/ RecordSwap(p) \/ RestartClient(p) \/ StartVerifying(p) \/ Verdict(p) \/ Release(p)
         \/ StopForRepair(p) \/ RecheckForRepair(p)
  PROVE  LibraryRows' /\ PlaceLibrary(p)'
  <1> DEFINE i == my[p].id
  <1>0. /\ PlaceLibrary(p) /\ LibraryRows /\ HostTyped /\ OpTyped
        /\ i \in Ids
        /\ manifest \in {"old", "new"}
    BY DEF RecordSwap, RestartClient, StartVerifying, Verdict, Release, StopForRepair,
           RecheckForRepair, At, ContentInv, LibraryInv, LibraryRows, HostTyped, Standing, Holding
  <1>1. UNCHANGED contentVars
    BY DEF RecordSwap, RestartClient, StartVerifying, Verdict, Release, StopForRepair,
           RecheckForRepair, KeepRest, Locally
  <1>2. op' = op => LibraryRows'
    BY <1>0, <1>1, LibraryStays
  <1>3. CASE RecordSwap(p)
    <2>1. /\ manifest = "new"
          /\ Advance(p, "client_restart_pending", "clear")
      BY <1>0, <1>3 DEF RecordSwap, At, PlaceLibrary
    <2>2. CASE Leave(p) /\ UNCHANGED op
      BY <1>0, <1>2, <2>2, MovesTo, OutsideLibrary
    <2>3. CASE /\ Allowed(i, "client_restart_pending") /\ SetState(i, "client_restart_pending")
               /\ Go(p, "clear")
      <3>1. "client_restart_pending" \in AdoptedStates \cap TouchedStates
        BY DEF AdoptedStates, TouchedStates
      <3>2. LibraryRows'
        BY <1>0, <1>1, <2>1, <2>3, <3>1, LibraryRecords
      <3>3. pc'[p] = "clear" /\ my' = my
        BY <1>0, <2>3, MovesTo
      <3>4. op'[i].state = "client_restart_pending"
        BY <1>0, <2>3 DEF SetState, OpTyped
      <3>5. PlaceLibrary(p)'
        BY <3>3, <3>4 DEF PlaceLibrary, UntouchedPlaces
      <3> QED
        BY <3>2, <3>5
    <2> QED
      BY <1>0, <2>1, <2>2, <2>3, MovesTo
  <1>4. CASE RestartClient(p) \/ Release(p) \/ StopForRepair(p) \/ RecheckForRepair(p)
    <2>1. op' = op
      BY <1>4 DEF RestartClient, Release, StopForRepair, RecheckForRepair, Locally
    <2>2. \/ Leave(p) \/ Go(p, "release")
          \/ pc[p] = "restart" /\ Go(p, "verify")
          \/ pc[p] \in {"repair_stop", "repair_recheck"}
             /\ (Go(p, "repair") \/ Go(p, "repair_recheck"))
      BY <1>4 DEF RestartClient, Release, StopForRepair, RecheckForRepair, At
    <2>3. CASE Leave(p) \/ Go(p, "release")
      BY <1>0, <1>2, <2>1, <2>3, MovesTo, OutsideLibrary
    <2>4. CASE pc[p] = "restart" /\ Go(p, "verify")
      <3>1. pc'[p] = "verify" /\ my' = my
        BY <1>0, <2>4, MovesTo
      <3> QED
        BY <1>0, <1>1, <1>2, <2>1, <2>4, <3>1 DEF PlaceLibrary, UntouchedPlaces, contentVars
    <2>5. CASE /\ pc[p] \in {"repair_stop", "repair_recheck"}
               /\ Go(p, "repair") \/ Go(p, "repair_recheck")
      <3>1. pc'[p] \in {"repair", "repair_recheck"} /\ my' = my
        BY <1>0, <2>5, MovesTo
      <3> QED
        BY <1>0, <1>1, <1>2, <2>1, <2>5, <3>1 DEF PlaceLibrary, UntouchedPlaces, contentVars
    <2> QED
      BY <2>2, <2>3, <2>4, <2>5
  <1>5. ASSUME pc[p] \in {"verify", "verdict"}
        PROVE  manifest = "new" /\ journal = 0
    <2>1. op[i].state \in {"client_restart_pending", "verifying"} /\ journal = 0
      BY <1>0, <1>5 DEF PlaceLibrary
    <2>2. Live(i)
      BY <2>1, LibraryStates DEF Live
    <2>3. RowLibrary(i)
      BY <1>0, <2>2, LiveIsLatest DEF LibraryRows
    <2> QED
      BY <2>1, <2>3 DEF RowLibrary, AdoptedStates
  <1>6. \A to \in {"verifying", "confirmed", "unconfirmed", "contradicted"} :
           pc[p] \in {"verify", "verdict"} /\ Allowed(i, to) /\ SetState(i, to) => LibraryRows'
    <2>1. {"verifying", "confirmed", "unconfirmed", "contradicted"} \subseteq
             AdoptedStates \cap TouchedStates
      BY DEF AdoptedStates, TouchedStates
    <2>2. "adopting" \notin AdoptedStates
      BY DEF AdoptedStates
    <2> QED
      BY <1>0, <1>1, <1>5, <2>1, <2>2, LibraryRecords
  <1>7. CASE StartVerifying(p)
    <2>0. pc[p] = "verify"
      BY <1>7 DEF StartVerifying, At
    <2>1. CASE Row(p).state = "verifying" /\ Go(p, "verdict") /\ UNCHANGED op
      <3>1. pc'[p] = "verdict" /\ my' = my
        BY <1>0, <2>1, MovesTo
      <3> QED
        BY <1>0, <1>1, <1>2, <2>0, <2>1, <3>1 DEF PlaceLibrary, UntouchedPlaces, contentVars
    <2>2. CASE Leave(p) /\ UNCHANGED op
      BY <1>0, <1>2, <2>2, MovesTo, OutsideLibrary
    <2>3. CASE Allowed(i, "verifying") /\ SetState(i, "verifying") /\ Go(p, "verdict")
      <3>1. pc'[p] = "verdict" /\ my' = my
        BY <1>0, <2>3, MovesTo
      <3>2. op'[i].state = "verifying"
        BY <1>0, <2>3 DEF SetState, OpTyped
      <3>3. LibraryRows'
        BY <1>6, <2>0, <2>3
      <3>4. journal' = 0
        BY <1>1, <1>5, <2>0 DEF contentVars
      <3>5. PlaceLibrary(p)'
        BY <3>1, <3>2, <3>4 DEF PlaceLibrary, UntouchedPlaces
      <3> QED
        BY <3>3, <3>5
    <2> QED
      BY <1>0, <1>7, <2>1, <2>2, <2>3, MovesTo DEF StartVerifying
  <1>8. CASE Verdict(p)
    <2>1. /\ pc[p] = "verdict" /\ Leave(p)
          /\ \E to \in {"confirmed", "unconfirmed", "contradicted"} :
                IF Allowed(i, to) THEN SetState(i, to) ELSE UNCHANGED op
      BY <1>8 DEF Verdict, At
    <2>2. LibraryRows'
      BY <1>2, <1>6, <2>1
    <2> QED
      BY <1>0, <2>1, <2>2, MovesTo, OutsideLibrary
  <1> QED
    BY <1>3, <1>4, <1>7, <1>8

\* The row of a live operation whose adoption has not begun.
LEMMA UntouchedRow ==
  ASSUME LibraryRows, NEW i \in Ids, op[i].state \in LiveStates \ TouchedStates
  PROVE  manifest = "old" /\ journal = 0
  <1>1. Live(i) /\ op[i].state \in States \ TouchedStates
    BY LibraryStates DEF Live
  <1>2. Latest(i) /\ \A j \in Ids : Latest(j) => j = i
    BY <1>1, LiveIsLatest DEF LibraryRows
  <1>3. manifest = "old"
    BY <1>1, <1>2 DEF LibraryRows, RowLibrary
  <1>4. ASSUME journal # 0 PROVE FALSE
    <2>1. /\ journal \in Ids /\ Live(journal)
          /\ op[journal].state \in TouchedStates
      BY <1>4, LibraryStates DEF LibraryRows, JournalHasRow, Live, TouchedStates, AdoptedStates
    <2>2. journal = i
      BY <1>2, <2>1, LiveIsLatest DEF LibraryRows
    <2> QED
      BY <2>1, <2>2
  <1> QED
    BY <1>3, <1>4

\* A command begins, or takes a row over, where that row left the library.
LEMMA BeginsInLibrary ==
  ASSUME ContentInv, LibraryInv, NEW p \in Procs, BeginContent(p) \/ Reconcile(p)
  PROVE  LibraryRows' /\ PlaceLibrary(p)'
  <1>0. LibraryRows /\ HostTyped /\ OpTyped
    BY DEF ContentInv, LibraryInv, HostTyped
  <1>1. UNCHANGED contentVars
    BY DEF BeginContent, Reconcile, RecoverLease, RecoverContent, RecoverInterrupted,
           RecoverAdopting, RecoverRestart, KeepRest, Locally
  <1>2. op' = op => LibraryRows'
    BY <1>0, <1>1, LibraryStays
  <1>3. \A l, m : Enter(p, l, m) => pc'[p] = l /\ my'[p] = m
    BY <1>0 DEF Enter, HostTyped, PlacesTyped, LocalsTyped
  <1>4. {"authorized", "interrupted", "lease_acquired", "client_stopping", "content_running"}
           \subseteq LiveStates \ TouchedStates
    BY DEF LiveStates, TouchedStates, AdoptedStates
  <1>5. CASE BeginContent(p)
    <2>1. PICK i \in Ids :
            /\ op[i].state \in {"authorized", "interrupted"} /\ op' = op
            /\ \E m : Enter(p, "window", m) \/ Enter(p, "release", m)
      BY <1>5 DEF BeginContent, Locally
    <2>2. manifest = "old" /\ journal = 0
      BY <1>0, <1>4, <2>1, UntouchedRow
    <2>3. pc'[p] \in {"window", "release"}
      BY <1>3, <2>1
    <2>4. PlaceLibrary(p)'
      BY <1>1, <2>2, <2>3 DEF PlaceLibrary, UntouchedPlaces, contentVars
    <2> QED
      BY <1>2, <2>1, <2>4
  <1>6. ASSUME NEW i \in Ids, op[i].state \in LiveStates \ TouchedStates, op' = op,
               NEW to \in {"aborted", "failed"}, Enter(p, "fail", RecoverTo(i, to))
        PROVE  LibraryRows' /\ PlaceLibrary(p)'
    <2>1. manifest = "old" /\ journal = 0
      BY <1>0, <1>6, UntouchedRow
    <2>2. pc'[p] = "fail" /\ my'[p] = RecoverTo(i, to)
      BY <1>3, <1>6
    <2>3. my'[p].to = to
      BY <2>2 DEF RecoverTo, Recovered, Nothing
    <2>4. PlaceLibrary(p)'
      BY <1>1, <2>1, <2>2, <2>3 DEF PlaceLibrary, UntouchedPlaces, contentVars
    <2> QED
      BY <1>2, <1>6, <2>4
  <1>7. CASE RecoverLease(p) \/ RecoverInterrupted(p)
    BY <1>4, <1>6, <1>7 DEF RecoverLease, RecoverInterrupted, Locally
  <1>8. CASE RecoverContent(p)
    <2>1. PICK i \in Ids :
            /\ op[i].state = "content_running"
            /\ \/ /\ pc[p] = "idle" /\ SetState(i, "interrupted") /\ UNCHANGED <<lock, pc, my>>
               \/ Enter(p, "fail", RecoverTo(i, "failed")) /\ op' = op
      BY <1>8 DEF RecoverContent
    <2>2. CASE Enter(p, "fail", RecoverTo(i, "failed")) /\ op' = op
      BY <1>4, <1>6, <2>1, <2>2
    <2>3. CASE pc[p] = "idle" /\ SetState(i, "interrupted") /\ UNCHANGED <<lock, pc, my>>
      <3>1. manifest = "old" /\ journal = 0
        BY <1>0, <1>4, <2>1, UntouchedRow
      <3>2. Allowed(i, "interrupted")
        BY <2>1 DEF Allowed, Transitions, States, LiveStates
      <3>3. "interrupted" \notin TouchedStates /\ "interrupted" \notin AdoptedStates
        BY DEF TouchedStates, AdoptedStates
      <3>4. LibraryRows'
        BY <1>0, <1>1, <2>3, <3>1, <3>2, <3>3, LibraryRecords DEF TouchedStates
      <3> QED
        BY <2>3, <3>4, OutsideLibrary
    <2> QED
      BY <2>1, <2>2, <2>3
  <1>9. CASE RecoverAdopting(p) \/ RecoverRestart(p)
    <2>1. PICK i \in Ids :
            /\ op' = op
            /\ \/ op[i].state = "adopting" /\ Enter(p, "repair_stop", Recovered(i))
               \/ /\ op[i].state \in {"client_restart_pending", "verifying"}
                  /\ Enter(p, "clear", Recovered(i))
      BY <1>9 DEF RecoverAdopting, RecoverRestart, Locally
    <2>2. /\ pc'[p] \in {"repair_stop", "clear"} /\ my'[p] = Recovered(i)
          /\ pc'[p] = "repair_stop" => op[i].state = "adopting"
          /\ pc'[p] = "clear" => op[i].state \in {"client_restart_pending", "verifying"}
      BY <1>3, <2>1
    <2>3. my'[p].id = i
      BY <2>2 DEF Recovered, Nothing
    <2>4. PlaceLibrary(p)'
      BY <2>1, <2>2, <2>3 DEF PlaceLibrary, UntouchedPlaces
    <2> QED
      BY <1>2, <2>1, <2>4
  <1> QED
    BY <1>5, <1>7, <1>8, <1>9 DEF Reconcile

\* What goes on around the commands leaves the library as they expect it: a
\* new operation is only authorized when no adoption is under way.
LEMMA LibraryAround ==
  ASSUME ContentInv, LibraryInv, Environment, Baseline, journal' = journal
  PROVE  LibraryInv'
  <1>0. LibraryRows /\ OpTyped /\ HostTyped
    BY DEF ContentInv, LibraryInv, HostTyped
  <1>1. CASE Authorize
    <2>1. PICK i \in Ids, k \in Kinds :
            /\ op[i].state = "none"
            /\ op' = [op EXCEPT ![i] = [state |-> "authorized", kind |-> k,
                                        open |-> TRUE, prior |-> FALSE]]
      BY <1>1 DEF Authorize
    <2>2. op'[i].state = "authorized" /\ \A j \in Ids \ {i} : op'[j] = op[j]
      BY <1>0, <2>1 DEF OpTyped
    <2>3. manifest' = "old"
      BY <2>1, <2>2 DEF Baseline
    <2>4. LibraryRows' /\ journal = 0
      BY <1>0, <1>1, <2>3, LibraryBegins
    <2>5. pc' = pc /\ my' = my
      BY <1>1 DEF Authorize
    <2>6. ASSUME NEW p \in Procs PROVE PlaceLibrary(p)'
      <3>1. PlaceLibrary(p) /\ (pc[p] # "idle" => my[p].id \in Ids /\ op[my[p].id].state # "none")
        BY DEF LibraryInv, ContentInv, Standing, Holding
      <3>2. pc[p] # "idle" => op'[my[p].id] = op[my[p].id]
        BY <2>1, <2>2, <3>1
      <3>3. ASSUME pc[p] \in {"swap", "swapped"} PROVE FALSE
        BY <2>4, <3>1, <3>3 DEF PlaceLibrary, Ids
      <3> QED
        BY <2>3, <2>4, <2>5, <3>1, <3>2, <3>3 DEF PlaceLibrary, UntouchedPlaces
    <2> QED
      BY <2>4, <2>6 DEF LibraryInv
  <1>2. ASSUME \A i \in Ids : \/ op'[i].state = op[i].state
                              \/ op[i].state = "authorized" /\ op'[i].state = "expired"
        PROVE  UNCHANGED contentVars
    BY <1>2 DEF Baseline, contentVars
  <1>3. ASSUME \A i \in Ids : \/ op'[i].state = op[i].state
                              \/ op[i].state = "authorized" /\ op'[i].state = "expired",
               pc' = pc, my' = my, LibraryRows'
        PROVE  LibraryInv'
    <2>1. ASSUME NEW p \in Procs PROVE PlaceLibrary(p)'
      <3>1. PlaceLibrary(p) /\ (pc[p] # "idle" => my[p].id \in Ids)
        BY DEF LibraryInv, ContentInv, Standing, Holding
      <3>2. UNCHANGED contentVars
        BY <1>2, <1>3
      <3> QED
        BY <1>3, <3>1, <3>2 DEF PlaceLibrary, UntouchedPlaces, contentVars
    <2> QED
      BY <1>3, <2>1 DEF LibraryInv
  <1>4. CASE ExpireLapsed
    <2>1. Sweep /\ pc' = pc /\ my' = my
      BY <1>4 DEF ExpireLapsed
    <2>2. \A i \in Ids : \/ op'[i].state = op[i].state
                         \/ op[i].state = "authorized" /\ op'[i].state = "expired"
      BY <1>0, <2>1 DEF Sweep, OpTyped
    <2>3. LibraryRows'
      BY <1>0, <1>2, <2>1, <2>2, LibrarySweeps
    <2> QED
      BY <1>3, <2>1, <2>2, <2>3
  <1>5. CASE WindowLapses
    <2>1. PICK i \in Ids : op' = [op EXCEPT ![i].open = FALSE]
      BY <1>5 DEF WindowLapses
    <2>2. pc' = pc /\ my' = my
      BY <1>5 DEF WindowLapses
    <2>3. \A j \in Ids : op'[j].state = op[j].state
      BY <1>0, <2>1 DEF OpTyped
    <2> QED
      BY <1>0, <1>2, <1>3, <2>2, <2>3, LibraryStays
  <1>6. CASE EditPolicy \/ UserStartsClient \/ UserQuitsClient \/ OrphanExits
    <2>1. op' = op /\ pc' = pc /\ my' = my
      BY <1>6 DEF EditPolicy, UserStartsClient, UserQuitsClient, OrphanExits
    <2> QED
      BY <1>0, <1>2, <1>3, <2>1, LibraryStays
  <1>7. ASSUME NEW p \in Procs, Crash(p) PROVE LibraryInv'
    <2>1. Walks(p) /\ op' = op /\ pc[p] # "idle" /\ pc'[p] = "idle"
      BY <1>0, <1>7, LeaveWalks, MovesTo DEF Crash
    <2>2. LibraryRows'
      BY <1>0, <1>2, <2>1, LibraryStays
    <2> QED
      BY <2>1, <2>2, OutsideLibrary, LibraryStepKeeps
  <1> QED
    BY <1>1, <1>4, <1>5, <1>6, <1>7 DEF Environment

LEMMA LibraryInitHolds == ContentInitAll => LibraryInv
  BY DEF ContentInitAll, HostInit, ContentInit, NoOp, LibraryInv, LibraryRows, OneByOne,
         JournalHasRow, Latest, PlaceLibrary, UntouchedPlaces

LEMMA LibraryKept == ContentInv /\ LibraryInv /\ [ContentNext]_cvars => LibraryInv'
  <1> SUFFICES ASSUME ContentInv, LibraryInv, [ContentNext]_cvars
               PROVE  LibraryInv'
    OBVIOUS
  <1>0. HostTyped /\ \A p \in Procs : pc[p] # "idle" => my[p].id \in Ids
    BY DEF ContentInv, Standing, Holding
  <1>1. CASE Environment /\ Baseline /\ UNCHANGED journal
    BY <1>1, LibraryAround
  <1>2. ASSUME NEW p \in Procs, BeginContent(p) \/ Reconcile(p)
        PROVE  LibraryInv'
    <2>1. Walks(p) /\ pc[p] = "idle" /\ lock = NoProc
      BY <1>0, <1>2, ContentBegins, BeginStands
    <2> QED
      BY <1>2, <2>1, BeginsInLibrary, LibraryStepKeeps
  <1>3. ASSUME NEW p \in Procs, Continue(p)
        PROVE  LibraryInv'
    <2>1. LibraryRows' /\ PlaceLibrary(p)'
      BY <1>3, BeforeAdoption, RecordsBeforeAdoption, DuringAdoption, AroundAdoption DEF Continue
    <2>2. CASE \/ DeferIntake(p) \/ RefuseIntake(p) \/ StopClient(p)
               \/ StopForResume(p) \/ RegressAfterStop(p) \/ MarkTarget(p) \/ SpawnSteamcmd(p)
               \/ SteamcmdEnds(p) \/ KillSteamcmd(p) \/ CheckInstalled(p) \/ ReassertStopped(p)
               \/ WriteJournal(p) \/ SwapManifest(p) \/ RepairAdoption(p) \/ ClearJournal(p)
               \/ RestartClient(p) \/ RestoreForFailure(p) \/ Release(p) \/ StopForRepair(p)
               \/ RecheckForRepair(p)
      <3>1. pc[p] # "idle"
        BY <2>2 DEF At, DeferIntake, RefuseIntake, StopClient, StopForResume, RegressAfterStop,
               MarkTarget, SpawnSteamcmd, SteamcmdEnds, KillSteamcmd, CheckInstalled,
               ReassertStopped, WriteJournal, SwapManifest, RepairAdoption, ClearJournal,
               RestartClient, RestoreForFailure, Release, StopForRepair, RecheckForRepair
      <3> QED
        BY <1>0, <2>1, <2>2, <3>1, QuietContinue, LibraryStepKeeps
    <2>3. CASE \/ CheckWindow(p) \/ PassIntake(p) \/ Decide(p) \/ Leased(p) \/ CommitContent(p)
               \/ CommitAdoption(p) \/ RecordSwap(p) \/ StartVerifying(p) \/ Verdict(p)
               \/ Terminalize(p)
      <3>1. pc[p] # "idle"
        BY <2>3 DEF At, CheckWindow, PassIntake, Decide, Leased, CommitContent, CommitAdoption,
               RecordSwap, StartVerifying, Verdict, Terminalize
      <3> QED
        BY <1>0, <2>1, <2>3, <3>1, RowContinue, LibraryStepKeeps
    <2> QED
      BY <1>3, <2>2, <2>3 DEF Continue
  <1>4. CASE UNCHANGED cvars
    <2>1. op' = op /\ pc' = pc /\ my' = my /\ UNCHANGED contentVars
      BY <1>4 DEF cvars, hostVars
    <2>2. LibraryRows'
      BY <2>1, LibraryStays DEF LibraryInv
    <2> QED
      BY <2>1, <2>2 DEF LibraryInv, PlaceLibrary, UntouchedPlaces, contentVars
  <1> QED
    BY <1>1, <1>2, <1>3, <1>4 DEF ContentNext

\* The ledger's rows, the adoption journal and the client's manifest agree at
\* every step of every command, crash and recovery.
THEOREM LibraryIsTracked == ContentSpec => []LibraryInv
  BY ContentIsAccounted, LibraryInitHolds, LibraryKept, PTL DEF ContentSpec

\* A failed operation left the client's own manifest, a judged one the adopted
\* manifest, and neither a journal (executor.py, _finish_failure and verify).
THEOREM VerdictsTellTheLibrary == ContentSpec => []VerdictMatchesLibrary
  <1>1. LibraryInv => VerdictMatchesLibrary
    <2> SUFFICES ASSUME LibraryInv PROVE VerdictMatchesLibrary
      OBVIOUS
    <2>1. \A i \in Ids : op[i].state \in TerminalStates => journal # i
      BY LibraryStates DEF LibraryInv, LibraryRows, JournalHasRow, Ids
    <2>2. /\ {"failed", "aborted", "expired"} \subseteq States \ TouchedStates
          /\ {"confirmed", "unconfirmed", "contradicted"} \subseteq AdoptedStates
      BY DEF TouchedStates, AdoptedStates, States, TerminalStates
    <2>3. \A i \in Ids : Latest(i) => RowLibrary(i)
      BY DEF LibraryInv, LibraryRows
    <2> QED
      BY <2>1, <2>2, <2>3 DEF VerdictMatchesLibrary, RowLibrary
  <1> QED
    BY <1>1, LibraryIsTracked, PTL

\* A manifest swapped in before the ledger says so is named by a journal, so
\* that a recovery completes it instead of failing it (reconcile_adoption).
THEOREM SwapsAreCovered == ContentSpec => []JournalCoversSwap
  <1>1. LibraryInv => JournalCoversSwap
    <2> SUFFICES ASSUME LibraryInv, NEW i \in Ids, Live(i), manifest = "new"
                 PROVE  journal = i \/ op[i].state \in {"client_restart_pending", "verifying"}
      BY DEF JournalCoversSwap
    <2>1. Latest(i)
      BY LiveIsLatest DEF LibraryInv, LibraryRows
    <2>2. RowLibrary(i)
      BY <2>1 DEF LibraryInv, LibraryRows
    <2>3. op[i].state \in TouchedStates \cap LiveStates
      BY <2>2, LibraryStates DEF RowLibrary, Live
    <2> QED
      BY <2>2, <2>3 DEF RowLibrary, TouchedStates, AdoptedStates, LiveStates
  <1> QED
    BY <1>1, LibraryIsTracked, PTL

-----------------------------------------------------------------------------
(***************************************************************************)
(* BrokerRun.                                                              *)
(***************************************************************************)
\* From the intent on, an operation only goes to states that say so.
Sent == {"dispatch_pending", "dispatched", "unconfirmed"}

DenialsTyped ==
    denied \in [Procs -> [at: {"idle", "release", "releasing", "abort"}, id: 0 .. MaxOps,
                          seen: States \cup {"none"}]]
AskedTyped == asked \in [Ids -> Nat]

\* A command past its entrance holds the lock, for one operation; so does a
\* refused run while it brings the client back.
Inside(p) ==
    /\ pc[p] # "idle" => lock = p /\ my[p].id \in Ids /\ denied[p] = NoDenial
    /\ denied[p].at = "releasing" => lock = p
    /\ denied[p].at # "idle" =>
        pc[p] = "idle" /\ denied[p].id \in Ids /\ denied[p].seen \in {"authorized", "interrupted"}

\* A command about to send has its intent recorded and nothing sent yet.
Unsent(p) ==
    pc[p] \in Sending => asked[my[p].id] = 0 /\ op[my[p].id].state \in Sent

Told(i) == asked[i] <= 1 /\ (asked[i] > 0 => op[i].state \in Sent)

Typed == HostTyped /\ DenialsTyped /\ AskedTyped

BrokerInv ==
    /\ Typed
    /\ \A p \in Procs : Inside(p) /\ Unsent(p)
    /\ \A i \in Ids : Told(i)

-----------------------------------------------------------------------------
LEMMA SentIsClosed == \A s \in Sent : s \in States /\ Transitions[s] \subseteq Sent
  <1>1. Sent \subseteq States
    BY DEF Sent, States, LiveStates, TerminalStates
  <1>2. Transitions["dispatch_pending"] = {"dispatched", "unconfirmed"}
    BY DEF Transitions, States, LiveStates
  <1>3. Transitions["dispatched"] = {} /\ Transitions["unconfirmed"] = {}
    BY DEF Transitions, States, TerminalStates
  <1> QED
    BY <1>1, <1>2, <1>3 DEF Sent

LEMMA SentStays ==
    ASSUME OpMoves, NEW i \in Ids, op[i].state \in Sent
    PROVE  op'[i].state \in Sent
  <1>1. RowMoves(i)
    BY DEF OpMoves
  <1>2. op[i].state # "none" /\ op[i].state \in States /\ Transitions[op[i].state] \subseteq Sent
    BY SentIsClosed DEF Sent
  <1> QED
    BY <1>1, <1>2 DEF RowMoves

-----------------------------------------------------------------------------
\* A process that does not move keeps what it holds and what it knows.
LEMMA BystanderKeeps ==
    ASSUME BrokerInv, OpMoves, NEW q \in Procs, pc'[q] = pc[q], my'[q] = my[q],
           denied'[q] = denied[q], lock = q => lock' = q, asked' = asked
    PROVE  Inside(q)' /\ Unsent(q)'
  <1>1. Inside(q) /\ Unsent(q)
    BY DEF BrokerInv
  <1>2. Inside(q)'
    BY <1>1 DEF Inside
  <1>3. Unsent(q)'
    <2>1. ASSUME pc[q] \in Sending
          PROVE  asked[my[q].id] = 0 /\ op'[my[q].id].state \in Sent
      <3>1. my[q].id \in Ids
        BY <1>1, <2>1 DEF Inside, Sending
      <3> QED
        BY <1>1, <2>1, <3>1, SentStays DEF Unsent
    <2> QED
      BY <2>1 DEF Unsent
  <1> QED
    BY <1>2, <1>3

LEMMA ToldStays ==
    ASSUME BrokerInv, OpMoves, asked' = asked, NEW i \in Ids
    PROVE  Told(i)'
  BY SentStays DEF BrokerInv, Told

\* A process goes on while no request is sent.
LEMMA WalkKeeps ==
    ASSUME BrokerInv, NEW p \in Procs, Walks(p), OpMoves, denied[p] = NoDenial,
           UNCHANGED <<asked, denied>>
    PROVE  BrokerInv'
  <1>1. Typed'
    BY DEF Typed, HostTyped, BrokerInv, OpMoves, Walks, Mine, PlacesTyped, LocalsTyped, DenialsTyped, AskedTyped
  <1>2. ASSUME NEW q \in Procs, q # p
        PROVE  Inside(q)' /\ Unsent(q)'
    <2>1. pc'[q] = pc[q] /\ my'[q] = my[q] /\ denied'[q] = denied[q]
      BY <1>2 DEF Walks, Mine, BrokerInv, Typed, HostTyped, PlacesTyped, LocalsTyped
    <2>2. lock = q => lock' = q
      <3>1. Inside(p)
        BY DEF BrokerInv
      <3> QED
        BY <1>2, <3>1, HostAssumption DEF Walks, Stays, Leaves, Enters, Waits, Inside
    <2> QED
      BY <2>1, <2>2, BystanderKeeps
  <1>3. Inside(p)'
    <2>1. Inside(p)
      BY DEF BrokerInv
    <2>2. NoDenial.at = "idle"
      BY DEF NoDenial
    <2> QED
      BY <2>1, <2>2 DEF Walks, Stays, Leaves, Enters, Waits, Inside
  <1>4. Unsent(p)'
    BY DEF Walks, Unsent
  <1> QED
    BY <1>1, <1>2, <1>3, <1>4, ToldStays DEF BrokerInv

-----------------------------------------------------------------------------
\* Everything a content command does.
LEMMA ExecutionKeeps ==
    ASSUME BrokerInv, NEW p \in Procs, Execution(p), UNCHANGED denied
    PROVE  BrokerInv'
  <1>1. denied[p] = NoDenial /\ asked' = asked
    BY DEF Execution
  <1>2. HostTyped /\ (pc[p] # "idle" => my[p].id \in Ids)
    BY DEF BrokerInv, Typed, Inside
  <1>3. CASE BeginContent(p) \/ Reconcile(p)
    BY <1>1, <1>2, <1>3, ContentBegins, WalkKeeps
  <1>4. CASE Continue(p)
    <2>1. pc[p] # "idle"
      BY <1>4 DEF Continue, At, CheckWindow, DeferIntake, RefuseIntake, PassIntake, Decide, Leased,
             StopClient, StopForResume, RegressAfterStop, CommitContent, MarkTarget, SpawnSteamcmd,
             SteamcmdEnds, KillSteamcmd, CheckInstalled, ReassertStopped, CommitAdoption,
             WriteJournal, SwapManifest, RepairAdoption, RecordSwap, ClearJournal, RestartClient,
             StartVerifying, Verdict, RestoreForFailure, Terminalize, Release, StopForRepair,
             RecheckForRepair
    <2>2. Walks(p) /\ OpMoves
      BY <1>2, <1>4, <2>1, QuietContinue, RowContinue DEF Continue
    <2> QED
      BY <1>1, <2>2, WalkKeeps
  <1> QED
    BY <1>3, <1>4 DEF Execution

-----------------------------------------------------------------------------
\* A step that leaves every process where it is.
LEMMA AroundKeeps ==
    ASSUME BrokerInv, OpMoves, UNCHANGED <<lock, pc, my, asked, denied>>
    PROVE  BrokerInv'
  <1>1. Typed'
    BY DEF Typed, HostTyped, BrokerInv, OpMoves, PlacesTyped, LocalsTyped, DenialsTyped, AskedTyped
  <1> QED
    BY <1>1, BystanderKeeps, ToldStays DEF BrokerInv

LEMMA EnvironmentKeeps ==
    ASSUME BrokerInv, Environment, UNCHANGED <<asked, denied>>
    PROVE  BrokerInv'
  <1>0. OpTyped
    BY DEF BrokerInv, Typed, HostTyped
  <1>1. CASE Authorize
    <2>1. PICK i \in Ids, k \in Kinds :
            /\ op[i].state = "none"
            /\ op' = [op EXCEPT ![i] = [state |-> "authorized", kind |-> k,
                                        open |-> TRUE, prior |-> FALSE]]
            /\ UNCHANGED <<lock, pc, my>>
      BY <1>1 DEF Authorize
    <2>2. [state |-> "authorized", kind |-> k, open |-> TRUE, prior |-> FALSE]
             \in [state: States \cup {"none"}, kind: Kinds \cup {"none"}, open: BOOLEAN, prior: BOOLEAN]
      BY KnownStates
    <2>3. OpTyped' /\ \A j \in Ids \ {i} : op'[j] = op[j]
      BY <1>0, <2>1, <2>2 DEF OpTyped
    <2>4. op'[i].state = "authorized"
      BY <1>0, <2>1 DEF OpTyped
    <2>5. OpMoves
      BY <2>1, <2>3, <2>4 DEF OpMoves, RowMoves
    <2> QED
      BY <2>1, <2>5, AroundKeeps
  <1>2. CASE WindowLapses
    <2>1. PICK i \in Ids : op' = [op EXCEPT ![i].open = FALSE] /\ UNCHANGED <<lock, pc, my>>
      BY <1>2 DEF WindowLapses
    <2>2. op' = [op EXCEPT ![i] = [op[i] EXCEPT !.open = FALSE]]
      BY <1>0, <2>1 DEF OpTyped
    <2>3. /\ [op[i] EXCEPT !.open = FALSE]
             \in [state: States \cup {"none"}, kind: Kinds \cup {"none"}, open: BOOLEAN, prior: BOOLEAN]
          /\ [op[i] EXCEPT !.open = FALSE].state = op[i].state
      BY <1>0 DEF OpTyped
    <2>4. OpTyped' /\ \A j \in Ids : op'[j].state = op[j].state
      BY <1>0, <2>2, <2>3 DEF OpTyped
    <2>5. OpMoves
      BY <2>4 DEF OpMoves, RowMoves
    <2> QED
      BY <2>1, <2>5, AroundKeeps
  <1>3. CASE ExpireLapsed
    BY <1>0, <1>3, SweepMoves, AroundKeeps DEF ExpireLapsed
  <1>4. CASE EditPolicy \/ UserStartsClient \/ UserQuitsClient \/ OrphanExits
    <2>1. UNCHANGED <<op, lock, pc, my>>
      BY <1>4 DEF EditPolicy, UserStartsClient, UserQuitsClient, OrphanExits
    <2> QED
      BY <1>0, <2>1, SameMoves, AroundKeeps
  <1>5. ASSUME NEW p \in Procs, Crash(p)
        PROVE  BrokerInv'
    <2>1. Leave(p) /\ op' = op /\ pc[p] # "idle"
      BY <1>5 DEF Crash
    <2>2. denied[p] = NoDenial
      BY <2>1 DEF BrokerInv, Inside
    <2> QED
      BY <1>0, <2>1, <2>2, LeaveWalks, SameMoves, WalkKeeps DEF BrokerInv, Typed
  <1> QED
    BY <1>1, <1>2, <1>3, <1>4, <1>5 DEF Environment

-----------------------------------------------------------------------------
\* ClientDispatch runs on the same host: its control is BrokerHost's.
LEMMA SameControl ==
    ASSUME NEW p, NEW l, NEW m
    PROVE  /\ Dispatch!Go(p, l) <=> Go(p, l)
           /\ Dispatch!Leave(p) <=> Leave(p)
           /\ Dispatch!Enter(p, l, m) <=> Enter(p, l, m)
           /\ Dispatch!Sweep <=> Sweep
  BY DEF Dispatch!Go, Dispatch!Leave, Dispatch!Enter, Dispatch!Sweep, Dispatch!Nothing, Dispatch!Ids,
         Go, Leave, Enter, Sweep, Nothing, Ids

LEMMA SameRows ==
    ASSUME NEW i, NEW to
    PROVE  /\ Dispatch!Allowed(i, to) <=> Allowed(i, to)
           /\ Dispatch!SetState(i, to) <=> SetState(i, to)
  BY DEF Dispatch!Allowed, Dispatch!SetState, Allowed, SetState, Dispatch!States, Dispatch!Transitions,
         Dispatch!LiveStates, Dispatch!TerminalStates, States, Transitions, LiveStates, TerminalStates

LEMMA InWindowSteps ==
    ASSUME HostTyped, NEW p \in Procs, pc[p] # "idle", NEW l, l \notin Sending, l # "idle",
           Dispatch!InWindow(p, l)
    PROVE  Walks(p) /\ OpMoves
  <1>1. (Go(p, l) /\ op' = op) \/ (Leave(p) /\ Sweep)
    BY SameControl DEF Dispatch!InWindow
  <1> QED
    BY <1>1, GoWalks, LeaveWalks, SameMoves, SweepMoves DEF HostTyped

LEMMA SettleSteps ==
    ASSUME HostTyped, NEW p \in Procs, my[p].id \in Ids, NEW from, NEW to, Dispatch!Settle(p, from, to)
    PROVE  Walks(p) /\ OpMoves
  <1>1. /\ Leave(p)
        /\ op' = op \/ (Allowed(my[p].id, to) /\ SetState(my[p].id, to))
    BY SameControl, SameRows DEF Dispatch!Settle
  <1> QED
    BY <1>1, LeaveWalks, SameMoves, SetStateMoves DEF HostTyped

LEMMA ResultWalks ==
    ASSUME HostTyped, NEW p \in Procs, pc[p] # "idle", NEW to \in Sent, Dispatch!Result(p, to)
    PROVE  Walks(p)
  <1> DEFINE m == [my[p] EXCEPT !.to = to]
  <1>0. to \in States
    BY SentIsClosed
  <1>1. /\ m \in [id: 0 .. MaxOps, to: States \cup {"none"}, resuming: BOOLEAN, prior: BOOLEAN]
        /\ m.id = my[p].id
    BY <1>0 DEF HostTyped, LocalsTyped
  <1>2. /\ pc' = [pc EXCEPT ![p] = "result"] /\ lock' = lock
        /\ my' = [my EXCEPT ![p] = m]
    BY DEF Dispatch!Result, HostTyped, LocalsTyped
  <1>3. "result" \notin Sending /\ "result" # "idle"
    BY DEF Sending
  <1> HIDE DEF m
  <1> QED
    BY <1>1, <1>2, <1>3, RemembersWalks

\* Every step of a launch or a stop that neither records the intent nor sends.
LEMMA DispatchWalks ==
    ASSUME BrokerInv, NEW p \in Procs,
           \/ Dispatch!LaunchWindow(p) \/ Dispatch!LaunchGates(p) \/ Dispatch!LaunchRecheck(p)
           \/ Dispatch!LaunchPolicy(p) \/ Dispatch!LaunchAbort(p)
           \/ Dispatch!StopWindow(p) \/ Dispatch!StopObserve(p) \/ Dispatch!StopPolicy(p)
           \/ Dispatch!StopAbort(p) \/ Dispatch!StopRecheck(p) \/ Dispatch!StopConfirm(p)
           \/ Dispatch!RecordResult(p)
    PROVE  Walks(p) /\ OpMoves /\ asked' = asked
  <1>0. Typed /\ HostTyped /\ OpTyped /\ (pc[p] # "idle" => my[p].id \in Ids)
    BY DEF BrokerInv, Inside, Typed, HostTyped
  <1>1. \A l \in {"l_gates", "l_recheck", "l_policy", "l_intent", "l_abort", "s_observe", "s_policy",
                  "s_abort", "s_recheck", "s_intent"} : l \notin Sending /\ l # "idle"
    BY DEF Sending
  <1>2. pc[p] # "idle" /\ asked' = asked
    BY DEF Dispatch!LaunchWindow, Dispatch!LaunchGates, Dispatch!LaunchRecheck, Dispatch!LaunchPolicy,
           Dispatch!LaunchAbort, Dispatch!StopWindow, Dispatch!StopObserve, Dispatch!StopPolicy,
           Dispatch!StopAbort, Dispatch!StopRecheck, Dispatch!StopConfirm, Dispatch!RecordResult,
           Dispatch!At, Dispatch!Quietly
  <1>3. CASE Dispatch!LaunchWindow(p) \/ Dispatch!StopWindow(p) \/ Dispatch!StopRecheck(p)
    <2>1. \E l \in {"l_gates", "s_observe", "s_intent"} : Dispatch!InWindow(p, l)
      BY <1>3 DEF Dispatch!LaunchWindow, Dispatch!StopWindow, Dispatch!StopRecheck
    <2> QED
      BY <1>0, <1>1, <1>2, <2>1, InWindowSteps
  <1>4. CASE Dispatch!LaunchRecheck(p)
    <2>1. Dispatch!InWindow(p, "l_policy") \/ (Leave(p) /\ op' = op)
      BY <1>4, SameControl DEF Dispatch!LaunchRecheck
    <2> QED
      BY <1>0, <1>1, <1>2, <2>1, InWindowSteps, LeaveWalks, SameMoves
  <1>5. CASE \/ Dispatch!LaunchGates(p) \/ Dispatch!LaunchPolicy(p)
             \/ Dispatch!StopObserve(p) \/ Dispatch!StopPolicy(p)
    <2>1. op' = op
      BY <1>5 DEF Dispatch!LaunchGates, Dispatch!LaunchPolicy, Dispatch!StopObserve, Dispatch!StopPolicy
    <2>2. \/ Leave(p)
          \/ \E l \in {"l_recheck", "l_intent", "l_abort", "s_policy", "s_abort", "s_recheck"} : Go(p, l)
      BY <1>5, SameControl
         DEF Dispatch!LaunchGates, Dispatch!LaunchPolicy, Dispatch!StopObserve, Dispatch!StopPolicy
    <2> QED
      BY <1>0, <1>1, <1>2, <2>1, <2>2, GoWalks, LeaveWalks, SameMoves
  <1>6. CASE Dispatch!LaunchAbort(p) \/ Dispatch!StopAbort(p) \/ Dispatch!RecordResult(p)
    <2>1. \E from, to : Dispatch!Settle(p, from, to)
      BY <1>6 DEF Dispatch!LaunchAbort, Dispatch!StopAbort, Dispatch!RecordResult
    <2> QED
      BY <1>0, <1>2, <2>1, SettleSteps
  <1>7. CASE Dispatch!StopConfirm(p)
    <2>1. op' = op /\ \E to \in Sent : Dispatch!Result(p, to)
      BY <1>7 DEF Dispatch!StopConfirm, Sent
    <2> QED
      BY <1>0, <1>2, <2>1, ResultWalks, SameMoves
  <1> QED
    BY <1>2, <1>3, <1>4, <1>5, <1>6, <1>7

\* The intent is recorded: nothing has been sent for a row still authorized.
LEMMA IntentKeeps ==
    ASSUME BrokerInv, NEW p \in Procs, denied[p] = NoDenial, UNCHANGED denied,
           Dispatch!LaunchIntent(p) \/ Dispatch!StopIntent(p)
    PROVE  BrokerInv'
  <1>0. Typed /\ HostTyped /\ OpTyped
    BY DEF BrokerInv, Typed, HostTyped
  <1>1. pc[p] # "idle" /\ asked' = asked
    BY DEF Dispatch!LaunchIntent, Dispatch!StopIntent, Dispatch!At, Dispatch!Quietly
  <1>2. my[p].id \in Ids /\ lock = p
    BY <1>1 DEF BrokerInv, Inside
  <1>3. \/ Leave(p) /\ op' = op
        \/ /\ op[my[p].id].state = "authorized" /\ Allowed(my[p].id, "dispatch_pending")
           /\ SetState(my[p].id, "dispatch_pending")
           /\ \E l \in Sending : Go(p, l)
    BY SameControl, SameRows
       DEF Dispatch!LaunchIntent, Dispatch!StopIntent, Dispatch!AdvanceFrom, Dispatch!Advance,
           Dispatch!Row, Sending
  <1>4. CASE Leave(p) /\ op' = op
    BY <1>0, <1>1, <1>4, LeaveWalks, SameMoves, WalkKeeps
  <1>5. CASE /\ op[my[p].id].state = "authorized" /\ Allowed(my[p].id, "dispatch_pending")
             /\ SetState(my[p].id, "dispatch_pending")
             /\ \E l \in Sending : Go(p, l)
    <2>1. OpMoves
      BY <1>0, <1>2, <1>5, SetStateMoves
    <2>2. /\ pc' = [pc EXCEPT ![p] = pc'[p]] /\ pc'[p] \in Sending
          /\ lock' = lock /\ my' = my
      BY <1>0, <1>5 DEF Go, Typed, HostTyped, PlacesTyped
    <2>3. Typed'
      BY <1>0, <1>1, <2>1, <2>2
         DEF Typed, HostTyped, OpMoves, PlacesTyped, LocalsTyped, DenialsTyped, AskedTyped
    <2>4. ASSUME NEW q \in Procs, q # p
          PROVE  Inside(q)' /\ Unsent(q)'
      <3>1. pc'[q] = pc[q]
        BY <1>0, <2>2, <2>4 DEF Typed, HostTyped, PlacesTyped
      <3> QED
        BY <1>1, <2>1, <2>2, <3>1, BystanderKeeps
    <2>5. Inside(p)'
      BY <1>1, <1>2, <2>2 DEF BrokerInv, Inside
    <2>6. Unsent(p)'
      <3>1. op'[my[p].id].state = "dispatch_pending"
        BY <1>0, <1>2, <1>5 DEF SetState, OpTyped
      <3>2. "authorized" \notin Sent /\ "dispatch_pending" \in Sent
        BY DEF Sent
      <3>3. Told(my[p].id) /\ asked[my[p].id] \in Nat
        BY <1>0, <1>2 DEF BrokerInv, Typed, HostTyped, AskedTyped
      <3>4. asked[my[p].id] = 0
        BY <1>5, <3>2, <3>3 DEF Told
      <3> QED
        BY <1>1, <2>2, <3>1, <3>2, <3>4 DEF Unsent
    <2> QED
      BY <1>1, <2>1, <2>3, <2>4, <2>5, <2>6, ToldStays DEF BrokerInv
  <1> QED
    BY <1>3, <1>4, <1>5

\* The request leaves, once: its intent is recorded and nothing was sent.
LEMMA SendKeeps ==
    ASSUME BrokerInv, NEW p \in Procs, denied[p] = NoDenial, UNCHANGED denied,
           Dispatch!LaunchSend(p) \/ Dispatch!StopAsk(p)
    PROVE  BrokerInv'
  <1>0. Typed /\ HostTyped /\ OpTyped
    BY DEF BrokerInv, Typed, HostTyped
  <1>1. pc[p] # "idle" /\ pc[p] \in Sending /\ op' = op
    BY DEF Dispatch!LaunchSend, Dispatch!StopAsk, Dispatch!At, Sending
  <1>2. my[p].id \in Ids /\ asked[my[p].id] = 0 /\ op[my[p].id].state \in Sent
    BY <1>1 DEF BrokerInv, Inside, Unsent
  <1>3. asked' = asked \/ asked' = [asked EXCEPT ![my[p].id] = asked[my[p].id] + 1]
    BY DEF Dispatch!LaunchSend, Dispatch!StopAsk, Dispatch!Ask
  <1>4. Walks(p)
    <2>1. \/ \E to \in Sent : Dispatch!Result(p, to)
          \/ Go(p, "s_confirm")
      BY SameControl DEF Dispatch!LaunchSend, Dispatch!StopAsk, Sent
    <2>2. "s_confirm" \notin Sending /\ "s_confirm" # "idle"
      BY DEF Sending
    <2> QED
      BY <1>0, <1>1, <2>1, <2>2, ResultWalks, GoWalks
  <1>5. OpMoves
    BY <1>0, <1>1, SameMoves
  <1>6. CASE asked' = asked
    BY <1>4, <1>5, <1>6, WalkKeeps
  <1>7. CASE asked' = [asked EXCEPT ![my[p].id] = asked[my[p].id] + 1]
    <2>1. /\ asked' \in [Ids -> Nat] /\ asked'[my[p].id] = 1
          /\ \A i \in Ids \ {my[p].id} : asked'[i] = asked[i]
      BY <1>0, <1>2, <1>7 DEF Typed, HostTyped, AskedTyped
    <2>2. Typed'
      BY <1>0, <1>4, <1>5, <2>1
         DEF Typed, HostTyped, OpMoves, Walks, Mine, PlacesTyped, LocalsTyped, DenialsTyped, AskedTyped
    <2>3. \A i \in Ids : Told(i)'
      BY <1>1, <1>2, <2>1 DEF BrokerInv, Told
    <2>4. ASSUME NEW q \in Procs, q # p
          PROVE  Inside(q)' /\ Unsent(q)'
      <3>1. lock = p /\ pc'[q] = pc[q] /\ my'[q] = my[q]
        BY <1>0, <1>1, <1>4, <2>4 DEF BrokerInv, Inside, Walks, Mine, Typed, HostTyped, PlacesTyped, LocalsTyped
      <3>2. Inside(q) /\ pc[q] = "idle"
        BY <2>4, <3>1 DEF BrokerInv, Inside
      <3> QED
        BY <2>4, <3>1, <3>2 DEF Inside, Unsent, Sending
    <2>5. Inside(p)' /\ Unsent(p)'
      <3>1. Inside(p) /\ lock = p /\ NoDenial.at = "idle"
        BY <1>1 DEF BrokerInv, Inside, NoDenial
      <3> QED
        BY <1>1, <1>4, <3>1 DEF Walks, Stays, Leaves, Enters, Waits, Inside, Unsent
    <2> QED
      BY <2>2, <2>3, <2>4, <2>5 DEF BrokerInv
  <1> QED
    BY <1>3, <1>6, <1>7

LEMMA DispatchingKeeps ==
    ASSUME BrokerInv, NEW p \in Procs, Dispatching(p), UNCHANGED denied
    PROVE  BrokerInv'
  <1>0. Typed /\ HostTyped /\ OpTyped /\ denied[p] = NoDenial
    BY DEF BrokerInv, Typed, HostTyped, Dispatching
  <1>1. CASE Dispatch!BeginDispatch(p)
    <2>1. PICK i \in Ids, l \in {"l_window", "s_window"} : Enter(p, l, [Nothing EXCEPT !.id = i])
      BY <1>1, SameControl
         DEF Dispatch!BeginDispatch, Dispatch!Ids, Ids, Dispatch!Nothing, Nothing
    <2>2. op' = op /\ asked' = asked
      BY <1>1 DEF Dispatch!BeginDispatch, Dispatch!Quietly
    <2> DEFINE m == [Nothing EXCEPT !.id = i]
    <2>3. /\ m \in [id: 0 .. MaxOps, to: States \cup {"none"}, resuming: BOOLEAN, prior: BOOLEAN]
          /\ m.id = i
      <3>1. i \in 0 .. MaxOps
        BY HostAssumption DEF Ids
      <3> QED
        BY <3>1, NothingIsLocal DEF Nothing
    <2>4. l \notin Sending
      BY DEF Sending
    <2>5. Enter(p, l, m)
      BY <2>1
    <2> HIDE DEF m
    <2>6. Walks(p) /\ OpMoves
      BY <1>0, <2>2, <2>3, <2>4, <2>5, EnterWalks, SameMoves
    <2> QED
      BY <1>0, <2>2, <2>6, WalkKeeps
  <1>2. CASE Dispatch!RecoverDispatch(p)
    <2>1. PICK i \in Ids : /\ op[i].state = "dispatch_pending" /\ SetState(i, "unconfirmed")
                           /\ UNCHANGED <<lock, pc, my, asked>>
      BY <1>2, SameRows DEF Dispatch!RecoverDispatch, Dispatch!Quietly, Dispatch!Ids, Ids
    <2>2. Allowed(i, "unconfirmed")
      <3>1. "dispatch_pending" \in States /\ "unconfirmed" \in Transitions["dispatch_pending"]
        BY DEF Transitions, States, LiveStates
      <3> QED
        BY <2>1, <3>1 DEF Allowed
    <2>3. OpMoves
      BY <1>0, <2>1, <2>2, SetStateMoves
    <2> QED
      BY <2>1, <2>3, AroundKeeps
  <1>3. CASE Dispatch!ContinueDispatch(p)
    <2>1. CASE Dispatch!LaunchIntent(p) \/ Dispatch!StopIntent(p)
      BY <1>0, <2>1, IntentKeeps
    <2>2. CASE Dispatch!LaunchSend(p) \/ Dispatch!StopAsk(p)
      BY <1>0, <2>2, SendKeeps
    <2>3. CASE ~(Dispatch!LaunchIntent(p) \/ Dispatch!StopIntent(p)
                 \/ Dispatch!LaunchSend(p) \/ Dispatch!StopAsk(p))
      <3>1. Walks(p) /\ OpMoves /\ asked' = asked
        BY <1>3, <2>3, DispatchWalks DEF Dispatch!ContinueDispatch
      <3> QED
        BY <1>0, <3>1, WalkKeeps
    <2> QED
      BY <2>1, <2>2, <2>3
  <1> QED
    BY <1>1, <1>2, <1>3 DEF Dispatching

-----------------------------------------------------------------------------
\* A refused run or confirm: its own record moves, no other process does.
Refuses(p) ==
    /\ denied' = [denied EXCEPT ![p] = denied'[p]]
    /\ denied'[p] \in [at: {"idle", "release", "releasing", "abort"}, id: 0 .. MaxOps,
                       seen: States \cup {"none"}]
    /\ my' = [my EXCEPT ![p] = my'[p]]
    /\ my'[p] \in [id: 0 .. MaxOps, to: States \cup {"none"}, resuming: BOOLEAN, prior: BOOLEAN]
    /\ pc' = pc /\ asked' = asked
    /\ pc[p] = "idle"
    /\ denied'[p].at # "idle" =>
           denied'[p].id \in Ids /\ denied'[p].seen \in {"authorized", "interrupted"}
    /\ denied'[p].at = "releasing" => lock' = p
    /\ lock' # lock => lock \in {p, NoProc}

LEMMA RefusesKeeps ==
    ASSUME BrokerInv, OpMoves, NEW p \in Procs, Refuses(p)
    PROVE  BrokerInv'
  <1>1. Typed'
    <2>1. Typed
      BY DEF BrokerInv
    <2>2. OpTyped' /\ PlacesTyped' /\ AskedTyped'
      BY <2>1 DEF OpMoves, Refuses, Typed, HostTyped, PlacesTyped, AskedTyped
    <2>3. LocalsTyped'
      BY <2>1 DEF Refuses, Typed, HostTyped, LocalsTyped
    <2>4. DenialsTyped'
      BY <2>1 DEF Refuses, Typed, HostTyped, DenialsTyped
    <2> QED
      BY <2>2, <2>3, <2>4 DEF Typed, HostTyped
  <1>2. ASSUME NEW q \in Procs, q # p
        PROVE  Inside(q)' /\ Unsent(q)'
    <2>1. pc'[q] = pc[q] /\ my'[q] = my[q] /\ denied'[q] = denied[q] /\ asked' = asked
      BY <1>2 DEF Refuses, BrokerInv, Typed, HostTyped, LocalsTyped, DenialsTyped
    <2>2. lock = q => lock' = q
      BY <1>2, HostAssumption DEF Refuses
    <2> QED
      BY <2>1, <2>2, BystanderKeeps
  <1>3. Inside(p)' /\ Unsent(p)'
    <2>1. "idle" \notin Sending
      BY DEF Sending
    <2> QED
      BY <2>1 DEF Refuses, Inside, Unsent
  <1> QED
    BY <1>1, <1>2, <1>3, ToldStays DEF BrokerInv, Refuses

LEMMA NoDenialTyped ==
    /\ NoDenial \in [at: {"idle", "release", "releasing", "abort"}, id: 0 .. MaxOps,
                     seen: States \cup {"none"}]
    /\ NoDenial.at = "idle"
  BY HostAssumption DEF NoDenial

LEMMA ForgetRefuses ==
    ASSUME BrokerInv, NEW p \in Procs, denied[p].at # "idle", Forget(p),
           UNCHANGED <<pc, asked>>,
           my' = [my EXCEPT ![p] = my'[p]],
           my'[p] \in [id: 0 .. MaxOps, to: States \cup {"none"}, resuming: BOOLEAN, prior: BOOLEAN],
           lock' # lock => lock = p
    PROVE  Refuses(p)
  <1>1. denied' = [denied EXCEPT ![p] = NoDenial] /\ denied'[p] = NoDenial
    BY DEF Forget, BrokerInv, Typed, HostTyped, DenialsTyped
  <1>2. pc[p] = "idle"
    BY DEF BrokerInv, Inside
  <1> QED
    BY <1>1, <1>2, NoDenialTyped DEF Refuses

LEMMA RefusalRefuses ==
    ASSUME BrokerInv, NEW p \in Procs, Refusal(p)
    PROVE  Refuses(p) /\ OpMoves
  <1>0. Typed /\ HostTyped /\ OpTyped /\ Inside(p)
    BY DEF BrokerInv, Typed, HostTyped
  <1>m. /\ my[p] \in [id: 0 .. MaxOps, to: States \cup {"none"}, resuming: BOOLEAN, prior: BOOLEAN]
        /\ my = [my EXCEPT ![p] = my[p]]
        /\ denied[p] \in [at: {"idle", "release", "releasing", "abort"}, id: 0 .. MaxOps,
                          seen: States \cup {"none"}]
    BY <1>0 DEF Typed, HostTyped, LocalsTyped, DenialsTyped
  <1>s. {"authorized", "interrupted"} \subseteq States
    BY DEF States, LiveStates
  <1>1. CASE RefuseRun(p) \/ RefuseConfirm(p)
    <2>1. PICK i \in Ids, at \in {"release", "abort"}, seen \in {"authorized", "interrupted"} :
            denied' = [denied EXCEPT ![p] = [at |-> at, id |-> i, seen |-> seen]]
      BY <1>1 DEF RefuseRun, RefuseConfirm
    <2>2. UNCHANGED <<op, lock, pc, my, asked>> /\ pc[p] = "idle"
      BY <1>1 DEF RefuseRun, RefuseConfirm, World, Free
    <2> DEFINE d == [at |-> at, id |-> i, seen |-> seen]
    <2>3. /\ d \in [at: {"idle", "release", "releasing", "abort"}, id: 0 .. MaxOps,
                    seen: States \cup {"none"}]
          /\ d.at # "releasing" /\ d.id = i /\ d.seen = seen
      BY <1>s, HostAssumption DEF Ids
    <2>4. denied' = [denied EXCEPT ![p] = d]
      BY <2>1
    <2> HIDE DEF d
    <2>5. denied'[p] = d
      BY <1>0, <2>4 DEF Typed, HostTyped, DenialsTyped
    <2> QED
      BY <1>0, <1>m, <2>2, <2>3, <2>4, <2>5, SameMoves DEF Refuses
  <1>2. CASE EnterRelease(p)
    <2>0. denied[p].at = "release" /\ UNCHANGED <<op, pc, asked>>
      BY <1>2 DEF EnterRelease, World
    <2>1. CASE Forget(p) /\ UNCHANGED <<lock, my>>
      BY <1>0, <1>m, <2>0, <2>1, ForgetRefuses, SameMoves
    <2>2. CASE ~(Forget(p) /\ UNCHANGED <<lock, my>>)
      <3> DEFINE m == [Nothing EXCEPT !.id = denied[p].id, !.prior = op[denied[p].id].prior]
                 d == [denied[p] EXCEPT !.at = "releasing"]
      <3>1. /\ lock = NoProc /\ lock' = p
            /\ my' = [my EXCEPT ![p] = m]
            /\ denied' = [denied EXCEPT ![p].at = "releasing"]
        BY <1>2, <2>2 DEF EnterRelease, Step
      <3>2. denied[p].id \in Ids /\ denied[p].id \in 0 .. MaxOps
            /\ denied[p].seen \in {"authorized", "interrupted"} /\ pc[p] = "idle"
        BY <1>0, <2>0, HostAssumption DEF Inside, Ids
      <3>3. op[denied[p].id].prior \in BOOLEAN
        BY <1>0, <3>2 DEF OpTyped
      <3>4. m \in [id: 0 .. MaxOps, to: States \cup {"none"}, resuming: BOOLEAN, prior: BOOLEAN]
        BY <3>2, <3>3, NothingIsLocal
      <3>5. /\ d \in [at: {"idle", "release", "releasing", "abort"}, id: 0 .. MaxOps,
                      seen: States \cup {"none"}]
            /\ d.id = denied[p].id /\ d.seen = denied[p].seen
        BY <1>m
      <3>6. denied' = [denied EXCEPT ![p] = d]
        BY <1>0, <3>1 DEF Typed, HostTyped, DenialsTyped
      <3> HIDE DEF m, d
      <3>7. denied'[p] = d /\ my'[p] = m
        BY <1>0, <3>1, <3>6 DEF Typed, HostTyped, LocalsTyped, DenialsTyped
      <3> QED
        BY <1>0, <2>0, <3>1, <3>2, <3>4, <3>5, <3>6, <3>7, SameMoves DEF Refuses
    <2> QED
      BY <2>1, <2>2
  <1>3. CASE LeaveRelease(p)
    <2>0. /\ denied[p].at = "releasing" /\ UNCHANGED <<op, pc, asked>>
          /\ lock' = NoProc /\ my' = [my EXCEPT ![p] = Nothing]
      BY <1>3 DEF LeaveRelease
    <2>1. lock = p /\ pc[p] = "idle" /\ denied[p].id \in Ids
          /\ denied[p].seen \in {"authorized", "interrupted"}
      BY <1>0, <2>0 DEF Inside
    <2>2. my'[p] = Nothing
      BY <1>0, <2>0 DEF Typed, HostTyped, LocalsTyped
    <2>3. CASE Forget(p)
      BY <1>0, <2>0, <2>1, <2>2, <2>3, NothingIsLocal, ForgetRefuses, SameMoves
    <2>4. CASE Step(p, "abort")
      <3> DEFINE d == [denied[p] EXCEPT !.at = "abort"]
      <3>1. /\ d \in [at: {"idle", "release", "releasing", "abort"}, id: 0 .. MaxOps,
                      seen: States \cup {"none"}]
            /\ d.at = "abort" /\ d.id = denied[p].id /\ d.seen = denied[p].seen
        BY <1>m
      <3>2. denied' = [denied EXCEPT ![p] = d]
        BY <1>0, <2>4 DEF Step, Typed, HostTyped, DenialsTyped
      <3> HIDE DEF d
      <3>3. denied'[p] = d
        BY <1>0, <3>2 DEF Typed, HostTyped, DenialsTyped
      <3> QED
        BY <1>0, <2>0, <2>1, <2>2, <3>1, <3>2, <3>3, NothingIsLocal, SameMoves DEF Refuses
    <2> QED
      BY <1>3, <2>3, <2>4 DEF LeaveRelease
  <1>4. CASE AbortRefused(p)
    <2>0. denied[p].at = "abort" /\ Forget(p) /\ UNCHANGED <<lock, pc, my, asked>>
      BY <1>4 DEF AbortRefused, World
    <2>1. Refuses(p)
      BY <1>m, <2>0, ForgetRefuses
    <2>2. denied[p].id \in Ids
      BY <1>0, <2>0 DEF Inside
    <2>3. op' = op \/ (Allowed(denied[p].id, "aborted") /\ SetState(denied[p].id, "aborted"))
      BY <1>4 DEF AbortRefused
    <2> QED
      BY <1>0, <2>1, <2>2, <2>3, SetStateMoves, SameMoves
  <1>5. CASE CrashRefused(p)
    <2>0. /\ denied[p] # NoDenial /\ Forget(p) /\ UNCHANGED <<op, pc, asked>>
          /\ lock' = IF lock = p THEN NoProc ELSE lock
          /\ my' = [my EXCEPT ![p] = IF lock = p THEN Nothing ELSE @]
      BY <1>5 DEF CrashRefused, World
    <2>1. /\ my' = [my EXCEPT ![p] = my'[p]]
          /\ my'[p] \in [id: 0 .. MaxOps, to: States \cup {"none"}, resuming: BOOLEAN, prior: BOOLEAN]
      BY <1>0, <1>m, <2>0, NothingIsLocal DEF Typed, HostTyped, LocalsTyped
    <2>2. pc[p] = "idle" /\ denied'[p] = NoDenial /\ denied' = [denied EXCEPT ![p] = denied'[p]]
      BY <1>0, <2>0 DEF Inside, Forget, Typed, HostTyped, DenialsTyped
    <2> QED
      BY <1>0, <2>0, <2>1, <2>2, NoDenialTyped, SameMoves DEF Refuses
  <1> QED
    BY <1>1, <1>2, <1>3, <1>4, <1>5 DEF Refusal

-----------------------------------------------------------------------------
LEMMA BrokerInitially == BrokerInit => BrokerInv
  <1> SUFFICES ASSUME BrokerInit
               PROVE  BrokerInv
    OBVIOUS
  <1>1. /\ op = [i \in Ids |-> NoOp] /\ pc = [p \in Procs |-> "idle"]
        /\ my = [p \in Procs |-> Nothing] /\ denied = [p \in Procs |-> NoDenial]
        /\ asked = [i \in Ids |-> 0]
    BY DEF BrokerInit, ContentInitAll, HostInit, Dispatch!DispatchInit, Dispatch!Ids, Ids
  <1>2. OpTyped /\ AskedTyped
    BY <1>1 DEF OpTyped, AskedTyped, NoOp
  <1>3. PlacesTyped /\ LocalsTyped /\ DenialsTyped
    BY <1>1, NothingIsLocal, NoDenialTyped DEF PlacesTyped, LocalsTyped, DenialsTyped
  <1>4. ASSUME NEW p \in Procs
        PROVE  Inside(p) /\ Unsent(p)
    BY <1>1, NoDenialTyped DEF Inside, Unsent, Sending
  <1>5. \A i \in Ids : Told(i)
    BY <1>1 DEF Told
  <1> QED
    BY <1>2, <1>3, <1>4, <1>5 DEF BrokerInv, Typed, HostTyped

LEMMA BrokerStep ==
    ASSUME BrokerInv, [BrokerNext]_bvars
    PROVE  BrokerInv'
  <1>1. CASE Environment /\ UNCHANGED <<asked, denied>>
    BY <1>1, EnvironmentKeeps
  <1>2. ASSUME NEW p \in Procs, Execution(p), UNCHANGED denied
        PROVE  BrokerInv'
    BY <1>2, ExecutionKeeps
  <1>3. ASSUME NEW p \in Procs, Dispatching(p), UNCHANGED denied
        PROVE  BrokerInv'
    BY <1>3, DispatchingKeeps
  <1>4. ASSUME NEW p \in Procs, Refusal(p)
        PROVE  BrokerInv'
    BY <1>4, RefusalRefuses, RefusesKeeps
  <1>5. CASE UNCHANGED bvars
    <2>1. UNCHANGED <<op, lock, pc, my, asked, denied>>
      BY <1>5 DEF bvars, hostVars
    <2> QED
      BY <2>1, SameMoves, AroundKeeps DEF BrokerInv, Typed, HostTyped
  <1> QED
    BY <1>1, <1>2, <1>3, <1>4, <1>5 DEF BrokerNext

LEMMA ToldIsEnough == BrokerInv => NeverReplayed /\ IntentDurable
  BY DEF BrokerInv, Told, Sent, NeverReplayed, IntentDurable, Dispatch!NeverReplayed,
         Dispatch!IntentDurable, Dispatch!Ids, Ids

-----------------------------------------------------------------------------
\* What a command has recorded, by the place where it stands.
AdoptingAt == {"journal", "swap", "repair", "repair_stop", "repair_recheck", "swapped"}
RestartingAt == {"clear", "restart", "verify"}
RequestedAt == {"l_send", "s_ask", "s_confirm", "result"}
StoppingAt == {"s_window", "s_observe", "s_policy", "s_abort"}

\* Rows that only a command inside the lock moves on, and rows of a stop that
\* has not begun.
Taken == {"lease_acquired", "client_stopping", "content_running", "adopting",
          "client_restart_pending", "verifying", "dispatch_pending"}
Unbegun == {"authorized", "aborted", "expired"}

RowTaken(p) ==
    /\ pc[p] = "leased" => op[my[p].id].state = "lease_acquired"
    /\ pc[p] = "stop" => op[my[p].id].state = "client_stopping"
    /\ pc[p] \in Running => op[my[p].id].state = "content_running"
    /\ pc[p] \in AdoptingAt => op[my[p].id].state = "adopting"
    /\ pc[p] \in RestartingAt => op[my[p].id].state \in {"client_restart_pending", "verifying"}
    /\ pc[p] = "verdict" => op[my[p].id].state = "verifying"
    /\ pc[p] \in RequestedAt => op[my[p].id].state = "dispatch_pending"
    /\ pc[p] \in StoppingAt => op[my[p].id].state \in Unbegun

TakenInv == Accounted /\ \A p \in Procs : RowTaken(p) /\ WritersKnown(p)

\* What no step outside the lock does to a row.
RowsSpared ==
    \A i \in Ids :
        /\ op[i].state \in Taken => op'[i].state = op[i].state
        /\ op[i].state \in Unbegun => op'[i].state \in Unbegun

\* Places that ask nothing of the row or of the writers.
Uncommitted ==
    {"idle", "window", "intake", "fail", "release", "l_window", "l_gates", "l_recheck",
     "l_policy", "l_intent", "l_abort", "s_recheck", "s_intent"}

LEMMA UncommittedHolds ==
    ASSUME NEW p \in Procs, pc'[p] \in Uncommitted
    PROVE  RowTaken(p)' /\ WritersKnown(p)'
  BY DEF RowTaken, WritersKnown, Uncommitted, Running, Clear, AdoptingAt, RestartingAt, RequestedAt,
         StoppingAt

\* A step that leaves every command where it is, and its row to it.
LEMMA AroundSpares ==
    ASSUME BrokerInv, TakenInv, pc' = pc, RowsSpared,
           \A q \in Procs : pc[q] # "idle" => my'[q] = my[q],
           \/ writers' = writers
           \/ writers' = writers - 1 /\ writers > 0 /\ \A q \in Procs : pc[q] # "installing"
    PROVE  TakenInv'
  <1>1. Accounted'
    BY DEF TakenInv, Accounted, SingleWriter, WriterHasRow, RowsSpared, Taken
  <1>2. ASSUME NEW q \in Procs
        PROVE  RowTaken(q)' /\ WritersKnown(q)'
    <2>1. CASE pc[q] = "idle"
      BY <2>1, UncommittedHolds DEF Uncommitted
    <2>2. CASE pc[q] # "idle"
      <3>1. my[q].id \in Ids /\ my'[q] = my[q] /\ RowTaken(q) /\ WritersKnown(q)
        BY <2>2 DEF BrokerInv, Inside, TakenInv
      <3>2. PICK i \in Ids : i = my[q].id
        BY <3>1
      <3>3. /\ op[i].state \in Taken => op'[i].state = op[i].state
            /\ op[i].state \in Unbegun => op'[i].state \in Unbegun
        BY DEF RowsSpared
      <3>4. RowTaken(q)'
        BY <3>1, <3>2, <3>3 DEF RowTaken, Taken
      <3>5. WritersKnown(q)'
        BY <3>1 DEF WritersKnown, TakenInv, Accounted
      <3> QED
        BY <3>4, <3>5
    <2> QED
      BY <2>1, <2>2
  <1> QED
    BY <1>1, <1>2 DEF TakenInv

\* A step of the one command inside the lock.
LEMMA MoverKeeps ==
    ASSUME BrokerInv, TakenInv, NEW p \in Procs, pc[p] # "idle" \/ lock = NoProc,
           pc' = [pc EXCEPT ![p] = pc'[p]], RowTaken(p)', WritersKnown(p)', Accounted'
    PROVE  TakenInv'
  <1>1. ASSUME NEW q \in Procs, q # p
        PROVE  RowTaken(q)' /\ WritersKnown(q)'
    <2>1. pc[q] = "idle"
      BY <1>1, HostAssumption DEF BrokerInv, Inside
    <2>2. pc'[q] = "idle"
      BY <1>1, <2>1 DEF BrokerInv, Typed, HostTyped, PlacesTyped
    <2> QED
      BY <2>2, UncommittedHolds DEF Uncommitted
  <1> QED
    BY <1>1 DEF TakenInv

\* The rows and the writers, when at most one row moves.
LEMMA AccountKeeps ==
    ASSUME TakenInv, NEW i \in Ids, \A j \in Ids \ {i} : op'[j] = op[j],
           writers' \in Nat, writers' <= writers,
           op[i].state = "content_running" => writers = 0 \/ op'[i].state = "content_running"
    PROVE  Accounted'
  BY DEF TakenInv, Accounted, SingleWriter, WriterHasRow

LEMMA SameAccount ==
    ASSUME TakenInv, op' = op, writers' \in Nat, writers' <= writers
    PROVE  Accounted'
  BY DEF TakenInv, Accounted, SingleWriter, WriterHasRow

LEMMA SweepSpares ==
    ASSUME TakenInv, OpTyped, Sweep
    PROVE  RowsSpared /\ (writers' = writers => Accounted')
  <1>1. RowsSpared
    <2> SUFFICES ASSUME NEW i \in Ids
                 PROVE  /\ op[i].state \in Taken => op'[i].state = op[i].state
                        /\ op[i].state \in Unbegun => op'[i].state \in Unbegun
      BY DEF RowsSpared
    <2>1. op'[i].state = op[i].state \/ (op[i].state = "authorized" /\ op'[i].state = "expired")
      <3>1. CASE op[i].state = "authorized" /\ ~op[i].open
        <4>1. op'[i] = [op[i] EXCEPT !.state = "expired"]
          BY <3>1 DEF Sweep
        <4> QED
          BY <3>1, <4>1 DEF OpTyped
      <3>2. CASE ~(op[i].state = "authorized" /\ ~op[i].open)
        BY <3>2 DEF Sweep
      <3> QED
        BY <3>1, <3>2
    <2> QED
      BY <2>1 DEF Taken, Unbegun
  <1>2. writers' = writers => Accounted'
    BY <1>1 DEF TakenInv, Accounted, SingleWriter, WriterHasRow, RowsSpared, Taken
  <1> QED
    BY <1>1, <1>2

-----------------------------------------------------------------------------
\* The places a command goes on to.
LEMMA Arrives ==
    ASSUME HostTyped, NEW p \in Procs
    PROVE  /\ \A l : Go(p, l) => pc' = [pc EXCEPT ![p] = l] /\ pc'[p] = l /\ my' = my
           /\ \A to : Fail(p, to) => pc' = [pc EXCEPT ![p] = "fail"] /\ pc'[p] = "fail"
           /\ Leave(p) => pc' = [pc EXCEPT ![p] = "idle"] /\ pc'[p] = "idle"
           /\ \A l, m : Enter(p, l, m) =>
                 /\ pc' = [pc EXCEPT ![p] = l] /\ pc'[p] = l /\ my'[p] = m
                 /\ pc[p] = "idle" /\ lock = NoProc
  BY DEF Go, Fail, Leave, Enter, HostTyped, PlacesTyped, LocalsTyped

LEMMA AdvanceArrives ==
    ASSUME BrokerInv, NEW p \in Procs, pc[p] # "idle", NEW to, NEW l, Advance(p, to, l)
    PROVE  /\ pc' = [pc EXCEPT ![p] = pc'[p]]
           /\ \A j \in Ids \ {my[p].id} : op'[j] = op[j]
           /\ \/ pc'[p] = "idle" /\ op' = op
              \/ pc'[p] = l /\ my' = my /\ op'[my[p].id].state = to
  <1>0. HostTyped /\ OpTyped /\ my[p].id \in Ids
    BY DEF BrokerInv, Typed, HostTyped, Inside
  <1>1. CASE Allowed(my[p].id, to) /\ SetState(my[p].id, to) /\ Go(p, l)
    <2>1. pc' = [pc EXCEPT ![p] = pc'[p]] /\ pc'[p] = l /\ my' = my
      BY <1>0, <1>1, Arrives
    <2>2. /\ \A j \in Ids \ {my[p].id} : op'[j] = op[j]
          /\ op'[my[p].id].state = to
      BY <1>0, <1>1 DEF SetState, OpTyped
    <2> QED
      BY <2>1, <2>2
  <1>2. CASE Leave(p) /\ UNCHANGED op
    BY <1>0, <1>2, Arrives
  <1> QED
    BY <1>1, <1>2 DEF Advance

\* The steps of a content command that leave the rows alone.
LEMMA QuietTaken ==
    ASSUME BrokerInv, TakenInv, NEW p \in Procs,
           \/ DeferIntake(p) \/ RefuseIntake(p) \/ StopClient(p)
           \/ StopForResume(p) \/ RegressAfterStop(p) \/ MarkTarget(p) \/ SpawnSteamcmd(p)
           \/ SteamcmdEnds(p) \/ KillSteamcmd(p) \/ CheckInstalled(p) \/ ReassertStopped(p)
           \/ WriteJournal(p) \/ SwapManifest(p) \/ RepairAdoption(p) \/ ClearJournal(p)
           \/ RestartClient(p) \/ RestoreForFailure(p) \/ Release(p) \/ StopForRepair(p)
           \/ RecheckForRepair(p)
    PROVE  TakenInv'
  <1>0. HostTyped /\ RowTaken(p) /\ WritersKnown(p) /\ writers \in Nat /\ (pc[p] # "idle" => my[p].id \in Ids)
    BY DEF BrokerInv, Typed, Inside, TakenInv, Accounted
  <1>1. op' = op /\ pc[p] # "idle"
    BY DEF DeferIntake, RefuseIntake, StopClient, StopForResume, RegressAfterStop, MarkTarget,
           SpawnSteamcmd, SteamcmdEnds, KillSteamcmd, CheckInstalled, ReassertStopped,
           WriteJournal, SwapManifest, RepairAdoption, ClearJournal, RestartClient,
           RestoreForFailure, Release, StopForRepair, RecheckForRepair, Locally, At
  <1>2. CASE SpawnSteamcmd(p)
    <2>1. pc[p] = "spawn" /\ writers = 0 /\ op[my[p].id].state = "content_running"
      BY <1>0, <1>2 DEF SpawnSteamcmd, At, WritersKnown, RowTaken, Clear, Running
    <2>2. CASE writers' = writers + 1 /\ Go(p, "installing")
      <3>1. pc' = [pc EXCEPT ![p] = pc'[p]] /\ pc'[p] = "installing" /\ my' = my /\ writers' = 1
        BY <1>0, <2>1, <2>2, Arrives
      <3>2. RowTaken(p)'
        BY <1>1, <2>1, <3>1 DEF RowTaken, Running, AdoptingAt, RestartingAt, RequestedAt, StoppingAt
      <3>3. WritersKnown(p)'
        BY <3>1 DEF WritersKnown, Clear
      <3>4. Accounted'
        BY <1>0, <1>1, <2>1, <3>1 DEF Accounted, SingleWriter, WriterHasRow
      <3> QED
        BY <1>1, <3>1, <3>2, <3>3, <3>4, MoverKeeps
    <2>3. CASE UNCHANGED writers /\ (Fail(p, "aborted") \/ Fail(p, "failed"))
      <3>1. pc' = [pc EXCEPT ![p] = pc'[p]] /\ pc'[p] = "fail"
        BY <1>0, <2>3, Arrives
      <3>2. RowTaken(p)' /\ WritersKnown(p)' /\ Accounted'
        BY <1>0, <1>1, <2>3, <3>1, UncommittedHolds, SameAccount DEF Uncommitted
      <3> QED
        BY <1>1, <3>1, <3>2, MoverKeeps
    <2> QED
      BY <1>2, <2>2, <2>3 DEF SpawnSteamcmd
  <1>3. CASE SteamcmdEnds(p) \/ KillSteamcmd(p)
    <2>1. pc[p] = "installing" /\ writers = 1 /\ op[my[p].id].state = "content_running"
      BY <1>0, <1>3 DEF SteamcmdEnds, KillSteamcmd, At, WritersKnown, RowTaken, Running
    <2>2. writers' \in Nat /\ writers' <= writers
      BY <1>3, <2>1 DEF SteamcmdEnds, KillSteamcmd
    <2>3. (Go(p, "installed") /\ writers' = 0) \/ Fail(p, "failed")
      BY <1>3, <2>1 DEF SteamcmdEnds, KillSteamcmd
    <2>4. /\ pc' = [pc EXCEPT ![p] = pc'[p]]
          /\ \/ pc'[p] = "installed" /\ my' = my /\ writers' = 0
             \/ pc'[p] = "fail"
      BY <1>0, <2>3, Arrives
    <2>5. RowTaken(p)' /\ WritersKnown(p)'
      BY <1>1, <2>1, <2>4 DEF RowTaken, WritersKnown, Running, Clear, AdoptingAt, RestartingAt,
             RequestedAt, StoppingAt
    <2> QED
      BY <1>0, <1>1, <2>2, <2>4, <2>5, SameAccount, MoverKeeps
  <1>4. CASE ~(SpawnSteamcmd(p) \/ SteamcmdEnds(p) \/ KillSteamcmd(p))
    <2>1. writers' = writers
      BY <1>4 DEF DeferIntake, RefuseIntake, StopClient, StopForResume, RegressAfterStop, MarkTarget,
             CheckInstalled, ReassertStopped, WriteJournal, SwapManifest, RepairAdoption, ClearJournal,
             RestartClient, RestoreForFailure, Release, StopForRepair, RecheckForRepair, Locally, KeepRest
    <2>2. \/ Leave(p) \/ Fail(p, "aborted") \/ Fail(p, "failed") \/ Go(p, "release")
          \/ Go(p, "stopped") /\ pc[p] \in {"stop", "resume_stop"}
          \/ Go(p, "spawn") /\ pc[p] = "mark"
          \/ Go(p, "reassert") /\ pc[p] = "installed"
          \/ Go(p, "commit") /\ pc[p] = "reassert"
          \/ Go(p, "terminal") /\ writers = 0
          \/ \E l \in {"swap", "repair", "swapped", "repair_recheck"} : Go(p, l) /\ pc[p] \in AdoptingAt
          \/ \E l \in {"restart", "verify"} : Go(p, l) /\ pc[p] \in RestartingAt
      <3>1. CASE DeferIntake(p) \/ RefuseIntake(p) \/ RegressAfterStop(p) \/ Release(p)
        BY <3>1 DEF DeferIntake, RefuseIntake, RegressAfterStop, Release
      <3>2. CASE StopClient(p) \/ StopForResume(p) \/ MarkTarget(p)
        BY <3>2 DEF StopClient, StopForResume, MarkTarget, At
      <3>3. CASE CheckInstalled(p) \/ ReassertStopped(p)
        BY <3>3 DEF CheckInstalled, ReassertStopped, At
      <3>4. CASE WriteJournal(p) \/ SwapManifest(p) \/ RepairAdoption(p) \/ ClearJournal(p)
        BY <3>4 DEF WriteJournal, SwapManifest, RepairAdoption, ClearJournal, At, AdoptingAt, RestartingAt
      <3>5. CASE StopForRepair(p) \/ RecheckForRepair(p)
        BY <3>5 DEF StopForRepair, RecheckForRepair, At, AdoptingAt
      <3>6. CASE RestartClient(p)
        BY <3>6 DEF RestartClient, At, RestartingAt
      <3>7. CASE RestoreForFailure(p)
        BY <3>7 DEF RestoreForFailure, FinishRestored, RestoreSucceeds
      <3> QED
        BY <1>4, <3>1, <3>2, <3>3, <3>4, <3>5, <3>6, <3>7
    <2>3. /\ pc' = [pc EXCEPT ![p] = pc'[p]]
          /\ \/ pc'[p] \in {"idle", "fail", "release"}
             \/ pc'[p] = "stopped" /\ my' = my /\ pc[p] \in {"stop", "resume_stop"}
             \/ pc'[p] = "spawn" /\ my' = my /\ pc[p] = "mark"
             \/ pc'[p] = "reassert" /\ my' = my /\ pc[p] = "installed"
             \/ pc'[p] = "commit" /\ my' = my /\ pc[p] = "reassert"
             \/ pc'[p] = "terminal" /\ writers = 0
             \/ pc'[p] \in AdoptingAt /\ my' = my /\ pc[p] \in AdoptingAt
             \/ pc'[p] \in RestartingAt /\ my' = my /\ pc[p] \in RestartingAt
      <3>1. {"swap", "repair", "swapped", "repair_recheck"} \subseteq AdoptingAt
            /\ {"restart", "verify"} \subseteq RestartingAt
        BY DEF AdoptingAt, RestartingAt
      <3> QED
        BY <1>0, <2>2, <3>1, Arrives
    <2>4. RowTaken(p)'
      BY <1>0, <1>1, <2>3 DEF RowTaken, Running, AdoptingAt, RestartingAt, RequestedAt, StoppingAt
    <2>5. WritersKnown(p)'
      BY <1>0, <2>1, <2>3 DEF WritersKnown, Clear, AdoptingAt, RestartingAt
    <2> QED
      BY <1>0, <1>1, <2>1, <2>3, <2>4, <2>5, SameAccount, MoverKeeps
  <1> QED
    BY <1>2, <1>3, <1>4

\* The steps of a content command that write to the ledger.
LEMMA RowTakenOn ==
    ASSUME BrokerInv, TakenInv, NEW p \in Procs,
           \/ CheckWindow(p) \/ PassIntake(p) \/ Decide(p) \/ Leased(p) \/ CommitContent(p)
           \/ CommitAdoption(p) \/ RecordSwap(p) \/ StartVerifying(p) \/ Verdict(p) \/ Terminalize(p)
    PROVE  TakenInv'
  <1>0. /\ HostTyped /\ OpTyped /\ RowTaken(p) /\ WritersKnown(p) /\ writers \in Nat
        /\ (pc[p] # "idle" => my[p].id \in Ids)
    BY DEF BrokerInv, Typed, HostTyped, Inside, TakenInv, Accounted
  <1>1. /\ pc[p] # "idle" /\ my[p].id \in Ids /\ writers' = writers
        /\ pc[p] \in Clear => writers = 0
    BY <1>0 DEF CheckWindow, PassIntake, Decide, Leased, CommitContent, CommitAdoption, RecordSwap,
           StartVerifying, Verdict, Terminalize, At, Locally, KeepRest, WritersKnown
  <1>2. CASE CheckWindow(p)
    <2>1. (op' = op \/ Sweep) /\ (Go(p, "intake") \/ Fail(p, "failed") \/ Leave(p))
      BY <1>2 DEF CheckWindow
    <2>2. pc' = [pc EXCEPT ![p] = pc'[p]] /\ pc'[p] \in {"intake", "fail", "idle"}
      BY <1>0, <2>1, Arrives
    <2>3. RowTaken(p)' /\ WritersKnown(p)'
      BY <2>2, UncommittedHolds DEF Uncommitted
    <2>4. Accounted'
      BY <1>0, <1>1, <2>1, SweepSpares, SameAccount
    <2> QED
      BY <1>1, <2>2, <2>3, <2>4, MoverKeeps
  <1>3. CASE PassIntake(p)
    <2>1. /\ writers = 0 /\ op' = op
          /\ pc' = [pc EXCEPT ![p] = pc'[p]] /\ pc'[p] = "decide"
      BY <1>0, <1>3 DEF PassIntake, NoWriter, Locally, HostTyped, PlacesTyped
    <2>2. RowTaken(p)' /\ WritersKnown(p)'
      BY <1>1, <2>1 DEF RowTaken, WritersKnown, Running, AdoptingAt, RestartingAt, RequestedAt, StoppingAt
    <2>3. Accounted'
      BY <1>0, <1>1, <2>1, SameAccount
    <2> QED
      BY <1>1, <2>1, <2>2, <2>3, MoverKeeps
  <1>4. CASE Decide(p)
    <2>0. writers = 0
      BY <1>1, <1>4 DEF Decide, At, Clear
    <2>1. Accounted'
      BY <1>1, <2>0 DEF Accounted, SingleWriter, WriterHasRow
    <2>2. CASE pc' = [pc EXCEPT ![p] = "release"] \/ (Leave(p) /\ op' = op) \/ (Go(p, "resume_stop") /\ op' = op)
      <3>1. pc' = [pc EXCEPT ![p] = pc'[p]] /\ pc'[p] \in {"release", "idle", "resume_stop"}
        BY <1>0, <2>2, Arrives DEF HostTyped, PlacesTyped
      <3>2. RowTaken(p)' /\ WritersKnown(p)'
        BY <1>1, <2>0, <3>1 DEF RowTaken, WritersKnown, Running, AdoptingAt, RestartingAt, RequestedAt,
               StoppingAt, Clear
      <3> QED
        BY <1>1, <2>1, <3>1, <3>2, MoverKeeps
    <2>3. CASE /\ Go(p, "leased")
               /\ op' = [op EXCEPT ![my[p].id].state = "lease_acquired",
                                   ![my[p].id].prior = my[p].prior]
      <3>1. pc' = [pc EXCEPT ![p] = pc'[p]] /\ pc'[p] = "leased" /\ my' = my
        BY <1>0, <2>3, Arrives
      <3>2. op'[my[p].id].state = "lease_acquired"
        <4>1. PICK i \in Ids : i = my[p].id
          BY <1>1
        <4>2. PICK b : b = my[p].prior
          OBVIOUS
        <4>3. PICK row \in [state: States \cup {"none"}, kind: Kinds \cup {"none"},
                            open: BOOLEAN, prior: BOOLEAN] : row = op[i]
          BY <1>0 DEF OpTyped
        <4>4. op'[i] = [row EXCEPT !.state = "lease_acquired", !.prior = b]
          BY <1>0, <2>3, <4>1, <4>2, <4>3 DEF OpTyped
        <4> QED
          BY <4>1, <4>4
      <3>3. RowTaken(p)' /\ WritersKnown(p)'
        BY <1>1, <2>0, <3>1, <3>2 DEF RowTaken, WritersKnown, Running, AdoptingAt, RestartingAt,
               RequestedAt, StoppingAt
      <3> QED
        BY <1>1, <2>1, <3>1, <3>3, MoverKeeps
    <2> QED
      BY <1>4, <2>2, <2>3 DEF Decide
  <1>5. CASE Leased(p) \/ CommitContent(p) \/ RecordSwap(p) \/ (CommitAdoption(p) /\ Permitted)
    <2>1. \/ Advance(p, "client_stopping", "stop") /\ writers = 0
          \/ Advance(p, "content_running", "mark") /\ writers = 0
          \/ Advance(p, "adopting", "journal") /\ writers = 0
          \/ Advance(p, "client_restart_pending", "clear") /\ op[my[p].id].state = "adopting"
      BY <1>0, <1>1, <1>5 DEF Leased, CommitContent, RecordSwap, CommitAdoption, At, Clear, RowTaken, AdoptingAt
    <2>2. PICK i \in Ids : i = my[p].id
      BY <1>1
    <2>3. /\ pc' = [pc EXCEPT ![p] = pc'[p]]
          /\ \A j \in Ids \ {i} : op'[j] = op[j]
          /\ \/ pc'[p] = "idle" /\ op' = op
             \/ /\ my' = my
                /\ \/ pc'[p] = "stop" /\ op'[i].state = "client_stopping" /\ writers = 0
                   \/ pc'[p] = "mark" /\ op'[i].state = "content_running" /\ writers = 0
                   \/ pc'[p] = "journal" /\ op'[i].state = "adopting" /\ writers = 0
                   \/ pc'[p] = "clear" /\ op'[i].state = "client_restart_pending"
                      /\ op[i].state = "adopting"
      BY <1>1, <2>1, <2>2, AdvanceArrives
    <2>4. Accounted'
      <3>1. CASE op' = op
        BY <1>0, <1>1, <3>1, SameAccount
      <3>2. CASE op[i].state = "content_running" => writers = 0
        BY <1>0, <1>1, <2>3, <3>2, AccountKeeps
      <3> QED
        BY <2>3, <3>1, <3>2
    <2>5. RowTaken(p)'
      BY <2>2, <2>3 DEF RowTaken, Running, AdoptingAt, RestartingAt, RequestedAt, StoppingAt
    <2>6. WritersKnown(p)'
      BY <1>1, <2>3 DEF WritersKnown, Clear
    <2> QED
      BY <1>1, <2>3, <2>4, <2>5, <2>6, MoverKeeps
  <1>6. CASE CommitAdoption(p) /\ ~Permitted
    <2>1. Fail(p, "failed") /\ op' = op
      BY <1>6 DEF CommitAdoption
    <2>2. pc' = [pc EXCEPT ![p] = pc'[p]] /\ pc'[p] = "fail"
      BY <1>0, <2>1, Arrives
    <2>3. RowTaken(p)' /\ WritersKnown(p)' /\ Accounted'
      BY <1>0, <1>1, <2>1, <2>2, UncommittedHolds, SameAccount DEF Uncommitted
    <2> QED
      BY <1>1, <2>2, <2>3, MoverKeeps
  <1>7. CASE StartVerifying(p)
    <2>0. op[my[p].id].state \in {"client_restart_pending", "verifying"}
      BY <1>0, <1>7 DEF StartVerifying, At, RowTaken, RestartingAt
    <2>1. \/ op[my[p].id].state = "verifying" /\ Go(p, "verdict") /\ op' = op
          \/ Advance(p, "verifying", "verdict")
      BY <1>7 DEF StartVerifying, Row
    <2>2. PICK i \in Ids : i = my[p].id
      BY <1>1
    <2>3. /\ pc' = [pc EXCEPT ![p] = pc'[p]]
          /\ \A j \in Ids \ {i} : op'[j] = op[j]
          /\ \/ pc'[p] = "idle"
             \/ my' = my /\ pc'[p] = "verdict" /\ op'[i].state = "verifying"
      BY <1>0, <1>1, <2>1, <2>2, AdvanceArrives, Arrives
    <2>4. Accounted'
      BY <1>0, <1>1, <2>0, <2>2, <2>3, AccountKeeps
    <2>5. RowTaken(p)' /\ WritersKnown(p)'
      BY <2>2, <2>3 DEF RowTaken, WritersKnown, Running, Clear, AdoptingAt, RestartingAt, RequestedAt, StoppingAt
    <2> QED
      BY <1>1, <2>3, <2>4, <2>5, MoverKeeps
  <1>8. CASE Verdict(p) \/ Terminalize(p)
    <2>0. writers = 0 \/ op[my[p].id].state = "verifying"
      BY <1>0, <1>1, <1>8 DEF Verdict, Terminalize, At, RowTaken, Clear
    <2>1. Leave(p) /\ \E to : SetState(my[p].id, to) \/ op' = op
      BY <1>8 DEF Verdict, Terminalize
    <2>2. PICK i \in Ids : i = my[p].id
      BY <1>1
    <2>3. \A j \in Ids \ {i} : op'[j] = op[j]
      BY <1>0, <2>1, <2>2 DEF SetState, OpTyped
    <2>4. pc' = [pc EXCEPT ![p] = pc'[p]] /\ pc'[p] = "idle"
      BY <1>0, <2>1, Arrives
    <2>5. Accounted'
      BY <1>0, <1>1, <2>0, <2>2, <2>3, AccountKeeps
    <2>6. RowTaken(p)' /\ WritersKnown(p)'
      BY <2>4, UncommittedHolds DEF Uncommitted
    <2> QED
      BY <1>1, <2>4, <2>5, <2>6, MoverKeeps
  <1> QED
    BY <1>2, <1>3, <1>4, <1>5, <1>6, <1>7, <1>8

\* A command that begins, or a recovery that takes a row over.
LEMMA BeginTaken ==
    ASSUME BrokerInv, TakenInv, NEW p \in Procs, BeginContent(p) \/ Reconcile(p)
    PROVE  TakenInv'
  <1>0. HostTyped /\ OpTyped /\ writers \in Nat
    BY DEF BrokerInv, Typed, HostTyped, TakenInv, Accounted
  <1>1. writers' = writers
    <2>1. CASE BeginContent(p)
      <3>1. Locally
        BY <2>1, Zenon DEF BeginContent
      <3> QED
        BY <3>1 DEF Locally, KeepRest
    <2>2. CASE RecoverLease(p) \/ RecoverInterrupted(p) \/ RecoverAdopting(p) \/ RecoverRestart(p)
      BY <2>2 DEF RecoverLease, RecoverInterrupted, RecoverAdopting, RecoverRestart, Locally, KeepRest
    <2>3. CASE RecoverContent(p)
      BY <2>3 DEF RecoverContent, KeepRest
    <2> QED
      BY <2>1, <2>2, <2>3 DEF Reconcile
  <1>2. CASE op' = op /\ \E l, m : Enter(p, l, m) /\ l \in Uncommitted
    <2>1. PICK l, m : Enter(p, l, m) /\ l \in Uncommitted
      BY <1>2
    <2>2. pc' = [pc EXCEPT ![p] = pc'[p]] /\ pc'[p] \in Uncommitted /\ lock = NoProc
      BY <1>0, <2>1, Arrives
    <2> QED
      BY <1>0, <1>1, <1>2, <2>2, UncommittedHolds, SameAccount, MoverKeeps
  <1>3. ASSUME NEW i \in Ids, op' = op,
               \/ op[i].state = "adopting" /\ Enter(p, "repair_stop", Recovered(i))
               \/ op[i].state \in {"client_restart_pending", "verifying"} /\ Enter(p, "clear", Recovered(i))
        PROVE  TakenInv'
    <2>1. Recovered(i).id = i
      BY HostAssumption DEF Recovered, Nothing
    <2>2. /\ pc' = [pc EXCEPT ![p] = pc'[p]] /\ my'[p].id = i /\ lock = NoProc
          /\ \/ op[i].state = "adopting" /\ pc'[p] = "repair_stop"
             \/ op[i].state \in {"client_restart_pending", "verifying"} /\ pc'[p] = "clear"
      BY <1>0, <1>3, <2>1, Arrives
    <2>3. RowTaken(p)'
      BY <1>3, <2>2 DEF RowTaken, Running, AdoptingAt, RestartingAt, RequestedAt, StoppingAt
    <2>4. WritersKnown(p)'
      BY <2>2 DEF WritersKnown, Clear
    <2> QED
      BY <1>0, <1>1, <1>3, <2>2, <2>3, <2>4, SameAccount, MoverKeeps
  <1>4. ASSUME NEW i \in Ids, writers = 0, pc[p] = "idle", lock = NoProc, UNCHANGED <<lock, pc, my>>
        PROVE  TakenInv'
    <2>1. Accounted'
      BY <1>1, <1>4 DEF Accounted, SingleWriter, WriterHasRow
    <2>2. pc' = [pc EXCEPT ![p] = pc'[p]] /\ pc'[p] = "idle"
      BY <1>0, <1>4 DEF HostTyped, PlacesTyped
    <2> QED
      BY <1>4, <2>1, <2>2, UncommittedHolds, MoverKeeps DEF Uncommitted
  <1>5. CASE BeginContent(p) \/ RecoverLease(p) \/ RecoverInterrupted(p)
    <2>1. CASE BeginContent(p)
      <3>1. Locally /\ \E l, m : Enter(p, l, m) /\ l \in {"window", "release"}
        BY <2>1, Zenon DEF BeginContent
      <3> QED
        BY <1>2, <3>1 DEF Locally, Uncommitted
    <2>2. CASE RecoverLease(p) \/ RecoverInterrupted(p)
      <3>1. op' = op /\ \E l, m : Enter(p, l, m) /\ l = "fail"
        BY <2>2 DEF RecoverLease, RecoverInterrupted, Locally
      <3> QED
        BY <1>2, <3>1 DEF Uncommitted
    <2> QED
      BY <1>5, <2>1, <2>2
  <1>6. CASE RecoverContent(p)
    BY <1>2, <1>4, <1>6 DEF RecoverContent, NoWriter, Uncommitted
  <1>7. CASE RecoverAdopting(p) \/ RecoverRestart(p)
    BY <1>3, <1>7 DEF RecoverAdopting, RecoverRestart, Locally
  <1> QED
    BY <1>5, <1>6, <1>7 DEF Reconcile

-----------------------------------------------------------------------------
\* A launch or a stop: it takes on a row no content runs for.
LEMMA DispatchTaken ==
    ASSUME BrokerInv, TakenInv, NEW p \in Procs, Dispatching(p)
    PROVE  TakenInv'
  <1>0. /\ HostTyped /\ OpTyped /\ writers \in Nat /\ RowTaken(p)
        /\ (pc[p] # "idle" => my[p].id \in Ids)
    BY DEF BrokerInv, Typed, HostTyped, TakenInv, Accounted, Inside
  <1>1. CASE Dispatch!BeginDispatch(p)
    <2>1. PICK i \in Ids : /\ op[i].state = "authorized" /\ op' = op /\ writers' = writers
                           /\ \E l \in {"l_window", "s_window"} : Enter(p, l, [Nothing EXCEPT !.id = i])
      BY <1>1, SameControl
         DEF Dispatch!BeginDispatch, Dispatch!Ids, Ids, Dispatch!Nothing, Nothing, Dispatch!Quietly
    <2> DEFINE m == [Nothing EXCEPT !.id = i]
    <2>2. m.id = i /\ \E l \in {"l_window", "s_window"} : Enter(p, l, m)
      BY <2>1 DEF Nothing
    <2> HIDE DEF m
    <2>3. /\ pc' = [pc EXCEPT ![p] = pc'[p]] /\ pc'[p] \in {"l_window", "s_window"} /\ my'[p].id = i
          /\ lock = NoProc
      BY <1>0, <2>1, <2>2, Arrives
    <2>4. RowTaken(p)' /\ WritersKnown(p)'
      BY <2>1, <2>3 DEF RowTaken, WritersKnown, Running, Clear, AdoptingAt, RestartingAt, RequestedAt,
             StoppingAt, Unbegun
    <2> QED
      BY <1>0, <2>1, <2>3, <2>4, SameAccount, MoverKeeps
  <1>2. CASE Dispatch!RecoverDispatch(p)
    <2>1. PICK i \in Ids : /\ op[i].state = "dispatch_pending" /\ SetState(i, "unconfirmed")
                           /\ pc[p] = "idle" /\ lock = NoProc /\ pc' = pc /\ writers' = writers
      BY <1>2, SameRows DEF Dispatch!RecoverDispatch, Dispatch!Quietly, Dispatch!Ids, Ids
    <2>2. \A j \in Ids \ {i} : op'[j] = op[j]
      BY <1>0, <2>1 DEF SetState, OpTyped
    <2>3. pc' = [pc EXCEPT ![p] = pc'[p]] /\ pc'[p] = "idle"
      BY <1>0, <2>1 DEF HostTyped, PlacesTyped
    <2>4. RowTaken(p)' /\ WritersKnown(p)'
      BY <2>3, UncommittedHolds DEF Uncommitted
    <2>5. Accounted'
      BY <1>0, <2>1, <2>2, AccountKeeps
    <2> QED
      BY <2>1, <2>3, <2>4, <2>5, MoverKeeps
  <1>3. CASE Dispatch!ContinueDispatch(p)
    <2>1. pc[p] # "idle" /\ writers' = writers
      BY <1>3 DEF Dispatch!ContinueDispatch, Dispatch!LaunchWindow, Dispatch!LaunchGates,
             Dispatch!LaunchRecheck, Dispatch!LaunchPolicy, Dispatch!LaunchAbort, Dispatch!LaunchIntent,
             Dispatch!LaunchSend, Dispatch!StopWindow, Dispatch!StopObserve, Dispatch!StopPolicy,
             Dispatch!StopAbort, Dispatch!StopRecheck, Dispatch!StopIntent, Dispatch!StopAsk,
             Dispatch!StopConfirm, Dispatch!RecordResult, Dispatch!At, Dispatch!Quietly
    <2>2. my[p].id \in Ids
      BY <1>0, <2>1
    <2>3. ASSUME pc' = [pc EXCEPT ![p] = pc'[p]], pc'[p] \in Uncommitted, op' = op \/ Sweep
          PROVE  TakenInv'
      BY <1>0, <2>1, <2>3, UncommittedHolds, SweepSpares, SameAccount, MoverKeeps
    <2>4. ASSUME NEW from, NEW to, Dispatch!Settle(p, from, to),
                 op[my[p].id].state \in from => op[my[p].id].state # "content_running"
          PROVE  TakenInv'
      <3>1. /\ Leave(p)
            /\ op' = op \/ (op[my[p].id].state \in from /\ SetState(my[p].id, to))
        BY <2>4, SameControl, SameRows DEF Dispatch!Settle, Dispatch!Row
      <3>2. pc' = [pc EXCEPT ![p] = pc'[p]] /\ pc'[p] = "idle"
        BY <1>0, <3>1, Arrives
      <3>3. Accounted'
        <4>1. CASE op' = op
          BY <1>0, <2>1, <4>1, SameAccount
        <4>2. CASE op[my[p].id].state \in from /\ SetState(my[p].id, to)
          <5>1. PICK i \in Ids : i = my[p].id
            BY <2>2
          <5>2. \A j \in Ids \ {i} : op'[j] = op[j]
            BY <1>0, <4>2, <5>1 DEF SetState, OpTyped
          <5> QED
            BY <1>0, <2>1, <2>4, <4>2, <5>1, <5>2, AccountKeeps
        <4> QED
          BY <3>1, <4>1, <4>2
      <3>4. RowTaken(p)' /\ WritersKnown(p)'
        BY <3>2, UncommittedHolds DEF Uncommitted
      <3> QED
        BY <2>1, <3>2, <3>3, <3>4, MoverKeeps
    <2>5. CASE \/ Dispatch!LaunchWindow(p) \/ Dispatch!LaunchGates(p) \/ Dispatch!LaunchRecheck(p)
               \/ Dispatch!LaunchPolicy(p) \/ Dispatch!StopRecheck(p)
      <3>1. \/ Leave(p) /\ (op' = op \/ Sweep)
            \/ op' = op /\ \E l \in {"l_gates", "l_recheck", "l_policy", "l_intent", "l_abort", "s_intent"} :
                              Go(p, l)
        BY <2>5, SameControl
           DEF Dispatch!LaunchWindow, Dispatch!LaunchGates, Dispatch!LaunchRecheck, Dispatch!LaunchPolicy,
               Dispatch!StopRecheck, Dispatch!InWindow
      <3>2. /\ pc' = [pc EXCEPT ![p] = pc'[p]]
            /\ pc'[p] \in {"idle", "l_gates", "l_recheck", "l_policy", "l_intent", "l_abort", "s_intent"}
        BY <1>0, <3>1, Arrives
      <3> QED
        BY <2>3, <3>1, <3>2 DEF Uncommitted
    <2>6. CASE Dispatch!StopWindow(p) \/ Dispatch!StopObserve(p) \/ Dispatch!StopPolicy(p)
      <3>1. /\ pc[p] \in StoppingAt
            /\ \/ Leave(p) /\ (op' = op \/ Sweep)
               \/ op' = op /\ \E l \in {"s_observe", "s_policy", "s_abort", "s_recheck"} : Go(p, l)
        BY <2>6, SameControl
           DEF Dispatch!StopWindow, Dispatch!StopObserve, Dispatch!StopPolicy, Dispatch!InWindow,
               Dispatch!At, StoppingAt
      <3>2. CASE Leave(p) /\ (op' = op \/ Sweep)
        <4>1. pc' = [pc EXCEPT ![p] = pc'[p]] /\ pc'[p] = "idle"
          BY <1>0, <3>2, Arrives
        <4> QED
          BY <2>3, <3>2, <4>1 DEF Uncommitted
      <3>3. CASE op' = op /\ \E l \in {"s_observe", "s_policy", "s_abort", "s_recheck"} : Go(p, l)
        <4>1. /\ pc' = [pc EXCEPT ![p] = pc'[p]] /\ my' = my
              /\ pc'[p] \in {"s_observe", "s_policy", "s_abort", "s_recheck"}
          BY <1>0, <3>3, Arrives
        <4>2. op[my[p].id].state \in Unbegun
          BY <1>0, <3>1 DEF RowTaken
        <4>3. RowTaken(p)' /\ WritersKnown(p)'
          BY <3>3, <4>1, <4>2 DEF RowTaken, WritersKnown, Running, Clear, AdoptingAt, RestartingAt,
                 RequestedAt, StoppingAt
        <4> QED
          BY <1>0, <2>1, <3>3, <4>1, <4>3, SameAccount, MoverKeeps
      <3> QED
        BY <3>1, <3>2, <3>3
    <2>7. CASE Dispatch!LaunchAbort(p) \/ Dispatch!RecordResult(p)
      <3>1. \E to : Dispatch!Settle(p, {"authorized"}, to) \/ Dispatch!Settle(p, {"dispatch_pending"}, to)
        BY <2>7 DEF Dispatch!LaunchAbort, Dispatch!RecordResult
      <3> QED
        BY <2>4, <3>1
    <2>8. CASE Dispatch!StopAbort(p)
      <3>1. op[my[p].id].state # "content_running"
        BY <1>0, <2>8 DEF Dispatch!StopAbort, Dispatch!At, RowTaken, StoppingAt, Unbegun
      <3> QED
        BY <2>4, <2>8, <3>1 DEF Dispatch!StopAbort
    <2>9. CASE Dispatch!LaunchIntent(p) \/ Dispatch!StopIntent(p)
      <3>1. \/ Leave(p) /\ op' = op
            \/ /\ op[my[p].id].state = "authorized" /\ SetState(my[p].id, "dispatch_pending")
               /\ \E l \in {"l_send", "s_ask"} : Go(p, l)
        BY <2>9, SameControl, SameRows
           DEF Dispatch!LaunchIntent, Dispatch!StopIntent, Dispatch!AdvanceFrom, Dispatch!Advance, Dispatch!Row
      <3>2. CASE Leave(p) /\ op' = op
        <4>1. pc' = [pc EXCEPT ![p] = pc'[p]] /\ pc'[p] = "idle"
          BY <1>0, <3>2, Arrives
        <4> QED
          BY <2>3, <3>2, <4>1 DEF Uncommitted
      <3>3. CASE /\ op[my[p].id].state = "authorized" /\ SetState(my[p].id, "dispatch_pending")
                 /\ \E l \in {"l_send", "s_ask"} : Go(p, l)
        <4>1. PICK i \in Ids : i = my[p].id
          BY <2>2
        <4>2. op'[i].state = "dispatch_pending" /\ \A j \in Ids \ {i} : op'[j] = op[j]
          BY <1>0, <3>3, <4>1 DEF SetState, OpTyped
        <4>3. pc' = [pc EXCEPT ![p] = pc'[p]] /\ my' = my /\ pc'[p] \in {"l_send", "s_ask"}
          BY <1>0, <3>3, Arrives
        <4>4. Accounted'
          BY <1>0, <2>1, <3>3, <4>1, <4>2, AccountKeeps
        <4>5. RowTaken(p)' /\ WritersKnown(p)'
          BY <4>1, <4>2, <4>3 DEF RowTaken, WritersKnown, Running, Clear, AdoptingAt, RestartingAt,
                 RequestedAt, StoppingAt
        <4> QED
          BY <2>1, <4>3, <4>4, <4>5, MoverKeeps
      <3> QED
        BY <3>1, <3>2, <3>3
    <2>10. CASE Dispatch!LaunchSend(p) \/ Dispatch!StopAsk(p) \/ Dispatch!StopConfirm(p)
      <3>1. /\ op' = op /\ pc[p] \in RequestedAt
            /\ (\E to : Dispatch!Result(p, to)) \/ Go(p, "s_confirm")
        BY <2>10, SameControl
           DEF Dispatch!LaunchSend, Dispatch!StopAsk, Dispatch!StopConfirm, Dispatch!At, RequestedAt
      <3>2. /\ pc' = [pc EXCEPT ![p] = pc'[p]] /\ pc'[p] \in {"result", "s_confirm"}
            /\ my'[p].id = my[p].id
        BY <1>0, <3>1, Arrives DEF Dispatch!Result, HostTyped, PlacesTyped, LocalsTyped
      <3>3. op[my[p].id].state = "dispatch_pending"
        BY <1>0, <3>1 DEF RowTaken
      <3>4. RowTaken(p)' /\ WritersKnown(p)'
        BY <3>1, <3>2, <3>3 DEF RowTaken, WritersKnown, Running, Clear, AdoptingAt, RestartingAt,
               RequestedAt, StoppingAt
      <3> QED
        BY <1>0, <2>1, <3>1, <3>2, <3>4, SameAccount, MoverKeeps
    <2> QED
      BY <1>3, <2>5, <2>6, <2>7, <2>8, <2>9, <2>10 DEF Dispatch!ContinueDispatch
  <1> QED
    BY <1>1, <1>2, <1>3 DEF Dispatching

\* A refused run or confirm ends only a row it read untouched or interrupted.
LEMMA RefusalSpares ==
    ASSUME BrokerInv, TakenInv, NEW p \in Procs, Refusal(p)
    PROVE  TakenInv'
  <1>0. OpTyped
    BY DEF BrokerInv, Typed, HostTyped
  <1>1. Refuses(p)
    BY RefusalRefuses
  <1>2. pc' = pc /\ \A q \in Procs : pc[q] # "idle" => my'[q] = my[q]
    BY <1>1 DEF Refuses, BrokerInv, Typed, HostTyped, LocalsTyped
  <1>3. writers' = writers
    BY DEF Refusal, RefuseRun, EnterRelease, LeaveRelease, AbortRefused, RefuseConfirm, CrashRefused, World
  <1>4. RowsSpared
    <2>1. CASE AbortRefused(p)
      <3>1. denied[p].seen \in {"authorized", "interrupted"} /\ denied[p].id \in Ids
        BY <2>1 DEF AbortRefused, BrokerInv, Inside
      <3>2. PICK i \in Ids : i = denied[p].id
        BY <3>1
      <3>3. \/ op' = op
            \/ op[i].state = denied[p].seen /\ op' = [op EXCEPT ![i].state = "aborted"]
        BY <2>1, <3>2 DEF AbortRefused, Aborts, SetState
      <3>4. \A j \in Ids \ {i} : op'[j] = op[j]
        BY <1>0, <3>3 DEF OpTyped
      <3>5. op'[i] = op[i] \/ (op[i].state \in {"authorized", "interrupted"} /\ op'[i].state = "aborted")
        BY <1>0, <3>1, <3>3 DEF OpTyped
      <3> QED
        BY <3>4, <3>5 DEF RowsSpared, Taken, Unbegun
    <2>2. CASE ~AbortRefused(p)
      <3>1. op' = op
        BY <2>2 DEF Refusal, RefuseRun, EnterRelease, LeaveRelease, RefuseConfirm, CrashRefused
      <3> QED
        BY <3>1 DEF RowsSpared
    <2> QED
      BY <2>1, <2>2
  <1> QED
    BY <1>2, <1>3, <1>4, AroundSpares

LEMMA EnvironmentSpares ==
    ASSUME BrokerInv, TakenInv, Environment
    PROVE  TakenInv'
  <1>0. HostTyped /\ OpTyped /\ writers \in Nat
    BY DEF BrokerInv, Typed, HostTyped, TakenInv, Accounted
  <1>1. CASE Authorize
    <2>1. PICK i \in Ids, k \in Kinds :
            /\ op[i].state = "none"
            /\ op' = [op EXCEPT ![i] = [state |-> "authorized", kind |-> k,
                                        open |-> TRUE, prior |-> FALSE]]
            /\ UNCHANGED <<lock, pc, my, writers>>
      BY <1>1 DEF Authorize
    <2>2. \A j \in Ids \ {i} : op'[j] = op[j]
      BY <1>0, <2>1 DEF OpTyped
    <2>3. RowsSpared
      BY <2>1, <2>2 DEF RowsSpared, Taken, Unbegun
    <2> QED
      BY <2>1, <2>3, AroundSpares
  <1>2. CASE WindowLapses
    <2>1. PICK i \in Ids : op' = [op EXCEPT ![i].open = FALSE] /\ UNCHANGED <<lock, pc, my, writers>>
      BY <1>2 DEF WindowLapses
    <2>2. \A j \in Ids : op'[j].state = op[j].state
      <3>1. op' = [op EXCEPT ![i] = [op[i] EXCEPT !.open = FALSE]]
        BY <1>0, <2>1 DEF OpTyped
      <3>2. [op[i] EXCEPT !.open = FALSE].state = op[i].state
        BY <1>0 DEF OpTyped
      <3> QED
        BY <1>0, <3>1, <3>2 DEF OpTyped
    <2>3. RowsSpared
      BY <2>2 DEF RowsSpared
    <2> QED
      BY <2>1, <2>3, AroundSpares
  <1>3. CASE ExpireLapsed
    <2>1. Sweep /\ UNCHANGED <<lock, pc, my, writers>>
      BY <1>3 DEF ExpireLapsed
    <2> QED
      BY <1>0, <2>1, SweepSpares, AroundSpares
  <1>4. CASE EditPolicy \/ UserStartsClient \/ UserQuitsClient \/ OrphanExits
    <2>1. UNCHANGED <<op, lock, pc, my>>
      BY <1>4 DEF EditPolicy, UserStartsClient, UserQuitsClient, OrphanExits
    <2>2. RowsSpared
      BY <2>1 DEF RowsSpared
    <2>3. \/ writers' = writers
          \/ writers' = writers - 1 /\ writers > 0 /\ \A q \in Procs : pc[q] # "installing"
      BY <1>4 DEF EditPolicy, UserStartsClient, UserQuitsClient, OrphanExits
    <2> QED
      BY <2>1, <2>2, <2>3, AroundSpares
  <1>5. ASSUME NEW p \in Procs, Crash(p)
        PROVE  TakenInv'
    <2>1. Leave(p) /\ op' = op /\ pc[p] # "idle" /\ writers' = writers
      BY <1>5 DEF Crash
    <2>2. pc' = [pc EXCEPT ![p] = pc'[p]] /\ pc'[p] = "idle"
      BY <1>0, <2>1, Arrives
    <2> QED
      BY <1>0, <2>1, <2>2, UncommittedHolds, SameAccount, MoverKeeps DEF Uncommitted
  <1> QED
    BY <1>1, <1>2, <1>3, <1>4, <1>5 DEF Environment

LEMMA TakenInitially == BrokerInit => TakenInv
  <1> SUFFICES ASSUME BrokerInit
               PROVE  TakenInv
    OBVIOUS
  <1>1. pc = [p \in Procs |-> "idle"] /\ writers = 0
    BY DEF BrokerInit, ContentInitAll, HostInit
  <1>2. Accounted
    BY <1>1 DEF Accounted, SingleWriter, WriterHasRow
  <1>3. \A p \in Procs : RowTaken(p) /\ WritersKnown(p)
    BY <1>1 DEF RowTaken, WritersKnown, Running, Clear, AdoptingAt, RestartingAt, RequestedAt, StoppingAt
  <1> QED
    BY <1>2, <1>3 DEF TakenInv

LEMMA TakenStep ==
    ASSUME BrokerInv, TakenInv, [BrokerNext]_bvars
    PROVE  TakenInv'
  <1>1. CASE Environment
    BY <1>1, EnvironmentSpares
  <1>2. ASSUME NEW p \in Procs, Execution(p)
        PROVE  TakenInv'
    BY <1>2, BeginTaken, QuietTaken, RowTakenOn DEF Execution, Continue
  <1>3. ASSUME NEW p \in Procs, Dispatching(p)
        PROVE  TakenInv'
    BY <1>3, DispatchTaken
  <1>4. ASSUME NEW p \in Procs, Refusal(p)
        PROVE  TakenInv'
    BY <1>4, RefusalSpares
  <1>5. CASE UNCHANGED bvars
    <2>1. UNCHANGED <<op, pc, my, writers>>
      BY <1>5 DEF bvars, hostVars
    <2>2. RowsSpared
      BY <2>1 DEF RowsSpared
    <2> QED
      BY <2>1, <2>2, AroundSpares
  <1> QED
    BY <1>1, <1>2, <1>3, <1>4, <1>5 DEF BrokerNext

LEMMA TakenIsEnough == TakenInv => AdvancedRowsKept
  <1> SUFFICES ASSUME TakenInv
               PROVE  AdvancedRowsKept
    OBVIOUS
  <1>1. WriterHasRow
    BY DEF TakenInv, Accounted
  <1>2. ASSUME NEW p \in Procs, pc[p] \in Advanced
        PROVE  Live(my[p].id)
    <2>1. RowTaken(p)
      BY DEF TakenInv
    <2>2. op[my[p].id].state \in Taken
      BY <1>2, <2>1 DEF RowTaken, Advanced, Running, AdoptingAt, RestartingAt, RequestedAt, Taken
    <2> QED
      BY <2>2 DEF Live, Taken, LiveStates
  <1> QED
    BY <1>1, <1>2 DEF AdvancedRowsKept

-----------------------------------------------------------------------------
\* At most one command ever sends the request of a launch or a stop, whatever
\* crashes, recoveries and refusals fall between (executor.py, _launch;
\* client_executor.py; reconcile).
THEOREM RequestsAreSentOnce == BrokerSpec => []NeverReplayed
  <1>1. BrokerInit => BrokerInv
    BY BrokerInitially
  <1>2. BrokerInv /\ [BrokerNext]_bvars => BrokerInv'
    BY BrokerStep
  <1>3. BrokerInv => NeverReplayed
    BY ToldIsEnough
  <1> QED
    BY <1>1, <1>2, <1>3, PTL DEF BrokerSpec

\* An operation whose request may have left never reads as untouched, aborted
\* or expired: its dispatch_pending row precedes the request.
THEOREM IntentsAreDurable == BrokerSpec => []IntentDurable
  <1>1. BrokerInit => BrokerInv
    BY BrokerInitially
  <1>2. BrokerInv /\ [BrokerNext]_bvars => BrokerInv'
    BY BrokerStep
  <1>3. BrokerInv => IntentDurable
    BY ToldIsEnough
  <1> QED
    BY <1>1, <1>2, <1>3, PTL DEF BrokerSpec

\* However the abort of a refused run or confirm, made outside the execution
\* lock, falls between the steps of other commands: content, an adoption and a
\* request are only under way for an operation that has not ended, and a
\* steamcmd always has its content_running row (broker_main.py, expected_from;
\* executor.py, the transitions under the lock).
THEOREM AdvancedRowsAreKept == BrokerSpec => []AdvancedRowsKept
  <1>1. BrokerInit => BrokerInv /\ TakenInv
    BY BrokerInitially, TakenInitially
  <1>2. BrokerInv /\ TakenInv /\ [BrokerNext]_bvars => BrokerInv' /\ TakenInv'
    BY BrokerStep, TakenStep
  <1>3. TakenInv => AdvancedRowsKept
    BY TakenIsEnough
  <1> QED
    BY <1>1, <1>2, <1>3, PTL DEF BrokerSpec

==============================================================================
