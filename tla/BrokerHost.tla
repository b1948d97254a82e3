----------------------------- MODULE BrokerHost -----------------------------
(***************************************************************************)
(* What every execution of the broker shares, and what goes on around it:  *)
(* the operation rows, the per-user execution lock, the Steam client, the  *)
(* steamcmd writers, the owner's policy file and the execution window      *)
(* (src/steam_agent/execution/executor.py, linux_session.py, policy.py).   *)
(*                                                                         *)
(* A broker command is a process that dies at any point; the OS then frees *)
(* its lock (locking.py), while a steamcmd it spawned lives on in its own  *)
(* session.  The ledger's calls are atomic here: ExecutionLedger shows     *)
(* that a transition either takes the row from the state it read or raises. *)
(*                                                                         *)
(* Abstracted: probes answer what is true or, failing closed, the worst;   *)
(* the activity gates (game, Remote Play, download) are free to fail at    *)
(* every probe; a policy either permits the operation, denies it or cannot *)
(* be read.                                                                *)
(***************************************************************************)
EXTENDS OperationStates, Integers

CONSTANTS
    Procs,     \* broker processes
    NoProc,    \* nobody holds the lock
    Kinds,     \* of operations: "content" (install, verify), "launch", "stop"
    MaxOps     \* bound: operations ever authorized

ASSUME HostAssumption == NoProc \notin Procs /\ MaxOps \in Nat

VARIABLES
    op,       \* the ledger rows of the machine
    lock,     \* who holds the execution lock
    pc, my,   \* where each process is, and what it holds in variables
    policy,   \* the owner's policy.toml, for the operation at hand
    client,   \* the Steam client, up or down
    owed,     \* a broker took down a client it promised to bring back
    writers   \* steamcmd processes alive

hostVars == <<op, lock, pc, my, policy, client, owed, writers>>

Ids == 1 .. MaxOps
Policies == {"allow", "deny", "unreadable"}

\* open: the execution window has not lapsed; prior: prior_client_running
NoOp == [state |-> "none", kind |-> "none", open |-> FALSE, prior |-> FALSE]
OpRow == [state: States, kind: Kinds, open: BOOLEAN, prior: BOOLEAN]

Nothing == [id |-> 0, to |-> "none", resuming |-> FALSE, prior |-> FALSE]
Locals == [id: 0 .. MaxOps, to: States \cup {"none"}, resuming: BOOLEAN,
           prior: BOOLEAN]

HostInit ==
    /\ op = [i \in Ids |-> NoOp]
    /\ lock = NoProc
    /\ pc = [p \in Procs |-> "idle"]
    /\ my = [p \in Procs |-> Nothing]
    /\ policy = "allow"
    /\ client \in {"up", "down"}
    /\ owed = FALSE
    /\ writers = 0

Row(p) == op[my[p].id]
Live(i) == op[i].state \in LiveStates
Permitted == policy = "allow"

-----------------------------------------------------------------------------
(* Control of one process. *)

Go(p, l) == pc' = [pc EXCEPT ![p] = l] /\ UNCHANGED <<lock, my>>

\* The command returns or raises: its locals are gone, the lock is released.
Leave(p) ==
    /\ pc' = [pc EXCEPT ![p] = "idle"]
    /\ my' = [my EXCEPT ![p] = Nothing]
    /\ lock' = IF lock = p THEN NoProc ELSE lock

\* acquire_file_lock without blocking; a busy lock ends the command.
Enter(p, l, m) ==
    /\ pc[p] = "idle" /\ lock = NoProc
    /\ lock' = p
    /\ pc' = [pc EXCEPT ![p] = l]
    /\ my' = [my EXCEPT ![p] = m]

At(p, l) == pc[p] = l

\* ledger.transition(): the table decides on the state found now.
Allowed(i, to) == op[i].state \in States /\ to \in Transitions[op[i].state]
SetState(i, to) == op' = [op EXCEPT ![i].state = to]

\* InvalidTransition is not caught: the command ends where it stands.
Advance(p, to, l) ==
    \/ /\ Allowed(my[p].id, to)
       /\ SetState(my[p].id, to)
       /\ Go(p, l)
    \/ /\ ~Allowed(my[p].id, to)
       /\ Leave(p)
       /\ UNCHANGED op

\* The same with expected_from.
AdvanceFrom(p, from, to, l) ==
    \/ /\ Row(p).state = from
       /\ Advance(p, to, l)
    \/ /\ Row(p).state # from
       /\ Leave(p)
       /\ UNCHANGED op

\* expire_lapsed(), called by execute, reconcile and most other verbs
Sweep ==
    op' = [i \in Ids |-> IF op[i].state = "authorized" /\ ~op[i].open
                         THEN [op[i] EXCEPT !.state = "expired"]
                         ELSE op[i]]

-----------------------------------------------------------------------------
(* The Steam client, as the session adapter commands it. *)

GoDown(p) ==
    /\ client' = "down"
    /\ owed' = (owed \/ (client = "up" /\ my[p].prior))

GoUp == client' = "up" /\ owed' = FALSE

SameClient == UNCHANGED <<client, owed>>

\* stop_client(): TRUE only when the whole process tree was seen to exit; a
\* stop that failed may still have taken the client down.
StopSucceeds(p) == GoDown(p)
StopFails(p) == SameClient \/ GoDown(p)

\* start_client(): TRUE only when the client was seen.
StartSucceeds == GoUp
StartFails == SameClient \/ GoUp

\* _restore_client(): refused while a content writer may be alive (a probe
\* error reads as alive); nothing to do for a client that was not running.
RestoreIgnoringWriters(p) ==   \* faulty: no steamcmd_running() guard
    IF my[p].prior THEN StartSucceeds ELSE SameClient

RestoreSucceeds(p) ==
    /\ writers = 0
    /\ IF my[p].prior THEN StartSucceeds ELSE SameClient

RestoreFails(p) ==
    \/ SameClient
    \/ my[p].prior /\ writers = 0 /\ StartFails

-----------------------------------------------------------------------------
(* The environment. *)

\* Intake under the state lock authorizes one operation at a time
\* (ExecutionLedger): it is a row of this module from then on.
Authorize ==
    \E i \in Ids, k \in Kinds :
        /\ op[i].state = "none"
        /\ \A j \in Ids : j < i => op[j].state \in TerminalStates
        /\ op' = [op EXCEPT ![i] = [state |-> "authorized", kind |-> k,
                                    open |-> TRUE, prior |-> FALSE]]
        /\ UNCHANGED <<lock, pc, my, policy, client, owed, writers>>

WindowLapses ==
    \E i \in Ids :
        /\ Live(i) /\ op[i].open
        /\ op' = [op EXCEPT ![i].open = FALSE]
        /\ UNCHANGED <<lock, pc, my, policy, client, owed, writers>>

\* Any verb that sweeps without the execution lock: request, run, status.
ExpireLapsed ==
    /\ \E i \in Ids : op[i].state = "authorized" /\ ~op[i].open
    /\ Sweep
    /\ UNCHANGED <<lock, pc, my, policy, client, owed, writers>>

EditPolicy ==
    /\ policy' \in Policies \ {policy}
    /\ UNCHANGED <<op, lock, pc, my, client, owed, writers>>

UserStartsClient ==
    /\ client = "down" /\ GoUp
    /\ UNCHANGED <<op, lock, pc, my, policy, writers>>

UserQuitsClient ==
    /\ client = "up" /\ client' = "down"
    /\ UNCHANGED <<op, lock, pc, my, policy, owed, writers>>

\* A steamcmd whose broker died, or could not kill it, ends by itself.
OrphanExits ==
    /\ writers > 0
    /\ \A p \in Procs : pc[p] # "installing"
    /\ writers' = writers - 1
    /\ UNCHANGED <<op, lock, pc, my, policy, client, owed>>

Crash(p) ==
    /\ pc[p] # "idle"
    /\ Leave(p)
    /\ UNCHANGED <<op, policy, client, owed, writers>>

Environment ==
    \/ Authorize \/ WindowLapses \/ ExpireLapsed \/ EditPolicy
    \/ UserStartsClient \/ UserQuitsClient \/ OrphanExits
    \/ \E p \in Procs : Crash(p)

=============================================================================
