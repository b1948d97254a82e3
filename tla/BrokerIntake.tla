----------------------------- MODULE BrokerIntake -----------------------------
(***************************************************************************)
(* How an operation gets into the ledger and finds its library: the verbs  *)
(* init, request, confirm, run and the direct ones, which record or reuse  *)
(* a request and run it (src/steam_agent/execution/broker_main.py,         *)
(* agent_requests.py).  broker.json names the library; the state lock      *)
(* serializes its rewriting with intake, but run and reconcile read it     *)
(* under no lock.                                                          *)
(*                                                                         *)
(* Abstracted: the validation of plans and configurations, the disk floor  *)
(* (free to refuse), and an execution, which is its start, its end and the *)
(* interruption of a dead one (ContentExecution has the rest).             *)
(***************************************************************************)
EXTENDS OperationStates, Integers

CONSTANTS
    Procs,       \* broker processes
    NoProc,      \* nobody holds a lock
    Libraries,   \* what broker.json may name
    Plans,       \* idempotency keys of submitted plans
    DirectIds,   \* request ids of the direct verbs
    MaxOps       \* bound: rows ever inserted

ASSUME IntakeAssumption ==
    /\ NoProc \notin Procs /\ MaxOps \in Nat /\ Libraries # {}
    /\ Plans \cap DirectIds = {}

VARIABLES
    library,    \* broker.json
    policy,     \* the grant, as a read of policy.toml finds it
    op, lastId, \* the ledger rows
    stateLock,  \* state.lock
    pc, my,     \* where each process is, and what it holds in variables
    strayed     \* the kinds of run that met an operation of another library:
                \* "bare" (no --operation-id) or "named"

ivars == <<library, policy, op, lastId, stateLock, pc, my, strayed>>

Ids == 1 .. MaxOps
Rows == 1 .. lastId
Requests == Plans \cup DirectIds
Grants == {"allow", "confirm", "deny"}   \* an unreadable policy refuses alike
Granting == {"allow", "confirm"}

\* to: the library the row was taken in for; open: it has not lapsed
NoRow == [state |-> "none"]
Active == \E i \in Rows : op[i].state \in LiveStates

Swept(rows) ==
    [i \in Ids |->
       IF rows[i].state \in {"pending_confirmation", "authorized"} /\ ~rows[i].open
       THEN [rows[i] EXCEPT !.state = "expired"] ELSE rows[i]]

Nothing == [request |-> "none", id |-> 0, lib |-> "none", bare |-> FALSE]

IntakeInit ==
    /\ library \in Libraries
    /\ policy = "allow"
    /\ op = [i \in Ids |-> NoRow] /\ lastId = 0
    /\ stateLock = NoProc
    /\ pc = [p \in Procs |-> "idle"] /\ my = [p \in Procs |-> Nothing]
    /\ strayed = {}

At(p, l) == pc[p] = l
Go(p, l, m) == pc' = [pc EXCEPT ![p] = l] /\ my' = [my EXCEPT ![p] = m]
Leave(p) == Go(p, "idle", Nothing)
Unlock(p) == stateLock' = IF stateLock = p THEN NoProc ELSE stateLock

KeepRows == UNCHANGED <<op, lastId, strayed>>
KeepFiles == UNCHANGED <<library, policy>>

-----------------------------------------------------------------------------
(* init *)

BeginInit(p) ==
    /\ At(p, "idle")
    /\ \E l \in Libraries : Go(p, "init wait", [Nothing EXCEPT !.lib = l])
    /\ UNCHANGED stateLock /\ KeepRows /\ KeepFiles

LockInitUnheld(p) ==   \* faulty: the state lock is not taken
    /\ At(p, "init wait")
    /\ Go(p, "init check", my[p])
    /\ UNCHANGED stateLock /\ KeepRows /\ KeepFiles

LockInit(p) ==
    /\ At(p, "init wait") /\ stateLock = NoProc
    /\ stateLock' = p
    /\ Go(p, "init check", my[p])
    /\ KeepRows /\ KeepFiles

CheckInitUnstarted(p) ==   \* faulty: only rows not yet started block
    /\ At(p, "init check")
    /\ op' = Swept(op)
    /\ IF \E i \in Rows : op'[i].state \in {"pending_confirmation", "authorized"}
       THEN Leave(p) /\ Unlock(p)
       ELSE Go(p, "init write", my[p]) /\ UNCHANGED stateLock
    /\ UNCHANGED <<lastId, strayed>> /\ KeepFiles

\* A lapsed row does not block; any other live one does.
CheckInit(p) ==
    /\ At(p, "init check")
    /\ op' = Swept(op)
    /\ IF \E i \in Rows : op'[i].state \in LiveStates
       THEN Leave(p) /\ Unlock(p)
       ELSE Go(p, "init write", my[p]) /\ UNCHANGED stateLock
    /\ UNCHANGED <<lastId, strayed>> /\ KeepFiles

WriteConfig(p) ==
    /\ At(p, "init write")
    /\ library' = my[p].lib
    /\ Leave(p) /\ Unlock(p)
    /\ KeepRows /\ UNCHANGED policy

-----------------------------------------------------------------------------
(* request, and the direct verbs *)

\* request reads the policy before the lock; a direct verb after the lookup.
BeginIntake(p) ==
    /\ At(p, "idle")
    /\ \E r \in Requests :
          /\ r \in Plans => policy \in Granting
          /\ Go(p, "wait", [Nothing EXCEPT !.request = r])
    /\ UNCHANGED stateLock /\ KeepRows /\ KeepFiles

\* The configuration is read under the lock.
LockIntake(p) ==
    /\ At(p, "wait") /\ stateLock = NoProc
    /\ stateLock' = p
    /\ Go(p, IF my[p].request \in Plans THEN "insert" ELSE "lookup",
          [my[p] EXCEPT !.lib = library])
    /\ KeepRows /\ KeepFiles

FindsUnexpired(r) ==   \* faulty: include_expired is off for direct requests
    {i \in Rows : op[i].request = r /\ op[i].state # "expired"}

Finds(r) == {i \in Rows : op[i].request = r}

\* record_or_reuse(): a known request is answered by its row; the command
\* goes on to run it when it may still run.
Lookup(p) ==
    /\ At(p, "lookup")
    /\ op' = Swept(op)
    /\ \/ /\ Finds(my[p].request) = {}
          /\ Go(p, "policy", my[p]) /\ UNCHANGED stateLock
       \/ \E i \in Finds(my[p].request) :
            /\ IF op'[i].state \in {"authorized", "interrupted"}
               THEN Go(p, "components", [my[p] EXCEPT !.id = i]) ELSE Leave(p)
            /\ Unlock(p)
    /\ UNCHANGED <<lastId, strayed>> /\ KeepFiles

ReadPolicy(p) ==
    /\ At(p, "policy")
    /\ \/ policy \in Granting /\ Go(p, "insert", my[p]) /\ UNCHANGED stateLock
       \/ policy \notin Granting /\ Leave(p) /\ Unlock(p)
    /\ KeepRows /\ KeepFiles

\* ledger.request(): refused beside a live row, or for a key whose last row
\* has not expired.
Insert(p) ==
    LET rows == Swept(op)
        id   == lastId + 1
        refused == \E i \in Rows :
                     \/ rows[i].state \in LiveStates
                     \/ rows[i].request = my[p].request /\ rows[i].state # "expired"
    IN /\ At(p, "insert")
       /\ \/ /\ refused
             /\ op' = rows /\ UNCHANGED lastId
             /\ Leave(p) /\ Unlock(p)
          \/ /\ ~refused /\ lastId < MaxOps
             /\ op' = [rows EXCEPT ![id] =
                         [state |-> "pending_confirmation", open |-> TRUE,
                          request |-> my[p].request, to |-> my[p].lib]]
             /\ lastId' = id
             /\ Go(p, "grant", [my[p] EXCEPT !.id = id])
             /\ UNCHANGED stateLock
       /\ UNCHANGED strayed /\ KeepFiles

\* The policy is read again; without the grant, or the disk space, the nonce
\* stays pending for confirm.
Regrant(p) ==
    /\ At(p, "grant")
    /\ \/ policy = "allow" /\ Go(p, "auto", my[p]) /\ UNCHANGED stateLock
       \/ Leave(p) /\ Unlock(p)
    /\ KeepRows /\ KeepFiles

Authorizable(i) == op[i].state = "pending_confirmation" /\ op[i].open

AutoConfirm(p) ==
    /\ At(p, "auto")
    /\ IF Authorizable(my[p].id)
       THEN /\ op' = [op EXCEPT ![my[p].id].state = "authorized"]
            /\ IF my[p].request \in DirectIds
               THEN Go(p, "components", my[p]) ELSE Leave(p)
       ELSE Leave(p) /\ UNCHANGED op
    /\ Unlock(p)
    /\ UNCHANGED <<lastId, strayed>> /\ KeepFiles

\* The confirm verb, under no lock: the nonce is consumed, then the policy
\* is read; a denial ends the row unless a run has begun it meanwhile.
ConfirmVerb(p) ==
    /\ At(p, "idle")
    /\ \E i \in Rows :
          /\ Authorizable(i)
          /\ op' = [op EXCEPT ![i].state = "authorized"]
          /\ Go(p, "confirmed", [Nothing EXCEPT !.id = i])
    /\ UNCHANGED <<lastId, strayed, stateLock>> /\ KeepFiles

Deny(i, from) ==
    IF op[i].state = from THEN op' = [op EXCEPT ![i].state = "aborted"]
                          ELSE UNCHANGED op

CheckConfirmed(p) ==
    /\ At(p, "confirmed")
    /\ IF policy \in Granting THEN UNCHANGED op ELSE Deny(my[p].id, "authorized")
    /\ Leave(p)
    /\ UNCHANGED <<lastId, strayed, stateLock>> /\ KeepFiles

-----------------------------------------------------------------------------
(* run *)

\* _components() reads the configuration first, whichever row will be run.
BeginRun(p) ==
    /\ At(p, "idle")
    /\ \/ Go(p, "pick", [Nothing EXCEPT !.lib = library, !.bare = TRUE])
       \/ \E i \in Rows :
             Go(p, "execute", [Nothing EXCEPT !.lib = library, !.id = i])
    /\ UNCHANGED stateLock /\ KeepRows /\ KeepFiles

LoadComponents(p) ==
    /\ At(p, "components")
    /\ Go(p, "execute", [my[p] EXCEPT !.lib = library])
    /\ UNCHANGED stateLock /\ KeepRows /\ KeepFiles

\* Without --operation-id: the active operation, once the lapsed are swept.
Pick(p) ==
    /\ At(p, "pick")
    /\ op' = Swept(op)
    /\ \/ \E i \in Rows :
             /\ op'[i].state \in {"authorized", "interrupted"}
             /\ Go(p, "execute", [my[p] EXCEPT !.id = i])
       \/ /\ \A i \in Rows : op'[i].state \notin {"authorized", "interrupted"}
          /\ Leave(p)
    /\ UNCHANGED <<lastId, strayed, stateLock>> /\ KeepFiles

NobodyRuns == \A q \in Procs : pc[q] # "running"

Execute(p) ==
    /\ At(p, "execute")
    /\ \/ /\ NobodyRuns /\ policy \in Granting
          /\ op[my[p].id].state \in {"authorized", "interrupted"} /\ op[my[p].id].open
          /\ op' = [op EXCEPT ![my[p].id].state = "content_running"]
          /\ strayed' = strayed \cup (IF op[my[p].id].to = my[p].lib THEN {}
                                      ELSE {IF my[p].bare THEN "bare" ELSE "named"})
          /\ Go(p, "running", my[p])
       \/ /\ NobodyRuns /\ policy \notin Granting
          /\ op[my[p].id].state \in {"authorized", "interrupted"}
          /\ Deny(my[p].id, op[my[p].id].state)
          /\ Leave(p) /\ UNCHANGED strayed
       \/ Leave(p) /\ UNCHANGED <<op, strayed>>
    /\ UNCHANGED <<lastId, stateLock>> /\ KeepFiles

Conclude(p) ==
    /\ At(p, "running")
    /\ \E to \in {"confirmed", "failed"} : op' = [op EXCEPT ![my[p].id].state = to]
    /\ Leave(p)
    /\ UNCHANGED <<lastId, strayed, stateLock>> /\ KeepFiles

\* reconcile() of an execution that died
Interrupt(p) ==
    /\ At(p, "idle") /\ NobodyRuns
    /\ \E i \in Rows :
          /\ op[i].state \in {"content_running", "interrupted"}
          /\ op' = [op EXCEPT ![i].state = IF op[i].open THEN "interrupted" ELSE "failed"]
    /\ UNCHANGED <<lastId, strayed, stateLock, pc, my>> /\ KeepFiles

-----------------------------------------------------------------------------

Crash(p) == pc[p] # "idle" /\ Leave(p) /\ Unlock(p) /\ KeepRows /\ KeepFiles

EditPolicy ==
    /\ policy' \in Grants \ {policy}
    /\ KeepRows /\ UNCHANGED <<library, stateLock, pc, my>>

\* A nonce or a window lapses.
Lapse ==
    /\ \E i \in Rows : op[i].open /\ op' = [op EXCEPT ![i].open = FALSE]
    /\ UNCHANGED <<lastId, strayed, stateLock, pc, my>> /\ KeepFiles

IntakeNext ==
    \/ EditPolicy \/ Lapse
    \/ \E p \in Procs :
          \/ BeginInit(p) \/ LockInit(p) \/ CheckInit(p) \/ WriteConfig(p)
          \/ BeginIntake(p) \/ LockIntake(p) \/ Lookup(p) \/ ReadPolicy(p)
          \/ Insert(p) \/ Regrant(p) \/ AutoConfirm(p) \/ ConfirmVerb(p)
          \/ CheckConfirmed(p)
          \/ BeginRun(p) \/ LoadComponents(p) \/ Pick(p) \/ Execute(p)
          \/ Conclude(p) \/ Interrupt(p) \/ Crash(p)

IntakeSpec == IntakeInit /\ [][IntakeNext]_ivars

-----------------------------------------------------------------------------
(* Properties *)

\* "Reconfiguring while an operation is active could point a confirmed plan
\* at a different library": broker.json never changes under a live row.
ConfigHeldWhileActive == [][Active => library' = library]_ivars

\* An operation only ever runs against the library it was taken in for.
RunsWhereTakenIn == strayed = {}

\* So it is for the direct verbs and for a run that names its operation: what
\* they read of broker.json, they read while the row they run was live.
NamedRunsWhereTakenIn == "named" \notin strayed

\* "Direct callers include expired receipts to keep their request IDs bound
\* permanently": one direct request id, one row, whatever is retried.
RequestIdsBound ==
    \A i, j \in Rows :
        op[i].request \in DirectIds /\ op[j].request = op[i].request => i = j

=============================================================================
