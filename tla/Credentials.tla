----------------------------- MODULE Credentials -----------------------------
(***************************************************************************)
(* A provider's key lives in a secret store and its reference in the       *)
(* database: no transaction spans the two.  `auth set`, `auth remove` and  *)
(* `data delete --all` change one, then the other, and undo the first when *)
(* the second fails (src/steam_agent/cli.py; the stores in credentials.py; *)
(* the rows in storage.py).                                                *)
(*                                                                         *)
(* The credential lock serialises the commands; a killed one frees it.     *)
(* A store may mutate before it reports a failure: a file is replaced or   *)
(* unlinked before its directory is synchronised, a wallet answers late.   *)
(* Abstracted: one provider and one store; the probes cleared and the data *)
(* deleted in the transaction that changes the reference.                  *)
(***************************************************************************)
EXTENDS Integers

CONSTANT MaxKeys    \* bound: keys the owner enters

CredentialAssumption == MaxKeys \in Nat

VARIABLES
    key,        \* what the store holds: None, Bad, or a key
    ref,        \* credential_refs: whether there is a row
    cmd,        \* the command that holds the lock
    entered,    \* keys entered so far
    outcome,    \* how the last command ended
    was,        \* for the properties: the key and the row when it began
    broken      \* for the properties: a command was killed or could not undo

credentialvars == <<key, ref, cmd, entered, outcome, was, broken>>

None == 0
Bad == -1       \* an entry that cannot be read
Keys == 1 .. MaxKeys

\* previous: the key read before (None when there is none, or it is Bad);
\* stored: put_completed; deleted: credential_deleted.
Command(name, pc, previous, stored, deleted) ==
    [name |-> name, pc |-> pc, previous |-> previous, stored |-> stored, deleted |-> deleted]
Idle == Command("none", "idle", None, FALSE, FALSE)

CredentialInit ==
    /\ key = None /\ ref = FALSE /\ cmd = Idle /\ entered = 0
    /\ outcome = "ok" /\ was = [key |-> None, ref |-> FALSE] /\ broken = FALSE

At(name, pc) == cmd.name = name /\ cmd.pc = pc
Goes(pc) == cmd' = [cmd EXCEPT !.pc = pc]
Ends(how) ==
    /\ cmd' = Idle /\ outcome' = how
    /\ broken' = (broken \/ how = "rollback_failed")

\* The store
Puts(k) == key' = k
Deletes == key' = None
KeepsStore == UNCHANGED key

\* The command takes the lock; `data delete` skips a key without a row,
\* `auth remove` ends there.
Begin(name) ==
    /\ cmd = Idle
    /\ name = "set" => entered < MaxKeys
    /\ was' = [key |-> key, ref |-> ref]
    /\ cmd' = Command(name, IF name = "set" \/ ref THEN "resolve"
                            ELSE IF name = "delete" THEN "row" ELSE "idle",
                      None, FALSE, FALSE)
    /\ entered' = IF name = "set" THEN entered + 1 ELSE entered
    /\ UNCHANGED <<key, ref, outcome, broken>>

NothingToRemove ==
    /\ At("remove", "idle") /\ Ends("ok")
    /\ UNCHANGED <<key, ref, entered, was>>

\* resolve(): a bad entry stops `auth set` and nothing else; a locked store
\* stops them all.
Resolve ==
    /\ cmd.pc = "resolve"
    /\ key = Bad => cmd.name # "set"
    /\ cmd' = Command(cmd.name, IF cmd.name = "delete" /\ key = None THEN "row" ELSE "store",
                      IF key = Bad THEN None ELSE key, FALSE, FALSE)
    /\ UNCHANGED <<key, ref, entered, outcome, was, broken>>

ResolveFails ==
    /\ cmd.pc = "resolve" /\ Ends("refused")
    /\ UNCHANGED <<key, ref, entered, was>>

\* auth set: put()
Put ==
    /\ At("set", "store") /\ Puts(entered)
    /\ cmd' = Command("set", "row", cmd.previous, TRUE, FALSE)
    /\ UNCHANGED <<ref, entered, outcome, was, broken>>

PutFails ==
    /\ At("set", "store") /\ (Puts(entered) \/ KeepsStore)
    /\ Goes("undo")
    /\ UNCHANGED <<ref, entered, outcome, was, broken>>

\* delete() of `auth remove` and `data delete`
Delete ==
    /\ cmd.pc = "store" /\ cmd.name # "set" /\ Deletes
    /\ cmd' = Command(cmd.name, "row", cmd.previous, FALSE, key # None)
    /\ UNCHANGED <<ref, entered, outcome, was, broken>>

\* `auth remove` does not put a key back that the failed deletion took.
DeleteFails ==
    /\ cmd.pc = "store" /\ cmd.name # "set" /\ (Deletes \/ KeepsStore)
    /\ IF cmd.name = "remove" THEN Ends("refused")
       ELSE Goes("undo") /\ UNCHANGED <<outcome, broken>>
    /\ UNCHANGED <<ref, entered, was>>

\* upsert_credential_and_clear_probes(), remove_credential_and_clear_probes(),
\* _remove_credential_identity()
WriteRow ==
    /\ cmd.pc = "row"
    /\ ref' = (cmd.name = "set") /\ Ends("ok")
    /\ UNCHANGED <<key, entered, was>>

WriteRowFails ==
    /\ cmd.pc = "row" /\ Goes("undo")
    /\ UNCHANGED <<key, ref, entered, outcome, was, broken>>

UndoneUnlessStored ==   \* faulty: a failed put is taken to have stored nothing
    IF cmd.previous # None THEN Puts(cmd.previous)
    ELSE IF cmd.name = "set" /\ cmd.stored THEN Deletes ELSE KeepsStore

\* What the compensation does when the store does what it is asked
Undone ==
    IF cmd.previous # None THEN Puts(cmd.previous)
    ELSE IF cmd.name = "set" THEN Deletes ELSE KeepsStore

\* Nothing to put back is a failure of its own: a bad entry that was deleted,
\* a stored key that is no longer there, any `auth remove` without a key.
Undo ==
    /\ cmd.pc = "undo" /\ Undone
    /\ Ends(IF \/ cmd.previous = None /\ cmd.name = "remove"
               \/ cmd.previous = None /\ cmd.name = "delete" /\ cmd.deleted
               \/ cmd.previous = None /\ cmd.stored /\ key = None
            THEN "rollback_failed" ELSE "refused")
    /\ UNCHANGED <<ref, entered, was>>

UndoFails ==
    /\ cmd.pc = "undo"
    /\ cmd.previous # None \/ cmd.name = "set"
    /\ Undone \/ KeepsStore
    /\ Ends("rollback_failed")
    /\ UNCHANGED <<ref, entered, was>>

CrashCredential ==
    /\ cmd # Idle /\ cmd' = Idle
    /\ outcome' = "killed" /\ broken' = TRUE
    /\ UNCHANGED <<key, ref, entered, was>>

\* Something outside the program removes the entry, or makes it unreadable.
StoreDrifts ==
    /\ cmd = Idle /\ key # None
    /\ key' \in {None, Bad} \ {key}
    /\ was' = [key |-> key', ref |-> ref]
    /\ UNCHANGED <<ref, cmd, entered, outcome, broken>>

CredentialNext ==
    \/ \E name \in {"set", "remove", "delete"} : Begin(name)
    \/ NothingToRemove \/ Resolve \/ ResolveFails \/ Put \/ PutFails
    \/ Delete \/ DeleteFails \/ WriteRow \/ WriteRowFails
    \/ Undo \/ UndoFails \/ CrashCredential \/ StoreDrifts

CredentialSpec == CredentialInit /\ [][CredentialNext]_credentialvars

-----------------------------------------------------------------------------
(* Types of the store, the row and the command. *)
CredentialTypeOK ==
    /\ key \in Keys \cup {None, Bad} /\ ref \in BOOLEAN /\ broken \in BOOLEAN
    /\ cmd \in [name: {"none", "set", "remove", "delete"},
                pc: {"idle", "resolve", "store", "row", "undo"},
                previous: Keys \cup {None}, stored: BOOLEAN, deleted: BOOLEAN]
    /\ entered \in 0 .. MaxKeys
    /\ outcome \in {"ok", "refused", "rollback_failed", "killed"}
    /\ was \in [key: Keys \cup {None, Bad}, ref: BOOLEAN]

(* A command that reports an ordinary error leaves the key and its row as   *)
(* they were, except that a key whose deletion failed may be gone with its  *)
(* row still there; and a key without a row, which no command would ever    *)
(* remove, remains only after a command was killed or said that it could    *)
(* not undo what it had done (_dispatch_auth_locked,                        *)
(* _delete_all_steam_web_api_data).                                         *)
FailuresUndone ==
    cmd = Idle =>
        /\ outcome = "refused" =>
            ref = was.ref /\ (key = was.key \/ (key = None /\ ref))
        /\ key # None /\ ~ref => broken

=============================================================================
