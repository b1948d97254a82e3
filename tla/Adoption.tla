------------------------------- MODULE Adoption -------------------------------
(***************************************************************************)
(* One title's manifest in the client's library, replaced by the one       *)
(* steamcmd wrote, file by file (src/steam_agent/execution/content_plane.py, *)
(* adopt_manifest, clear_adoption_journal, reconcile_adoption; called from *)
(* executor.py).                                                           *)
(*                                                                         *)
(* Three files matter: the manifest, its backup and the journal.  A file   *)
(* has the value processes see and the value on the disk; a rename or an   *)
(* unlink changes the first, an fsync of its directory the second, and a   *)
(* power loss leaves either.  The ledger (SQLite) is durable at once.      *)
(*                                                                         *)
(* Abstracted: a manifest is who made it and whether its bytes are still   *)
(* theirs; temporary files (the rename is atomic); an unreadable file.     *)
(* The owner may start the client whenever no broker command runs.         *)
(***************************************************************************)
EXTENDS Integers

CONSTANTS
    MaxOps   \* bound: operations that reach adoption

ASSUME AdoptionAssumption == MaxOps \in Nat

VARIABLES
    state,    \* the ledger state of the operation at hand
    id,       \* the operation at hand
    prior,    \* whose manifest the library had before it
    pc,       \* the broker command, or "idle"
    seen,     \* the files as processes see them
    disk,     \* the files a power loss may fall back to
    client,   \* the Steam client
    mounted,  \* the library's volume is the one the journal names
    upset     \* this operation met a power loss or an install by the owner

avars == <<state, id, prior, pc, seen, disk, client, mounted, upset>>

Nobody == -1   \* no such file
User == -2     \* a manifest the client wrote for the owner's own install
Makers == {Nobody, User} \cup 0 .. MaxOps   \* 0: there before the first

NoFile == [by |-> Nobody, exact |-> TRUE]
Manifests == [by: Makers, exact: BOOLEAN]
Exists(f) == f.by # Nobody

\* backup: the record names a backup
NoJournal == [op |-> Nobody, backup |-> FALSE]
Journals == [op: Makers, backup: BOOLEAN]

Files == [manifest: Manifests, backup: Manifests, journal: Journals]

AdoptionInit ==
    /\ state = "none" /\ id = 0 /\ prior = Nobody /\ pc = "idle"
    /\ seen \in [manifest: {NoFile, [by |-> 0, exact |-> TRUE]},
                 backup: {NoFile}, journal: {NoJournal}]
    /\ disk = seen
    /\ client = "down" /\ mounted = TRUE /\ upset = FALSE

Goto(l) == pc' = l
Same == UNCHANGED <<state, id, prior, client, mounted, upset>>
SameFiles == UNCHANGED <<seen, disk>>

\* _durable_write(), unlink: the entry changes now.
Puts(f, v) == seen' = [seen EXCEPT ![f] = v] /\ UNCHANGED disk

\* _fsync_dir(): what is in the directory is on the disk.
SyncLibrary == disk' = [disk EXCEPT !.manifest = seen.manifest] /\ UNCHANGED seen
SyncJournalDir ==
    /\ disk' = [disk EXCEPT !.backup = seen.backup, !.journal = seen.journal]
    /\ UNCHANGED seen

\* Any OSError inside adopt_manifest sends the command to repair.
Raises == Goto("repair") /\ SameFiles

-----------------------------------------------------------------------------
(* adopt_manifest() *)

\* The ledger says adopting; the client is down.
BeginAdoption ==
    /\ pc = "idle" /\ state \in {"none", "failed", "completed"} /\ id < MaxOps
    /\ client = "down" /\ mounted
    /\ state' = "adopting" /\ id' = id + 1
    /\ prior' = seen.manifest.by
    /\ Goto(IF Exists(seen.manifest) THEN "backup" ELSE "journal")
    /\ upset' = FALSE
    /\ SameFiles /\ UNCHANGED <<client, mounted>>

WriteBackup ==
    /\ pc = "backup"
    /\ \/ Puts("backup", seen.manifest) /\ Goto("sync backup")
       \/ Raises
    /\ Same

SyncBackup ==
    /\ pc = "sync backup"
    /\ \/ SyncJournalDir /\ Goto("journal")
       \/ Raises
    /\ Same

WriteJournal ==
    /\ pc = "journal"
    /\ \/ /\ Puts("journal", [op |-> id, backup |-> prior # Nobody])
          /\ Goto("sync journal")
       \/ Raises
    /\ Same

SyncJournalUnsynced ==   \* faulty: no fsync of the journal's directory
    /\ pc = "sync journal" /\ Goto("swap") /\ SameFiles /\ Same

SyncJournal ==
    /\ pc = "sync journal"
    /\ \/ SyncJournalDir /\ Goto("swap")
       \/ Raises
    /\ Same

Swap ==
    /\ pc = "swap"
    /\ \/ Puts("manifest", [by |-> id, exact |-> TRUE]) /\ Goto("sync swap")
       \/ Raises
    /\ Same

SyncSwap ==
    /\ pc = "sync swap"
    /\ \/ SyncLibrary /\ Goto("record")
       \/ Raises
    /\ Same

\* ledger.transition(..., "client_restart_pending")
RecordSwap ==
    /\ pc = "record"
    /\ state' = "restart" /\ Goto("unlink")
    /\ SameFiles /\ UNCHANGED <<id, prior, client, mounted, upset>>

-----------------------------------------------------------------------------
(* clear_adoption_journal(), and the verdict *)

ClearJournal ==
    /\ pc = "unlink"
    /\ Puts("journal", NoJournal) /\ Goto("sync unlink") /\ Same

SyncClear ==
    /\ pc = "sync unlink"
    /\ SyncJournalDir /\ Goto("verdict")
    /\ Same

Ends(to) ==
    /\ state' = to /\ Goto("idle")
    /\ SameFiles /\ UNCHANGED <<id, prior, client, mounted, upset>>

Verdict == pc = "verdict" /\ Ends("completed")

-----------------------------------------------------------------------------
(* reconcile_adoption() *)

\* AdoptionError: the command ends, the row stays adopting.
Defers == Goto("idle") /\ SameFiles /\ Same

LandedAnyBytes ==   \* faulty: any manifest of the title counts as the swap
    Exists(seen.manifest)

\* The journaled bytes are there; or, with no backup, any manifest of the
\* title ("can only be the landed swap").
LandedSwap ==
    \/ seen.manifest = [by |-> id, exact |-> TRUE]
    \/ ~seen.journal.backup /\ Exists(seen.manifest)

RepairClean ==
    /\ pc = "repair" /\ seen.journal = NoJournal
    /\ Goto("fail") /\ SameFiles /\ Same

\* A journal that another operation left proves nothing; its unlink is not
\* synced.
RepairStale ==
    /\ pc = "repair" /\ seen.journal # NoJournal /\ mounted
    /\ seen.journal.op # id
    /\ Puts("journal", NoJournal) /\ Goto("fail") /\ Same

Journaled == pc = "repair" /\ seen.journal.op = id /\ mounted

\* Another volume is exposed at the path, or the promised backup is gone.
RepairDefers ==
    /\ pc = "repair" /\ seen.journal # NoJournal
    /\ \/ ~mounted
       \/ seen.journal = [op |-> id, backup |-> TRUE] /\ ~LandedSwap
          /\ ~Exists(seen.backup)
    /\ Defers

RepairCompleted ==
    /\ Journaled /\ LandedSwap
    /\ Goto("record") /\ SameFiles /\ Same

RepairDropsBackup ==   \* faulty: the manifest is unlinked, backup or not
    /\ Journaled /\ ~LandedSwap
    /\ Puts("manifest", NoFile)
    /\ Goto("sync restore") /\ Same

\* The backup, or no manifest at all, goes back in place.
RepairRestores ==
    /\ Journaled /\ ~LandedSwap
    /\ seen.journal.backup => Exists(seen.backup)
    /\ Puts("manifest", IF seen.journal.backup THEN seen.backup ELSE NoFile)
    /\ Goto("sync restore") /\ Same

SyncRestoreUnsynced ==   \* faulty: the journal goes while the restore is cached
    /\ pc = "sync restore" /\ Goto("drop") /\ SameFiles /\ Same

SyncRestore ==
    /\ pc = "sync restore"
    /\ SyncLibrary /\ Goto("drop")
    /\ Same

DropJournal ==
    /\ pc = "drop"
    /\ Puts("journal", NoJournal) /\ Goto("sync drop") /\ Same

SyncDrop ==
    /\ pc = "sync drop"
    /\ SyncJournalDir /\ Goto("fail") /\ Same

RecordFailure == pc = "fail" /\ Ends("failed")

\* reconcile(): the client is stopped before the manifest is judged.
Recover ==
    /\ pc = "idle"
    /\ \/ /\ state = "adopting" /\ Goto("repair") /\ client' = "down"
       \/ /\ state = "restart" /\ Goto("unlink") /\ UNCHANGED client
    /\ SameFiles /\ UNCHANGED <<state, id, prior, mounted, upset>>

-----------------------------------------------------------------------------
(* What goes on around it *)

\* An OSError in a repair or while the journal is retired ends the command at
\* the same places.
Crash == pc # "idle" /\ Goto("idle") /\ SameFiles /\ Same

PowerLoss ==
    /\ seen' \in {[manifest |-> m, backup |-> b, journal |-> j] :
                    m \in {seen.manifest, disk.manifest},
                    b \in {seen.backup, disk.backup},
                    j \in {seen.journal, disk.journal}}
    /\ disk' = seen'
    /\ Goto("idle") /\ client' = "down" /\ upset' = TRUE
    /\ UNCHANGED <<state, id, prior, mounted>>

UserStartsClient ==
    /\ pc = "idle" /\ client = "down" /\ mounted
    /\ client' = "up"
    /\ SameFiles /\ UNCHANGED <<state, id, prior, pc, mounted, upset>>

UserQuitsClient ==
    /\ client = "up" /\ client' = "down"
    /\ SameFiles /\ UNCHANGED <<state, id, prior, pc, mounted, upset>>

\* A running client writes its manifests in its own formatting.
ClientRewrites ==
    /\ client = "up" /\ mounted
    /\ seen.manifest.by # Nobody /\ seen.manifest.exact
    /\ Puts("manifest", [seen.manifest EXCEPT !.exact = FALSE])
    /\ Same /\ UNCHANGED pc

ClientInstalls ==
    /\ client = "up" /\ mounted
    /\ ~Exists(seen.manifest)
    /\ Puts("manifest", [by |-> User, exact |-> TRUE])
    /\ upset' = TRUE
    /\ UNCHANGED <<state, id, prior, pc, client, mounted>>

ChangeMount ==
    /\ pc = "idle" /\ client = "down"
    /\ mounted' = ~mounted
    /\ SameFiles /\ UNCHANGED <<state, id, prior, pc, client, upset>>

Adopt ==
    \/ BeginAdoption \/ WriteBackup \/ SyncBackup \/ WriteJournal \/ SyncJournal
    \/ Swap \/ SyncSwap \/ RecordSwap \/ ClearJournal \/ SyncClear \/ Verdict

Repair ==
    \/ Recover \/ RepairClean \/ RepairStale \/ RepairDefers
    \/ RepairCompleted \/ RepairRestores \/ SyncRestore \/ DropJournal \/ SyncDrop \/ RecordFailure

Around ==
    \/ Crash \/ PowerLoss \/ UserStartsClient \/ UserQuitsClient
    \/ ClientRewrites \/ ClientInstalls \/ ChangeMount

AdoptionNext == Adopt \/ Repair \/ Around

AdoptionSpec == AdoptionInit /\ [][AdoptionNext]_avars

-----------------------------------------------------------------------------
(* Properties *)

Places ==
    {"idle", "backup", "sync backup", "journal", "sync journal", "swap",
     "sync swap", "record", "unlink", "sync unlink", "verdict", "repair",
     "sync restore", "drop", "sync drop", "fail"}

\* No command works on the manifest under a running client.
AdoptionTypeOK ==
    /\ state \in {"none", "adopting", "restart", "failed", "completed"}
    /\ id \in 0 .. MaxOps /\ prior \in Makers
    /\ pc \in Places
    /\ seen \in Files /\ disk \in Files
    /\ client \in {"up", "down"} /\ mounted \in BOOLEAN /\ upset \in BOOLEAN
    /\ client = "up" => pc \in {"idle", "unlink", "sync unlink", "verdict"}

\* "A power loss can never persist the swapped manifest without the journal
\* (and backup) that reconciliation needs to judge it."
SwapIsJournaled ==
    state = "adopting" /\ disk.manifest.by = id
    => /\ disk.journal.op = id
       /\ disk.journal.backup => disk.backup.by = prior

\* A failed adoption left nothing behind: neither now nor after a power loss
\* does the manifest of an operation that failed come back.
FailureIsFinal ==
    state = "failed" => seen.manifest.by # id /\ disk.manifest.by # id

\* Short of a power loss, a failed adoption left the library the manifest it
\* had before, and a completed one the manifest steamcmd wrote.
FailureRestores == state = "failed" /\ ~upset => seen.manifest.by = prior
CompletionAdopts == state = "completed" /\ ~upset => seen.manifest.by = id

\* "For a fresh install (no backup) a parseable manifest for this appid at
\* the destination can only be the landed swap."
CompletedWasSwapped ==
    state = "completed" => seen.manifest.by # User

\* "Retire the journal once its swap is durably complete.": when
\* clear_adoption_journal() returns, the swap that every process sees, and that
\* is no install of the owner's, is on the disk.
RetiredIsDurable ==
    pc = "verdict" /\ seen.manifest.by = id => disk.manifest.by = id

=============================================================================
