--------------------------- MODULE Adoption_proofs ---------------------------
(***************************************************************************)
(* What adoption leaves of a manifest, for any number of operations,       *)
(* whatever power losses, crashes, failing writes and installs by the      *)
(* owner come between its file operations.                                 *)
(*                                                                         *)
(* The four properties speak of the ledger's state and the manifest only.  *)
(* They hold because a manifest of the operation at hand exists, to the    *)
(* processes or on the disk, only while both journals name the operation   *)
(* (Judged), and because a journal that does tells the truth about the     *)
(* backup (BackedUp).                                                      *)
(***************************************************************************)
EXTENDS Adoption, TLAPS

(* No file is of an operation that has not begun, and the library's manifest *)
(* before this one was not its own.                                          *)
Born ==
    /\ \A f \in {seen, disk} : f.manifest.by <= id /\ f.backup.by <= id /\ f.journal.op <= id
    /\ prior <= id /\ (state # "none" => prior < id)

Retiring == {"unlink", "sync unlink", "verdict"}

Stage ==
    /\ pc \notin {"idle"} \cup Retiring => state = "adopting"
    /\ pc \in Retiring => state = "restart"

(* A journal of this operation says whether there was a manifest to back     *)
(* up; if so its backup is there, and survives a power loss.                 *)
Backup(f) == prior # Nobody => f.backup.by = prior
BackedUp ==
    /\ \A f \in {seen, disk} :
          f.journal.op = id =>
            (f.journal.backup <=> prior # Nobody) /\ Backup(seen) /\ Backup(disk)
    /\ pc = "backup" => seen.manifest.by = prior
    /\ pc = "sync backup" => Backup(seen)
    /\ pc \in {"journal", "sync journal", "swap"} => Backup(seen) /\ Backup(disk)
    /\ pc \in {"sync journal", "swap"} => seen.journal.op = id
    /\ pc = "swap" => disk.journal.op = id

(* The operation's manifest is there, or could come back, only while both    *)
(* journals are of the operation; once its journal is dropped it cannot.     *)
Swapped(f) == f.manifest.by = id
Judged ==
    /\ state = "adopting" /\ (Swapped(seen) \/ Swapped(disk)) =>
          seen.journal.op = id /\ disk.journal.op = id
    /\ pc \in {"sync restore", "drop", "sync drop", "fail"} => ~Swapped(seen)
    /\ pc \in {"drop", "sync drop", "fail"} => ~Swapped(disk)

(* Short of a power loss or the owner's install, the manifest is the one     *)
(* before or the operation's own, and which of the two each end knows.       *)
Fate ==
    ~upset =>
      /\ state = "adopting" => seen.manifest.by \in {prior, id}
      /\ pc \in {"sync swap", "record"} => Swapped(seen)
      /\ state \in {"restart", "completed"} => Swapped(seen)
      /\ state = "failed" => seen.manifest.by = prior

AdoptionInv ==
    AdoptionTypeOK /\ Born /\ Stage /\ BackedUp /\ Judged /\ Fate /\ FailureIsFinal

-----------------------------------------------------------------------------
(* What the file operations change *)

LEMMA FilesTyped ==
    ASSUME AdoptionAssumption, AdoptionTypeOK
    PROVE  /\ \A f \in {seen, disk} :
                 /\ f.manifest \in Manifests /\ f.backup \in Manifests /\ f.journal \in Journals
                 /\ f.manifest.by \in Int /\ f.backup.by \in Int /\ f.journal.op \in Int
           /\ id \in Nat /\ id \in Makers /\ prior \in Int
           /\ NoFile \in Manifests /\ NoJournal \in Journals
  <1> USE DEF Makers, Nobody, User
  <1>1. Makers \subseteq Int /\ Nobody \in Makers
    BY SMT DEF AdoptionAssumption
  <1>2. id \in Nat /\ id \in Makers
    <2>1. id \in 0 .. MaxOps
      BY DEF AdoptionTypeOK
    <2> QED
      BY <2>1, SMT DEF AdoptionAssumption
  <1>3. ASSUME NEW f \in Files
        PROVE  /\ f.manifest \in Manifests /\ f.backup \in Manifests /\ f.journal \in Journals
               /\ f.manifest.by \in Makers /\ f.backup.by \in Makers /\ f.journal.op \in Makers
    BY DEF Files, Manifests, Journals
  <1> HIDE DEF Makers, Nobody
  <1> QED
    BY <1>1, <1>2, <1>3 DEF AdoptionTypeOK, NoFile, NoJournal, Manifests, Journals

LEMMA IdBounds ==
    ASSUME AdoptionInv
    PROVE  /\ id <= id /\ NoJournal.op <= id /\ NoJournal.op # id
           /\ NoFile.by <= id /\ NoFile.by # id /\ User <= id /\ User # id /\ Nobody # User
           /\ NoFile.by = Nobody /\ NoJournal.op = Nobody
           /\ state # "none" => prior # id
  <1>1. id \in Nat /\ prior \in Int
    BY FilesTyped, AdoptionAssumption DEF AdoptionInv
  <1>2. state # "none" => prior < id
    BY DEF AdoptionInv, Born
  <1> QED
    BY <1>1, <1>2, SMT DEF NoFile, NoJournal, Nobody, User

LEMMA PutsManifest ==
    ASSUME AdoptionTypeOK, NEW v \in Manifests, Puts("manifest", v)
    PROVE  /\ seen' \in Files /\ seen'.manifest = v /\ disk' = disk
           /\ seen'.backup = seen.backup /\ seen'.journal = seen.journal
  BY DEF AdoptionTypeOK, Puts, Files

LEMMA PutsBackup ==
    ASSUME AdoptionTypeOK, NEW v \in Manifests, Puts("backup", v)
    PROVE  /\ seen' \in Files /\ seen'.backup = v /\ disk' = disk
           /\ seen'.manifest = seen.manifest /\ seen'.journal = seen.journal
  BY DEF AdoptionTypeOK, Puts, Files

LEMMA PutsJournal ==
    ASSUME AdoptionTypeOK, NEW v \in Journals, Puts("journal", v)
    PROVE  /\ seen' \in Files /\ seen'.journal = v /\ disk' = disk
           /\ seen'.manifest = seen.manifest /\ seen'.backup = seen.backup
  BY DEF AdoptionTypeOK, Puts, Files

LEMMA SyncsManifest ==
    ASSUME AdoptionTypeOK, SyncLibrary
    PROVE  /\ disk' \in Files /\ disk'.manifest = seen.manifest /\ seen' = seen
           /\ disk'.backup = disk.backup /\ disk'.journal = disk.journal
  BY DEF AdoptionTypeOK, SyncLibrary, Files

LEMMA SyncsJournal ==
    ASSUME AdoptionTypeOK, SyncJournalDir
    PROVE  /\ disk' \in Files /\ disk'.manifest = disk.manifest /\ seen' = seen
           /\ disk'.backup = seen.backup /\ disk'.journal = seen.journal
  BY DEF AdoptionTypeOK, SyncJournalDir, Files

-----------------------------------------------------------------------------
(* The steps *)

LEMMA AdoptionInitially == AdoptionInit => AdoptionInv
  <1> SUFFICES ASSUME AdoptionInit PROVE AdoptionInv
    OBVIOUS
  <1> USE DEF AdoptionInit, Nobody, User, Makers
  <1>1. /\ seen.manifest \in {NoFile, [by |-> 0, exact |-> TRUE]}
        /\ seen.backup = NoFile /\ seen.journal = NoJournal
    OBVIOUS
  <1>2. Nobody \in Makers /\ 0 \in Makers /\ 0 \in 0 .. MaxOps
    BY AdoptionAssumption, SMT DEF AdoptionAssumption
  <1>3. seen \in Files /\ AdoptionTypeOK
    <2> HIDE DEF Makers, Nobody
    <2>1. NoFile \in Manifests /\ [by |-> 0, exact |-> TRUE] \in Manifests /\ NoJournal \in Journals
      BY <1>2 DEF Manifests, Journals, NoFile, NoJournal
    <2>2. seen \in [manifest: Manifests, backup: Manifests, journal: Journals]
      BY <2>1 DEF AdoptionInit
    <2> QED
      BY <1>2, <2>2 DEF AdoptionInit, AdoptionTypeOK, Places, Files
  <1>4. Born /\ Stage /\ BackedUp /\ Judged /\ Fate /\ FailureIsFinal
    BY <1>1, SMT DEF Born, Stage, BackedUp, Judged, Fate, FailureIsFinal, NoFile, NoJournal, Retiring
  <1> QED
    BY <1>3, <1>4 DEF AdoptionInv

LEMMA BeginAdoptionStep ==
    ASSUME AdoptionInv, BeginAdoption PROVE AdoptionInv'
  <1> USE DEF BeginAdoption, Goto, SameFiles
  <1>1. seen' = seen /\ disk' = disk /\ id' = id + 1 /\ id \in Nat /\ prior' = seen.manifest.by
    BY FilesTyped, AdoptionAssumption DEF AdoptionInv
  <1>2. \A f \in {seen, disk} : f.manifest.by < id' /\ f.backup.by < id' /\ f.journal.op < id'
    BY <1>1, FilesTyped, AdoptionAssumption, SMT DEF AdoptionInv, Born
  <1>3. AdoptionTypeOK'
    <2>1. id + 1 \in 0 .. MaxOps
      BY <1>1, AdoptionAssumption, SMT DEF AdoptionAssumption
    <2>2. seen.manifest.by \in Makers
      BY FilesTyped, AdoptionAssumption DEF AdoptionInv, Manifests
    <2> QED
      BY <1>1, <2>1, <2>2 DEF AdoptionInv, AdoptionTypeOK, Places
  <1>4. Born' /\ Stage' /\ BackedUp' /\ Judged' /\ Fate' /\ FailureIsFinal'
    BY <1>1, <1>2, FilesTyped, AdoptionAssumption, SMT
    DEF AdoptionInv, Born, Stage, BackedUp, Backup, Judged, Swapped, Fate, FailureIsFinal, Retiring, Exists
  <1> QED
    BY <1>3, <1>4 DEF AdoptionInv

LEMMA BackupStep ==
    ASSUME AdoptionInv, WriteBackup \/ SyncBackup PROVE AdoptionInv'
  <1> USE DEF AdoptionInv, Born, Stage, BackedUp, Backup, Judged, Swapped, Fate, FailureIsFinal,
          Retiring, Goto, SameFiles, Same, Raises
  <1>1. CASE WriteBackup
    <2>1. CASE Puts("backup", seen.manifest) /\ pc' = "sync backup"
      <3>1. /\ seen' \in Files /\ seen'.backup = seen.manifest /\ disk' = disk
            /\ seen'.manifest = seen.manifest /\ seen'.journal = seen.journal
        BY <2>1, FilesTyped, AdoptionAssumption, PutsBackup
      <3> QED
        BY <1>1, <2>1, <3>1 DEF AdoptionTypeOK, Places, WriteBackup
    <2> QED
      BY <1>1, <2>1 DEF WriteBackup, AdoptionTypeOK, Places
  <1>2. CASE SyncBackup
    <2>1. CASE SyncJournalDir /\ pc' = "journal"
      <3>1. /\ disk' \in Files /\ disk'.manifest = disk.manifest /\ seen' = seen
            /\ disk'.backup = seen.backup /\ disk'.journal = seen.journal
        BY <2>1, SyncsJournal
      <3> QED
        BY <1>2, <2>1, <3>1 DEF AdoptionTypeOK, Places, SyncBackup
    <2> QED
      BY <1>2, <2>1 DEF SyncBackup, AdoptionTypeOK, Places
  <1> QED
    BY <1>1, <1>2

LEMMA JournalStep ==
    ASSUME AdoptionInv, WriteJournal \/ SyncJournal PROVE AdoptionInv'
  <1> USE DEF AdoptionInv, Born, Stage, BackedUp, Backup, Judged, Swapped, Fate, FailureIsFinal,
          Retiring, Goto, SameFiles, Same, Raises
  <1>1. CASE WriteJournal
    <2> DEFINE entry == [op |-> id, backup |-> prior # Nobody]
    <2>1. CASE Puts("journal", entry) /\ pc' = "sync journal"
      <3>1. entry \in Journals /\ entry.op = id /\ (entry.backup <=> prior # Nobody)
        BY FilesTyped, AdoptionAssumption DEF Journals
      <3>2. /\ seen' \in Files /\ seen'.journal = entry /\ disk' = disk
            /\ seen'.manifest = seen.manifest /\ seen'.backup = seen.backup
        BY <2>1, <3>1, PutsJournal
      <3> HIDE DEF entry
      <3>3. AdoptionTypeOK'
        BY <1>1, <2>1, <3>2 DEF AdoptionTypeOK, Places, WriteJournal
      <3>4. id <= id
        BY IdBounds
      <3> QED
        BY <1>1, <2>1, <3>1, <3>2, <3>3, <3>4 DEF WriteJournal
    <2> QED
      BY <1>1, <2>1 DEF WriteJournal, AdoptionTypeOK, Places
  <1>2. CASE SyncJournal
    <2>1. CASE SyncJournalDir /\ pc' = "swap"
      <3>1. /\ disk' \in Files /\ disk'.manifest = disk.manifest /\ seen' = seen
            /\ disk'.backup = seen.backup /\ disk'.journal = seen.journal
        BY <2>1, SyncsJournal
      <3> QED
        BY <1>2, <2>1, <3>1 DEF AdoptionTypeOK, Places, SyncJournal
    <2> QED
      BY <1>2, <2>1 DEF SyncJournal, AdoptionTypeOK, Places
  <1> QED
    BY <1>1, <1>2

LEMMA SwapStep ==
    ASSUME AdoptionInv, Swap \/ SyncSwap \/ RecordSwap PROVE AdoptionInv'
  <1> USE DEF AdoptionInv, Born, Stage, BackedUp, Backup, Judged, Swapped, Fate, FailureIsFinal,
          Retiring, Goto, SameFiles, Same, Raises
  <1>1. CASE Swap
    <2> DEFINE new == [by |-> id, exact |-> TRUE]
    <2>1. CASE Puts("manifest", new) /\ pc' = "sync swap"
      <3>1. new \in Manifests /\ new.by = id
        BY FilesTyped, AdoptionAssumption DEF Manifests
      <3>2. /\ seen' \in Files /\ seen'.manifest = new /\ disk' = disk
            /\ seen'.backup = seen.backup /\ seen'.journal = seen.journal
        BY <2>1, <3>1, PutsManifest
      <3> HIDE DEF new
      <3>3. AdoptionTypeOK'
        BY <1>1, <2>1, <3>2 DEF AdoptionTypeOK, Places, Swap
      <3>4. id <= id
        BY IdBounds
      <3> QED
        BY <1>1, <2>1, <3>1, <3>2, <3>3, <3>4 DEF Swap
    <2> QED
      BY <1>1, <2>1 DEF Swap, AdoptionTypeOK, Places
  <1>2. CASE SyncSwap
    <2>1. CASE SyncLibrary /\ pc' = "record"
      <3>1. /\ disk' \in Files /\ disk'.manifest = seen.manifest /\ seen' = seen
            /\ disk'.backup = disk.backup /\ disk'.journal = disk.journal
        BY <2>1, SyncsManifest
      <3> QED
        BY <1>2, <2>1, <3>1 DEF AdoptionTypeOK, Places, SyncSwap
    <2> QED
      BY <1>2, <2>1 DEF SyncSwap, AdoptionTypeOK, Places
  <1>3. CASE RecordSwap
    BY <1>3 DEF RecordSwap, AdoptionTypeOK, Places
  <1> QED
    BY <1>1, <1>2, <1>3

LEMMA RetireStep ==
    ASSUME AdoptionInv, ClearJournal \/ SyncClear \/ Verdict PROVE AdoptionInv'
  <1> USE DEF AdoptionInv, Born, Stage, BackedUp, Backup, Judged, Swapped, Fate, FailureIsFinal,
          Retiring, Goto, SameFiles, Same
  <1>1. CASE ClearJournal
    <2>1. /\ seen' \in Files /\ seen'.journal = NoJournal /\ disk' = disk
          /\ seen'.manifest = seen.manifest /\ seen'.backup = seen.backup
      BY <1>1, FilesTyped, AdoptionAssumption, PutsJournal DEF ClearJournal
    <2>2. NoJournal.op <= id /\ NoJournal.op # id
      BY IdBounds
    <2>3. AdoptionTypeOK'
      BY <1>1, <2>1 DEF AdoptionTypeOK, Places, ClearJournal
    <2> QED
      BY <1>1, <2>1, <2>2, <2>3 DEF ClearJournal
  <1>2. CASE SyncClear
    <2>1. /\ disk' \in Files /\ disk'.manifest = disk.manifest /\ seen' = seen
          /\ disk'.backup = seen.backup /\ disk'.journal = seen.journal
      BY <1>2, SyncsJournal DEF SyncClear
    <2> QED
      BY <1>2, <2>1 DEF AdoptionTypeOK, Places, SyncClear
  <1>3. CASE Verdict
    BY <1>3 DEF Verdict, Ends, AdoptionTypeOK, Places
  <1> QED
    BY <1>1, <1>2, <1>3

LEMMA RecoverStep ==
    ASSUME AdoptionInv, Recover \/ RepairClean \/ RepairDefers \/ RepairCompleted PROVE AdoptionInv'
  <1> USE DEF AdoptionInv, Born, Stage, BackedUp, Backup, Judged, Swapped, Fate, FailureIsFinal,
          Retiring, Goto, SameFiles, Same
  <1>1. CASE Recover
    BY <1>1, ZenonT(40) DEF Recover, AdoptionTypeOK, Places
  <1>2. CASE RepairClean
    <2>1. seen.journal.op # id
      BY <1>2, IdBounds DEF RepairClean
    <2> QED
      BY <1>2, <2>1 DEF RepairClean, AdoptionTypeOK, Places
  <1>3. CASE RepairDefers
    BY <1>3 DEF RepairDefers, Defers, AdoptionTypeOK, Places
  <1>4. CASE RepairCompleted
    \* The manifest that no backup was promised for is the swapped one.
    <2>1. ~upset => Swapped(seen)
      <3>1. CASE seen.manifest = [by |-> id, exact |-> TRUE]
        <4>1. [by |-> id, exact |-> TRUE].by = id
          OBVIOUS
        <4> QED
          BY ONLY <3>1, <4>1 DEF Swapped
      <3>2. CASE ~seen.journal.backup /\ Exists(seen.manifest)
        BY <1>4, <3>2 DEF RepairCompleted, Journaled, Exists
      <3> QED
        BY <1>4, <3>1, <3>2 DEF RepairCompleted, LandedSwap
    <2> QED
      BY <1>4, <2>1 DEF RepairCompleted, Journaled, AdoptionTypeOK, Places
  <1> QED
    BY <1>1, <1>2, <1>3, <1>4

LEMMA RepairStaleStep ==
    ASSUME AdoptionInv, RepairStale PROVE AdoptionInv'
  <1> USE DEF AdoptionInv, Born, Stage, BackedUp, Backup, Judged, Swapped, Fate, FailureIsFinal,
          Retiring, Goto, Same
  <1>1. /\ seen' \in Files /\ seen'.journal = NoJournal /\ disk' = disk
        /\ seen'.manifest = seen.manifest /\ seen'.backup = seen.backup
    BY FilesTyped, AdoptionAssumption, PutsJournal DEF RepairStale
  <1>2. NoJournal.op <= id /\ NoJournal.op # id
    BY IdBounds
  <1>3. AdoptionTypeOK'
    BY <1>1 DEF AdoptionTypeOK, Places, RepairStale
  <1> QED
    BY <1>1, <1>2, <1>3 DEF RepairStale

\* The journal tells the truth about the backup: the manifest before returns.
LEMMA RepairRestoresStep ==
    ASSUME AdoptionInv, RepairRestores PROVE AdoptionInv'
  <1> DEFINE old == IF seen.journal.backup THEN seen.backup ELSE NoFile
  <1>1. seen.journal.op = id /\ pc = "repair" /\ state = "adopting"
    BY DEF AdoptionInv, Stage, RepairRestores, Journaled, Retiring
  <1>2. (seen.journal.backup <=> prior # Nobody) /\ (prior # Nobody => seen.backup.by = prior)
    BY <1>1 DEF AdoptionInv, BackedUp, Backup
  <1>3. old \in Manifests /\ old.by = prior
    BY <1>2, FilesTyped, IdBounds, AdoptionAssumption DEF AdoptionInv
  <1>4. /\ seen' \in Files /\ seen'.manifest = old /\ disk' = disk
        /\ seen'.backup = seen.backup /\ seen'.journal = seen.journal
    BY <1>3, PutsManifest DEF RepairRestores, AdoptionInv
  <1>5. prior # id /\ prior <= id
    BY <1>1, IdBounds DEF AdoptionInv, Born
  <1> HIDE DEF old
  <1> USE DEF AdoptionInv, Goto, Same, RepairRestores
  <1>6. AdoptionTypeOK'
    BY <1>1, <1>4 DEF AdoptionTypeOK, Places
  <1> QED
    BY <1>1, <1>3, <1>4, <1>5, <1>6
    DEF Born, Stage, BackedUp, Backup, Judged, Swapped, Fate, FailureIsFinal, Retiring

LEMMA RestoredStep ==
    ASSUME AdoptionInv, SyncRestore \/ DropJournal \/ SyncDrop \/ RecordFailure PROVE AdoptionInv'
  <1> USE DEF AdoptionInv, Born, Stage, BackedUp, Backup, Judged, Swapped, Fate, FailureIsFinal,
          Retiring, Goto, SameFiles, Same
  <1>1. CASE SyncRestore
    <2>1. /\ disk' \in Files /\ disk'.manifest = seen.manifest /\ seen' = seen
          /\ disk'.backup = disk.backup /\ disk'.journal = disk.journal
      BY <1>1, SyncsManifest DEF SyncRestore
    <2> QED
      BY <1>1, <2>1 DEF AdoptionTypeOK, Places, SyncRestore
  <1>2. CASE DropJournal
    <2>1. /\ seen' \in Files /\ seen'.journal = NoJournal /\ disk' = disk
          /\ seen'.manifest = seen.manifest /\ seen'.backup = seen.backup
      BY <1>2, FilesTyped, AdoptionAssumption, PutsJournal DEF DropJournal
    <2>2. NoJournal.op <= id /\ NoJournal.op # id
      BY IdBounds
    <2>3. AdoptionTypeOK'
      BY <1>2, <2>1 DEF AdoptionTypeOK, Places, DropJournal
    <2> QED
      BY <1>2, <2>1, <2>2, <2>3 DEF DropJournal
  <1>3. CASE SyncDrop
    <2>1. /\ disk' \in Files /\ disk'.manifest = disk.manifest /\ seen' = seen
          /\ disk'.backup = seen.backup /\ disk'.journal = seen.journal
      BY <1>3, SyncsJournal DEF SyncDrop
    <2> QED
      BY <1>3, <2>1 DEF AdoptionTypeOK, Places, SyncDrop
  <1>4. CASE RecordFailure
    BY <1>4 DEF RecordFailure, Ends, AdoptionTypeOK, Places
  <1> QED
    BY <1>1, <1>2, <1>3, <1>4

LEMMA PowerLossStep ==
    ASSUME AdoptionInv, PowerLoss PROVE AdoptionInv'
  <1> USE DEF AdoptionInv, Born, Stage, BackedUp, Backup, Judged, Swapped, Fate, FailureIsFinal,
          Retiring, Goto
  <1>1. /\ seen'.manifest \in {seen.manifest, disk.manifest}
        /\ seen'.backup \in {seen.backup, disk.backup}
        /\ seen'.journal \in {seen.journal, disk.journal}
        /\ seen' = [manifest |-> seen'.manifest, backup |-> seen'.backup, journal |-> seen'.journal]
    <2>1. PICK m \in {seen.manifest, disk.manifest}, b \in {seen.backup, disk.backup},
               j \in {seen.journal, disk.journal} :
                 seen' = [manifest |-> m, backup |-> b, journal |-> j]
      BY ONLY PowerLoss, SMT DEF PowerLoss
    <2> QED
      BY ONLY <2>1
  <1>2. seen' \in Files /\ disk' = seen'
    BY <1>1, FilesTyped, AdoptionAssumption DEF PowerLoss, Files
  <1>3. AdoptionTypeOK'
    BY <1>2 DEF AdoptionTypeOK, Places, PowerLoss
  <1> QED
    BY <1>1, <1>2, <1>3 DEF PowerLoss

LEMMA AroundStep ==
    ASSUME AdoptionInv,
           Crash \/ UserStartsClient \/ UserQuitsClient \/ ClientRewrites \/ ClientInstalls
             \/ ChangeMount
    PROVE  AdoptionInv'
  <1> USE DEF AdoptionInv, Born, Stage, BackedUp, Backup, Judged, Swapped, Fate, FailureIsFinal,
          Retiring, Goto, SameFiles, Same
  <1>1. CASE Crash
    BY <1>1, ZenonT(40) DEF Crash, AdoptionTypeOK, Places
  <1>2. CASE UserStartsClient \/ UserQuitsClient
    BY <1>2, ZenonT(40) DEF UserStartsClient, UserQuitsClient, AdoptionTypeOK, Places
  <1>3. CASE ChangeMount
    <2>1. mounted' \in BOOLEAN
      BY <1>3 DEF ChangeMount
    <2> QED
      BY <1>3, <2>1 DEF ChangeMount, AdoptionTypeOK, Places
  <1>4. CASE ClientRewrites
    <2> DEFINE new == [seen.manifest EXCEPT !.exact = FALSE]
    <2>1. new \in Manifests /\ new.by = seen.manifest.by
      BY FilesTyped, AdoptionAssumption DEF Manifests
    <2>2. /\ seen' \in Files /\ seen'.manifest = new /\ disk' = disk
          /\ seen'.backup = seen.backup /\ seen'.journal = seen.journal
      BY <1>4, <2>1, PutsManifest DEF ClientRewrites
    <2> HIDE DEF new
    <2>3. AdoptionTypeOK'
      BY <1>4, <2>2 DEF AdoptionTypeOK, Places, ClientRewrites
    <2> QED
      BY <1>4, <2>1, <2>2, <2>3, ZenonT(40) DEF ClientRewrites, AdoptionTypeOK
  <1>5. CASE ClientInstalls
    <2> DEFINE new == [by |-> User, exact |-> TRUE]
    <2>1. new \in Manifests /\ new.by = User
      BY DEF Manifests, Makers
    <2>2. /\ seen' \in Files /\ seen'.manifest = new /\ disk' = disk
          /\ seen'.backup = seen.backup /\ seen'.journal = seen.journal
      BY <1>5, <2>1, PutsManifest DEF ClientInstalls
    <2>3. User <= id /\ User # id
      BY IdBounds
    <2> HIDE DEF new
    <2>4. AdoptionTypeOK'
      BY <1>5, <2>2 DEF AdoptionTypeOK, Places, ClientInstalls
    <2> QED
      BY <1>5, <2>1, <2>2, <2>3, <2>4 DEF ClientInstalls, AdoptionTypeOK
  <1> QED
    BY <1>1, <1>4, <1>5, <1>2, <1>3

LEMMA AdoptionStep ==
    ASSUME AdoptionInv, [AdoptionNext]_avars PROVE AdoptionInv'
  <1>1. CASE Adopt
    BY <1>1, BeginAdoptionStep, BackupStep, JournalStep, SwapStep, RetireStep DEF Adopt
  <1>2. CASE Repair
    BY <1>2, RecoverStep, RepairStaleStep, RepairRestoresStep, RestoredStep DEF Repair
  <1>3. CASE Around
    BY <1>3, PowerLossStep, AroundStep DEF Around
  <1>4. CASE UNCHANGED avars
    <2>1. /\ seen' = seen /\ disk' = disk
          /\ UNCHANGED <<state, id, prior, pc, client, mounted, upset>>
      BY <1>4 DEF avars
    <2>2. AdoptionTypeOK' /\ Stage' /\ Fate'
      BY <2>1 DEF AdoptionInv, AdoptionTypeOK, Stage, Fate, Swapped
    <2> QED
      BY <2>1, <2>2 DEF AdoptionInv, Born, BackedUp, Backup, Judged, Swapped, FailureIsFinal
  <1> QED
    BY <1>1, <1>2, <1>3, <1>4 DEF AdoptionNext

LEMMA AdoptionAlways == AdoptionSpec => []AdoptionInv
  BY AdoptionInitially, AdoptionStep, PTL DEF AdoptionSpec

-----------------------------------------------------------------------------
(* The files and the ledger stay well formed, and no command works on the   *)
(* manifest under a running client (executor.py).                           *)
THEOREM AdoptionTyped == AdoptionSpec => []AdoptionTypeOK
  <1>1. AdoptionInv => AdoptionTypeOK
    BY DEF AdoptionInv
  <1> QED
    BY <1>1, AdoptionAlways, PTL

(* A power loss never leaves the swapped manifest without the journal and   *)
(* the backup that reconciliation judges it by (adopt_manifest).            *)
THEOREM SwapsAreJournaled == AdoptionSpec => []SwapIsJournaled
  <1>1. AdoptionInv => SwapIsJournaled
    BY DEF AdoptionInv, SwapIsJournaled, Judged, Swapped, BackedUp, Backup
  <1> QED
    BY <1>1, AdoptionAlways, PTL

(* The manifest of an operation that failed never comes back, not even out  *)
(* of a power loss (reconcile_adoption: the journal goes after the restore  *)
(* is on the disk).                                                         *)
THEOREM FailuresAreFinal == AdoptionSpec => []FailureIsFinal
  <1>1. AdoptionInv => FailureIsFinal
    BY DEF AdoptionInv
  <1> QED
    BY <1>1, AdoptionAlways, PTL

(* Short of a power loss or an install by the owner, a failed adoption gave *)
(* the library back the manifest it had (reconcile_adoption) ...            *)
THEOREM FailuresRestore == AdoptionSpec => []FailureRestores
  <1>1. AdoptionInv => FailureRestores
    BY DEF AdoptionInv, FailureRestores, Fate
  <1> QED
    BY <1>1, AdoptionAlways, PTL

(* ... and a completed one left it the manifest steamcmd wrote.             *)
THEOREM CompletionsAdopt == AdoptionSpec => []CompletionAdopts
  <1>1. AdoptionInv => CompletionAdopts
    BY DEF AdoptionInv, CompletionAdopts, Fate, Swapped
  <1> QED
    BY <1>1, AdoptionAlways, PTL

=============================================================================
