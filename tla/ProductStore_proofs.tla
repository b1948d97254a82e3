------------------------- MODULE ProductStore_proofs -------------------------
(***************************************************************************)
(* The parts of the product store keep what they promise for any number of *)
(* processes, accounts, titles and runs and any bounds on the clocks.  One *)
(* section proves the inductive invariant of one part over the actions of  *)
(* its module, as ProductStore instantiates it (SubjectSync's and           *)
(* CatalogSync's are in ProductFacts_proofs); the last carries them over to *)
(* StoreSpec, whose behaviours follow one part.                            *)
(***************************************************************************)
EXTENDS Sequences, ProductFacts_proofs

(***************************************************************************)
(* SnapshotSync.  The invariant is CurrentIsNewest itself, stated of any   *)
(* three tables so that it can be followed through the parts of one        *)
(* transaction (close, promote, prune), and two facts about ids: no run is *)
(* open under the next one, and the promoted run is one of the runs.       *)
(***************************************************************************)

LaterIn(table, q, r) ==
    IF kind = "activity"
    THEN \/ table[q].started > table[r].started
         \/ table[q].started = table[r].started /\ q > r
    ELSE q > r

Rests(table, held, c) ==
    /\ c.run # 0 =>
        /\ c.run \in Snapshot!RunIds
        /\ table[c.run].status = "complete" /\ table[c.run].promoted
        /\ held[c.run] = [kept |-> TRUE, apps |-> c.apps]
        /\ \A q \in Snapshot!RunIds : table[q].status = "complete" /\ LaterIn(table, q, c.run) =>
              kind = "activity" /\ ~table[q].promoted
    /\ c.run = 0 /\ kind # "activity" => \A r \in Snapshot!RunIds : table[r].status # "complete"

Unborn(table, n) == \A r \in Snapshot!RunIds : r >= n => table[r].status = "absent"

Typed(table) == table \in [Snapshot!RunIds -> Snapshot!RunRecords]

SnapshotInv ==
    /\ kind \in Snapshot!Kinds
    /\ Typed(runs) /\ rows \in [Snapshot!RunIds -> Snapshot!RowSets]
    /\ nextRun \in Nat /\ Unborn(runs, nextRun)
    /\ Rests(runs, rows, current)

LEMMA RunIdsNat == ASSUME Snapshot!SyncRunsAssumption PROVE Snapshot!RunIds \subseteq Nat \ {0}
  BY DEF Snapshot!RunIds, Snapshot!SyncRunsAssumption

LEMMA RestsIsNewest ==
    ASSUME Rests(runs, rows, current)
    PROVE  Snapshot!CurrentIsNewest
  BY DEF Rests, Snapshot!CurrentIsNewest, Snapshot!Is, Snapshot!Later, LaterIn, Snapshot!StartedLater

LEMMA EndedRunTyped ==
    ASSUME NEW entry \in Snapshot!RunRecords, NEW s \in Snapshot!Statuses, NEW t \in Snapshot!Times,
           NEW p \in BOOLEAN
    PROVE  Snapshot!EndedRun(entry, s, t, p) \in Snapshot!RunRecords
  BY DEF Snapshot!EndedRun, Snapshot!RunRecords

LEMMA TimesTyped == ASSUME Snapshot!SyncRunsAssumption PROVE 0 \in Snapshot!Times /\ Snapshot!Times \subseteq Int
  BY SMT DEF Snapshot!Times, Snapshot!SyncRunsAssumption

-----------------------------------------------------------------------------
(* The parts of a transaction *)

LEMMA OpenedRests ==
    ASSUME Snapshot!SyncRunsAssumption, NEW table, Typed(table), NEW held, NEW c, Rests(table, held, c),
           nextRun \in Snapshot!RunIds, table[nextRun].status = "absent", NEW t \in Snapshot!Times
    PROVE  Typed(Snapshot!Opened(table, t)) /\ Rests(Snapshot!Opened(table, t), held, c)
  <1> DEFINE new == [status |-> "running", started |-> t, completed |-> 0, promoted |-> FALSE]
  <1>1. new \in Snapshot!RunRecords
    BY TimesTyped DEF Snapshot!RunRecords, Snapshot!Statuses
  <1>2. Snapshot!Opened(table, t) = [table EXCEPT ![nextRun] = new]
    BY DEF Snapshot!Opened
  <1>3. Snapshot!Opened(table, t)[nextRun].status = "running"
    BY <1>2 DEF Typed
  <1>4. \A q \in Snapshot!RunIds : q # nextRun => Snapshot!Opened(table, t)[q] = table[q]
    BY <1>2 DEF Typed
  <1>5. Typed(Snapshot!Opened(table, t))
    BY <1>1, <1>2 DEF Typed
  <1> HIDE DEF new
  <1>6. c.run # 0 => c.run # nextRun
    BY DEF Rests
  <1> QED
    BY <1>3, <1>4, <1>5, <1>6 DEF Rests, LaterIn

\* What a closed run says, and that it is the only one that changed.
ClosesOnly(table, r, s, p) ==
    /\ table[r].status = s /\ table[r].promoted = p /\ table[r].started = runs[r].started
    /\ \A q \in Snapshot!RunIds : q # r => table[q] = runs[q]

LEMMA ClosedRun ==
    ASSUME Snapshot!SyncRunsAssumption, Typed(runs), NEW r \in Snapshot!RunIds,
           NEW s \in Snapshot!Statuses, NEW t \in Snapshot!Times,
           NEW p \in BOOLEAN
    PROVE  Typed(Snapshot!Closed(runs, r, s, t, p)) /\ ClosesOnly(Snapshot!Closed(runs, r, s, t, p), r, s, p)
  <1> DEFINE entry == Snapshot!EndedRun(runs[r], s, t, p)
  <1>1. Snapshot!Closed(runs, r, s, t, p) = [runs EXCEPT ![r] = entry]
    BY DEF Snapshot!Closed, Typed
  <1>2. entry \in Snapshot!RunRecords
    BY EndedRunTyped DEF Typed
  <1>3. entry.status = s /\ entry.promoted = p /\ entry.started = runs[r].started
    BY DEF Snapshot!EndedRun
  <1> HIDE DEF entry
  <1> QED
    BY <1>1, <1>2, <1>3 DEF Typed, ClosesOnly

\* A run closed without being completed changes nothing that is shown.
LEMMA FailedRests ==
    ASSUME Snapshot!SyncRunsAssumption, Typed(runs), Rests(runs, rows, current),
           NEW r \in Snapshot!RunIds,
           Snapshot!Is(r, "running"), NEW s \in {"failed", "partial"}, NEW t \in Snapshot!Times,
           NEW table, table = Snapshot!Closed(runs, r, s, t, FALSE)
    PROVE  Typed(table) /\ Rests(table, rows, current)
  <1>1. s \in Snapshot!Statuses /\ FALSE \in BOOLEAN
    BY DEF Snapshot!Statuses
  <1>2. Typed(table) /\ ClosesOnly(table, r, s, FALSE)
    BY <1>1, ClosedRun
  <1>3. current.run # 0 => current.run # r
    BY DEF Rests, Snapshot!Is
  <1> QED
    BY <1>2, <1>3 DEF Rests, LaterIn, ClosesOnly

\* A completed run is promoted unless a newer one was: with its own rows, and
\* sparing, when it is not promoted, every row but its own.
PromotedOrNot(r, held, c) ==
    /\ Snapshot!Superseded(r) => c = current /\ \A q \in Snapshot!RunIds : q # r => held[q] = rows[q]
    /\ ~Snapshot!Superseded(r) => c.run = r /\ held[r] = [kept |-> TRUE, apps |-> c.apps]

LEMMA CompletedRests ==
    ASSUME Snapshot!SyncRunsAssumption, kind \in Snapshot!Kinds, Typed(runs),
           Rests(runs, rows, current),
           NEW r \in Snapshot!RunIds, Snapshot!Is(r, "running"), NEW t \in Snapshot!Times, NEW table,
           NEW held, NEW c,
           table = Snapshot!Closed(runs, r, "complete", t, ~Snapshot!Superseded(r)),
           PromotedOrNot(r, held, c)
    PROVE  Typed(table) /\ Rests(table, held, c)
  <1>1. /\ Typed(table) /\ table[r].status = "complete"
        /\ table[r].promoted = ~Snapshot!Superseded(r) /\ table[r].started = runs[r].started
        /\ \A q \in Snapshot!RunIds : q # r => table[q] = runs[q]
    <2>1. "complete" \in Snapshot!Statuses /\ (~Snapshot!Superseded(r)) \in BOOLEAN
      BY DEF Snapshot!Statuses
    <2>2. Typed(table) /\ ClosesOnly(table, r, "complete", ~Snapshot!Superseded(r))
      BY <2>1, ClosedRun
    <2> QED
      BY <2>2 DEF ClosesOnly
  <1>2. \A q \in Snapshot!RunIds : q \in Nat /\ q # 0 /\ runs[q].started \in Int
    BY RunIdsNat, TimesTyped DEF Typed, Snapshot!RunRecords
  <1>3. CASE Snapshot!Superseded(r)
    <2>1. PICK q \in Snapshot!RunIds : /\ runs[q].status = "complete" /\ Snapshot!Later(q, r)
                                       /\ kind = "activity" => runs[q].promoted
      BY <1>3 DEF Snapshot!Superseded, Snapshot!Is
    <2>2. ~table[r].promoted
      BY <1>1, <1>3
    <2>3. current.run # 0 => current.run # r
      BY DEF Rests, Snapshot!Is
    <2>4. current.run = 0 => kind = "activity"
      BY <2>1 DEF Rests
    <2>5. kind # "activity" => ~LaterIn(table, r, current.run)
      <3>1. SUFFICES ASSUME kind # "activity" PROVE ~(r > current.run)
        BY DEF LaterIn
      <3>2. q > r
        BY <2>1, <3>1 DEF Snapshot!Later
      <3>3. ~(q > current.run)
        BY <2>1, <2>4, <3>1 DEF Rests, LaterIn
      <3>4. current.run \in Nat
        BY <1>2, <2>4, <3>1 DEF Rests
      <3> QED
        BY <1>2, <3>2, <3>3, <3>4, SMT
    <2> QED
      BY <1>1, <1>3, <2>2, <2>3, <2>4, <2>5 DEF Rests, LaterIn, PromotedOrNot
  <1>4. CASE ~Snapshot!Superseded(r)
    <2>1. c.run = r /\ r # 0 /\ held[r] = [kept |-> TRUE, apps |-> c.apps]
      BY <1>2, <1>4 DEF PromotedOrNot
    <2>2. ~LaterIn(table, r, r)
      BY <1>1, <1>2, SMT DEF LaterIn
    <2>3. ASSUME NEW q \in Snapshot!RunIds, table[q].status = "complete", LaterIn(table, q, r)
          PROVE  kind = "activity" /\ ~table[q].promoted
      <3>1. q # r
        BY <2>2, <2>3
      <3>2. runs[q].status = "complete" /\ Snapshot!Later(q, r)
        BY <1>1, <2>3, <3>1 DEF LaterIn, Snapshot!Later, Snapshot!StartedLater
      <3> QED
        BY <1>1, <1>4, <3>1, <3>2 DEF Snapshot!Superseded, Snapshot!Is
    <2> QED
      BY <1>1, <1>4, <2>1, <2>3 DEF Rests
  <1> QED
    BY <1>3, <1>4

\* Pruning spares the promoted run, or takes what is shown with it.
LEMMA PrunedRests ==
    ASSUME Snapshot!SyncRunsAssumption, NEW table, Typed(table), NEW held, NEW c, Rests(table, held, c),
           NEW gone, NEW left,
           left = [q \in Snapshot!RunIds |-> IF q \in gone THEN Snapshot!NoRows ELSE held[q]],
           NEW d, (d = c /\ c.run \notin gone) \/ (d = Snapshot!NoSnapshot /\ kind = "activity")
    PROVE  Typed(Snapshot!Without(table, gone)) /\ Rests(Snapshot!Without(table, gone), left, d)
  <1>1. Snapshot!NoRun \in Snapshot!RunRecords /\ Snapshot!NoRun.status = "absent"
    BY TimesTyped DEF Snapshot!NoRun, Snapshot!RunRecords, Snapshot!Statuses
  <1>2. \A q \in Snapshot!RunIds :
            /\ q \notin gone => Snapshot!Without(table, gone)[q] = table[q] /\ left[q] = held[q]
            /\ q \in gone => Snapshot!Without(table, gone)[q].status = "absent"
    BY <1>1 DEF Snapshot!Without
  <1>3. Typed(Snapshot!Without(table, gone))
    BY <1>1 DEF Snapshot!Without, Typed
  <1>4. CASE d = Snapshot!NoSnapshot /\ kind = "activity"
    BY <1>3, <1>4 DEF Rests, Snapshot!NoSnapshot
  <1>5. CASE d = c /\ c.run \notin gone
    <2>1. c.run # 0 => /\ Snapshot!Without(table, gone)[c.run] = table[c.run]
                       /\ left[c.run] = held[c.run] /\ c.run \in Snapshot!RunIds
      BY <1>2, <1>5 DEF Rests
    <2>2. \A q \in Snapshot!RunIds : Snapshot!Without(table, gone)[q].status = "complete" =>
                                Snapshot!Without(table, gone)[q] = table[q]
      BY <1>2
    <2> QED
      BY <1>3, <1>5, <2>1, <2>2 DEF Rests, LaterIn
  <1> QED
    BY <1>4, <1>5

-----------------------------------------------------------------------------
(* The operations *)

LEMMA SnapshotInitially ==
    ASSUME Snapshot!SyncRunsAssumption
    PROVE  Snapshot!SnapshotInit => SnapshotInv
  <1> SUFFICES ASSUME Snapshot!SnapshotInit PROVE SnapshotInv
    OBVIOUS
  <1> USE DEF Snapshot!SnapshotInit, Snapshot!SyncRunsInit
  <1>1. Snapshot!NoRun \in Snapshot!RunRecords /\ Snapshot!NoRun.status = "absent"
    BY TimesTyped DEF Snapshot!NoRun, Snapshot!RunRecords, Snapshot!Statuses
  <1>2. Typed(runs) /\ Unborn(runs, nextRun) /\ nextRun \in Nat
    BY <1>1 DEF Typed, Unborn
  <1>3. rows \in [Snapshot!RunIds -> Snapshot!RowSets]
    BY DEF Snapshot!NoRows, Snapshot!RowSets
  <1>4. Rests(runs, rows, current)
    BY <1>1 DEF Rests, Snapshot!NoSnapshot
  <1> QED
    BY <1>2, <1>3, <1>4 DEF SnapshotInv

\* What a run leaves behind when it is closed, or forgotten
LEMMA LeavesUnborn ==
    ASSUME SnapshotInv, NEW r \in Snapshot!RunIds, Snapshot!Is(r, "running"), NEW table, NEW gone,
           \A q \in Snapshot!RunIds : q # r => table[q] = runs[q]
    PROVE  Unborn(table, nextRun) /\ Unborn(Snapshot!Without(table, gone), nextRun)
  <1>1. Unborn(table, nextRun)
    BY DEF SnapshotInv, Unborn, Snapshot!Is
  <1> QED
    BY <1>1 DEF Unborn, Snapshot!Without, Snapshot!NoRun

\* Steps that open or close no run and show the same rows
LEMMA IdleStep ==
    ASSUME SnapshotInv, UNCHANGED <<runs, nextRun, kind, current, rows>>
    PROVE  SnapshotInv' /\ Snapshot!SnapshotKept
  <1>1. SnapshotInv'
    BY DEF SnapshotInv, Typed, Unborn, Rests, LaterIn
  <1> QED
    BY <1>1 DEF Snapshot!SnapshotKept

\* What is left to show of every other step
LEMMA StepInv ==
    ASSUME SnapshotInv, kind' = kind, Typed(runs'), rows' \in [Snapshot!RunIds -> Snapshot!RowSets],
           nextRun' \in Nat, Unborn(runs', nextRun'), Rests(runs', rows', current')
    PROVE  SnapshotInv'
  BY DEF SnapshotInv, Typed, Unborn, Rests, LaterIn

LEMMA BeginSyncStep ==
    ASSUME Snapshot!SyncRunsAssumption, SnapshotInv, NEW p \in Proc, NEW t \in Snapshot!Times,
           Snapshot!BeginSync(p, t)
    PROVE  SnapshotInv' /\ Snapshot!SnapshotKept
  <1>1. /\ runs' = Snapshot!Opened(runs, t) /\ nextRun' = nextRun + 1 /\ nextRun \in Snapshot!RunIds
        /\ UNCHANGED <<kind, current, rows>>
    BY DEF Snapshot!BeginSync, Snapshot!CanOpen
  <1>2. /\ Typed(runs) /\ Rests(runs, rows, current) /\ nextRun \in Nat
        /\ runs[nextRun].status = "absent" /\ Unborn(runs, nextRun)
        /\ rows \in [Snapshot!RunIds -> Snapshot!RowSets]
    BY <1>1, SMT DEF SnapshotInv, Unborn
  <1>3. Typed(runs') /\ Rests(runs', rows', current')
    BY <1>1, <1>2, OpenedRests
  <1>4. Unborn(runs', nextRun')
    BY <1>1, <1>2, RunIdsNat, SMT DEF Unborn, Snapshot!Opened, Typed
  <1>5. nextRun' \in Nat
    BY <1>1, <1>2
  <1> QED
    BY <1>1, <1>2, <1>3, <1>4, <1>5, StepInv DEF Snapshot!SnapshotKept

\* PrunedActivity keeps what is shown or shows nothing.
LEMMA PrunedShown ==
    ASSUME NEW c, NEW table, NEW t
    PROVE  \/ Snapshot!PrunedActivity(c, table, t) = c /\ c.run \notin Snapshot!ExpiredRuns(table, t)
           \/ Snapshot!PrunedActivity(c, table, t) = Snapshot!NoSnapshot
  BY DEF Snapshot!PrunedActivity

LEMMA PrunedRowsTyped ==
    ASSUME NEW held \in [Snapshot!RunIds -> Snapshot!RowSets], NEW gone
    PROVE  [r \in Snapshot!RunIds |-> IF r \in gone THEN Snapshot!NoRows ELSE held[r]] \in [Snapshot!RunIds -> Snapshot!RowSets]
  BY DEF Snapshot!NoRows, Snapshot!RowSets

LEMMA ReadActivityStep ==
    ASSUME Snapshot!SyncRunsAssumption, SnapshotInv, NEW t \in Snapshot!Times, Snapshot!ReadActivity(t)
    PROVE  SnapshotInv' /\ Snapshot!SnapshotKept
  <1> DEFINE gone == Snapshot!ExpiredRuns(runs, t)
  <1>1. /\ runs' = Snapshot!Without(runs, gone) /\ kind = "activity" /\ UNCHANGED <<kind, nextRun>>
        /\ rows' = [r \in Snapshot!RunIds |-> IF r \in gone THEN Snapshot!NoRows ELSE rows[r]]
        /\ current' = Snapshot!PrunedActivity(current, runs, t)
    BY DEF Snapshot!ReadActivity
  <1>2. /\ Typed(runs) /\ Rests(runs, rows, current) /\ nextRun \in Nat /\ Unborn(runs, nextRun)
        /\ rows \in [Snapshot!RunIds -> Snapshot!RowSets]
    BY DEF SnapshotInv
  <1>3. (current' = current /\ current.run \notin gone) \/ current' = Snapshot!NoSnapshot
    BY <1>1, PrunedShown
  <1> HIDE DEF gone
  <1>4. Typed(runs') /\ Rests(runs', rows', current')
    BY <1>1, <1>2, <1>3, PrunedRests
  <1>5. rows' \in [Snapshot!RunIds -> Snapshot!RowSets]
    BY <1>1, <1>2, PrunedRowsTyped
  <1>6. Unborn(runs', nextRun')
    BY <1>1, <1>2 DEF Unborn, Snapshot!Without, Snapshot!NoRun
  <1>7. SnapshotInv'
    BY <1>1, <1>2, <1>4, <1>5, <1>6, StepInv
  <1> QED
    BY <1>1, <1>3, <1>7 DEF Snapshot!SnapshotKept

LEMMA BeginActivityStep ==
    ASSUME Snapshot!SyncRunsAssumption, SnapshotInv, NEW p \in Proc, NEW t \in Snapshot!Times,
           Snapshot!BeginActivity(p, t)
    PROVE  SnapshotInv' /\ Snapshot!SnapshotKept
  <1> DEFINE gone == Snapshot!ExpiredRuns(runs, t)
             left == Snapshot!Without(runs, gone)
  <1>1. /\ runs' = Snapshot!Opened(left, t) /\ kind = "activity" /\ UNCHANGED kind
        /\ nextRun \in Snapshot!RunIds /\ nextRun' = nextRun + 1
        /\ rows' = [r \in Snapshot!RunIds |-> IF r \in gone THEN Snapshot!NoRows ELSE rows[r]]
        /\ current' = Snapshot!PrunedActivity(current, runs, t)
    BY DEF Snapshot!BeginActivity, Snapshot!CanOpen
  <1>2. /\ Typed(runs) /\ Rests(runs, rows, current) /\ nextRun \in Nat /\ Unborn(runs, nextRun)
        /\ rows \in [Snapshot!RunIds -> Snapshot!RowSets]
    BY DEF SnapshotInv
  <1>3. (current' = current /\ current.run \notin gone) \/ current' = Snapshot!NoSnapshot
    BY <1>1, PrunedShown
  <1> HIDE DEF gone
  <1>4. Unborn(left, nextRun) /\ left[nextRun].status = "absent"
    BY <1>1, <1>2, RunIdsNat, SMT DEF Unborn, Snapshot!Without, Snapshot!NoRun
  <1>5. Typed(left) /\ Rests(left, rows', current')
    BY <1>1, <1>2, <1>3, PrunedRests
  <1> HIDE DEF left
  <1>6. Typed(runs') /\ Rests(runs', rows', current')
    BY <1>1, <1>4, <1>5, OpenedRests
  <1>7. Unborn(runs', nextRun') /\ nextRun' \in Nat
    BY <1>1, <1>2, <1>4, <1>5, RunIdsNat, SMT DEF Unborn, Snapshot!Opened, Typed
  <1>8. rows' \in [Snapshot!RunIds -> Snapshot!RowSets]
    BY <1>1, <1>2, PrunedRowsTyped
  <1>9. SnapshotInv'
    BY <1>1, <1>6, <1>7, <1>8, StepInv
  <1> QED
    BY <1>1, <1>3, <1>9 DEF Snapshot!SnapshotKept

LEMMA BeginSystemProfileStep ==
    ASSUME Snapshot!SyncRunsAssumption, SnapshotInv, NEW p \in Proc, NEW t \in Snapshot!Times,
           Snapshot!BeginSystemProfile(p, t)
    PROVE  SnapshotInv' /\ Snapshot!SnapshotKept
  <1> DEFINE gone == Snapshot!OldHistory(t)
             left == [r \in Snapshot!RunIds |->
                         IF r \in gone THEN Snapshot!NoRun
                         ELSE IF r \in Snapshot!Abandoned(t) THEN Snapshot!EndedRun(runs[r], "failed", t, FALSE)
                         ELSE runs[r]]
  <1>1. /\ runs' = Snapshot!Opened(left, t) /\ kind = "system_profile" /\ UNCHANGED kind
        /\ nextRun \in Snapshot!RunIds /\ nextRun' = nextRun + 1
        /\ rows' = [r \in Snapshot!RunIds |-> IF r \in gone THEN Snapshot!NoRows ELSE rows[r]]
        /\ current' = IF current.run \in gone THEN Snapshot!NoSnapshot ELSE current
    BY DEF Snapshot!BeginSystemProfile, Snapshot!CanOpen
  <1>2. /\ Typed(runs) /\ Rests(runs, rows, current) /\ nextRun \in Nat /\ Unborn(runs, nextRun)
        /\ rows \in [Snapshot!RunIds -> Snapshot!RowSets]
    BY DEF SnapshotInv
  <1>3. current.run \notin gone /\ current' = current
    BY <1>1 DEF Snapshot!OldHistory
  <1>4. Snapshot!NoRun \in Snapshot!RunRecords /\ Snapshot!NoRun.status = "absent"
    BY TimesTyped DEF Snapshot!NoRun, Snapshot!RunRecords, Snapshot!Statuses
  <1>5. ASSUME NEW r \in Snapshot!RunIds
        PROVE  /\ Snapshot!EndedRun(runs[r], "failed", t, FALSE) \in Snapshot!RunRecords
               /\ Snapshot!EndedRun(runs[r], "failed", t, FALSE).status = "failed"
    <2>1. "failed" \in Snapshot!Statuses /\ runs[r] \in Snapshot!RunRecords
      BY <1>2 DEF Snapshot!Statuses, Typed
    <2> QED
      BY <2>1, EndedRunTyped DEF Snapshot!EndedRun
  <1>6. Typed(left)
    BY <1>2, <1>4, <1>5 DEF Typed
  <1>7. \A r \in Snapshot!RunIds : left[r].status = "complete" => left[r] = runs[r]
    BY <1>4, <1>5
  <1>8. current.run # 0 => left[current.run] = runs[current.run] /\ rows'[current.run] = rows[current.run]
    BY <1>1, <1>2, <1>3 DEF Rests, Snapshot!Abandoned, Snapshot!Is
  <1>9. \A r \in Snapshot!RunIds : runs[r].status = "absent" => left[r].status = "absent"
    BY <1>4 DEF Snapshot!Abandoned, Snapshot!Is
  <1> HIDE DEF left, gone
  <1>10. Rests(left, rows', current')
    BY <1>1, <1>2, <1>3, <1>7, <1>8 DEF Rests, LaterIn
  <1>11. Unborn(left, nextRun) /\ left[nextRun].status = "absent"
    BY <1>1, <1>2, <1>9, RunIdsNat, SMT DEF Unborn
  <1>12. Typed(runs') /\ Rests(runs', rows', current')
    BY <1>1, <1>6, <1>10, <1>11, OpenedRests
  <1>13. Unborn(runs', nextRun') /\ nextRun' \in Nat
    BY <1>1, <1>2, <1>6, <1>11, RunIdsNat, SMT DEF Unborn, Snapshot!Opened, Typed
  <1>14. rows' \in [Snapshot!RunIds -> Snapshot!RowSets]
    BY <1>1, <1>2, PrunedRowsTyped
  <1>15. SnapshotInv'
    BY <1>1, <1>12, <1>13, <1>14, StepInv
  <1> QED
    BY <1>3, <1>15 DEF Snapshot!SnapshotKept

LEMMA RecordInstalledStep ==
    ASSUME Snapshot!SyncRunsAssumption, SnapshotInv, NEW p \in Proc, NEW a \in Apps,
           Snapshot!RecordInstalled(p, a)
    PROVE  SnapshotInv' /\ Snapshot!SnapshotKept
  <1> DEFINE r == proc[p].run
             entry == [kept |-> TRUE, apps |-> rows[r].apps \cup {a}]
  <1>1. /\ r \in Snapshot!RunIds /\ Snapshot!Is(r, "running") /\ rows' = [rows EXCEPT ![r] = entry]
        /\ UNCHANGED <<runs, nextRun, kind, current>>
    BY DEF Snapshot!RecordInstalled, Snapshot!MayComplete, Snapshot!Live
  <1>2. rows \in [Snapshot!RunIds -> Snapshot!RowSets]
    BY DEF SnapshotInv
  <1>3. entry \in Snapshot!RowSets
    <2>1. rows[r] \in Snapshot!RowSets
      BY <1>1, <1>2
    <2> QED
      BY <2>1 DEF Snapshot!RowSets
  <1> HIDE DEF r, entry
  <1>4. rows' \in [Snapshot!RunIds -> Snapshot!RowSets] /\ \A q \in Snapshot!RunIds : q # r => rows'[q] = rows[q]
    BY <1>1, <1>2, <1>3
  <1>5. Rests(runs, rows', current)
    BY <1>1, <1>4 DEF SnapshotInv, Rests, Snapshot!Is
  <1>6. SnapshotInv'
    BY <1>1, <1>4, <1>5, StepInv DEF SnapshotInv
  <1> QED
    BY <1>1, <1>6 DEF Snapshot!SnapshotKept

\* The four commands whose completion prunes no runs: what is promoted is the
\* run with its rows; what is not promoted leaves the other rows alone.
LEMMA CompleteStep ==
    ASSUME Snapshot!SyncRunsAssumption, SnapshotInv, NEW r \in Snapshot!RunIds,
           Snapshot!Is(r, "running"), NEW t \in Snapshot!Times,
           runs' = Snapshot!Closed(runs, r, "complete", t, ~Snapshot!Superseded(r)),
           UNCHANGED <<nextRun, kind>>, rows' \in [Snapshot!RunIds -> Snapshot!RowSets],
           PromotedOrNot(r, rows', current')
    PROVE  SnapshotInv' /\ Snapshot!SnapshotKept
  <1>1. kind \in Snapshot!Kinds /\ Typed(runs) /\ Rests(runs, rows, current) /\ nextRun \in Nat
    BY DEF SnapshotInv
  <1>2. Typed(runs') /\ Rests(runs', rows', current')
    BY <1>1, CompletedRests
  <1>3. \A q \in Snapshot!RunIds : q # r => runs'[q] = runs[q]
    BY <1>1 DEF Snapshot!Closed, Typed
  <1>4. Unborn(runs', nextRun)
    BY <1>3, LeavesUnborn
  <1>5. SnapshotInv'
    BY <1>1, <1>2, <1>4, StepInv
  <1> QED
    BY <1>5 DEF Snapshot!SnapshotKept, PromotedOrNot

LEMMA CompleteInstalledStep ==
    ASSUME Snapshot!SyncRunsAssumption, SnapshotInv, NEW p \in Proc, NEW t \in Snapshot!Times,
           Snapshot!CompleteInstalled(p, t)
    PROVE  SnapshotInv' /\ Snapshot!SnapshotKept
  <1> DEFINE r == proc[p].run
  <1>1. /\ r \in Snapshot!RunIds /\ Snapshot!Is(r, "running") /\ UNCHANGED <<nextRun, kind>>
        /\ runs' = Snapshot!Closed(runs, r, "complete", Snapshot!CompletedAt(t), ~Snapshot!Superseded(r))
        /\ rows' = [rows EXCEPT ![r].kept = TRUE]
        /\ current' = IF Snapshot!Superseded(r) THEN current
                      ELSE [run |-> r, apps |-> rows[r].apps, at |-> 0]
    BY DEF Snapshot!CompleteInstalled, Snapshot!MayComplete, Snapshot!Live
  <1>2. rows \in [Snapshot!RunIds -> Snapshot!RowSets] /\ Snapshot!CompletedAt(t) \in Snapshot!Times
    BY TimesTyped DEF SnapshotInv, Snapshot!CompletedAt
  <1>3. rows[r].apps \in SUBSET Apps
    BY <1>1, <1>2 DEF Snapshot!RowSets
  <1> HIDE DEF r
  <1>4. /\ \A q \in Snapshot!RunIds : q # r => rows'[q] = rows[q]
        /\ rows'[r] = [kept |-> TRUE, apps |-> rows[r].apps]
    BY <1>1, <1>2 DEF Snapshot!RowSets
  <1>5. rows' \in [Snapshot!RunIds -> Snapshot!RowSets]
    BY <1>1, <1>2 DEF Snapshot!RowSets
  <1> QED
    BY <1>1, <1>2, <1>4, <1>5, CompleteStep DEF PromotedOrNot

LEMMA PrunedTyped ==
    ASSUME rows \in [Snapshot!RunIds -> Snapshot!RowSets], NEW r \in Snapshot!RunIds,
           NEW apps \in SUBSET Apps
    PROVE  /\ [Snapshot!Pruned(rows, r) EXCEPT ![r] = [kept |-> TRUE, apps |-> apps]] \in [Snapshot!RunIds -> Snapshot!RowSets]
           /\ [Snapshot!Pruned(rows, r) EXCEPT ![r] = [kept |-> TRUE, apps |-> apps]][r]
                = [kept |-> TRUE, apps |-> apps]
  BY DEF Snapshot!Pruned, Snapshot!NoRows, Snapshot!RowSets

LEMMA CompleteOtherStep ==
    ASSUME Snapshot!SyncRunsAssumption, SnapshotInv, NEW p \in Proc, NEW apps \in SUBSET Apps,
           NEW t \in Snapshot!Times,
           Snapshot!CompleteOwned(p, apps, t) \/ Snapshot!CompleteWishlist(p, apps, t)
               \/ Snapshot!CompleteSystemProfile(p, apps, t)
    PROVE  SnapshotInv' /\ Snapshot!SnapshotKept
  <1> DEFINE r == proc[p].run
             new == [run |-> r, apps |-> apps, at |-> 0]
             entry == [kept |-> TRUE, apps |-> apps]
  <1>1. /\ r \in Snapshot!RunIds /\ Snapshot!Is(r, "running") /\ UNCHANGED <<nextRun, kind>>
        /\ runs' = Snapshot!Closed(runs, r, "complete", Snapshot!CompletedAt(t), ~Snapshot!Superseded(r))
    BY DEF Snapshot!CompleteOwned, Snapshot!CompleteWishlist, Snapshot!CompleteSystemProfile,
        Snapshot!MayComplete, Snapshot!Live
  <1>2. rows \in [Snapshot!RunIds -> Snapshot!RowSets] /\ Snapshot!CompletedAt(t) \in Snapshot!Times
    BY TimesTyped DEF SnapshotInv, Snapshot!CompletedAt
  <1>3. new.run = r /\ new.apps = apps /\ entry \in Snapshot!RowSets
    BY DEF Snapshot!RowSets
  <1>4. \/ /\ rows' = [rows EXCEPT ![r] = entry]
           /\ current' = IF Snapshot!Superseded(r) THEN current ELSE new
        \/ Snapshot!Superseded(r) /\ rows' = rows /\ current' = current
        \/ ~Snapshot!Superseded(r) /\ rows' = [Snapshot!Pruned(rows, r) EXCEPT ![r] = entry] /\ current' = new
    BY DEF Snapshot!CompleteOwned, Snapshot!CompleteWishlist, Snapshot!CompleteSystemProfile
  <1>5. /\ rows' \in [Snapshot!RunIds -> Snapshot!RowSets]
        /\ Snapshot!Superseded(r) => current' = current /\ \A q \in Snapshot!RunIds : q # r => rows'[q] = rows[q]
        /\ ~Snapshot!Superseded(r) => current' = new /\ rows'[r] = entry
    <2>1. CASE rows' = [rows EXCEPT ![r] = entry] /\ current' = IF Snapshot!Superseded(r) THEN current ELSE new
      <3> HIDE DEF entry, new, r
      <3> QED
        BY <1>1, <1>2, <1>3, <2>1
    <2>2. CASE Snapshot!Superseded(r) /\ rows' = rows /\ current' = current
      BY <1>2, <2>2
    <2>3. CASE ~Snapshot!Superseded(r) /\ rows' = [Snapshot!Pruned(rows, r) EXCEPT ![r] = entry] /\ current' = new
      BY <1>1, <1>2, <2>3, PrunedTyped
    <2> QED
      BY <1>4, <2>1, <2>2, <2>3
  <1> QED
    BY <1>1, <1>2, <1>3, <1>5, CompleteStep DEF PromotedOrNot

LEMMA CompleteActivityStep ==
    ASSUME Snapshot!SyncRunsAssumption, SnapshotInv, NEW p \in Proc, NEW apps \in SUBSET Apps,
           NEW o \in Snapshot!Times, NEW t \in Snapshot!Times, Snapshot!CompleteActivity(p, apps, o, t)
    PROVE  SnapshotInv' /\ Snapshot!SnapshotKept
  <1> DEFINE r == proc[p].run
             table == Snapshot!Closed(runs, r, "complete", Snapshot!CompletedAt(t), ~Snapshot!Superseded(r))
             entry == [kept |-> TRUE, apps |-> apps]
             put == [rows EXCEPT ![r] = entry]
             new == [run |-> r, apps |-> apps, at |-> o]
             next == IF Snapshot!Superseded(r) THEN current ELSE new
             gone == Snapshot!ExpiredRuns(table, t)
  <1>1. /\ r \in Snapshot!RunIds /\ Snapshot!Is(r, "running") /\ kind = "activity" /\ UNCHANGED <<nextRun, kind>>
        /\ runs' = Snapshot!Without(table, gone)
        /\ rows' = [q \in Snapshot!RunIds |-> IF q \in gone THEN Snapshot!NoRows ELSE put[q]]
        /\ current' = Snapshot!PrunedActivity(next, table, t)
    BY DEF Snapshot!CompleteActivity, Snapshot!MayComplete, Snapshot!Live
  <1>2. /\ rows \in [Snapshot!RunIds -> Snapshot!RowSets] /\ Snapshot!CompletedAt(t) \in Snapshot!Times /\ nextRun \in Nat
        /\ kind \in Snapshot!Kinds /\ Typed(runs) /\ Rests(runs, rows, current)
    BY TimesTyped DEF SnapshotInv, Snapshot!CompletedAt
  <1>3. new.run = r /\ new.apps = apps /\ entry \in Snapshot!RowSets
    BY DEF Snapshot!RowSets
  <1>4. put \in [Snapshot!RunIds -> Snapshot!RowSets] /\ put[r] = entry /\ \A q \in Snapshot!RunIds : q # r => put[q] = rows[q]
    <2> HIDE DEF entry, r
    <2> QED
      BY <1>1, <1>2, <1>3
  <1>5. PromotedOrNot(r, put, next)
    <2> HIDE DEF put, new, r
    <2> QED
      BY <1>3, <1>4 DEF PromotedOrNot
  <1>6. (current' = next /\ next.run \notin gone) \/ current' = Snapshot!NoSnapshot
    BY <1>1, PrunedShown
  <1>7. \A q \in Snapshot!RunIds : q # r => table[q] = runs[q]
    BY <1>2 DEF Snapshot!Closed, Typed
  <1>8. table = Snapshot!Closed(runs, r, "complete", Snapshot!CompletedAt(t), ~Snapshot!Superseded(r))
    OBVIOUS
  <1> HIDE DEF table, gone, put, next
  <1>9. Typed(table) /\ Rests(table, put, next)
    BY <1>1, <1>2, <1>5, <1>8, CompletedRests
  <1>10. Typed(runs') /\ Rests(runs', rows', current')
    BY <1>1, <1>6, <1>9, PrunedRests
  <1>11. rows' \in [Snapshot!RunIds -> Snapshot!RowSets]
    BY <1>1, <1>4, PrunedRowsTyped
  <1>12. Unborn(runs', nextRun)
    BY <1>1, <1>7, LeavesUnborn
  <1>13. SnapshotInv'
    BY <1>1, <1>2, <1>10, <1>11, <1>12, StepInv
  <1> QED
    BY <1>1, <1>3, <1>6, <1>13 DEF Snapshot!SnapshotKept, next

\* A run that is closed without being completed, or was gone already
LEMMA FailsStep ==
    ASSUME Snapshot!SyncRunsAssumption, SnapshotInv, NEW p \in Proc, NEW s \in {"failed", "partial"},
           NEW t \in Snapshot!Times, Snapshot!Fails(p, s, t), Snapshot!KeepsSnapshot
    PROVE  SnapshotInv' /\ Snapshot!SnapshotKept
  <1> DEFINE r == proc[p].run
  <1>1. UNCHANGED <<nextRun, kind, current, rows>>
    BY DEF Snapshot!Fails, Snapshot!KeepsSnapshot
  <1>2. /\ rows \in [Snapshot!RunIds -> Snapshot!RowSets] /\ Snapshot!CompletedAt(t) \in Snapshot!Times /\ nextRun \in Nat
        /\ Typed(runs) /\ Rests(runs, rows, current)
    BY TimesTyped DEF SnapshotInv, Snapshot!CompletedAt
  <1>3. CASE r \in Snapshot!RunIds /\ Snapshot!Is(r, "running")
    <2>1. runs' = Snapshot!Closed(runs, r, s, Snapshot!CompletedAt(t), FALSE)
      BY <1>3 DEF Snapshot!Fails, Snapshot!Live, Snapshot!Is
    <2>2. \A q \in Snapshot!RunIds : q # r => runs'[q] = runs[q]
      BY <1>2, <2>1 DEF Snapshot!Closed, Typed
    <2> HIDE DEF r
    <2>3. Typed(runs') /\ Rests(runs', rows, current)
      BY <1>2, <1>3, <2>1, FailedRests
    <2>4. Unborn(runs', nextRun)
      BY <1>3, <2>2, LeavesUnborn
    <2>5. SnapshotInv'
      BY <1>1, <1>2, <2>3, <2>4, StepInv
    <2> QED
      BY <1>1, <2>5 DEF Snapshot!SnapshotKept
  <1>4. CASE ~(r \in Snapshot!RunIds /\ Snapshot!Is(r, "running"))
    <2>1. runs' = runs
      BY <1>4 DEF Snapshot!Fails, Snapshot!Live
    <2> QED
      BY <1>1, <2>1, IdleStep
  <1> QED
    BY <1>3, <1>4

LEMMA FailActivityStep ==
    ASSUME Snapshot!SyncRunsAssumption, SnapshotInv, NEW p \in Proc, NEW t \in Snapshot!Times,
           Snapshot!FailActivity(p, t)
    PROVE  SnapshotInv' /\ Snapshot!SnapshotKept
  <1> DEFINE r == proc[p].run
             table == Snapshot!Closed(runs, r, "failed", 0, FALSE)
             gone == Snapshot!ExpiredRuns(table, t)
  <1>1. kind = "activity" /\ UNCHANGED <<nextRun, kind>>
    BY DEF Snapshot!FailActivity
  <1>2. /\ rows \in [Snapshot!RunIds -> Snapshot!RowSets] /\ nextRun \in Nat /\ 0 \in Snapshot!Times
        /\ Typed(runs) /\ Rests(runs, rows, current)
    BY TimesTyped DEF SnapshotInv
  <1>3. CASE r \in Snapshot!RunIds /\ Snapshot!Is(r, "running")
    <2>1. /\ runs' = Snapshot!Without(table, gone)
          /\ rows' = [q \in Snapshot!RunIds |-> IF q \in gone THEN Snapshot!NoRows ELSE rows[q]]
          /\ current' = Snapshot!PrunedActivity(current, table, t)
      BY <1>3 DEF Snapshot!FailActivity, Snapshot!Live, Snapshot!Is
    <2>2. \A q \in Snapshot!RunIds : q # r => table[q] = runs[q]
      BY <1>2 DEF Snapshot!Closed, Typed
    <2>3. (current' = current /\ current.run \notin gone) \/ current' = Snapshot!NoSnapshot
      BY <2>1, PrunedShown
    <2>4. table = Snapshot!Closed(runs, r, "failed", 0, FALSE)
      OBVIOUS
    <2> HIDE DEF r, table, gone
    <2>5. Typed(table) /\ Rests(table, rows, current)
      BY <1>2, <1>3, <2>4, FailedRests
    <2>6. Typed(runs') /\ Rests(runs', rows', current')
      BY <1>1, <2>1, <2>3, <2>5, PrunedRests
    <2>7. rows' \in [Snapshot!RunIds -> Snapshot!RowSets]
      BY <1>2, <2>1, PrunedRowsTyped
    <2>8. Unborn(runs', nextRun)
      BY <1>3, <2>1, <2>2, LeavesUnborn
    <2>9. SnapshotInv'
      BY <1>1, <1>2, <2>6, <2>7, <2>8, StepInv
    <2> QED
      BY <1>1, <2>3, <2>9 DEF Snapshot!SnapshotKept
  <1>4. CASE ~(r \in Snapshot!RunIds /\ Snapshot!Is(r, "running"))
    <2>1. UNCHANGED <<runs, rows, current>>
      BY <1>4 DEF Snapshot!FailActivity, Snapshot!Live
    <2> QED
      BY <1>1, <2>1, IdleStep
  <1> QED
    BY <1>3, <1>4

LEMMA EmptiedStep ==
    ASSUME Snapshot!SyncRunsAssumption, SnapshotInv, Snapshot!Emptied, UNCHANGED <<nextRun, kind>>
    PROVE  SnapshotInv' /\ Snapshot!SnapshotKept
  <1>1. Snapshot!NoRun \in Snapshot!RunRecords /\ Snapshot!NoRun.status = "absent"
    BY TimesTyped DEF Snapshot!NoRun, Snapshot!RunRecords, Snapshot!Statuses
  <1>2. runs' = [r \in Snapshot!RunIds |-> Snapshot!NoRun] /\ rows' = [r \in Snapshot!RunIds |-> Snapshot!NoRows]
        /\ current' = Snapshot!NoSnapshot /\ consent' = Snapshot!None
    BY DEF Snapshot!Emptied
  <1>3. Typed(runs') /\ Rests(runs', rows', current')
    BY <1>1, <1>2 DEF Typed, Rests, Snapshot!NoSnapshot
  <1>4. rows' \in [Snapshot!RunIds -> Snapshot!RowSets]
    BY <1>2 DEF Snapshot!NoRows, Snapshot!RowSets
  <1>5. Unborn(runs', nextRun')
    BY <1>1, <1>2 DEF Unborn
  <1>6. SnapshotInv'
    BY <1>3, <1>4, <1>5, StepInv DEF SnapshotInv
  <1> QED
    BY <1>2, <1>6 DEF Snapshot!SnapshotKept

-----------------------------------------------------------------------------
LEMMA SnapshotNextStep ==
    ASSUME Snapshot!SyncRunsAssumption, SnapshotInv, [Snapshot!SnapshotNext]_(Snapshot!snapvars)
    PROVE  SnapshotInv' /\ Snapshot!SnapshotKept
  <1>1. Snapshot!ClockShows \subseteq Snapshot!Times
    BY TimesTyped DEF Snapshot!ClockShows
  <1>2. ASSUME NEW p \in Proc, Snapshot!SnapshotStep(p)
        PROVE  SnapshotInv' /\ Snapshot!SnapshotKept
    <2>1. CASE Snapshot!AdmitScan(p) \/ Snapshot!AdmitOwned(p) \/ Snapshot!AdmitWishlist(p) \/ Snapshot!AdmitActivity(p)
                  \/ Snapshot!AdmitSystemProfile(p) \/ Snapshot!Crash(p)
      BY <2>1, IdleStep DEF Snapshot!AdmitScan, Snapshot!AdmitOwned, Snapshot!AdmitWishlist,
          Snapshot!AdmitActivity,
                            Snapshot!AdmitSystemProfile, Snapshot!Admits, Snapshot!Crash
    <2>2. CASE \E a \in Apps : Snapshot!RecordInstalled(p, a)
      BY <2>2, RecordInstalledStep
    <2>3. ASSUME NEW t \in Snapshot!ClockShows,
                 Snapshot!BeginSync(p, t) \/ Snapshot!BeginActivity(p, t) \/ Snapshot!BeginSystemProfile(p, t)
          PROVE  SnapshotInv' /\ Snapshot!SnapshotKept
      BY <1>1, <2>3, BeginSyncStep, BeginActivityStep, BeginSystemProfileStep
    <2>4. ASSUME NEW t \in Snapshot!ClockShows,
                 Snapshot!CompleteInstalled(p, t) \/ Snapshot!FailActivity(p, t)
          PROVE  SnapshotInv' /\ Snapshot!SnapshotKept
      BY <1>1, <2>4, CompleteInstalledStep, FailActivityStep
    <2>5. ASSUME NEW t \in Snapshot!ClockShows,
                 Snapshot!FailInstalled(p, t) \/ Snapshot!FailOwned(p, t) \/ Snapshot!FailWishlist(p, t)
                     \/ Snapshot!FailSystemProfile(p, t)
          PROVE  SnapshotInv' /\ Snapshot!SnapshotKept
      <3>1. Snapshot!KeepsSnapshot /\ \E s \in {"failed", "partial"} : Snapshot!Fails(p, s, t)
        BY <2>5 DEF Snapshot!FailInstalled, Snapshot!FailOwned, Snapshot!FailWishlist,
            Snapshot!FailSystemProfile
      <3> QED
        BY <1>1, <3>1, FailsStep
    <2>6. ASSUME NEW t \in Snapshot!ClockShows, NEW apps \in SUBSET Apps,
                 Snapshot!CompleteOwned(p, apps, t) \/ Snapshot!CompleteWishlist(p, apps, t)
                     \/ Snapshot!CompleteSystemProfile(p, apps, t)
          PROVE  SnapshotInv' /\ Snapshot!SnapshotKept
      BY <1>1, <2>6, CompleteOtherStep
    <2>7. ASSUME NEW t \in Snapshot!ClockShows, NEW apps \in SUBSET Apps, NEW o \in Snapshot!ClockShows,
                 Snapshot!CompleteActivity(p, apps, o, t)
          PROVE  SnapshotInv' /\ Snapshot!SnapshotKept
      BY <1>1, <2>7, CompleteActivityStep
    <2> QED
      BY <1>2, <2>1, <2>2, <2>3, <2>4, <2>5, <2>6, <2>7 DEF Snapshot!SnapshotStep
  <1>3. ASSUME NEW t \in Snapshot!ClockShows, Snapshot!ReadActivity(t)
        PROVE  SnapshotInv' /\ Snapshot!SnapshotKept
    BY <1>1, <1>3, ReadActivityStep
  <1>4. ASSUME NEW n \in 2 .. MaxOwners, Snapshot!ConfigureAccount(n)
        PROVE  SnapshotInv' /\ Snapshot!SnapshotKept
    BY <1>4, IdleStep DEF Snapshot!ConfigureAccount
  <1>5. CASE Snapshot!DeleteAccount \/ Snapshot!DeleteSystemProfile
    BY <1>5, EmptiedStep DEF Snapshot!DeleteAccount, Snapshot!DeleteSystemProfile
  <1>6. CASE UNCHANGED Snapshot!snapvars
    BY <1>6, IdleStep DEF Snapshot!snapvars
  <1> QED
    BY <1>2, <1>3, <1>4, <1>5, <1>6 DEF Snapshot!SnapshotNext

-----------------------------------------------------------------------------
(* The labels of a query rest on the newest attempt and on the newest       *)
(* success, the items on the promoted run.  What ties them for activity is  *)
(* that a completed run was left unpromoted only for a later one that was   *)
(* promoted, and that one is never pruned before it.                        *)
Vouched(table) ==
    \A n \in Snapshot!RunIds : table[n].status = "complete" /\ ~table[n].promoted =>
        \E q \in Snapshot!RunIds : table[q].status = "complete" /\ table[q].promoted /\ LaterIn(table, q, n)

ActivityVouched == kind = "activity" => Vouched(runs)

LEMMA RestVouched ==
    ASSUME NEW table, NEW other, \A q \in Snapshot!RunIds : table[q].status = "complete" => other[q] = table[q],
           \A q \in Snapshot!RunIds : other[q].status = "complete" => other[q] = table[q],
           Vouched(table)
    PROVE  Vouched(other)
  BY DEF Vouched, LaterIn

\* Pruning by age takes a run's successor only with the run.
LEMMA PrunedVouched ==
    ASSUME Snapshot!SyncRunsAssumption, kind = "activity", NEW table, Typed(table), Vouched(table),
           NEW t \in Snapshot!Times, SnapshotHistory \in Nat
    PROVE  Vouched(Snapshot!Without(table, Snapshot!ExpiredRuns(table, t)))
  <1> DEFINE gone == Snapshot!ExpiredRuns(table, t)
             left == Snapshot!Without(table, gone)
  <1>1. \A r \in Snapshot!RunIds : r \in gone <=> table[r].status # "absent" /\ table[r].started < t - SnapshotHistory
    BY DEF Snapshot!ExpiredRuns
  <1>2. \A r \in Snapshot!RunIds : left[r] = IF r \in gone THEN Snapshot!NoRun ELSE table[r]
    BY DEF Snapshot!Without
  <1>3. Snapshot!NoRun.status = "absent"
    BY DEF Snapshot!NoRun
  <1>4. /\ \A r \in Snapshot!RunIds : table[r].started \in Int
        /\ t \in Int /\ SnapshotHistory \in Int /\ Snapshot!RunIds \subseteq Int
    BY TimesTyped, RunIdsNat DEF Typed, Snapshot!RunRecords
  <1> HIDE DEF gone, left
  <1>5. ASSUME NEW n \in Snapshot!RunIds, left[n].status = "complete", ~left[n].promoted
        PROVE  \E q \in Snapshot!RunIds : left[q].status = "complete" /\ left[q].promoted /\ LaterIn(left, q, n)
    <2>1. n \notin gone /\ left[n] = table[n]
      BY <1>2, <1>3, <1>5
    <2>2. PICK q \in Snapshot!RunIds : table[q].status = "complete" /\ table[q].promoted /\ LaterIn(table, q, n)
      BY <1>5, <2>1 DEF Vouched
    <2>3. table[q].started >= table[n].started
      BY <1>4, <2>2 DEF LaterIn
    <2>4. q \notin gone
      BY <1>1, <1>4, <1>5, <2>1, <2>3
    <2>5. left[q] = table[q]
      BY <1>2, <2>4
    <2> QED
      BY <2>1, <2>2, <2>5 DEF LaterIn
  <1> QED
    BY <1>5 DEF Vouched, left, gone

\* A run that completes is promoted, or a later one was.
LEMMA CompletedVouched ==
    ASSUME Snapshot!SyncRunsAssumption, kind = "activity", Typed(runs), Vouched(runs),
           NEW r \in Snapshot!RunIds, Snapshot!Is(r, "running"), NEW t
    PROVE  Vouched(Snapshot!Closed(runs, r, "complete", t, ~Snapshot!Superseded(r)))
  <1> DEFINE entry == Snapshot!EndedRun(runs[r], "complete", t, ~Snapshot!Superseded(r))
             table == Snapshot!Closed(runs, r, "complete", t, ~Snapshot!Superseded(r))
  <1>1. table[r] = entry /\ \A q \in Snapshot!RunIds : q # r => table[q] = runs[q]
    BY DEF Snapshot!Closed, Typed
  <1>2. entry.status = "complete" /\ entry.started = runs[r].started /\ entry.promoted = ~Snapshot!Superseded(r)
    BY DEF Snapshot!EndedRun
  <1>3. \A q, n \in Snapshot!RunIds : LaterIn(table, q, n) <=> LaterIn(runs, q, n)
    BY <1>1, <1>2 DEF LaterIn
  <1> HIDE DEF table, entry
  <1>4. Snapshot!Superseded(r) =>
          \E q \in Snapshot!RunIds : runs[q].status = "complete" /\ runs[q].promoted /\ LaterIn(runs, q, r)
    BY DEF Snapshot!Superseded, Snapshot!Is, Snapshot!Later, Snapshot!StartedLater, LaterIn
  <1>5. ASSUME NEW n \in Snapshot!RunIds, table[n].status = "complete", ~table[n].promoted
        PROVE  \E q \in Snapshot!RunIds : table[q].status = "complete" /\ table[q].promoted /\ LaterIn(table, q, n)
    <2>1. PICK q \in Snapshot!RunIds : runs[q].status = "complete" /\ runs[q].promoted /\ LaterIn(runs, q, n)
      <3>1. CASE n = r
        BY <1>1, <1>2, <1>4, <1>5, <3>1
      <3>2. CASE n # r
        BY <1>1, <1>5, <3>2 DEF Vouched
      <3> QED
        BY <3>1, <3>2
    <2>2. q # r
      BY <2>1 DEF Snapshot!Is
    <2> QED
      BY <1>1, <1>3, <2>1, <2>2
  <1> QED
    BY <1>5 DEF Vouched, table

LEMMA VouchedInitially ==
    ASSUME Snapshot!SyncRunsAssumption, Snapshot!SnapshotInit
    PROVE  ActivityVouched
  BY DEF Snapshot!SnapshotInit, Snapshot!SyncRunsInit, Snapshot!NoRun, ActivityVouched, Vouched

LEMMA VouchedStep ==
    ASSUME Snapshot!SyncRunsAssumption, Snapshot!SnapshotAssumption, SnapshotInv, ActivityVouched,
           [Snapshot!SnapshotNext]_(Snapshot!snapvars)
    PROVE  ActivityVouched'
  <1>1. /\ Typed(runs) /\ nextRun \in Nat /\ Unborn(runs, nextRun) /\ kind \in Snapshot!Kinds
    BY DEF SnapshotInv
  <1>2. SnapshotHistory \in Nat /\ Snapshot!ClockShows \subseteq Snapshot!Times /\ 0 \in Snapshot!Times
    BY TimesTyped DEF Snapshot!SnapshotAssumption, Snapshot!ClockShows
  <1>3. UNCHANGED runs /\ UNCHANGED kind => ActivityVouched'
    BY DEF ActivityVouched, Vouched, LaterIn
  <1>4. kind' # "activity" => ActivityVouched'
    BY DEF ActivityVouched
  <1>5. ASSUME kind = "activity", kind' = kind, NEW table, Vouched(table), runs' = table PROVE ActivityVouched'
    BY <1>5 DEF ActivityVouched, Vouched, LaterIn
  <1>6. ASSUME NEW p \in Proc, Snapshot!SnapshotStep(p) PROVE ActivityVouched'
    <2>1. CASE Snapshot!AdmitScan(p) \/ Snapshot!AdmitOwned(p) \/ Snapshot!AdmitWishlist(p) \/ Snapshot!AdmitActivity(p)
                  \/ Snapshot!AdmitSystemProfile(p) \/ Snapshot!Crash(p) \/ \E a \in Apps : Snapshot!RecordInstalled(p, a)
      BY <2>1, <1>3 DEF Snapshot!AdmitScan, Snapshot!AdmitOwned, Snapshot!AdmitWishlist, Snapshot!AdmitActivity,
          Snapshot!AdmitSystemProfile, Snapshot!Admits, Snapshot!Crash, Snapshot!RecordInstalled
    <2>2. ASSUME NEW t \in Snapshot!ClockShows,
                 \/ Snapshot!BeginSync(p, t) \/ Snapshot!BeginSystemProfile(p, t) \/ Snapshot!CompleteInstalled(p, t)
                 \/ Snapshot!FailInstalled(p, t) \/ Snapshot!FailOwned(p, t) \/ Snapshot!FailWishlist(p, t)
                 \/ Snapshot!FailSystemProfile(p, t)
                 \/ \E apps \in SUBSET Apps : \/ Snapshot!CompleteOwned(p, apps, t) \/ Snapshot!CompleteWishlist(p, apps, t)
                                              \/ Snapshot!CompleteSystemProfile(p, apps, t)
          PROVE  ActivityVouched'
      <3>1. kind' = kind /\ kind # "activity"
        BY <2>2 DEF Snapshot!BeginSync, Snapshot!BeginSystemProfile, Snapshot!CompleteInstalled,
            Snapshot!FailInstalled, Snapshot!FailOwned, Snapshot!FailWishlist, Snapshot!FailSystemProfile,
            Snapshot!Fails, Snapshot!CompleteOwned, Snapshot!CompleteWishlist, Snapshot!CompleteSystemProfile
      <3> QED
        BY <3>1, <1>4
    <2>3. ASSUME NEW t \in Snapshot!ClockShows, Snapshot!BeginActivity(p, t) PROVE ActivityVouched'
      <3> DEFINE left == Snapshot!Without(runs, Snapshot!ExpiredRuns(runs, t))
      <3>1. /\ kind = "activity" /\ kind' = kind /\ runs' = Snapshot!Opened(left, t) /\ nextRun \in Snapshot!RunIds
        BY <2>3 DEF Snapshot!BeginActivity, Snapshot!CanOpen
      <3>2. Vouched(left)
        BY <1>1, <1>2, <3>1, PrunedVouched DEF ActivityVouched
      <3>3. left[nextRun].status # "complete"
        BY <1>1, <3>1 DEF Unborn, Snapshot!Without, Snapshot!NoRun
      <3>4. left \in [Snapshot!RunIds -> Snapshot!RunRecords \cup {Snapshot!NoRun}]
        BY <1>1 DEF Typed, Snapshot!Without
      <3> HIDE DEF left
      <3> DEFINE opened == Snapshot!Opened(left, t)
      <3>5. /\ opened[nextRun].status = "running"
            /\ \A q \in Snapshot!RunIds : q # nextRun => opened[q] = left[q]
        BY <3>1, <3>4 DEF Snapshot!Opened
      <3> HIDE DEF opened
      <3>6. Vouched(opened)
        <4>1. \A q \in Snapshot!RunIds : left[q].status = "complete" => opened[q] = left[q]
          BY <3>3, <3>5
        <4>2. \A q \in Snapshot!RunIds : opened[q].status = "complete" => opened[q] = left[q]
          BY <3>5
        <4> QED
          BY <3>2, <4>1, <4>2, RestVouched
      <3> QED
        BY <1>5, <3>1, <3>6 DEF opened
    <2>4. ASSUME NEW t \in Snapshot!ClockShows, Snapshot!FailActivity(p, t) PROVE ActivityVouched'
      <3> DEFINE r == proc[p].run
                 table == Snapshot!Closed(runs, r, "failed", 0, FALSE)
      <3>1. kind = "activity" /\ kind' = kind
        BY <2>4 DEF Snapshot!FailActivity
      <3>2. CASE r \in Snapshot!RunIds /\ Snapshot!Is(r, "running")
        <4>1. runs' = Snapshot!Without(table, Snapshot!ExpiredRuns(table, t))
          BY <2>4, <3>2 DEF Snapshot!FailActivity, Snapshot!Live, Snapshot!Is
        <4>2. /\ \A q \in Snapshot!RunIds : q # r => table[q] = runs[q]
              /\ table[r].status = "failed" /\ Typed(table)
          <5>1. Snapshot!EndedRun(runs[r], "failed", 0, FALSE) \in Snapshot!RunRecords
            BY <1>1, <1>2, <3>2, EndedRunTyped DEF Typed, Snapshot!Statuses
          <5>2. Snapshot!EndedRun(runs[r], "failed", 0, FALSE).status = "failed"
            BY DEF Snapshot!EndedRun
          <5> QED
            BY <1>1, <3>2, <5>1, <5>2 DEF Snapshot!Closed, Typed
        <4> HIDE DEF table, r
        <4>3. Vouched(table)
          <5>1. runs[r].status # "complete"
            BY <3>2 DEF Snapshot!Is
          <5>2. \A q \in Snapshot!RunIds : runs[q].status = "complete" => table[q] = runs[q]
            BY <4>2, <5>1
          <5>3. \A q \in Snapshot!RunIds : table[q].status = "complete" => table[q] = runs[q]
            BY <4>2
          <5> QED
            BY <3>1, <5>2, <5>3, RestVouched DEF ActivityVouched
        <4>4. Vouched(Snapshot!Without(table, Snapshot!ExpiredRuns(table, t)))
          BY <1>2, <3>1, <4>2, <4>3, PrunedVouched
        <4> QED
          BY <1>5, <3>1, <4>1, <4>4
      <3>3. CASE ~(r \in Snapshot!RunIds /\ Snapshot!Is(r, "running"))
        BY <1>3, <2>4, <3>1, <3>3 DEF Snapshot!FailActivity, Snapshot!Live
      <3> QED
        BY <3>2, <3>3
    <2>5. ASSUME NEW t \in Snapshot!ClockShows, NEW apps \in SUBSET Apps, NEW o \in Snapshot!ClockShows,
                 Snapshot!CompleteActivity(p, apps, o, t)
          PROVE  ActivityVouched'
      <3> DEFINE r == proc[p].run
                 table == Snapshot!Closed(runs, r, "complete", Snapshot!CompletedAt(t), ~Snapshot!Superseded(r))
      <3>1. /\ kind = "activity" /\ kind' = kind /\ r \in Snapshot!RunIds /\ Snapshot!Is(r, "running")
            /\ runs' = Snapshot!Without(table, Snapshot!ExpiredRuns(table, t))
        BY <2>5 DEF Snapshot!CompleteActivity, Snapshot!MayComplete, Snapshot!Live
      <3>2. Vouched(table)
        BY <1>1, <3>1, CompletedVouched DEF ActivityVouched
      <3>3. Typed(table)
        <4>1. Snapshot!CompletedAt(t) \in Snapshot!Times
          BY <1>2 DEF Snapshot!CompletedAt
        <4>2. Snapshot!EndedRun(runs[r], "complete", Snapshot!CompletedAt(t), ~Snapshot!Superseded(r)) \in Snapshot!RunRecords
          BY <1>1, <3>1, <4>1, EndedRunTyped DEF Typed, Snapshot!Statuses, Snapshot!Superseded
        <4> QED
          BY <1>1, <3>1, <4>2 DEF Snapshot!Closed, Typed
      <3> HIDE DEF table
      <3>4. Vouched(Snapshot!Without(table, Snapshot!ExpiredRuns(table, t)))
        BY <1>2, <3>1, <3>2, <3>3, PrunedVouched
      <3> QED
        BY <1>5, <3>1, <3>4
    <2> QED
      BY <1>6, <2>1, <2>2, <2>3, <2>4, <2>5 DEF Snapshot!SnapshotStep
  <1>7. ASSUME NEW t \in Snapshot!ClockShows, Snapshot!ReadActivity(t) PROVE ActivityVouched'
    <2>1. kind = "activity" /\ kind' = kind /\ runs' = Snapshot!Without(runs, Snapshot!ExpiredRuns(runs, t))
      BY <1>7 DEF Snapshot!ReadActivity
    <2>2. Vouched(Snapshot!Without(runs, Snapshot!ExpiredRuns(runs, t)))
      BY <1>1, <1>2, <2>1, PrunedVouched DEF ActivityVouched
    <2> QED
      BY <1>5, <2>1, <2>2
  <1>8. CASE Snapshot!DeleteAccount \/ Snapshot!DeleteSystemProfile
    <2>1. runs' = [r \in Snapshot!RunIds |-> Snapshot!NoRun] /\ Snapshot!NoRun.status = "absent"
      BY <1>8 DEF Snapshot!DeleteAccount, Snapshot!DeleteSystemProfile, Snapshot!Emptied, Snapshot!NoRun
    <2> QED
      BY <2>1 DEF ActivityVouched, Vouched
  <1> QED
    BY <1>3, <1>6, <1>7, <1>8 DEF Snapshot!SnapshotNext, Snapshot!snapvars, Snapshot!ConfigureAccount

\* Of several runs there is one that every other is earlier than.
LEMMA SomeRunIsLatest ==
    ASSUME Snapshot!SyncRunsAssumption, Typed(runs), NEW S \in SUBSET Snapshot!RunIds, S # {}
    PROVE  \E r \in S : \A q \in S \ {r} : Snapshot!Later(r, q)
  <1>1. /\ Snapshot!RunIds = 1 .. SnapshotRuns /\ SnapshotRuns \in Nat
        /\ Snapshot!Times = 0 .. SnapshotTime /\ SnapshotTime \in Nat
    BY DEF Snapshot!RunIds, Snapshot!Times, Snapshot!SyncRunsAssumption
  <1>2. \A T \in SUBSET S : T # {} => \E r \in T : \A q \in T : q <= r
    <2>1. TAKE T \in SUBSET S
    <2>2. HAVE T # {}
    <2>3. T \in SUBSET (0 .. SnapshotRuns)
      BY <1>1
    <2> QED
      BY <1>1, <2>2, <2>3, GreatestNatural
  <1>3. \A r \in S : r \in Int /\ runs[r].started \in 0 .. SnapshotTime
    BY <1>1 DEF Typed, Snapshot!RunRecords
  <1>4. CASE kind = "activity"
    <2> DEFINE starts == {runs[r].started : r \in S}
    <2>1. starts \in SUBSET (0 .. SnapshotTime) /\ starts # {}
      BY <1>3
    <2>2. PICK m \in starts : \A n \in starts : n <= m
      BY <1>1, <2>1, GreatestNatural
    <2> DEFINE T == {r \in S : runs[r].started = m}
    <2>3. PICK r \in T : \A q \in T : q <= r
      BY <1>2, <2>2
    <2>4. \A q \in S \ {r} : Snapshot!Later(r, q)
      <3>1. TAKE q \in S \ {r}
      <3>2. runs[q].started <= m /\ runs[r].started = m /\ r \in S
        BY <2>2, <2>3
      <3>3. CASE runs[q].started = m
        <4>1. q \in T /\ q # r /\ q <= r
          BY <2>3, <3>3
        <4> QED
          BY <1>3, <1>4, <3>2, <3>3, <4>1 DEF Snapshot!Later, Snapshot!StartedLater
      <3>4. CASE runs[q].started # m
        BY <1>3, <1>4, <3>2, <3>4 DEF Snapshot!Later, Snapshot!StartedLater
      <3> QED
        BY <3>3, <3>4
    <2> QED
      BY <2>3, <2>4
  <1>5. CASE kind # "activity"
    <2>1. PICK r \in S : \A q \in S : q <= r
      BY <1>2
    <2> QED
      BY <1>3, <1>5, <2>1 DEF Snapshot!Later
  <1> QED
    BY <1>4, <1>5

LEMMA NewestIs ==
    ASSUME Snapshot!SyncRunsAssumption, Typed(runs), NEW S \in SUBSET Snapshot!RunIds, S # {}
    PROVE  /\ Snapshot!NewestOf(S) \in S
           /\ \A q \in S : q # Snapshot!NewestOf(S) => Snapshot!Later(Snapshot!NewestOf(S), q)
  BY SomeRunIsLatest DEF Snapshot!NewestOf

\* A run that none of them is later than is the newest of them.
LEMMA NewestOnly ==
    ASSUME Snapshot!SyncRunsAssumption, Typed(runs), NEW S \in SUBSET Snapshot!RunIds,
           NEW r \in S, \A q \in S : ~Snapshot!Later(q, r)
    PROVE  Snapshot!NewestOf(S) = r
  BY NewestIs

LEMMA LaterOneWay ==
    ASSUME Snapshot!SyncRunsAssumption, Typed(runs), NEW q \in Snapshot!RunIds, NEW r \in Snapshot!RunIds,
           Snapshot!Later(q, r)
    PROVE  ~Snapshot!Later(r, q)
  <1>1. q \in Int /\ r \in Int /\ runs[q].started \in Int /\ runs[r].started \in Int
    BY RunIdsNat, TimesTyped DEF Typed, Snapshot!RunRecords
  <1> QED
    BY <1>1 DEF Snapshot!Later, Snapshot!StartedLater

\* What is known of the run shown, and of the newest attempt when it completed
LEMMA ShownAndNewest ==
    ASSUME Snapshot!SyncRunsAssumption, SnapshotInv, ActivityVouched
    PROVE  /\ current.run # 0 => /\ current.run \in Snapshot!Attempts /\ current.run \in Snapshot!Successes
                                 /\ Snapshot!NewestOf(Snapshot!Successes) = current.run
           /\ current.run = 0 /\ kind # "activity" => Snapshot!Successes = {}
           /\ Snapshot!Attempts # {} =>
                /\ Snapshot!NewestOf(Snapshot!Attempts) \in Snapshot!Attempts
                /\ Snapshot!LatestStatus = runs[Snapshot!NewestOf(Snapshot!Attempts)].status
                /\ Snapshot!LatestStatus \in {"running", "complete", "partial", "failed"}
           /\ Snapshot!Attempts = {} => Snapshot!LatestStatus = "absent" /\ Snapshot!Successes = {}
           /\ Snapshot!LatestStatus = "complete" =>
                /\ Snapshot!Successes # {}
                /\ current.run # 0 => Snapshot!NewestOf(Snapshot!Attempts) = current.run
  <1> DEFINE A == Snapshot!Attempts
             S == Snapshot!Successes
             n == Snapshot!NewestOf(A)
  <1>1. /\ Typed(runs) /\ Rests(runs, rows, current) /\ kind \in Snapshot!Kinds
        /\ A \in SUBSET Snapshot!RunIds /\ S \in SUBSET A
        /\ \A r \in Snapshot!RunIds : r \in A <=> runs[r].status # "absent"
        /\ \A r \in Snapshot!RunIds : r \in S <=>
              runs[r].status = "complete" /\ (kind = "activity" => runs[r].promoted)
    BY DEF SnapshotInv, Snapshot!Attempts, Snapshot!Successes, Snapshot!Live, Snapshot!Is
  <1>2. \A q, r \in Snapshot!RunIds : Snapshot!Later(q, r) <=> LaterIn(runs, q, r)
    BY DEF Snapshot!Later, Snapshot!StartedLater, LaterIn
  <1>3. ASSUME current.run # 0
        PROVE  /\ current.run \in S /\ current.run \in A /\ Snapshot!NewestOf(S) = current.run
               /\ \A q \in S : ~Snapshot!Later(q, current.run)
    <2>1. current.run \in S
      BY <1>1, <1>3 DEF Rests
    <2>2. \A q \in S : ~Snapshot!Later(q, current.run)
      BY <1>1, <1>2, <1>3, <2>1 DEF Rests
    <2> QED
      BY <1>1, <2>1, <2>2, NewestOnly
  <1>4. current.run = 0 /\ kind # "activity" => S = {}
    BY <1>1 DEF Rests
  <1>5. ASSUME A # {}
        PROVE  /\ n \in A /\ Snapshot!LatestStatus = runs[n].status
               /\ Snapshot!LatestStatus \in {"running", "complete", "partial", "failed"}
    <2>1. n \in A
      BY <1>1, <1>5, NewestIs
    <2>2. Snapshot!LatestStatus = runs[n].status
      BY <1>5 DEF Snapshot!LatestStatus
    <2> HIDE DEF n
    <2> QED
      BY <1>1, <2>1, <2>2 DEF Typed, Snapshot!RunRecords, Snapshot!Statuses
  <1>6. A = {} => Snapshot!LatestStatus = "absent" /\ S = {}
    BY <1>1 DEF Snapshot!LatestStatus
  <1>7. ASSUME Snapshot!LatestStatus = "complete"
        PROVE  n \in S
    <2>1. A # {} /\ n \in A /\ runs[n].status = "complete"
      BY <1>5, <1>6, <1>7
    <2>2. \A q \in A : q # n => Snapshot!Later(n, q)
      BY <1>1, <2>1, NewestIs
    <2>3. kind = "activity" => runs[n].promoted
      <3>1. SUFFICES ASSUME kind = "activity", ~runs[n].promoted PROVE FALSE
        OBVIOUS
      <3>2. PICK q \in Snapshot!RunIds : runs[q].status = "complete" /\ runs[q].promoted /\ LaterIn(runs, q, n)
        BY <1>1, <2>1, <3>1 DEF ActivityVouched, Vouched
      <3>3. q \in A /\ q # n
        BY <1>1, <3>1, <3>2
      <3> QED
        BY <1>1, <1>2, <2>1, <2>2, <3>2, <3>3, LaterOneWay
    <2> QED
      BY <1>1, <2>1, <2>3
  <1>8. ASSUME Snapshot!LatestStatus = "complete", current.run # 0
        PROVE  n = current.run
    <2>1. n \in S /\ n \in A /\ current.run \in A /\ ~Snapshot!Later(n, current.run)
      BY <1>1, <1>3, <1>7, <1>8
    <2> QED
      BY <1>1, <2>1, NewestIs
  <1> QED
    BY <1>3, <1>4, <1>5, <1>6, <1>7, <1>8

LEMMA SnapshotLabels ==
    ASSUME Snapshot!SyncRunsAssumption, SnapshotInv, ActivityVouched
    PROVE  Snapshot!SnapshotLabelsMatch
  <1> SUFFICES ASSUME NEW stale \in BOOLEAN, NEW abandoned \in BOOLEAN
               PROVE  LET label == Snapshot!SnapshotLabel(stale, abandoned)
                          newest == Snapshot!Attempts # {} => Snapshot!NewestOf(Snapshot!Attempts) = current.run
                      IN IF kind = "system_profile"
                         THEN current.run # 0 => /\ Snapshot!NewestOf(Snapshot!Successes) = current.run
                                                 /\ newest \/ Snapshot!UsingLastGood
                         ELSE /\ label = "unavailable" => current.run = 0
                              /\ kind # "activity" /\ current.run = 0 => label = "unavailable"
                              /\ kind # "activity" /\ current.run # 0 =>
                                    Snapshot!NewestOf(Snapshot!Successes) = current.run
                              /\ kind = "wishlist" =>
                                    /\ label = Snapshot!DealWishlistLabel(stale, abandoned)
                                    /\ Snapshot!DealWishlistAccepted(stale)
                              /\ label = "complete" =>
                                    \/ newest
                                    \/ Snapshot!LatestStatus = "running" /\ kind # "activity" /\ ~abandoned
                                    \/ current.run = 0 /\ kind = "activity"
    BY DEF Snapshot!SnapshotLabelsMatch
  <1> DEFINE latest == Snapshot!LatestStatus
             good == Snapshot!Successes # {}
             newest == Snapshot!Attempts # {} => Snapshot!NewestOf(Snapshot!Attempts) = current.run
             label == Snapshot!SnapshotLabel(stale, abandoned)
  <1>1. /\ latest \in {"absent", "running", "complete", "partial", "failed"}
        /\ latest = "absent" => Snapshot!Attempts = {} /\ ~good /\ current.run = 0
        /\ current.run # 0 => good /\ Snapshot!Attempts # {}
        /\ current.run = 0 /\ kind # "activity" => ~good
        /\ latest = "complete" => good
        /\ latest = "complete" /\ current.run # 0 => newest
    BY ShownAndNewest
  <1>2. current.run # 0 => Snapshot!NewestOf(Snapshot!Successes) = current.run
    BY ShownAndNewest
  <1>3. Snapshot!UsingLastGood <=> Snapshot!Attempts # {} /\ latest # "complete" /\ current.run # 0
    BY DEF Snapshot!UsingLastGood
  <1>4. label = IF kind = "activity" THEN Snapshot!ActivityLabel(latest, good, stale)
                ELSE Snapshot!AccountLabel(latest, good, stale /\ kind \in {"owned", "wishlist"}, abandoned)
    BY DEF Snapshot!SnapshotLabel
  <1>5. /\ Snapshot!DealWishlistLabel(stale, abandoned) = Snapshot!WishlistLabel(latest, good, stale, abandoned)
        /\ Snapshot!DealWishlistAccepted(stale) <=> Snapshot!WishlistAccepted(latest, good, good /\ ~stale)
    BY DEF Snapshot!DealWishlistLabel, Snapshot!DealWishlistAccepted
  <1> HIDE DEF latest, good, newest, label
  <1>6. CASE kind = "system_profile"
    BY <1>1, <1>2, <1>3, <1>6 DEF newest
  <1>7. CASE kind = "activity"
    <2>1. label = Snapshot!ActivityLabel(latest, good, stale)
      BY <1>4, <1>7
    <2> QED
      BY <1>1, <1>7, <2>1 DEF Snapshot!ActivityLabel, newest, latest, label
  <1>8. CASE kind \notin {"system_profile", "activity"}
    <2> DEFINE old == stale /\ kind \in {"owned", "wishlist"}
    <2>1. label = Snapshot!AccountLabel(latest, good, old, abandoned)
      BY <1>4, <1>8
    <2>2. kind = "wishlist" => old = stale
      BY <1>8
    <2> HIDE DEF old
    <2>3. /\ label = "unavailable" => current.run = 0
          /\ current.run = 0 => label = "unavailable"
          /\ label = "complete" => newest \/ (latest = "running" /\ ~abandoned)
      BY <1>1, <1>8, <2>1 DEF Snapshot!AccountLabel
    <2>4. kind = "wishlist" => label = Snapshot!DealWishlistLabel(stale, abandoned) /\ Snapshot!DealWishlistAccepted(stale)
      BY <1>1, <1>5, <2>1, <2>2 DEF Snapshot!AccountLabel, Snapshot!WishlistLabel, Snapshot!WishlistAccepted
    <2> QED
      BY <1>2, <1>8, <2>3, <2>4 DEF newest, latest, label
  <1> QED
    BY <1>6, <1>7, <1>8

-----------------------------------------------------------------------------
(***************************************************************************)
(* RequestBudget.                                                          *)
(***************************************************************************)

(* What the row remembers of the history the property speaks of: the next   *)
(* request waits for the last one granted, and the cooldown for the longest *)
(* one asked for.                                                           *)
RowCovers ==
    /\ granted.at # Budget!None => limit.known /\ limit.next >= granted.at + Interval
    /\ deferred # Budget!None => limit.known /\ limit.cooldown >= deferred

BudgetInv == Budget!BudgetTypeOK /\ RowCovers

LEMMA BudgetInitially ==
    ASSUME Budget!BudgetAssumption
    PROVE  Budget!BudgetInit => BudgetInv
  BY SMT DEF Budget!BudgetAssumption, Budget!BudgetInit, BudgetInv, Budget!BudgetTypeOK, RowCovers,
      Budget!NoLimit, Budget!None, Budget!Times

\* What a step may make of the history of grants keeps its type.
LEMMA GrantTyped ==
    ASSUME Budget!BudgetTypeOK, NEW t \in Budget!Times
    PROVE  /\ Budget!Granted(t) =>
                granted' \in [at: Budget!Times \cup {Budget!None}, turn: {0, 1}] /\ granted'.at = t
           /\ Budget!Forgotten =>
                /\ granted' \in [at: Budget!Times \cup {Budget!None}, turn: {0, 1}]
                /\ granted'.at = Budget!None /\ granted'.turn = granted.turn
  <1>1. granted = [at |-> granted.at, turn |-> granted.turn] /\ granted.turn \in {0, 1}
    BY DEF Budget!BudgetTypeOK
  <1>2. 1 - granted.turn \in {0, 1}
    BY <1>1, SMT
  <1>3. Budget!Forgotten => granted' = [at |-> Budget!None, turn |-> granted.turn]
    BY <1>1 DEF Budget!Forgotten
  <1> QED
    BY <1>1, <1>2, <1>3 DEF Budget!Granted

LEMMA BudgetStep ==
    ASSUME Budget!BudgetAssumption, BudgetInv, [Budget!BudgetNext]_(Budget!budgetvars)
    PROVE  BudgetInv'
  <1>1. ASSUME NEW t \in Budget!Times, Budget!Reserve(t) \/ Budget!Recover(t)
        PROVE  BudgetInv'
    <2>1. t + Interval \in Int /\ t \in Int
      BY SMT DEF Budget!BudgetAssumption, Budget!Times
    <2>2. limit' = [known |-> TRUE, next |-> t + Interval, cooldown |-> Budget!None]
          /\ deferred' = Budget!None /\ (Budget!Granted(t) \/ Budget!Forgotten)
      BY <1>1 DEF Budget!Reserve, Budget!Recover
    <2>3. /\ granted' \in [at: Budget!Times \cup {Budget!None}, turn: {0, 1}]
          /\ granted'.at \in {t, Budget!None}
      BY <2>2, GrantTyped DEF BudgetInv
    <2>4. Budget!None \in Int
      BY DEF Budget!None
    <2> QED
      BY <2>1, <2>2, <2>3, <2>4, SMT DEF BudgetInv, Budget!BudgetTypeOK, RowCovers
  <1>2. CASE Budget!ForgetLimit
    <2>1. 0 \in Budget!Times
      BY SMT DEF Budget!BudgetAssumption, Budget!Times
    <2>2. /\ granted' \in [at: Budget!Times \cup {Budget!None}, turn: {0, 1}]
          /\ granted'.at = Budget!None
      BY <1>2, <2>1, GrantTyped DEF BudgetInv, Budget!ForgetLimit
    <2> QED
      BY <1>2, <2>2, SMT DEF Budget!ForgetLimit, Budget!NoLimit, BudgetInv, Budget!BudgetTypeOK, RowCovers,
          Budget!None
  <1>3. ASSUME NEW t \in Budget!Times, NEW d \in Retry, Budget!Defer(t, d)
        PROVE  BudgetInv'
    <2>1. t + d \in Int /\ t \in Int
      BY SMT DEF Budget!BudgetAssumption, Budget!Times
    <2>2. limit' \in [known: BOOLEAN, next: Int, cooldown: Int] /\ deferred' \in Int
      BY <1>3, <2>1, SMT DEF Budget!Defer, Budget!Cooled, BudgetInv, Budget!BudgetTypeOK
    <2>3. RowCovers'
      BY <1>3, <2>1, SMT DEF Budget!Defer, Budget!Cooled, BudgetInv, Budget!BudgetTypeOK, RowCovers,
          Budget!None, Budget!Times, Budget!BudgetAssumption
    <2> QED
      BY <1>3, <2>2, <2>3 DEF Budget!Defer, BudgetInv, Budget!BudgetTypeOK
  <1>4. CASE UNCHANGED Budget!budgetvars
    BY <1>4 DEF Budget!budgetvars, BudgetInv, Budget!BudgetTypeOK, RowCovers
  <1>5. ASSUME NEW t \in Budget!Times, Budget!Refuse(t)
        PROVE  BudgetInv'
    BY <1>4, <1>5 DEF Budget!Refuse
  <1> QED
    BY <1>1, <1>2, <1>3, <1>4, <1>5 DEF Budget!BudgetNext

LEMMA GrantedSpaced ==
    ASSUME Budget!BudgetAssumption, BudgetInv, [Budget!BudgetNext]_(Budget!budgetvars)
    PROVE  Budget!RequestSpaced
  <1>1. ASSUME NEW t \in Budget!Times, Budget!Reserve(t)
        PROVE  Budget!RequestSpaced
    <2>1. granted'.at = t
      BY <1>1, GrantTyped DEF BudgetInv, Budget!Reserve
    <2>2. granted.at # Budget!None => t >= granted.at + Interval
      <3>1. granted.at # Budget!None => granted.at \in Budget!Times /\ limit.known
              /\ limit.next >= granted.at + Interval /\ limit.next \in Int
        BY DEF BudgetInv, Budget!BudgetTypeOK, RowCovers
      <3> QED
        BY <1>1, <3>1, SMT DEF Budget!Reserve, Budget!Remaining, Budget!Times, Budget!BudgetAssumption
    <2>3. deferred # Budget!None => t >= deferred
      <3>1. deferred # Budget!None => deferred \in Int /\ limit.known
              /\ limit.cooldown >= deferred /\ limit.cooldown \in Int
        BY DEF BudgetInv, Budget!BudgetTypeOK, RowCovers
      <3> QED
        BY <1>1, <3>1, SMT DEF Budget!Reserve, Budget!Cooling, Budget!Times
    <2> QED
      BY <2>1, <2>2, <2>3 DEF Budget!RequestSpaced
  <1>2. ASSUME Budget!Forgotten PROVE Budget!RequestSpaced
    <2>1. 0 \in Budget!Times
      BY SMT DEF Budget!BudgetAssumption, Budget!Times
    <2> QED
      BY <1>2, <2>1, GrantTyped DEF BudgetInv, Budget!RequestSpaced
  <1>3. ASSUME granted' = granted PROVE Budget!RequestSpaced
    BY <1>3 DEF Budget!RequestSpaced
  <1>4. CASE Budget!BudgetNext
    BY <1>1, <1>2, <1>3, <1>4 DEF Budget!BudgetNext, Budget!ForgetLimit, Budget!Recover, Budget!Defer,
        Budget!Refuse, Budget!budgetvars
  <1> QED
    BY <1>3, <1>4 DEF Budget!budgetvars

-----------------------------------------------------------------------------
(***************************************************************************)
(* Credentials.  What each step of `auth set`, `auth remove` and           *)
(* `data delete` knows of the store it has changed and not yet put back.   *)
(***************************************************************************)

Removes == cmd.name \in {"remove", "delete"}

(* The key read before, if it could be read                                 *)
PreviousRead == cmd.previous = IF was.key = Credential!Bad THEN Credential!None ELSE was.key

\* One conjunct for each point at which a command may stand
AtIdle == cmd.pc = "idle" => key = was.key /\ cmd.name = "remove" /\ ~ref
AtResolve == cmd.pc = "resolve" => key = was.key /\ (Removes => ref)
AtStore ==
    cmd.pc = "store" =>
        /\ key = was.key /\ PreviousRead
        /\ ~cmd.stored /\ ~cmd.deleted
        /\ Removes => ref
        /\ cmd.name = "set" => was.key # Credential!Bad
AtRow ==
    cmd.pc = "row" =>
        /\ cmd.name = "set" => PreviousRead /\ was.key # Credential!Bad
        /\ cmd.name = "remove" => key = Credential!None /\ PreviousRead /\ ref
        /\ cmd.name = "delete" =>
            \/ ~ref /\ key = was.key /\ cmd.previous = Credential!None /\ ~cmd.stored /\ ~cmd.deleted
            \/ ref /\ key = Credential!None /\ PreviousRead /\ (cmd.deleted <=> was.key # Credential!None)
AtUndo ==
    cmd.pc = "undo" =>
        /\ cmd.name = "set" => PreviousRead /\ was.key # Credential!Bad
        /\ cmd.name = "remove" => key = Credential!None /\ PreviousRead /\ ref
        /\ cmd.name = "delete" =>
            \/ ~ref /\ key = was.key /\ cmd.previous = Credential!None /\ ~cmd.stored /\ ~cmd.deleted
            \/ ref /\ key \in {was.key, Credential!None} /\ PreviousRead /\ ~cmd.deleted
            \/ ref /\ key = Credential!None /\ PreviousRead /\ cmd.deleted

CommandKnows ==
    cmd.name # "none" =>
        /\ ref = was.ref
        /\ was.key # Credential!None /\ ~was.ref => broken
        /\ AtIdle /\ AtResolve /\ AtStore /\ AtRow /\ AtUndo

CredentialInv ==
    /\ Credential!CredentialTypeOK
    /\ cmd.name = "none" => cmd = Credential!Idle
    /\ CommandKnows
    /\ Credential!FailuresUndone

LEMMA CredentialInitially ==
    ASSUME Credential!CredentialAssumption
    PROVE  Credential!CredentialInit => CredentialInv
  <1> USE DEF Credential!CredentialInit, Credential!Idle, Credential!Command, Credential!None,
  Credential!Bad
  <1>1. Credential!CredentialInit => Credential!CredentialTypeOK
    <2> SUFFICES ASSUME Credential!CredentialInit PROVE Credential!CredentialTypeOK
      OBVIOUS
    <2>2. Credential!Idle \in [name: {"none", "set", "remove", "delete"},
                    pc: {"idle", "resolve", "store", "row", "undo"},
                    previous: Credential!Keys \cup {Credential!None}, stored: BOOLEAN, deleted: BOOLEAN]
      BY SMT DEF Credential!Keys
    <2>3. entered \in 0 .. MaxKeys
      BY SMT DEF Credential!CredentialAssumption
    <2> QED
      BY <2>2, <2>3 DEF Credential!CredentialTypeOK, Credential!Keys
  <1>2. Credential!CredentialInit => cmd.name = "none" /\ cmd = Credential!Idle /\ Credential!FailuresUndone
    BY SMT DEF Credential!FailuresUndone
  <1> QED
    BY <1>1, <1>2 DEF CredentialInv, CommandKnows

(* A command that ends leaves only the answer to be looked at.              *)
LEMMA EndsIdle ==
    ASSUME CredentialInv, NEW how \in {"ok", "refused", "rollback_failed", "killed"},
           Credential!Ends(how),
           key' \in Credential!Keys \cup {Credential!None, Credential!Bad}, ref' \in BOOLEAN,
           UNCHANGED <<entered, was>>
    PROVE  /\ Credential!FailuresUndone' => CredentialInv'
           /\ outcome' = how
           /\ broken => broken'
           /\ how = "rollback_failed" => broken'
  <1>1. cmd' = Credential!Idle /\ outcome' = how /\ broken' = (broken \/ how = "rollback_failed")
    BY DEF Credential!Ends
  <1>2. Credential!Idle \in [name: {"none", "set", "remove", "delete"},
                  pc: {"idle", "resolve", "store", "row", "undo"},
                  previous: Credential!Keys \cup {Credential!None}, stored: BOOLEAN, deleted: BOOLEAN]
        /\ Credential!Idle.name = "none"
    BY SMT DEF Credential!Idle, Credential!Command, Credential!Keys
  <1>3. Credential!CredentialTypeOK'
    BY <1>1, <1>2 DEF CredentialInv, Credential!CredentialTypeOK, Credential!Keys
  <1> QED
    BY <1>1, <1>2, <1>3 DEF CredentialInv, CommandKnows

LEMMA CredentialStep ==
    ASSUME Credential!CredentialAssumption, CredentialInv,
           [Credential!CredentialNext]_(Credential!credentialvars)
    PROVE  CredentialInv'
  <1> USE DEF Credential!CredentialAssumption, CredentialInv, Credential!CredentialTypeOK, CommandKnows,
  Credential!FailuresUndone,
              Removes, PreviousRead, AtIdle, AtResolve, AtStore, AtRow, AtUndo,
              Credential!Idle, Credential!Command, Credential!None, Credential!Bad, Credential!Keys
  <1>1. ASSUME NEW name \in {"set", "remove", "delete"}, Credential!Begin(name)
        PROVE  CredentialInv'
    BY <1>1, SMT DEF Credential!Begin
  <1>2. CASE Credential!NothingToRemove
    BY <1>2, SMT DEF Credential!NothingToRemove, Credential!At, Credential!Ends
  <1>3. CASE Credential!Resolve
    BY <1>3, SMT DEF Credential!Resolve
  <1>4. CASE Credential!ResolveFails
    BY <1>4, SMT DEF Credential!ResolveFails, Credential!Ends
  <1>5. CASE Credential!Put
    BY <1>5, SMT DEF Credential!Put, Credential!At, Credential!Puts
  <1>6. CASE Credential!PutFails
    BY <1>6, SMT DEF Credential!PutFails, Credential!At, Credential!Puts, Credential!KeepsStore,
        Credential!Goes
  <1>7. CASE Credential!Delete
    <2>1. Credential!CredentialTypeOK' /\ (cmd.name = "none" => cmd = Credential!Idle)' /\ Credential!FailuresUndone'
      BY <1>7, SMT DEF Credential!Delete, Credential!Deletes
    <2>2. CommandKnows'
      BY <1>7, SMT DEF Credential!Delete, Credential!Deletes
    <2> QED
      BY <2>1, <2>2, SMT
  <1>8. CASE Credential!DeleteFails
    <2>1. CASE cmd.name = "remove"
      <3>1. Credential!Ends("refused") /\ key' \in {key, Credential!None} /\ UNCHANGED <<ref, entered, was>>
        BY <1>8, <2>1 DEF Credential!DeleteFails, Credential!Deletes, Credential!KeepsStore
      <3>2. key = was.key /\ ref
        BY <1>8, <2>1, SMT DEF Credential!DeleteFails
      <3>3. ref = was.ref
        BY <2>1
      <3>4. key' \in Credential!Keys \cup {Credential!None, Credential!Bad} /\ ref' \in BOOLEAN
        BY <3>1
      <3> HIDE DEF CredentialInv
      <3>5. Credential!FailuresUndone' => CredentialInv'
        BY <3>1, <3>4, EndsIdle
      <3> QED
        BY <3>1, <3>2, <3>3, <3>5 DEF Credential!Ends
    <2>2. CASE cmd.name # "remove"
      BY <1>8, <2>2, SMT DEF Credential!DeleteFails, Credential!Deletes, Credential!KeepsStore,
          Credential!Goes
    <2> QED
      BY <2>1, <2>2, SMT
  <1>9. CASE Credential!WriteRow
    <2>1. Credential!Ends("ok") /\ ref' = (cmd.name = "set") /\ UNCHANGED <<key, entered, was>>
      BY <1>9 DEF Credential!WriteRow
    <2>2. key # Credential!None /\ cmd.name # "set" => broken
      BY <1>9, SMT DEF Credential!WriteRow
    <2>3. key' \in Credential!Keys \cup {Credential!None, Credential!Bad} /\ ref' \in BOOLEAN
      BY <2>1
    <2> HIDE DEF CredentialInv
    <2>4. Credential!FailuresUndone' => CredentialInv'
      BY <2>1, <2>3, EndsIdle
    <2> QED
      BY <2>1, <2>2, <2>4 DEF Credential!Ends
  <1>10. CASE Credential!WriteRowFails
    BY <1>10, SMT DEF Credential!WriteRowFails, Credential!Goes
  <1>11. CASE Credential!Undo
    <2>1. Credential!CredentialTypeOK' /\ (cmd.name = "none" => cmd = Credential!Idle)' /\ CommandKnows'
      BY <1>11, SMT DEF Credential!Undo, Credential!Undone, Credential!Puts, Credential!Deletes,
          Credential!KeepsStore, Credential!Ends
    <2>2. CASE cmd.name = "set"
      BY <1>11, <2>1, <2>2, SMT DEF Credential!Undo, Credential!Undone, Credential!Puts,
          Credential!Deletes, Credential!KeepsStore, Credential!Ends
    <2>3. CASE cmd.name = "remove"
      <3>1. ref /\ key = Credential!None /\ (cmd.previous # Credential!None => cmd.previous = was.key)
        BY <1>11, <2>3, SMT DEF Credential!Undo
      <3>2. ref = was.ref
        BY <2>3
      <3>3. UNCHANGED <<ref, was>>
        BY <1>11 DEF Credential!Undo
      <3>4. key' = cmd.previous
        BY <1>11, <2>3, <3>1 DEF Credential!Undo, Credential!Undone, Credential!Puts,
            Credential!KeepsStore
      <3> QED
        BY <2>1, <3>1, <3>2, <3>3, <3>4
    <2>4. CASE cmd.name = "delete"
      BY <1>11, <2>1, <2>4, SMT DEF Credential!Undo, Credential!Undone, Credential!Puts,
          Credential!Deletes, Credential!KeepsStore, Credential!Ends
    <2> QED
      BY <1>11, <2>1, <2>2, <2>3, <2>4, SMT DEF Credential!Undo
  <1>12. CASE Credential!UndoFails
    <2>1. /\ Credential!Ends("rollback_failed") /\ UNCHANGED <<ref, entered, was>>
          /\ key' \in Credential!Keys \cup {Credential!None, Credential!Bad}
      BY <1>12, SMT DEF Credential!UndoFails, Credential!Undone, Credential!Puts, Credential!Deletes,
          Credential!KeepsStore
    <2>2. ref' \in BOOLEAN
      BY <2>1
    <2> HIDE DEF CredentialInv
    <2>3. Credential!FailuresUndone' => CredentialInv'
      BY <2>1, <2>2, EndsIdle
    <2> QED
      BY <2>1, <2>3 DEF Credential!Ends
  <1>13. CASE Credential!CrashCredential
    BY <1>13, SMT DEF Credential!CrashCredential
  <1>14. CASE Credential!StoreDrifts
    BY <1>14, SMT DEF Credential!StoreDrifts
  <1>15. CASE UNCHANGED Credential!credentialvars
    BY <1>15 DEF Credential!credentialvars
  <1> QED
    BY <1>1, <1>2, <1>3, <1>4, <1>5, <1>6, <1>7, <1>8, <1>9, <1>10, <1>11, <1>12, <1>13,
       <1>14, <1>15 DEF Credential!CredentialNext

-----------------------------------------------------------------------------
(***************************************************************************)
(* PriceSync.  A price is asked for under one wishlist and stored under    *)
(* another when a newer one was completed in between; then its run is      *)
(* among the overtaken.  For the others the chain is: the basis of a run   *)
(* under way has long ended, so a wishlist that completes is no open run's *)
(* basis; a run whose basis is the wishlist targets titles on it only; and *)
(* no title's place on the wishlist is younger than the wishlist.          *)
(***************************************************************************)

ProcShaped == proc = [p \in Proc |-> proc[p]]

PriceShapes ==
    /\ runs \in [Price!RunIds -> Price!RunRecords] /\ nextRun \in Nat \ {0}
    /\ cap \in [Price!RunIds -> {"wishlist", "prices"}]
    /\ demand \in [Price!RunIds -> [all: SUBSET Apps, targeted: SUBSET Apps]]
    /\ basis \in [Price!RunIds -> 0 .. PriceRuns]
    /\ wishlist \in [run: 0 .. PriceRuns, apps: SUBSET Apps]
    /\ price \in [Apps -> Price!Prices]
    /\ since \in [Apps -> 0 .. PriceRuns]
    /\ ProcShaped

Begun(r) == r \in Price!RunIds /\ r < nextRun

CommandsOwn ==                 \* a command closes a run of its own kind
    \A p \in Proc :
        /\ proc[p].pc = "wishlist" => Begun(proc[p].run) /\ cap[proc[p].run] = "wishlist"
        /\ proc[p].pc = "prices" => Begun(proc[p].run) /\ cap[proc[p].run] = "prices"

NotBegun == \A r \in Price!RunIds : r >= nextRun => runs[r].status = "absent"

Promoter ==                    \* the wishlist is of a completed run
    wishlist.run # 0 =>
        Begun(wishlist.run) /\ cap[wishlist.run] = "wishlist" /\ runs[wishlist.run].status = "complete"

SinceThen == \A a \in Apps : since[a] <= wishlist.run

Based ==
    \A q \in Price!RunIds : cap[q] = "prices" /\ runs[q].status = "running" =>
        /\ Begun(basis[q]) /\ runs[basis[q]].status # "running"
        /\ basis[q] = wishlist.run => demand[q].targeted \subseteq wishlist.apps

Ended(table, r) == table[r].status \in {"complete", "partial"} /\ table[r].promoted

PricedBy(table, prices0) ==    \* a price is of a run that ended well
    \A a \in Apps : prices0[a].run # 0 =>
        Begun(prices0[a].run) /\ cap[prices0[a].run] = "prices" /\ Ended(table, prices0[a].run)

PriceInv ==
    /\ PriceShapes /\ CommandsOwn /\ NotBegun /\ Promoter /\ SinceThen /\ Based
    /\ PricedBy(runs, price) /\ Price!OnlyOvertakenLinger

LEMMA PriceTimes == ASSUME Price!SyncRunsAssumption PROVE 0 \in Price!Times /\ Price!Times \subseteq Int
  BY SMT DEF Price!Times, Price!SyncRunsAssumption

LEMMA PriceRunIds ==
    ASSUME Price!SyncRunsAssumption
    PROVE  /\ PriceRuns \in Nat /\ Price!RunIds \subseteq Nat \ {0}
           /\ \A r \in 0 .. PriceRuns : r \in Nat /\ (r # 0 => r \in Price!RunIds)
           /\ \A r \in Price!RunIds : r \in 0 .. PriceRuns
  BY DEF Price!RunIds, Price!SyncRunsAssumption

LEMMA PriceInitially ==
    ASSUME Price!SyncRunsAssumption, Price!PriceInit
    PROVE  PriceInv
  <1>1. Price!NoRun \in Price!RunRecords /\ Price!Unpriced \in Price!Prices
        /\ Price!NoDemand \in [all: SUBSET Apps, targeted: SUBSET Apps]
        /\ Price!NoRun.status = "absent"
    BY PriceTimes, PriceRunIds DEF Price!NoRun, Price!RunRecords, Price!Statuses, Price!Unpriced,
        Price!Prices, Price!NoDemand
  <1>2. 0 \in 0 .. PriceRuns
    BY PriceRunIds
  <1>3. PriceShapes
    BY <1>1, <1>2 DEF PriceShapes, ProcShaped, Price!PriceInit, Price!SyncRunsInit
  <1>4. runs = [r \in Price!RunIds |-> Price!NoRun] /\ price = [a \in Apps |-> Price!Unpriced]
        /\ proc = [p \in Proc |-> Price!Idle] /\ wishlist.run = 0 /\ since = [a \in Apps |-> 0]
    BY DEF Price!PriceInit, Price!SyncRunsInit
  <1>5. CommandsOwn /\ NotBegun /\ Promoter /\ SinceThen /\ Based
    BY <1>1, <1>4 DEF CommandsOwn, NotBegun, Promoter, SinceThen, Based, Price!Idle
  <1>6. PricedBy(runs, price) /\ Price!OnlyOvertakenLinger
    BY <1>4 DEF PricedBy, Price!OnlyOvertakenLinger, Price!Unpriced
  <1> QED
    BY <1>3, <1>5, <1>6 DEF PriceInv

-----------------------------------------------------------------------------
(* The parts of a transaction on prices *)

LEMMA PriceOpened ==
    ASSUME Price!SyncRunsAssumption, PriceShapes, nextRun \in Price!RunIds, NEW t \in Price!Times
    PROVE  /\ Price!Opened(runs, t) \in [Price!RunIds -> Price!RunRecords]
           /\ Price!Opened(runs, t)[nextRun].status = "running"
           /\ \A q \in Price!RunIds : q # nextRun => Price!Opened(runs, t)[q] = runs[q]
  <1> DEFINE new == [status |-> "running", started |-> t, completed |-> 0, promoted |-> FALSE]
  <1>1. new \in Price!RunRecords
    BY PriceTimes DEF Price!RunRecords, Price!Statuses
  <1>2. Price!Opened(runs, t) = [runs EXCEPT ![nextRun] = new]
    BY DEF Price!Opened
  <1>3. new.status = "running"
    OBVIOUS
  <1> HIDE DEF new
  <1> QED
    BY <1>1, <1>2, <1>3 DEF PriceShapes

\* What a closed run says, and that it is the only one that changed.
ClosesTo(table, r, s, promoted) ==
    /\ table \in [Price!RunIds -> Price!RunRecords]
    /\ table[r].status = s /\ table[r].promoted = promoted
    /\ \A q \in Price!RunIds : q # r => table[q] = runs[q]

LEMMA PriceClosed ==
    ASSUME Price!SyncRunsAssumption, PriceShapes, NEW r \in Price!RunIds,
           NEW s \in Price!Statuses, NEW t \in Price!Times, NEW promoted \in BOOLEAN,
           NEW table, table = Price!Closed(runs, r, s, t, promoted)
    PROVE  ClosesTo(table, r, s, promoted)
  <1> DEFINE entry == Price!EndedRun(runs[r], s, t, promoted)
  <1>1. table = [runs EXCEPT ![r] = entry]
    BY DEF Price!Closed, PriceShapes
  <1>2. entry \in Price!RunRecords
    BY DEF Price!EndedRun, Price!RunRecords, PriceShapes
  <1>3. entry.status = s /\ entry.promoted = promoted
    BY DEF Price!EndedRun
  <1> HIDE DEF entry
  <1> QED
    BY <1>1, <1>2, <1>3 DEF PriceShapes, ClosesTo

\* What an expiry leaves: price runs as they were or gone, and the prices of
\* those that are left.
LEMMA ExpireLeaves ==
    ASSUME Price!SyncRunsAssumption, PriceShapes,
           NEW table \in [Price!RunIds -> Price!RunRecords],
           NEW prices0 \in [Apps -> Price!Prices], NEW t \in Price!Times,
           Price!Expire(table, prices0, t)
    PROVE  /\ runs' \in [Price!RunIds -> Price!RunRecords] /\ price' \in [Apps -> Price!Prices]
           /\ demand' \in [Price!RunIds -> [all: SUBSET Apps, targeted: SUBSET Apps]]
           /\ \A q \in Price!RunIds : runs'[q] = table[q] \/ runs'[q].status = "absent"
           /\ \A q \in Price!RunIds : cap[q] # "prices" => runs'[q] = table[q]
           /\ \A q \in Price!RunIds : demand'[q].targeted \subseteq demand[q].targeted
           /\ \A a \in Apps : price'[a].run # 0 =>
                price'[a] = prices0[a] /\ runs'[prices0[a].run] = table[prices0[a].run]
  <1> DEFINE gone == Price!ExpiredRuns(table, t)
  <1>1. /\ runs' = Price!Without(table, gone)
        /\ price' = Price!Expired(table, prices0, t)
        /\ demand' = [r \in Price!RunIds |-> IF r \in gone THEN Price!NoDemand ELSE demand[r]]
    BY DEF Price!Expire
  <1>2. \A q \in gone : cap[q] = "prices"
    BY DEF Price!ExpiredRuns
  <1>3. /\ Price!NoRun \in Price!RunRecords /\ Price!NoRun.status = "absent"
        /\ Price!Unpriced \in Price!Prices /\ Price!Unpriced.run = 0
        /\ Price!NoDemand = [all |-> {}, targeted |-> {}]
    BY PriceTimes, PriceRunIds DEF Price!NoRun, Price!RunRecords, Price!Statuses, Price!Unpriced,
        Price!Prices, Price!NoDemand
  <1>4. \A a \in Apps : \/ price'[a] = Price!Unpriced
                        \/ price'[a] = prices0[a] /\ prices0[a].run \notin gone
    BY <1>1 DEF Price!Expired
  <1>5. runs' = [r \in Price!RunIds |-> IF r \in gone THEN Price!NoRun ELSE table[r]]
    BY <1>1 DEF Price!Without
  <1>6. price' \in [Apps -> Price!Prices]
    <2>1. price' = [a \in Apps |-> price'[a]]
      BY <1>1 DEF Price!Expired
    <2> QED
      BY <1>3, <1>4, <2>1
  <1>7. demand' \in [Price!RunIds -> [all: SUBSET Apps, targeted: SUBSET Apps]]
    BY <1>1, <1>3 DEF PriceShapes
  <1> HIDE DEF gone
  <1>8. \A q \in Price!RunIds : runs'[q] = IF q \in gone THEN Price!NoRun ELSE table[q]
    BY <1>5
  <1>9. \A q \in Price!RunIds : demand'[q] = IF q \in gone THEN Price!NoDemand ELSE demand[q]
    BY <1>1
  <1>10. runs' \in [Price!RunIds -> Price!RunRecords]
    BY <1>3, <1>5
  <1>11. \A q \in Price!RunIds : demand'[q].targeted \subseteq demand[q].targeted
    BY <1>3, <1>9
  <1>12. ASSUME NEW a \in Apps, price'[a].run # 0
         PROVE  price'[a] = prices0[a] /\ runs'[prices0[a].run] = table[prices0[a].run]
    <2>1. price'[a] = prices0[a] /\ prices0[a].run \notin gone
      BY <1>3, <1>4, <1>12
    <2>2. prices0[a].run \in Price!RunIds
      BY <1>12, <2>1, PriceRunIds DEF Price!Prices
    <2> QED
      BY <1>8, <2>1, <2>2
  <1> QED
    BY <1>2, <1>3, <1>6, <1>7, <1>8, <1>10, <1>11, <1>12

-----------------------------------------------------------------------------
(* The steps of PriceSync *)

Onward == \A a \in Apps : price'[a].run = 0 \/ price'[a].run >= price[a].run

LEMMA SamePrice == ASSUME Price!SyncRunsAssumption, PriceShapes, price' = price PROVE Onward
  BY PriceRunIds DEF Onward, PriceShapes, Price!Prices

LEMMA MovesForward ==
    ASSUME Price!SyncRunsAssumption, PriceInv', Onward, PriceShapes
    PROVE  Price!PriceMovesForward
  <1> SUFFICES ASSUME NEW a \in Apps
               PROVE  /\ price'[a].run # 0 =>
                           /\ runs'[price'[a].run].status \in {"complete", "partial"}
                           /\ runs'[price'[a].run].promoted
                      /\ price'[a].run \in {0} \cup price[a].run .. PriceRuns
    BY DEF Price!PriceMovesForward
  <1>1. price'[a].run # 0 => Ended(runs', price'[a].run)
    BY DEF PriceInv, PricedBy, Ended
  <1>2. price'[a].run \in 0 .. PriceRuns /\ price[a].run \in 0 .. PriceRuns
    BY DEF PriceInv, PriceShapes, Price!Prices
  <1> QED
    BY <1>1, <1>2, PriceRunIds DEF Ended, Onward

BegunNext(r) == r \in Price!RunIds /\ r < nextRun'

\* A command that goes on to something it owns.
LEMMA CommandsKept ==
    ASSUME PriceShapes, CommandsOwn, nextRun' \in Nat, nextRun' >= nextRun,
           \A q \in Price!RunIds : q < nextRun => cap'[q] = cap[q],
           NEW p \in Proc, NEW entry, proc' = [proc EXCEPT ![p] = entry],
           entry.pc = "wishlist" => BegunNext(entry.run) /\ cap'[entry.run] = "wishlist",
           entry.pc = "prices" => BegunNext(entry.run) /\ cap'[entry.run] = "prices"
    PROVE  CommandsOwn' /\ ProcShaped'
  <1>1. proc' = [x \in Proc |-> IF x = p THEN entry ELSE proc[x]]
    BY DEF PriceShapes, ProcShaped
  <1>2. \A r : Begun(r) => BegunNext(r) /\ cap'[r] = cap[r]
    BY DEF Begun, BegunNext, PriceShapes, Price!RunIds
  <1>3. ASSUME NEW x \in Proc
        PROVE  /\ proc'[x].pc = "wishlist" => BegunNext(proc'[x].run) /\ cap'[proc'[x].run] = "wishlist"
               /\ proc'[x].pc = "prices" => BegunNext(proc'[x].run) /\ cap'[proc'[x].run] = "prices"
    <2>1. CASE x = p
      BY <1>1, <2>1
    <2>2. CASE x # p
      BY <1>1, <1>2, <2>2 DEF CommandsOwn
    <2> QED
      BY <2>1, <2>2
  <1>4. CommandsOwn'
    BY <1>3 DEF CommandsOwn, Begun, BegunNext
  <1> QED
    BY <1>1, <1>4 DEF ProcShaped

LEMMA OpeningKeeps ==
    ASSUME Price!SyncRunsAssumption, PriceInv, nextRun \in Price!RunIds, NEW t \in Price!Times,
           runs' = Price!Opened(runs, t), nextRun' = nextRun + 1,
           NEW c \in {"wishlist", "prices"}, cap' = [cap EXCEPT ![nextRun] = c],
           UNCHANGED <<wishlist, price, since, overtaken>>,
           basis' \in [Price!RunIds -> 0 .. PriceRuns],
           demand' \in [Price!RunIds -> [all: SUBSET Apps, targeted: SUBSET Apps]],
           \A q \in Price!RunIds : q # nextRun => basis'[q] = basis[q] /\ demand'[q] = demand[q],
           NEW p \in Proc, proc' = [proc EXCEPT ![p] = [pc |-> c, run |-> nextRun]],
           c = "prices" => /\ Begun(basis'[nextRun]) /\ runs[basis'[nextRun]].status # "running"
                           /\ demand'[nextRun].targeted \subseteq wishlist.apps
    PROVE  PriceInv' /\ Onward
  <1> USE DEF PriceInv
  <1>1. /\ runs' \in [Price!RunIds -> Price!RunRecords] /\ runs'[nextRun].status = "running"
        /\ \A q \in Price!RunIds : q # nextRun => runs'[q] = runs[q]
    BY PriceOpened
  <1>2. /\ cap' \in [Price!RunIds -> {"wishlist", "prices"}] /\ cap'[nextRun] = c
        /\ \A q \in Price!RunIds : q # nextRun => cap'[q] = cap[q]
    BY DEF PriceShapes
  <1>3. nextRun \in Nat /\ nextRun' \in Nat \ {0}
    BY DEF PriceShapes
  <1>4. \A r : Begun(r) => BegunNext(r) /\ r # nextRun /\ r \in Price!RunIds
    BY <1>3, PriceRunIds DEF Begun, BegunNext
  <1>5. BegunNext(nextRun)
    BY <1>3 DEF BegunNext
  <1>6. CommandsOwn' /\ ProcShaped'
    <2> DEFINE entry == [pc |-> c, run |-> nextRun]
    <2>1. entry.pc = c /\ entry.run = nextRun
      OBVIOUS
    <2>2. \A q \in Price!RunIds : q < nextRun => cap'[q] = cap[q]
      BY <1>2, <1>3, PriceRunIds
    <2> HIDE DEF entry
    <2>3. proc' = [proc EXCEPT ![p] = entry]
      BY DEF entry
    <2>4. /\ entry.pc = "wishlist" => BegunNext(entry.run) /\ cap'[entry.run] = "wishlist"
          /\ entry.pc = "prices" => BegunNext(entry.run) /\ cap'[entry.run] = "prices"
      BY <1>2, <1>5, <2>1
    <2>5. nextRun' \in Nat /\ nextRun' >= nextRun
      BY <1>3
    <2>6. PriceShapes /\ CommandsOwn
      OBVIOUS
    <2> QED
      BY <2>2, <2>3, <2>4, <2>5, <2>6, CommandsKept
  <1>7. PriceShapes'
    BY <1>1, <1>2, <1>3, <1>6 DEF PriceShapes
  <1>8. NotBegun'
    <2> SUFFICES ASSUME NEW q \in Price!RunIds, q >= nextRun'
                 PROVE  runs'[q].status = "absent"
      BY DEF NotBegun
    <2>1. q \in Nat /\ q >= nextRun /\ q # nextRun
      BY <1>3, PriceRunIds
    <2>2. runs[q].status = "absent"
      BY <2>1 DEF NotBegun
    <2> QED
      BY <1>1, <2>1, <2>2
  <1>9. Promoter'
    BY <1>1, <1>2, <1>4 DEF Promoter, Begun, BegunNext
  <1>10. SinceThen'
    BY DEF SinceThen
  <1>11. Based'
    <2> SUFFICES ASSUME NEW q \in Price!RunIds, cap'[q] = "prices", runs'[q].status = "running"
                 PROVE  /\ BegunNext(basis'[q]) /\ runs'[basis'[q]].status # "running"
                        /\ basis'[q] = wishlist.run => demand'[q].targeted \subseteq wishlist.apps
      BY DEF Based, Begun, BegunNext
    <2>1. /\ Begun(basis'[q]) /\ runs[basis'[q]].status # "running"
          /\ basis'[q] = wishlist.run => demand'[q].targeted \subseteq wishlist.apps
      <3>1. CASE q = nextRun
        BY <1>2, <3>1
      <3>2. CASE q # nextRun
        BY <1>1, <1>2, <3>2 DEF Based
      <3> QED
        BY <3>1, <3>2
    <2> QED
      BY <1>1, <1>4, <2>1
  <1>13. Price!OnlyOvertakenLinger'
    <2> SUFFICES ASSUME NEW a \in Apps, price[a].run # 0
                 PROVE  \/ a \in wishlist.apps /\ basis'[price[a].run] >= since[a]
                        \/ price[a].run \in overtaken
      BY DEF Price!OnlyOvertakenLinger
    <2>1. price[a].run # nextRun /\ price[a].run \in Price!RunIds
      BY <1>4 DEF PricedBy
    <2> QED
      BY <2>1 DEF Price!OnlyOvertakenLinger
  <1>14. PricedBy(runs, price)'
    <2> SUFFICES ASSUME NEW a \in Apps, price[a].run # 0
                 PROVE  /\ BegunNext(price[a].run) /\ cap'[price[a].run] = "prices"
                        /\ Ended(runs', price[a].run)
      BY DEF PricedBy, Begun, BegunNext, Ended
    <2>1. Begun(price[a].run) /\ cap[price[a].run] = "prices" /\ Ended(runs, price[a].run)
      BY DEF PricedBy
    <2> QED
      BY <1>1, <1>2, <1>4, <2>1 DEF Ended
  <1> QED
    BY <1>6, <1>7, <1>8, <1>9, <1>10, <1>11, <1>13, <1>14, SamePrice

\* Runs that end or go, with what is stored of them.
LEMMA SettlingKeeps ==
    ASSUME Price!SyncRunsAssumption, PriceInv, UNCHANGED <<nextRun, cap, basis, wishlist, since>>,
           runs' \in [Price!RunIds -> Price!RunRecords], price' \in [Apps -> Price!Prices],
           demand' \in [Price!RunIds -> [all: SUBSET Apps, targeted: SUBSET Apps]],
           \A q \in Price!RunIds : runs'[q] = runs[q]
                                   \/ (runs[q].status = "running" /\ runs'[q].status # "running")
                                   \/ runs'[q].status = "absent",
           wishlist.run # 0 => runs'[wishlist.run].status = "complete",
           \A q \in Price!RunIds : demand'[q].targeted \subseteq demand[q].targeted,
           CommandsOwn', ProcShaped',
           PricedBy(runs', price'), Price!OnlyOvertakenLinger'
    PROVE  PriceInv'
  <1> USE DEF PriceInv
  <1>1. PriceShapes'
    BY DEF PriceShapes
  <1>3. NotBegun'
    BY DEF NotBegun
  <1>4. Promoter'
    BY DEF Promoter, Begun
  <1>5. SinceThen'
    BY DEF SinceThen
  <1>6. Based'
    <2> SUFFICES ASSUME NEW q \in Price!RunIds, cap[q] = "prices", runs'[q].status = "running"
                 PROVE  /\ Begun(basis[q]) /\ runs'[basis[q]].status # "running"
                        /\ basis[q] = wishlist.run => demand'[q].targeted \subseteq wishlist.apps
      BY DEF Based, Begun
    <2>1. runs[q].status = "running"
      OBVIOUS
    <2>2. /\ Begun(basis[q]) /\ runs[basis[q]].status # "running"
          /\ basis[q] = wishlist.run => demand[q].targeted \subseteq wishlist.apps
      BY <2>1 DEF Based
    <2> QED
      BY <2>2 DEF Begun
  <1>7. PricedBy(runs, price)'
    BY DEF PricedBy, Ended, Begun
  <1> QED
    BY <1>1, <1>3, <1>4, <1>5, <1>6, <1>7

\* A command that ends, or goes on to another price run, leaves the others'.
LEMMA CommandGoesOn ==
    ASSUME PriceInv, UNCHANGED <<nextRun, cap>>, NEW p \in Proc, ProcShaped',
           proc'[p].pc \in {"idle", "demand"}, \A x \in Proc \ {p} : proc'[x] = proc[x]
    PROVE  CommandsOwn'
  <1> SUFFICES ASSUME NEW x \in Proc
               PROVE  /\ proc'[x].pc = "wishlist" => Begun(proc'[x].run) /\ cap[proc'[x].run] = "wishlist"
                      /\ proc'[x].pc = "prices" => Begun(proc'[x].run) /\ cap[proc'[x].run] = "prices"
    BY DEF CommandsOwn, Begun
  <1>1. CASE x = p
    BY <1>1
  <1>2. CASE x # p
    BY <1>2 DEF PriceInv, CommandsOwn
  <1> QED
    BY <1>1, <1>2

LEMMA FreeingIsIdle ==
    ASSUME NEW p \in Proc, Price!Frees(p), PriceInv, UNCHANGED <<nextRun, cap>>
    PROVE  CommandsOwn' /\ ProcShaped'
  <1>1. proc' = [x \in Proc |-> IF x = p THEN Price!Idle ELSE proc[x]]
    BY DEF Price!Frees, PriceInv, PriceShapes, ProcShaped
  <1>2. ProcShaped' /\ proc'[p].pc = "idle" /\ \A x \in Proc \ {p} : proc'[x] = proc[x]
    BY <1>1 DEF ProcShaped, Price!Idle
  <1> QED
    BY <1>2, CommandGoesOn

\* Prices that stay, or go, linger no more than before.
LEMMA FewerLinger ==
    ASSUME PriceInv, UNCHANGED <<wishlist, since, basis>>, overtaken \subseteq overtaken',
           \A a \in Apps : price'[a].run # 0 => price'[a].run = price[a].run
    PROVE  Price!OnlyOvertakenLinger'
  <1> SUFFICES ASSUME NEW a \in Apps, price'[a].run # 0
               PROVE  \/ a \in wishlist.apps /\ basis[price'[a].run] >= since[a]
                      \/ price'[a].run \in overtaken'
    BY DEF Price!OnlyOvertakenLinger
  <1> QED
    BY DEF PriceInv, Price!OnlyOvertakenLinger

\* A run that fails.
LEMMA FailingKeeps ==
    ASSUME Price!SyncRunsAssumption, PriceInv, NEW p \in Proc, NEW r, Price!Live(r),
           Price!Is(r, "running"), NEW t \in Price!Times,
           runs' = Price!Closed(runs, r, "failed", t, FALSE), Price!Frees(p),
           UNCHANGED <<nextRun, cap, demand, basis, wishlist, price, since, overtaken>>
    PROVE  PriceInv' /\ Onward
  <1>1. r \in Price!RunIds /\ runs[r].status = "running"
    BY DEF Price!Live, Price!Is
  <1>2. /\ runs' \in [Price!RunIds -> Price!RunRecords] /\ runs'[r].status = "failed"
        /\ \A q \in Price!RunIds : q # r => runs'[q] = runs[q]
    <2>1. "failed" \in Price!Statuses /\ FALSE \in BOOLEAN /\ PriceShapes
      BY DEF PriceInv, Price!Statuses
    <2>2. ClosesTo(runs', r, "failed", FALSE)
      BY <1>1, <2>1, PriceClosed
    <2> QED
      BY <2>2 DEF ClosesTo
  <1>3. wishlist.run # 0 => runs'[wishlist.run].status = "complete"
    BY <1>1, <1>2 DEF PriceInv, Promoter, Begun
  <1>4. PricedBy(runs', price')
    BY <1>1, <1>2 DEF PriceInv, PricedBy, Begun, Ended
  <1>5. Price!OnlyOvertakenLinger'
    BY FewerLinger
  <1>6. \A q \in Price!RunIds : runs'[q] = runs[q]
                                \/ (runs[q].status = "running" /\ runs'[q].status # "running")
                                \/ runs'[q].status = "absent"
    BY <1>1, <1>2
  <1>7. /\ price' \in [Apps -> Price!Prices]
        /\ demand' \in [Price!RunIds -> [all: SUBSET Apps, targeted: SUBSET Apps]]
        /\ \A q \in Price!RunIds : demand'[q].targeted \subseteq demand[q].targeted
    BY DEF PriceInv, PriceShapes
  <1> QED
    BY <1>2, <1>3, <1>4, <1>5, <1>6, <1>7, FreeingIsIdle, SettlingKeeps, SamePrice DEF PriceInv

LEMMA BeginWishlistKeeps ==
    ASSUME Price!SyncRunsAssumption, PriceInv, NEW p \in Proc, Price!BeginWishlist(p)
    PROVE  PriceInv' /\ Onward
  <1>1. /\ nextRun \in Price!RunIds /\ runs' = Price!Opened(runs, 0) /\ nextRun' = nextRun + 1
        /\ cap' = [cap EXCEPT ![nextRun] = "wishlist"]
        /\ proc' = [proc EXCEPT ![p] = [pc |-> "wishlist", run |-> nextRun]]
        /\ UNCHANGED <<demand, basis, wishlist, price, since, overtaken>>
    BY DEF Price!BeginWishlist, Price!CanOpen
  <1>2. 0 \in Price!Times
    BY PriceTimes
  <1>3. /\ basis' \in [Price!RunIds -> 0 .. PriceRuns]
        /\ demand' \in [Price!RunIds -> [all: SUBSET Apps, targeted: SUBSET Apps]]
        /\ \A q \in Price!RunIds : q # nextRun => basis'[q] = basis[q] /\ demand'[q] = demand[q]
    BY <1>1 DEF PriceInv, PriceShapes
  <1> QED
    BY <1>1, <1>2, <1>3, OpeningKeeps

LEMMA BeginPricesKeeps ==
    ASSUME Price!SyncRunsAssumption, PriceInv, NEW p \in Proc, NEW targeted \in SUBSET Apps,
           NEW t \in Price!Times, Price!BeginPrices(p, targeted, t)
    PROVE  PriceInv' /\ Onward
  <1> DEFINE w == proc[p].run
  <1>1. /\ nextRun \in Price!RunIds /\ runs' = Price!Opened(runs, t) /\ nextRun' = nextRun + 1
        /\ cap' = [cap EXCEPT ![nextRun] = "prices"]
        /\ basis' = [basis EXCEPT ![nextRun] = w]
        /\ demand' = [demand EXCEPT ![nextRun] = [all |-> wishlist.apps, targeted |-> targeted]]
        /\ proc' = [proc EXCEPT ![p] = [pc |-> "prices", run |-> nextRun]]
        /\ UNCHANGED <<wishlist, price, since, overtaken>>
        /\ targeted \subseteq wishlist.apps
    BY DEF Price!BeginPrices, Price!CanOpen
  <1>2. w \in Price!RunIds /\ runs[w].status = "complete"
    BY DEF Price!BeginPrices, Price!StillCurrent, Price!Live, Price!Is
  <1> HIDE DEF w
  <1>3. Begun(w)
    <2>1. w \in Nat /\ nextRun \in Nat
      BY <1>2, PriceRunIds DEF PriceInv, PriceShapes
    <2>2. ~(w >= nextRun)
      BY <1>2 DEF PriceInv, NotBegun
    <2> QED
      BY <1>2, <2>1, <2>2 DEF Begun
  <1>4. /\ basis' \in [Price!RunIds -> 0 .. PriceRuns]
        /\ demand' \in [Price!RunIds -> [all: SUBSET Apps, targeted: SUBSET Apps]]
        /\ \A q \in Price!RunIds : q # nextRun => basis'[q] = basis[q] /\ demand'[q] = demand[q]
        /\ basis'[nextRun] = w /\ demand'[nextRun].targeted = targeted
    BY <1>1, <1>2, PriceRunIds DEF PriceInv, PriceShapes
  <1> QED
    BY <1>1, <1>2, <1>3, <1>4, OpeningKeeps

LEMMA ReadDemandKeeps ==
    ASSUME Price!SyncRunsAssumption, PriceInv, NEW p \in Proc, NEW t \in Price!Times,
           Price!ReadDemand(p, t)
    PROVE  PriceInv' /\ Onward
  <1>1. /\ Price!Expire(runs, price, t)
        /\ UNCHANGED <<nextRun, cap, basis, wishlist, since, overtaken>>
    BY DEF Price!ReadDemand
  <1>2. PriceShapes /\ runs \in [Price!RunIds -> Price!RunRecords] /\ price \in [Apps -> Price!Prices]
    BY DEF PriceInv, PriceShapes
  <1>3. /\ runs' \in [Price!RunIds -> Price!RunRecords] /\ price' \in [Apps -> Price!Prices]
        /\ demand' \in [Price!RunIds -> [all: SUBSET Apps, targeted: SUBSET Apps]]
        /\ \A q \in Price!RunIds : runs'[q] = runs[q] \/ runs'[q].status = "absent"
        /\ \A q \in Price!RunIds : cap[q] # "prices" => runs'[q] = runs[q]
        /\ \A q \in Price!RunIds : demand'[q].targeted \subseteq demand[q].targeted
        /\ \A a \in Apps : price'[a].run # 0 =>
             price'[a] = price[a] /\ runs'[price[a].run] = runs[price[a].run]
    BY <1>1, <1>2, ExpireLeaves
  <1>4. CommandsOwn' /\ ProcShaped'
    <2>1. \/ proc' = proc
          \/ proc' = [proc EXCEPT ![p] = [pc |-> "demand", run |-> Price!LatestComplete]]
      BY DEF Price!ReadDemand
    <2>2. CASE proc' = proc
      BY <1>1, <2>2 DEF PriceInv, CommandsOwn, PriceShapes, ProcShaped, Begun
    <2>3. CASE proc' = [proc EXCEPT ![p] = [pc |-> "demand", run |-> Price!LatestComplete]]
      <3>1. proc' = [x \in Proc |-> IF x = p THEN [pc |-> "demand", run |-> Price!LatestComplete]
                                    ELSE proc[x]]
        BY <2>3 DEF PriceInv, PriceShapes, ProcShaped
      <3>2. ProcShaped' /\ proc'[p].pc = "demand" /\ \A x \in Proc \ {p} : proc'[x] = proc[x]
        BY <3>1 DEF ProcShaped
      <3> QED
        BY <1>1, <3>2, CommandGoesOn
    <2> QED
      BY <2>1, <2>2, <2>3
  <1>5. PricedBy(runs', price')
    BY <1>3 DEF PriceInv, PricedBy, Ended
  <1>6. Price!OnlyOvertakenLinger'
    BY <1>1, <1>3, FewerLinger
  <1>7. wishlist.run # 0 => runs'[wishlist.run].status = "complete"
    BY <1>3 DEF PriceInv, Promoter, Begun
  <1>8. Onward
    BY <1>2, <1>3, PriceRunIds DEF Onward, Price!Prices
  <1> QED
    BY <1>1, <1>3, <1>4, <1>5, <1>6, <1>7, <1>8, SettlingKeeps

LEMMA DeletePricesKeeps ==
    ASSUME Price!SyncRunsAssumption, PriceInv, Price!DeletePrices
    PROVE  PriceInv' /\ Onward
  <1>1. /\ runs' = [r \in Price!RunIds |-> IF r \in Price!Of("prices") THEN Price!NoRun ELSE runs[r]]
        /\ price' = [a \in Apps |-> Price!Unpriced]
        /\ demand' = [r \in Price!RunIds |-> Price!NoDemand]
        /\ UNCHANGED <<nextRun, cap, basis, wishlist, proc, since, overtaken>>
    BY DEF Price!DeletePrices, Price!Without
  <1>2. /\ Price!NoRun \in Price!RunRecords /\ Price!NoRun.status = "absent"
        /\ Price!Unpriced \in Price!Prices /\ Price!Unpriced.run = 0
        /\ Price!NoDemand = [all |-> {}, targeted |-> {}]
    BY PriceTimes, PriceRunIds DEF Price!NoRun, Price!RunRecords, Price!Statuses, Price!Unpriced,
        Price!Prices, Price!NoDemand
  <1>3. /\ runs' \in [Price!RunIds -> Price!RunRecords] /\ price' \in [Apps -> Price!Prices]
        /\ demand' \in [Price!RunIds -> [all: SUBSET Apps, targeted: SUBSET Apps]]
    BY <1>1, <1>2 DEF PriceInv, PriceShapes
  <1>4. \A a \in Apps : price'[a].run = 0
    BY <1>1, <1>2
  <1>5. \A q \in Price!RunIds : runs'[q] = runs[q] \/ runs'[q].status = "absent"
    BY <1>1, <1>2
  <1>6. \A q \in Price!RunIds : cap[q] # "prices" => runs'[q] = runs[q]
    BY <1>1 DEF Price!Of
  <1>7. \A q \in Price!RunIds : demand'[q].targeted \subseteq demand[q].targeted
    BY <1>1, <1>2
  <1>8. wishlist.run # 0 => runs'[wishlist.run].status = "complete"
    BY <1>6 DEF PriceInv, Promoter, Begun
  <1>9. CommandsOwn' /\ ProcShaped'
    BY <1>1 DEF PriceInv, CommandsOwn, PriceShapes, ProcShaped, Begun
  <1>10. PricedBy(runs', price') /\ Price!OnlyOvertakenLinger' /\ Onward
    BY <1>4 DEF PricedBy, Price!OnlyOvertakenLinger, Onward
  <1> QED
    BY <1>1, <1>3, <1>5, <1>7, <1>8, <1>9, <1>10, SettlingKeeps

\* The demand of a run under way is not pruned, and prices off the wishlist go.
LEMMA CompleteWishlistKeeps ==
    ASSUME Price!SyncRunsAssumption, PriceInv, NEW p \in Proc, NEW apps \in SUBSET Apps,
           Price!CompleteWishlist(p, apps)
    PROVE  PriceInv' /\ Onward
  <1> DEFINE r == proc[p].run
             newer == \E q \in Price!WishlistRuns : q > r /\ Price!Is(q, "complete")
  <1>1. /\ proc[p].pc = "wishlist" /\ r \in Price!RunIds /\ runs[r].status = "running"
        /\ runs' = Price!Closed(runs, r, "complete", 0, ~newer)
        /\ IF newer
           THEN UNCHANGED <<wishlist, price, demand, since>>
           ELSE /\ wishlist' = [run |-> r, apps |-> apps]
                /\ price' = Price!PrunedPrices(apps)
                /\ demand' = Price!PrunedDemand(apps)
                /\ since' = [a \in Apps |-> IF a \notin apps THEN 0
                                            ELSE IF a \in wishlist.apps THEN since[a] ELSE r]
        /\ Price!Frees(p)
        /\ UNCHANGED <<nextRun, cap, basis, overtaken>>
    BY DEF Price!CompleteWishlist, Price!Live, Price!Is
  <1>2. Begun(r) /\ cap[r] = "wishlist"
    BY <1>1 DEF PriceInv, CommandsOwn
  <1>3. ClosesTo(runs', r, "complete", ~newer)
    <2>1. "complete" \in Price!Statuses /\ 0 \in Price!Times /\ (~newer) \in BOOLEAN /\ PriceShapes
      BY PriceTimes DEF PriceInv, Price!Statuses
    <2> QED
      BY <1>1, <2>1, PriceClosed
  <1>4. /\ runs' \in [Price!RunIds -> Price!RunRecords] /\ runs'[r].status = "complete"
        /\ \A q \in Price!RunIds : q # r => runs'[q] = runs[q]
    BY <1>3 DEF ClosesTo
  <1>5. CommandsOwn' /\ ProcShaped'
    BY <1>1, FreeingIsIdle
  <1>6. \A a \in Apps : price[a].run # 0 => price[a].run # r /\ Begun(price[a].run)
    BY <1>2 DEF PriceInv, PricedBy
  <1>7. CASE newer
    <2>1. UNCHANGED <<wishlist, price, demand, since>>
      BY <1>1, <1>7
    <2>2. wishlist.run # 0 => runs'[wishlist.run].status = "complete"
      BY <1>1, <1>4 DEF PriceInv, Promoter, Begun
    <2>3. PricedBy(runs', price')
      BY <1>4, <1>6, <2>1 DEF PriceInv, PricedBy, Begun, Ended
    <2>4. Price!OnlyOvertakenLinger'
      BY <1>1, <2>1, FewerLinger
    <2>5. \A q \in Price!RunIds : runs'[q] = runs[q]
                                  \/ (runs[q].status = "running" /\ runs'[q].status # "running")
                                  \/ runs'[q].status = "absent"
      BY <1>1, <1>4
    <2>6. /\ price' \in [Apps -> Price!Prices]
          /\ demand' \in [Price!RunIds -> [all: SUBSET Apps, targeted: SUBSET Apps]]
          /\ \A q \in Price!RunIds : demand'[q].targeted \subseteq demand[q].targeted
      BY <2>1 DEF PriceInv, PriceShapes
    <2>7. UNCHANGED <<nextRun, cap, basis, wishlist, since>>
      BY <1>1, <2>1
    <2>8. PriceInv'
      BY <1>4, <1>5, <2>2, <2>3, <2>4, <2>5, <2>6, <2>7, SettlingKeeps
    <2> QED
      BY <2>1, <2>8, SamePrice DEF PriceInv
  <1>8. CASE ~newer
    <2>1. /\ wishlist' = [run |-> r, apps |-> apps]
          /\ price' = [a \in Apps |-> IF a \in apps THEN price[a] ELSE Price!Unpriced]
          /\ demand' = Price!PrunedDemand(apps)
          /\ since' = [a \in Apps |-> IF a \notin apps THEN 0
                                      ELSE IF a \in wishlist.apps THEN since[a] ELSE r]
          /\ wishlist'.run = r /\ wishlist'.apps = apps
      BY <1>1, <1>8 DEF Price!PrunedPrices
    <2>2. r \in Nat /\ wishlist.run \in Nat /\ wishlist.run <= r /\ r \in 0 .. PriceRuns
      <3>1. r \in Nat /\ wishlist.run \in Nat /\ r \in 0 .. PriceRuns /\ r # 0
        BY <1>1, PriceRunIds DEF PriceInv, PriceShapes
      <3>2. wishlist.run # 0 => wishlist.run \in Price!WishlistRuns /\ Price!Is(wishlist.run, "complete")
        BY DEF PriceInv, Promoter, Begun, Price!WishlistRuns, Price!Of, Price!Live, Price!Is
      <3> QED
        BY <1>8, <3>1, <3>2
    <2>3. Price!Unpriced \in Price!Prices /\ Price!Unpriced.run = 0 /\ 0 \in 0 .. PriceRuns
      BY PriceTimes, PriceRunIds DEF Price!Unpriced, Price!Prices
    <2>4. /\ demand' \in [Price!RunIds -> [all: SUBSET Apps, targeted: SUBSET Apps]]
          /\ \A q \in Price!RunIds : runs[q].status = "running" => demand'[q] = demand[q]
      BY <2>1 DEF Price!PrunedDemand, PriceInv, PriceShapes, Price!Is
    <2>5. price' \in [Apps -> Price!Prices]
      BY <2>1, <2>3 DEF PriceInv, PriceShapes
    <2>6. since' \in [Apps -> 0 .. PriceRuns]
      BY <2>1, <2>2, <2>3 DEF PriceInv, PriceShapes
    <2>7. wishlist' \in [run: 0 .. PriceRuns, apps: SUBSET Apps]
      BY <2>1, <2>2
    <2>8. PriceShapes'
      BY <1>1, <1>4, <1>5, <2>4, <2>5, <2>6, <2>7 DEF PriceInv, PriceShapes
    <2>9. NotBegun'
      <3> SUFFICES ASSUME NEW q \in Price!RunIds, q >= nextRun
                   PROVE  runs'[q].status = "absent"
        BY <1>1 DEF NotBegun
      <3>1. runs[q].status = "absent"
        BY DEF PriceInv, NotBegun
      <3> QED
        BY <1>1, <1>4, <3>1
    <2>10. Promoter'
      BY <1>1, <1>2, <1>4, <2>1 DEF Promoter, Begun
    <2>11. SinceThen'
      <3> SUFFICES ASSUME NEW a \in Apps
                   PROVE  since'[a] <= r
        BY <2>1 DEF SinceThen
      <3>1. since[a] <= wishlist.run /\ since[a] \in 0 .. PriceRuns
        BY DEF PriceInv, SinceThen, PriceShapes
      <3>2. since'[a] \in {0, since[a], r}
        BY <2>1
      <3> QED
        BY <2>2, <3>1, <3>2, PriceRunIds
    <2>12. Based'
      <3> SUFFICES ASSUME NEW q \in Price!RunIds, cap[q] = "prices", runs'[q].status = "running"
                   PROVE  /\ Begun(basis[q]) /\ runs'[basis[q]].status # "running" /\ basis[q] # r
        BY <1>1, <2>1 DEF Based, Begun
      <3>1. runs[q].status = "running"
        BY <1>1, <1>4
      <3>2. Begun(basis[q]) /\ runs[basis[q]].status # "running"
        BY <3>1 DEF PriceInv, Based
      <3> QED
        BY <1>1, <1>4, <3>2 DEF Begun
    <2>13. PricedBy(runs, price)'
      <3> SUFFICES ASSUME NEW a \in Apps, price'[a].run # 0
                   PROVE  /\ Begun(price'[a].run) /\ cap[price'[a].run] = "prices"
                          /\ Ended(runs', price'[a].run)
        BY <1>1 DEF PricedBy, Begun, Ended
      <3>1. price'[a] = price[a]
        BY <2>1, <2>3
      <3> QED
        BY <1>4, <1>6, <3>1 DEF PriceInv, PricedBy, Ended, Begun
    <2>14. Price!OnlyOvertakenLinger'
      <3> SUFFICES ASSUME NEW a \in Apps, price'[a].run # 0
                   PROVE  \/ a \in apps /\ basis[price'[a].run] >= since'[a]
                          \/ price'[a].run \in overtaken
        BY <1>1, <2>1 DEF Price!OnlyOvertakenLinger
      <3>1. price'[a] = price[a] /\ a \in apps
        BY <2>1, <2>3
      <3>2. a \in wishlist.apps => since'[a] = since[a]
        BY <2>1, <3>1
      <3> QED
        BY <3>1, <3>2 DEF PriceInv, Price!OnlyOvertakenLinger
    <2>15. Onward
      <3> SUFFICES ASSUME NEW a \in Apps
                   PROVE  price'[a].run = 0 \/ price'[a].run >= price[a].run
        BY DEF Onward
      <3>1. price[a].run \in 0 .. PriceRuns /\ price'[a].run \in {0, price[a].run}
        BY <2>1, <2>3 DEF PriceInv, PriceShapes, Price!Prices
      <3> QED
        BY <3>1, PriceRunIds
    <2> QED
      BY <1>5, <2>8, <2>9, <2>10, <2>11, <2>12, <2>13, <2>14, <2>15 DEF PriceInv
  <1> QED
    BY <1>7, <1>8

\* What a price run saw is stored, under the wishlist it was asked for or not.
LEMMA CompletePricesKeeps ==
    ASSUME Price!SyncRunsAssumption, PriceInv, NEW p \in Proc, NEW seen \in SUBSET Apps,
           NEW saw \in [Apps -> Price!Outcomes], NEW again \in BOOLEAN, NEW t \in Price!Times,
           Price!CompletePrices(p, seen, saw, again, t)
    PROVE  PriceInv' /\ Onward
  <1> DEFINE r == proc[p].run
             s == IF seen = demand[r].targeted THEN "complete" ELSE "partial"
             any == \E a \in seen : Price!Replaces(r, a)
             table == Price!Closed(runs, r, s, t, any)
             stored == Price!Promoted(r, seen, saw, t)
  <1>1. /\ proc[p].pc = "prices" /\ r \in Price!RunIds /\ runs[r].status = "running"
        /\ seen \subseteq demand[r].targeted
        /\ Price!Expire(table, stored, t)
        /\ overtaken' = IF wishlist.run = basis[r] THEN overtaken ELSE overtaken \cup {r}
        /\ proc' = [proc EXCEPT ![p] =
                      IF again THEN [pc |-> "demand", run |-> basis[r]] ELSE Price!Idle]
        /\ UNCHANGED <<nextRun, cap, basis, wishlist, since>>
    BY DEF Price!CompletePrices, Price!Live, Price!Is
  <1>2. Begun(r) /\ cap[r] = "prices" /\ PriceShapes
    BY <1>1 DEF PriceInv, CommandsOwn
  <1>3. ClosesTo(table, r, s, any)
    <2>1. s \in Price!Statuses /\ any \in BOOLEAN
      BY DEF Price!Statuses
    <2> QED
      BY <1>1, <1>2, <2>1, PriceClosed
  <1>4. /\ table \in [Price!RunIds -> Price!RunRecords] /\ table[r].status \in {"complete", "partial"}
        /\ \A q \in Price!RunIds : q # r => table[q] = runs[q]
    BY <1>3 DEF ClosesTo
  <1>5. any => table[r].promoted
    BY <1>3 DEF ClosesTo
  <1>6. \A a \in Apps :
          stored[a] = IF a \in seen /\ Price!Replaces(r, a)
                      THEN [run |-> r, outcome |-> saw[a], at |-> t] ELSE price[a]
    BY DEF Price!Promoted
  <1>6a. ASSUME NEW a \in seen, Price!Replaces(r, a)
         PROVE  stored[a].run = r
    <2>1. a \in Apps
      OBVIOUS
    <2>2. stored[a] = [run |-> r, outcome |-> saw[a], at |-> t]
      BY <1>6a, <2>1 DEF Price!Promoted
    <2> HIDE DEF stored
    <2> QED
      BY <2>2
  <1>7. stored \in [Apps -> Price!Prices]
    <2>1. \A a \in Apps : [run |-> r, outcome |-> saw[a], at |-> t] \in Price!Prices
      BY <1>1, PriceRunIds DEF Price!Prices, Price!Outcomes
    <2>2. stored = [a \in Apps |-> stored[a]]
      BY DEF Price!Promoted
    <2>3. \A a \in Apps : price[a] \in Price!Prices
      BY <1>2 DEF PriceShapes
    <2> HIDE DEF stored
    <2> QED
      BY <1>6, <2>1, <2>2, <2>3
  <1>8. CommandsOwn' /\ ProcShaped'
    <2>1. proc' = [x \in Proc |-> IF x = p THEN (IF again THEN [pc |-> "demand", run |-> basis[r]]
                                                 ELSE Price!Idle) ELSE proc[x]]
      BY <1>1, <1>2 DEF PriceShapes, ProcShaped
    <2>2. ProcShaped' /\ proc'[p].pc \in {"idle", "demand"} /\ \A x \in Proc \ {p} : proc'[x] = proc[x]
      BY <2>1 DEF ProcShaped, Price!Idle
    <2> QED
      BY <1>1, <2>2, CommandGoesOn
  <1>9. \A a \in Apps : price[a].run # 0 => /\ price[a].run # r /\ Begun(price[a].run)
                                            /\ cap[price[a].run] = "prices" /\ Ended(runs, price[a].run)
    BY <1>1 DEF PriceInv, PricedBy, Ended
  <1> HIDE DEF table, stored, s, any
  <1>10. /\ runs' \in [Price!RunIds -> Price!RunRecords] /\ price' \in [Apps -> Price!Prices]
         /\ demand' \in [Price!RunIds -> [all: SUBSET Apps, targeted: SUBSET Apps]]
         /\ \A q \in Price!RunIds : runs'[q] = table[q] \/ runs'[q].status = "absent"
         /\ \A q \in Price!RunIds : cap[q] # "prices" => runs'[q] = table[q]
         /\ \A q \in Price!RunIds : demand'[q].targeted \subseteq demand[q].targeted
         /\ \A a \in Apps : price'[a].run # 0 =>
              price'[a] = stored[a] /\ runs'[stored[a].run] = table[stored[a].run]
    BY <1>1, <1>2, <1>4, <1>7, ExpireLeaves
  <1>11. \A q \in Price!RunIds : runs'[q] = runs[q]
                                 \/ (runs[q].status = "running" /\ runs'[q].status # "running")
                                 \/ runs'[q].status = "absent"
    BY <1>1, <1>4, <1>10
  <1>12. wishlist.run # 0 => runs'[wishlist.run].status = "complete"
    BY <1>2, <1>4, <1>10 DEF PriceInv, Promoter, Begun
  <1>13. ASSUME NEW a \in Apps, price'[a].run # 0
         PROVE  \/ /\ price'[a].run = r /\ a \in seen /\ Price!Replaces(r, a)
                   /\ runs'[r] = table[r] /\ any
                \/ /\ price'[a].run = price[a].run
                   /\ runs'[price[a].run] = runs[price[a].run]
    <2>1. price'[a] = stored[a] /\ runs'[stored[a].run] = table[stored[a].run]
      BY <1>10, <1>13
    <2>2. CASE a \in seen /\ Price!Replaces(r, a)
      <3>1. stored[a].run = r
        BY <1>6a, <2>2
      <3>2. any
        BY <2>2 DEF any
      <3> QED
        BY <2>1, <2>2, <3>1, <3>2
    <2>3. CASE ~(a \in seen /\ Price!Replaces(r, a))
      <3>1. price'[a] = price[a] /\ runs'[price[a].run] = table[price[a].run]
        BY <1>6, <2>1, <2>3
      <3> QED
        BY <1>4, <1>9, <1>13, <3>1 DEF Begun
    <2> QED
      BY <2>2, <2>3
  <1>14. PricedBy(runs', price')
    <2> SUFFICES ASSUME NEW a \in Apps, price'[a].run # 0
                 PROVE  /\ Begun(price'[a].run) /\ cap[price'[a].run] = "prices"
                        /\ Ended(runs', price'[a].run)
      BY DEF PricedBy
    <2> QED
      BY <1>2, <1>4, <1>5, <1>9, <1>13 DEF Ended
  <1>15. Price!OnlyOvertakenLinger'
    <2> SUFFICES ASSUME NEW a \in Apps, price'[a].run # 0
                 PROVE  \/ a \in wishlist.apps /\ basis[price'[a].run] >= since[a]
                        \/ price'[a].run \in overtaken'
      BY <1>1 DEF Price!OnlyOvertakenLinger
    <2>1. CASE price'[a].run = price[a].run
      BY <1>1, <2>1 DEF PriceInv, Price!OnlyOvertakenLinger
    <2>2. CASE price'[a].run = r /\ a \in seen
      <3>1. CASE wishlist.run # basis[r]
        BY <1>1, <2>2, <3>1
      <3>2. CASE wishlist.run = basis[r]
        <4>1. demand[r].targeted \subseteq wishlist.apps
          BY <1>1, <1>2, <3>2 DEF PriceInv, Based
        <4>2. since[a] <= wishlist.run /\ since[a] \in 0 .. PriceRuns /\ wishlist.run \in 0 .. PriceRuns
          BY DEF PriceInv, SinceThen, PriceShapes
        <4> QED
          BY <1>1, <2>2, <3>2, <4>1, <4>2, PriceRunIds
      <3> QED
        BY <3>1, <3>2
    <2> QED
      BY <1>13, <2>1, <2>2
  <1>16. Onward
    <2> SUFFICES ASSUME NEW a \in Apps, price'[a].run # 0
                 PROVE  price'[a].run >= price[a].run
      BY DEF Onward
    <2>1. price[a].run \in 0 .. PriceRuns /\ r \in 0 .. PriceRuns
      BY <1>1, <1>2, PriceRunIds DEF PriceShapes, Price!Prices
    <2> QED
      BY <1>13, <2>1, PriceRunIds DEF Price!Replaces
  <1>17. UNCHANGED <<nextRun, cap, basis, wishlist, since>>
    BY <1>1
  <1> QED
    BY <1>8, <1>10, <1>11, <1>12, <1>14, <1>15, <1>16, <1>17, SettlingKeeps

LEMMA PriceNextStep ==
    ASSUME Price!SyncRunsAssumption, PriceInv, [Price!PriceNext]_(Price!pricevars)
    PROVE  PriceInv' /\ Price!PriceMovesForward
  <1>1. ASSUME NEW p \in Proc, Price!Crash(p)
        PROVE  PriceInv' /\ Onward
    <2>1. /\ UNCHANGED <<runs, nextRun, cap, demand, basis, wishlist, price, since, overtaken>>
          /\ Price!Frees(p)
      BY <1>1 DEF Price!Crash
    <2>2. CommandsOwn' /\ ProcShaped'
      BY <2>1, FreeingIsIdle
    <2>3. PriceShapes' /\ NotBegun' /\ Promoter' /\ SinceThen' /\ Based' /\ PricedBy(runs, price)'
          /\ Price!OnlyOvertakenLinger'
      BY <2>1, <2>2 DEF PriceInv, PriceShapes, NotBegun, Promoter, SinceThen, Based, PricedBy, Begun,
          Ended, Price!OnlyOvertakenLinger
    <2> QED
      BY <2>1, <2>2, <2>3, SamePrice DEF PriceInv
  <1>2. ASSUME NEW p \in Proc, Price!FailWishlist(p)
        PROVE  PriceInv' /\ Onward
    <2>1. 0 \in Price!Times
      BY PriceTimes
    <2> QED
      BY <1>2, <2>1, FailingKeeps DEF Price!FailWishlist
  <1>3. ASSUME NEW p \in Proc, NEW t \in Price!Times, Price!FailPrices(p, t)
        PROVE  PriceInv' /\ Onward
    BY <1>3, FailingKeeps DEF Price!FailPrices
  <1>4. CASE UNCHANGED Price!pricevars
    <2>1. UNCHANGED <<runs, nextRun, cap, demand, basis, wishlist, price, proc, since, overtaken>>
      BY <1>4 DEF Price!pricevars
    <2>2. PriceInv'
      BY <2>1 DEF PriceInv, PriceShapes, ProcShaped, CommandsOwn, NotBegun, Promoter, SinceThen, Based,
          PricedBy, Begun, Ended, Price!OnlyOvertakenLinger
    <2> QED
      BY <2>1, <2>2, SamePrice, MovesForward DEF PriceInv
  <1>5. CASE Price!PriceNext
    <2>1. PriceInv' /\ Onward
      BY <1>1, <1>2, <1>3, <1>5, BeginWishlistKeeps, CompleteWishlistKeeps, ReadDemandKeeps,
         BeginPricesKeeps, CompletePricesKeeps, DeletePricesKeeps
      DEF Price!PriceNext, Price!PriceStep
    <2> QED
      BY <2>1, MovesForward DEF PriceInv
  <1> QED
    BY <1>4, <1>5

-----------------------------------------------------------------------------
(***************************************************************************)
(* Advice.  The invariant says what is in the logs and in the tables, and  *)
(* that the tables replay the logs; the advice is then read off the last   *)
(* word on each thing.  IsLast says of a log what LastWord chooses.        *)
(***************************************************************************)

Kinds == Advice!Fields \cup {"trait", "rule"}
Words == UNION {Advice!Sayable(k) : k \in Kinds}
Events(kinds) == {e \in [kind : kinds, value : Words] : e.value \in Advice!Sayable(e.kind)}

SaidKinds == Advice!Fields \cup {"trait"}

IsLast(log, k, w) ==
    \/ (\A i \in DOMAIN log : log[i].kind # k) /\ w = Advice!Unsaid(k)
    \/ \E i \in DOMAIN log :
          /\ log[i].kind = k /\ w = [value |-> log[i].value, event |-> i]
          /\ \A j \in DOMAIN log : log[j].kind = k => j <= i

LEMMA LastIsLast ==
    ASSUME NEW K, NEW log \in Seq(Events(K)), NEW k
    PROVE  IsLast(log, k, Advice!LastWord(log, k))
  <1> DEFINE E == {j \in DOMAIN log : log[j].kind = k}
  <1>1. CASE E = {}
    BY <1>1 DEF IsLast, Advice!LastWord
  <1>2. CASE E # {}
    <2>1. E \in SUBSET (0 .. Len(log)) /\ Len(log) \in Nat
      OBVIOUS
    <2>2. PICK i \in E : \A j \in E : j <= i
      BY <1>2, <2>1, GreatestNatural, Zenon
    <2> DEFINE l == CHOOSE h \in E : \A j \in E : j <= h
    <2>3. l \in E /\ \A j \in E : j <= l
      BY <2>2
    <2>4. Advice!LastWord(log, k) = [value |-> log[l].value, event |-> l]
      BY <1>2 DEF Advice!LastWord
    <2> HIDE DEF l
    <2> QED
      BY <2>3, <2>4 DEF IsLast
  <1> QED
    BY <1>1, <1>2

LEMMA LastIsOne ==
    ASSUME NEW K, NEW log \in Seq(Events(K)), NEW k, NEW v, NEW w,
           IsLast(log, k, v), IsLast(log, k, w)
    PROVE  v = w
  <1>1. ASSUME NEW i \in DOMAIN log, NEW j \in DOMAIN log, i <= j, j <= i PROVE i = j
    BY <1>1
  <1> QED
    BY <1>1 DEF IsLast

\* Another event is the last word on its own kind and on no other.
LEMMA LastOfLonger ==
    ASSUME NEW K, NEW log \in Seq(Events(K)), NEW e \in Events(K), NEW k
    PROVE  /\ Append(log, e) \in Seq(Events(K))
           /\ Advice!LastWord(Append(log, e), k) =
                IF e.kind = k THEN [value |-> e.value, event |-> Len(log) + 1]
                ELSE Advice!LastWord(log, k)
  <1> DEFINE longer == Append(log, e)
             old == Advice!LastWord(log, k)
             new == IF e.kind = k THEN [value |-> e.value, event |-> Len(log) + 1] ELSE old
  <1>1. /\ longer \in Seq(Events(K)) /\ DOMAIN longer = 1 .. Len(log) + 1
        /\ \A i \in DOMAIN log : longer[i] = log[i]
        /\ longer[Len(log) + 1] = e /\ DOMAIN log = 1 .. Len(log) /\ Len(log) \in Nat
    OBVIOUS
  <1>2. IsLast(log, k, old)
    BY LastIsLast
  <1> HIDE DEF longer, old
  <1>3. IsLast(longer, k, new)
    <2>1. CASE e.kind = k
      BY <1>1, <2>1 DEF IsLast
    <2>2. CASE e.kind # k /\ \A i \in DOMAIN log : log[i].kind # k
      <3>1. old = Advice!Unsaid(k)
        BY <1>2, <2>2 DEF IsLast
      <3> QED
        BY <1>1, <2>2, <3>1 DEF IsLast
    <2>3. CASE e.kind # k /\ \E i \in DOMAIN log : log[i].kind = k
      <3>1. PICK i \in DOMAIN log :
               /\ log[i].kind = k /\ old = [value |-> log[i].value, event |-> i]
               /\ \A j \in DOMAIN log : log[j].kind = k => j <= i
        BY <1>2, <2>3 DEF IsLast
      <3>2. i \in DOMAIN longer /\ longer[i] = log[i] /\ new = old
        BY <1>1, <2>3
      <3>3. \A j \in DOMAIN longer : longer[j].kind = k => j \in DOMAIN log /\ longer[j] = log[j]
        BY <1>1, <2>3
      <3> HIDE DEF new
      <3> QED
        BY <3>1, <3>2, <3>3 DEF IsLast
    <2> QED
      BY <2>1, <2>2, <2>3
  <1>4. IsLast(longer, k, Advice!LastWord(longer, k))
    BY <1>1, LastIsLast
  <1> QED
    BY <1>1, <1>3, <1>4, LastIsOne DEF longer, old

LEMMA LastTyped ==
    ASSUME NEW K, NEW log \in Seq(Events(K)), NEW k
    PROVE  /\ Advice!LastWord(log, k).value \in Advice!Sayable(k)
           /\ Advice!LastWord(log, k).event \in 0 .. Len(log)
           /\ Advice!LastWord(log, k).event = 0 => Advice!LastWord(log, k) = Advice!Unsaid(k)
           /\ Advice!LastWord(log, k) = [value |-> Advice!LastWord(log, k).value,
                                         event |-> Advice!LastWord(log, k).event]
  <1> DEFINE w == Advice!LastWord(log, k)
  <1>1. IsLast(log, k, w)
    BY LastIsLast
  <1>2. \A i \in DOMAIN log : log[i] \in Events(K) /\ i \in 1 .. Len(log)
    OBVIOUS
  <1>3. \A i \in DOMAIN log : log[i].value \in Advice!Sayable(log[i].kind)
    BY <1>2 DEF Events
  <1> HIDE DEF w
  <1>4. CASE w = Advice!Unsaid(k)
    BY <1>4 DEF Advice!Unsaid, Advice!Sayable, w
  <1>5. CASE w # Advice!Unsaid(k)
    BY <1>1, <1>2, <1>3, <1>5 DEF IsLast, w
  <1> QED
    BY <1>4, <1>5

-----------------------------------------------------------------------------

\* A word that is blank leaves no row.
Kept(k, w) == IF w.value = Advice!Blank[k] THEN Advice!Unsaid(k) ELSE w

AdviceInv ==
    /\ said \in Seq(Events(SaidKinds)) /\ ruled \in Seq(Events({"rule"}))
    /\ row \in [held : BOOLEAN, last : Nat, at : [Advice!Fields -> Words]]
    /\ \A f \in Advice!Fields : row.at[f] = Advice!LastWord(said, f).value
    /\ trait = Kept("trait", Advice!LastWord(said, "trait"))
    /\ rule = Kept("rule", Advice!LastWord(ruled, "rule"))
    /\ ~row.held => row = Advice!EmptyRow
    /\ row.held => \E f \in Advice!Fields : row.at[f] # Advice!Blank[f]
    /\ row.held => \E f \in Advice!Fields :
          /\ row.last = Advice!LastWord(said, f).event
          /\ \A g \in Advice!Fields : Advice!LastWord(said, g).event <= row.last

LEMMA AdviceInitially == Advice!AdviceInit => AdviceInv
  <1> SUFFICES ASSUME Advice!AdviceInit PROVE AdviceInv
    OBVIOUS
  <1>1. \A k : Advice!LastWord(<<>>, k) = Advice!Unsaid(k)
    BY DEF Advice!LastWord
  <1>2. \A f \in Advice!Fields : Advice!Blank[f] \in Words
    BY DEF Words, Kinds, Advice!Sayable
  <1>3. /\ said = <<>> /\ ruled = <<>> /\ row = Advice!EmptyRow
        /\ trait = Advice!Unsaid("trait") /\ rule = Advice!Unsaid("rule")
    BY DEF Advice!AdviceInit
  <1>4. row \in [held : BOOLEAN, last : Nat, at : [Advice!Fields -> Words]]
    BY <1>2, <1>3 DEF Advice!EmptyRow
  <1>5. \A f \in Advice!Fields : row.at[f] = Advice!LastWord(said, f).value
    BY <1>1, <1>3 DEF Advice!EmptyRow, Advice!Unsaid
  <1>6. ~row.held
    BY <1>3 DEF Advice!EmptyRow
  <1> QED
    BY <1>1, <1>3, <1>4, <1>5, <1>6 DEF AdviceInv, Kept

LEMMA SomethingSaid ==
    ASSUME AdviceInv, said' \in Seq(Events(SaidKinds)), UNCHANGED <<trait, ruled, rule>>,
           NEW words \in [Advice!Fields -> Words],
           \A f \in Advice!Fields : words[f] = Advice!LastWord(said', f).value,
           \E f \in Advice!Fields : Advice!LastWord(said', f).event = Len(said'),
           Advice!LastWord(said', "trait") = Advice!LastWord(said, "trait"),
           row' = Advice!WithoutEmpty([held |-> TRUE, last |-> Len(said'), at |-> words])
    PROVE  AdviceInv'
  <1> DEFINE filled == [held |-> TRUE, last |-> Len(said'), at |-> words]
             rowset == [held : BOOLEAN, last : Nat, at : [Advice!Fields -> Words]]
  <1>5. words \in [Advice!Fields -> Words]
    OBVIOUS
  <1>6. Len(said') \in Nat
    OBVIOUS
  <1>7. filled \in rowset
    BY <1>5, <1>6
  <1>8. [held |-> FALSE, last |-> 0, at |-> words] \in rowset
    BY <1>5
  <1>1. \A f \in Advice!Fields : Advice!LastWord(said', f).event \in 0 .. Len(said')
    BY LastTyped
  <1>2. CASE \A f \in Advice!Fields : words[f] = Advice!Blank[f]
    <2>1. row' = Advice!EmptyRow /\ words = [f \in Advice!Fields |-> Advice!Blank[f]]
      BY <1>2 DEF Advice!WithoutEmpty
    <2>3. row'.at = words
      BY <2>1 DEF Advice!EmptyRow
    <2>4. row'.held = FALSE
      BY <2>1 DEF Advice!EmptyRow
    <2>6. row' = [held |-> FALSE, last |-> 0, at |-> words]
      BY <2>1 DEF Advice!EmptyRow
    <2>2. row' \in rowset
      BY <2>6, <1>8, Zenon
    <2> QED
      BY <2>1, <2>2, <2>3, <2>4 DEF AdviceInv
  <1>3. CASE ~ \A f \in Advice!Fields : words[f] = Advice!Blank[f]
    <2>1. row' = filled
      BY <1>3 DEF Advice!WithoutEmpty
    <2>9. Len(said') \in Nat
      OBVIOUS
    <2>3. row'.at = words /\ row'.held = TRUE /\ row'.last = Len(said')
      BY <2>1
    <2>2. row' \in rowset
      BY <2>1, <1>7, Zenon
    <2>4. \E f \in Advice!Fields :
             /\ row'.last = Advice!LastWord(said', f).event
             /\ \A g \in Advice!Fields : Advice!LastWord(said', g).event <= row'.last
      <3>1. PICK f \in Advice!Fields : Advice!LastWord(said', f).event = Len(said')
        OBVIOUS
      <3>2. \A g \in Advice!Fields : Advice!LastWord(said', g).event <= Len(said')
        BY <1>1, <2>9
      <3> QED
        BY <3>1, <3>2, <2>3
    <2> QED
      BY <1>3, <2>2, <2>3, <2>4 DEF AdviceInv
  <1> QED
    BY <1>2, <1>3

LEMMA EventTyped ==
    ASSUME NEW K \in SUBSET Kinds, NEW k \in K, NEW v \in Advice!Sayable(k)
    PROVE  /\ Advice!Event(k, v) \in Events(K)
           /\ Advice!Event(k, v).kind = k /\ Advice!Event(k, v).value = v
  BY DEF Events, Words, Advice!Event

LEMMA OneFieldSaid ==
    ASSUME AdviceInv, NEW k \in Advice!Fields, NEW v \in Advice!Sayable(k),
           Advice!ApplyFields(<<Advice!Event(k, v)>>)
    PROVE  AdviceInv'
  <1> DEFINE e == Advice!Event(k, v)
             at == [f \in Advice!Fields |-> IF f = k THEN v ELSE row.at[f]]
  <1>1. e \in Events(SaidKinds) /\ e.kind = k /\ e.value = v
    BY EventTyped DEF SaidKinds, Kinds
  <1>2. v \in Words
    BY DEF Words, Kinds
  <1> HIDE DEF e
  <1>3. said \in Seq(Events(SaidKinds)) /\ said' = Append(said, e) /\ Len(said') = Len(said) + 1
    BY <1>1 DEF AdviceInv, Advice!ApplyFields, e
  <1>4. \A f \in Advice!Fields : row.at[f] \in Words
    BY DEF AdviceInv
  <1>5. row' = Advice!WithoutEmpty([held |-> TRUE, last |-> Len(said'), at |-> at])
    <2> DEFINE At(f) == {i \in DOMAIN <<e>> : <<e>>[i].kind = f}
    <2>1. row' = Advice!WithoutEmpty(
            [held |-> TRUE, last |-> Len(said) + Len(<<e>>),
             at |-> [f \in Advice!Fields |-> IF At(f) = {} THEN row.at[f] ELSE <<e>>[CHOOSE i \in At(f) : TRUE].value]])
      BY DEF Advice!ApplyFields, e
    <2>2. DOMAIN <<e>> = {1} /\ <<e>>[1] = e /\ Len(<<e>>) = 1
      OBVIOUS
    <2>3. \A f : At(f) = IF f = k THEN {1} ELSE {}
      BY <1>1, <2>2
    <2>4. (CHOOSE i \in {1} : TRUE) = 1
      OBVIOUS
    <2> HIDE DEF At
    <2>5. [f \in Advice!Fields |-> IF At(f) = {} THEN row.at[f] ELSE <<e>>[CHOOSE i \in At(f) : TRUE].value] = at
      BY <1>1, <2>2, <2>3, <2>4
    <2> QED
      BY <1>3, <2>1, <2>2, <2>5
  <1>6. at \in [Advice!Fields -> Words]
    BY <1>2, <1>4
  <1>7. \A j : Advice!LastWord(said', j) = IF e.kind = j THEN [value |-> e.value, event |-> Len(said) + 1]
                                           ELSE Advice!LastWord(said, j)
    BY <1>1, <1>3, LastOfLonger
  <1>8. \A f \in Advice!Fields : at[f] = Advice!LastWord(said', f).value
    BY <1>1, <1>7 DEF AdviceInv
  <1>9. \E f \in Advice!Fields : Advice!LastWord(said', f).event = Len(said')
    BY <1>1, <1>3, <1>7
  <1>10. Advice!LastWord(said', "trait") = Advice!LastWord(said, "trait")
    BY <1>1, <1>7 DEF Advice!Fields
  <1>11. said' \in Seq(Events(SaidKinds)) /\ UNCHANGED <<trait, ruled, rule>>
    BY <1>1, <1>3, LastOfLonger DEF Advice!ApplyFields
  <1> HIDE DEF at
  <1> QED
    BY <1>5, <1>6, <1>8, <1>9, <1>10, <1>11, SomethingSaid


LEMMA TwoFieldsSaid ==
    ASSUME AdviceInv, NEW m \in Advice!Sayable("minimum"), NEW r \in Advice!Sayable("remaining"),
           Advice!ApplyFields(<<Advice!Event("minimum", m), Advice!Event("remaining", r)>>)
    PROVE  AdviceInv'
  <1> DEFINE d == Advice!Event("minimum", m)
             e == Advice!Event("remaining", r)
             between == Append(said, d)
             words == [f \in Advice!Fields |-> IF f = "minimum" THEN m
                                               ELSE IF f = "remaining" THEN r ELSE row.at[f]]
  <1>1. /\ d \in Events(SaidKinds) /\ d.kind = "minimum" /\ d.value = m
        /\ e \in Events(SaidKinds) /\ e.kind = "remaining" /\ e.value = r
    BY EventTyped DEF SaidKinds, Kinds, Advice!Fields
  <1>2. m \in Words /\ r \in Words
    BY DEF Words, Kinds, Advice!Fields
  <1> HIDE DEF d, e
  <1>3. /\ said \in Seq(Events(SaidKinds)) /\ said' = Append(between, e)
        /\ Len(said') = Len(said) + 2 /\ Len(between) = Len(said) + 1
    BY <1>1 DEF AdviceInv, Advice!ApplyFields, d, e
  <1>4. \A f \in Advice!Fields : row.at[f] \in Words
    BY DEF AdviceInv
  <1>5. row' = Advice!WithoutEmpty([held |-> TRUE, last |-> Len(said'), at |-> words])
    <2> DEFINE At(f) == {i \in DOMAIN <<d, e>> : <<d, e>>[i].kind = f}
    <2>1. row' = Advice!WithoutEmpty(
            [held |-> TRUE, last |-> Len(said) + Len(<<d, e>>),
             at |-> [f \in Advice!Fields |-> IF At(f) = {} THEN row.at[f] ELSE <<d, e>>[CHOOSE i \in At(f) : TRUE].value]])
      BY DEF Advice!ApplyFields, d, e
    <2>2. DOMAIN <<d, e>> = {1, 2} /\ <<d, e>>[1] = d /\ <<d, e>>[2] = e /\ Len(<<d, e>>) = 2
      OBVIOUS
    <2>3. \A f : At(f) = IF f = "minimum" THEN {1} ELSE IF f = "remaining" THEN {2} ELSE {}
      BY <1>1, <2>2
    <2>4. (CHOOSE i \in {1} : TRUE) = 1 /\ (CHOOSE i \in {2} : TRUE) = 2
      OBVIOUS
    <2> HIDE DEF At
    <2>5. [f \in Advice!Fields |-> IF At(f) = {} THEN row.at[f] ELSE <<d, e>>[CHOOSE i \in At(f) : TRUE].value] = words
      BY <1>1, <2>2, <2>3, <2>4
    <2> QED
      BY <1>3, <2>1, <2>2, <2>5
  <1>6. words \in [Advice!Fields -> Words]
    BY <1>2, <1>4
  <1> HIDE DEF between
  <1>7. between \in Seq(Events(SaidKinds)) /\ \A j : Advice!LastWord(between, j) =
            IF d.kind = j THEN [value |-> d.value, event |-> Len(said) + 1] ELSE Advice!LastWord(said, j)
    BY <1>1, <1>3, LastOfLonger DEF between
  <1>8. \A j : Advice!LastWord(said', j) = IF e.kind = j THEN [value |-> e.value, event |-> Len(between) + 1]
                                           ELSE Advice!LastWord(between, j)
    BY <1>1, <1>3, <1>7, LastOfLonger
  <1>9. \A f \in Advice!Fields : words[f] = Advice!LastWord(said', f).value
    BY <1>1, <1>7, <1>8 DEF AdviceInv
  <1>10. \E f \in Advice!Fields : Advice!LastWord(said', f).event = Len(said')
    <2>1. Advice!LastWord(said', "remaining").event = Len(said')
      BY <1>1, <1>3, <1>8
    <2> QED
      BY <2>1 DEF Advice!Fields
  <1>11. Advice!LastWord(said', "trait") = Advice!LastWord(said, "trait")
    BY <1>1, <1>7, <1>8
  <1>12. said' \in Seq(Events(SaidKinds)) /\ UNCHANGED <<trait, ruled, rule>>
    BY <1>1, <1>3, <1>7, LastOfLonger DEF Advice!ApplyFields
  <1> HIDE DEF words
  <1> QED
    BY <1>5, <1>6, <1>9, <1>10, <1>11, <1>12, SomethingSaid

LEMMA TraitBlank == \A v \in Advice!Values["trait"] : v # Advice!Blank["trait"]
  BY DEF Advice!Values, Advice!Blank

LEMMA RuleBlank == \A v \in Advice!Values["rule"] : v # Advice!Blank["rule"]
  BY DEF Advice!Values, Advice!Blank

\* What is said of the trait leaves the fields alone.
LEMMA TraitSaid ==
    ASSUME AdviceInv, NEW v \in Advice!Sayable("trait"),
           said' = Append(said, Advice!Event("trait", v)), UNCHANGED <<ruled, rule>>,
           trait' = IF v = Advice!Blank["trait"] THEN Advice!Unsaid("trait")
                    ELSE [value |-> v, event |-> Len(said) + 1],
           row' = row
    PROVE  AdviceInv'
  <1> DEFINE e == Advice!Event("trait", v)
  <1>1. e \in Events(SaidKinds) /\ e.kind = "trait" /\ e.value = v
    BY EventTyped DEF SaidKinds, Kinds
  <1> HIDE DEF e
  <1>2. said \in Seq(Events(SaidKinds)) /\ said' = Append(said, e)
    BY DEF AdviceInv, e
  <1>3. said' \in Seq(Events(SaidKinds))
        /\ \A j : Advice!LastWord(said', j) = IF e.kind = j THEN [value |-> e.value, event |-> Len(said) + 1]
                                                ELSE Advice!LastWord(said, j)
    BY <1>1, <1>2, LastOfLonger
  <1>4. \A f \in Advice!Fields : Advice!LastWord(said', f) = Advice!LastWord(said, f)
    BY <1>1, <1>3 DEF Advice!Fields
  <1>5. trait' = Kept("trait", Advice!LastWord(said', "trait"))
    BY <1>1, <1>3 DEF Kept
  <1> QED
    BY <1>3, <1>4, <1>5 DEF AdviceInv

LEMMA RuleSaid ==
    ASSUME AdviceInv, NEW v \in Advice!Sayable("rule"),
           ruled' = Append(ruled, Advice!Event("rule", v)), UNCHANGED <<said, row, trait>>,
           rule' = IF v = Advice!Blank["rule"] THEN Advice!Unsaid("rule")
                   ELSE [value |-> v, event |-> Len(ruled) + 1]
    PROVE  AdviceInv'
  <1> DEFINE e == Advice!Event("rule", v)
  <1>1. e \in Events({"rule"}) /\ e.kind = "rule" /\ e.value = v
    BY EventTyped DEF Kinds
  <1> HIDE DEF e
  <1>2. ruled \in Seq(Events({"rule"})) /\ ruled' = Append(ruled, e)
    BY DEF AdviceInv, e
  <1>3. ruled' \in Seq(Events({"rule"}))
        /\ Advice!LastWord(ruled', "rule") = [value |-> e.value, event |-> Len(ruled) + 1]
    BY <1>1, <1>2, LastOfLonger
  <1>4. rule' = Kept("rule", Advice!LastWord(ruled', "rule"))
    BY <1>1, <1>3 DEF Kept
  <1> QED
    BY <1>3, <1>4 DEF AdviceInv

LEMMA AdviceStep ==
    ASSUME AdviceInv, Advice!AdviceNext \/ UNCHANGED Advice!advicevars
    PROVE  AdviceInv'
  <1>1. CASE Advice!Rate
    BY <1>1, OneFieldSaid DEF Advice!Rate, Advice!Fields
  <1>2. CASE Advice!PlayState
    BY <1>2, OneFieldSaid DEF Advice!PlayState, Advice!Fields
  <1>3. CASE Advice!Snooze
    BY <1>3, OneFieldSaid DEF Advice!Snooze, Advice!Fields
  <1>4. CASE Advice!Estimate
    <2>1. CASE \E f \in {"minimum", "remaining"} : \E v \in Advice!Sayable(f) :
                  Advice!ApplyFields(<<Advice!Event(f, v)>>)
      BY <2>1, OneFieldSaid DEF Advice!Fields
    <2>2. CASE \E m \in Advice!Sayable("minimum"), r \in Advice!Sayable("remaining") :
                  Advice!ApplyFields(<<Advice!Event("minimum", m), Advice!Event("remaining", r)>>)
      BY <2>2, TwoFieldsSaid
    <2> QED
      BY <1>4, <2>1, <2>2 DEF Advice!Estimate
  <1>5. CASE Advice!Trait
    <2>1. CASE Advice!ClearTrait
      <3>1. Advice!WithoutEmpty(row) = row
        BY DEF AdviceInv, Advice!WithoutEmpty
      <3>2. Advice!Blank["trait"] \in Advice!Sayable("trait")
        BY DEF Advice!Sayable
      <3>3. /\ said' = Append(said, Advice!Event("trait", Advice!Blank["trait"]))
            /\ UNCHANGED <<ruled, rule>> /\ row' = row /\ trait' = Advice!Unsaid("trait")
        BY <2>1, <3>1 DEF Advice!ClearTrait, Advice!Blank
      <3> QED
        BY <3>2, <3>3, TraitSaid
    <2>2. ASSUME NEW v \in Advice!Values["trait"], Advice!SetTrait(v) PROVE AdviceInv'
      <3>1. v \in Advice!Sayable("trait") /\ v # Advice!Blank["trait"]
        BY TraitBlank DEF Advice!Sayable
      <3> QED
        BY <2>2, <3>1, TraitSaid DEF Advice!SetTrait
    <2> QED
      BY <1>5, <2>1, <2>2 DEF Advice!Trait, Advice!Values
  <1>6. CASE Advice!Preferences
    <2>1. CASE Advice!RemoveRule
      <3>1. Advice!Blank["rule"] \in Advice!Sayable("rule")
        BY DEF Advice!Sayable
      <3>2. /\ ruled' = Append(ruled, Advice!Event("rule", Advice!Blank["rule"]))
            /\ UNCHANGED <<said, row, trait>> /\ rule' = Advice!Unsaid("rule")
        BY <2>1 DEF Advice!RemoveRule, Advice!Blank
      <3> QED
        BY <3>1, <3>2, RuleSaid
    <2>2. ASSUME NEW v \in Advice!Values["rule"], Advice!SetRule(v) PROVE AdviceInv'
      <3>1. v \in Advice!Sayable("rule") /\ v # Advice!Blank["rule"]
        BY RuleBlank DEF Advice!Sayable
      <3> QED
        BY <2>2, <3>1, RuleSaid DEF Advice!SetRule
    <2> QED
      BY <1>6, <2>1, <2>2 DEF Advice!Preferences, Advice!Values
  <1>7. CASE UNCHANGED Advice!advicevars
    BY <1>7 DEF Advice!advicevars, AdviceInv
  <1> QED
    BY <1>1, <1>2, <1>3, <1>4, <1>5, <1>6, <1>7 DEF Advice!AdviceNext

-----------------------------------------------------------------------------

(***************************************************************************)
(* What a query reads is the last word on each thing.                      *)
(***************************************************************************)
LEMMA ReadIsSaid ==
    ASSUME AdviceInv
    PROVE  /\ \A f \in Advice!Fields : Advice!Read(f) = Advice!Word(f) /\ Advice!Word(f) \in Advice!Sayable(f)
           /\ trait.value = Advice!Word("trait") /\ trait.value \in Advice!Sayable("trait")
           /\ rule.value = Advice!LastWord(ruled, "rule").value /\ rule.value \in Advice!Sayable("rule")
           /\ trait.event # 0 => trait.event = Advice!LastWord(said, "trait").event
           /\ rule.event # 0 => rule.event = Advice!LastWord(ruled, "rule").event
  <1>1. \A f \in Advice!Fields : ~row.held => row.at[f] = Advice!Blank[f]
    BY DEF AdviceInv, Advice!EmptyRow
  <1>2. \A k : /\ Advice!LastWord(said, k).value \in Advice!Sayable(k)
               /\ Advice!LastWord(ruled, k).value \in Advice!Sayable(k)
    BY LastTyped DEF AdviceInv
  <1>3. \A f \in Advice!Fields : Advice!Read(f) = Advice!Word(f)
    BY <1>1 DEF AdviceInv, Advice!Read, Advice!Listed, Advice!Word
  <1>4. /\ trait.value = Advice!LastWord(said, "trait").value
        /\ trait.event # 0 => trait.event = Advice!LastWord(said, "trait").event
    BY DEF AdviceInv, Kept, Advice!Unsaid
  <1>5. /\ rule.value = Advice!LastWord(ruled, "rule").value
        /\ rule.event # 0 => rule.event = Advice!LastWord(ruled, "rule").event
    BY DEF AdviceInv, Kept, Advice!Unsaid
  <1> QED
    BY <1>2, <1>3, <1>4, <1>5 DEF Advice!Word

LEMMA NewestIsLast == \A k : Advice!NewestSaid(k) = Advice!LastWord(said, k).event
  BY DEF Advice!NewestSaid, Advice!LastWord, Advice!Unsaid

LEMMA ReplayHolds == AdviceInv => Advice!TablesReplayLogs
  <1> SUFFICES ASSUME AdviceInv PROVE Advice!TablesReplayLogs
    OBVIOUS
  <1>1. \A f \in Advice!Fields :
           /\ Advice!Read(f) = Advice!LastWord(said, f).value
           /\ Advice!FieldEvidence(f) \subseteq Advice!Said(Advice!LastWord(said, f).event)
    BY ReadIsSaid, NewestIsLast DEF Advice!FieldEvidence, Advice!Word
  <1>2. /\ Advice!Holds(trait, Advice!LastWord(said, "trait"))
        /\ Advice!Holds(rule, Advice!LastWord(ruled, "rule"))
    BY ReadIsSaid DEF Advice!Holds, Advice!Word
  <1> QED
    BY <1>1, <1>2 DEF AdviceInv, Advice!TablesReplayLogs

-----------------------------------------------------------------------------

(***************************************************************************)
(* What may be said of each thing, spelled out, and what the two rules of  *)
(* a trait make of it.                                                     *)
(***************************************************************************)
LEMMA WhatIsSaid ==
    ASSUME AdviceInv
    PROVE  /\ Advice!Read("rating") = Advice!Word("rating")
           /\ Advice!Word("rating") \in {"liked", "disliked", "neutral", "none"}
           /\ Advice!Read("play_state") = Advice!Word("play_state")
           /\ Advice!Word("play_state") \in {"finished", "user_abandoned", "active", "none"}
           /\ Advice!Read("snooze") = Advice!Word("snooze") /\ Advice!Word("snooze") \in {-1, 1, 2}
           /\ Advice!Read("minimum") = Advice!Word("minimum") /\ Advice!Word("minimum") \in {-1, 0, 90}
           /\ Advice!Read("remaining") = Advice!Word("remaining") /\ Advice!Word("remaining") \in {-1, 0, 90}
           /\ trait.value = Advice!Word("trait") /\ trait.value \in {"present", "absent", "unknown", "none"}
  BY ReadIsSaid DEF Advice!Fields, Advice!Sayable, Advice!Values, Advice!Blank, Advice!Null

LEMMA RulesSaid ==
    ASSUME AdviceInv
    PROVE  /\ \A kinds, strength : Advice!RuleIs(kinds, strength) <=> rule.value[1] \in kinds /\ rule.value[2] = strength
           /\ rule.value[1] \in {"prefer", "avoid", "require", "none"}
           /\ rule.value[2] \in {"soft", "hard", "none"} /\ rule.value[3] \in {0, 1}
           /\ rule.value[2] = "hard" => rule.value[1] \in {"avoid", "require"}
           /\ rule.value[1] = "none" <=> rule.value[2] = "none"
  <1>1. rule.value \in Advice!Sayable("rule") /\ rule.value = Advice!LastWord(ruled, "rule").value
    BY ReadIsSaid
  <1>2. \/ rule.value \in {"prefer", "avoid", "require"} \X {"soft"} \X {0, 1}
        \/ rule.value \in {"avoid", "require"} \X {"hard"} \X {0, 1}
        \/ rule.value = <<"none", "none", 0>>
    BY <1>1 DEF Advice!Sayable, Advice!Values, Advice!Blank
  <1>3. \A kinds, strength : Advice!RuleIs(kinds, strength) <=> rule.value[1] \in kinds /\ rule.value[2] = strength
    BY <1>1 DEF Advice!RuleIs
  <1> QED
    BY <1>2, <1>3

\* A hard rule's gate passes when the trait is known to be as it wants.
LEMMA HardGate ==
    ASSUME AdviceInv
    PROVE  /\ Advice!TraitGate(Advice!Wanted) \in {"unknown", "pass", "fail"}
           /\ Advice!TraitGate(Advice!Wanted) = "unknown" <=> Advice!Word("trait") \in {"none", "unknown"}
           /\ Advice!TraitBars <=> rule.value[2] = "hard" /\ Advice!TraitGate(Advice!Wanted) # "pass"
  BY WhatIsSaid, RulesSaid DEF Advice!TraitGate, Advice!Wanted, Advice!TraitBars, Advice!WantedTrait

-----------------------------------------------------------------------------

LEMMA GateIs ==
    ASSUME NEW n, NEW s, NEW e
    PROVE  Advice!Gate(n, s, e).name = n /\ Advice!Gate(n, s, e).state = s /\ Advice!Gate(n, s, e).by = e
  BY DEF Advice!Gate

LEMMA WishGatesAre ==
    ASSUME AdviceInv, NEW name, NEW state, state # "pass"
    PROVE  (\E g \in Advice!WishGates(1) : g.name = name /\ g.state = state) <=>
             \/ name = "explicit_hard_exclude" /\ state = "fail" /\ Advice!Word("play_state") = "user_abandoned"
             \/ name = "active_snooze" /\ state = "fail" /\ Advice!Word("snooze") > 1
             \/ name = "hard_rule" /\ state = Advice!TraitGate(Advice!Wanted) /\ rule.value[2] = "hard"
  <1> DEFINE a == Advice!Gate("explicit_hard_exclude", "fail", Advice!FieldEvidence("play_state"))
             b == Advice!Gate("active_snooze", "fail", Advice!FieldEvidence("snooze"))
             c == Advice!Gate("hard_rule", Advice!TraitGate(Advice!Wanted), Advice!RuleEvidence)
  <1>1. /\ a.name = "explicit_hard_exclude" /\ a.state = "fail"
        /\ b.name = "active_snooze" /\ b.state = "fail"
        /\ c.name = "hard_rule" /\ c.state = Advice!TraitGate(Advice!Wanted)
    BY GateIs
  <1>2. /\ Advice!Read("play_state") = Advice!Word("play_state")
        /\ Advice!Read("snooze") = Advice!Word("snooze") /\ Advice!Word("snooze") \in Int
    BY WhatIsSaid
  <1>3. \A g : g \in Advice!WishGates(1) <=>
           \/ g = a /\ Advice!Word("play_state") = "user_abandoned"
           \/ g = b /\ Advice!Word("snooze") > 1
           \/ g = c /\ rule.value[2] = "hard"
    BY <1>2 DEF Advice!WishGates, Advice!RuleGate
  <1> HIDE DEF a, b, c
  <1> QED
    BY <1>1, <1>3

LEMMA WishHolds == AdviceInv => Advice!WishIsEarned
  <1> SUFFICES ASSUME AdviceInv PROVE Advice!WishIsEarned
    OBVIOUS
  <1> DEFINE Names3 == {"explicit_hard_exclude", "active_snooze", "hard_rule"}
             barred == [explicit_hard_exclude |-> Advice!Word("play_state") = "user_abandoned",
                        active_snooze |-> Advice!Word("snooze") > 1,
                        hard_rule |-> Advice!TraitBars]
             gates == Advice!WishGates(1)
  <1>1. DOMAIN barred = Names3
    OBVIOUS
  <1>4. /\ barred["explicit_hard_exclude"] = (Advice!Word("play_state") = "user_abandoned")
        /\ barred["active_snooze"] = (Advice!Word("snooze") > 1)
        /\ barred["hard_rule"] = Advice!TraitBars
    OBVIOUS
  <1> HIDE DEF barred
  <1>2. \A name : (\E g \in gates : g.name = name /\ g.state # "pass") <=> name \in Names3 /\ barred[name]
    <2>1. TAKE name
    <2>2. (\E g \in gates : g.name = name /\ g.state # "pass") <=>
             \/ name = "explicit_hard_exclude" /\ Advice!Word("play_state") = "user_abandoned"
             \/ name = "active_snooze" /\ Advice!Word("snooze") > 1
             \/ name = "hard_rule" /\ Advice!TraitGate(Advice!Wanted) # "pass" /\ rule.value[2] = "hard"
      BY WishGatesAre
    <2>3. CASE name \in Names3
      BY <2>2, <2>3, <1>4, HardGate
    <2>4. CASE name \notin Names3
      BY <2>2, <2>4
    <2> QED
      BY <2>3, <2>4
  <1>3. ASSUME NEW keeps \in BOOLEAN, NEW overridden \in SUBSET Names3
        PROVE  LET verdict == Advice!WishEligibility(1, overridden, keeps)
               IN /\ verdict = "refused" <=> \E name \in overridden : ~barred[name]
                  /\ verdict = "eligible" => \A name \in DOMAIN barred : barred[name] => name \in overridden
                  /\ verdict = "conditional" =>
                       /\ keeps /\ Advice!Word("trait") \in {"none", "unknown"} /\ Advice!TraitBars
                       /\ \A name \in {"explicit_hard_exclude", "active_snooze"} :
                              barred[name] => name \in overridden
    <2> DEFINE open == {g \in gates : g.name \notin overridden}
               named == {g.name : g \in {h \in gates : h.state # "pass"}}
               failing == \E g \in open : g.state = "fail"
               unknown == \E g \in open : g.state = "unknown"
               verdict == Advice!WishEligibility(1, overridden, keeps)
    <2>1. verdict = IF ~(overridden \subseteq named) THEN "refused"
                   ELSE IF failing \/ (unknown /\ ~keeps) THEN "excluded"
                   ELSE IF unknown THEN "conditional" ELSE "eligible"
      BY DEF Advice!WishEligibility
    <2>2. (overridden \subseteq named) <=> \A name \in overridden : barred[name]
      BY <1>2
    <2>3. \A name \in Names3 : name \notin overridden /\ barred[name] => failing \/ unknown
      <3>1. TAKE name \in Names3
      <3>2. HAVE name \notin overridden /\ barred[name]
      <3>3. PICK g \in gates : g.name = name /\ g.state # "pass"
        BY <1>2, <3>2
      <3>4. g.state \in {"fail", "unknown"}
        BY <3>3, WishGatesAre, HardGate
      <3> QED
        BY <3>2, <3>3, <3>4
    <2>4. \A name \in {"explicit_hard_exclude", "active_snooze"} : name \notin overridden /\ barred[name] => failing
      <3>1. TAKE name \in {"explicit_hard_exclude", "active_snooze"}
      <3>2. HAVE name \notin overridden /\ barred[name]
      <3>4. \/ name = "explicit_hard_exclude" /\ Advice!Word("play_state") = "user_abandoned"
            \/ name = "active_snooze" /\ Advice!Word("snooze") > 1
        BY <3>2, <1>4
      <3>5. "fail" # "pass"
        OBVIOUS
      <3>3. \E g \in gates : g.name = name /\ g.state = "fail"
        BY <3>4, <3>5, WishGatesAre, Zenon
      <3> QED
        BY <3>2, <3>3
    <2>5. unknown => Advice!Word("trait") \in {"none", "unknown"} /\ Advice!TraitBars
      BY WishGatesAre, HardGate
    <2> HIDE DEF verdict, failing, unknown, named
    <2>6. verdict = "refused" <=> \E name \in overridden : ~barred[name]
      BY <2>1, <2>2
    <2>7. verdict = "eligible" => \A name \in Names3 : barred[name] => name \in overridden
      BY <2>1, <2>3
    <2>8. verdict = "conditional" => keeps /\ unknown /\ ~failing
      BY <2>1
    <2> QED
      BY <1>1, <2>4, <2>5, <2>6, <2>7, <2>8 DEF verdict
  <1> QED
    BY <1>3 DEF Advice!WishIsEarned, barred

-----------------------------------------------------------------------------

(***************************************************************************)
(* recommendations query: the gates one by one, and which of them do not   *)
(* pass, by the last words.                                                *)
(***************************************************************************)
Budgets == {Advice!Null, 0}
Classes == {"game", "non_game", "old"}
RequireSets == {<<>>, [user |-> "yes", installed |-> "no"]}

LEMMA RequiredIs ==
    ASSUME NEW requirements \in RequireSets
    PROVE  Advice!Required(requirements, "no") =
              IF "user" \in DOMAIN requirements
              THEN {Advice!Gate("user", Advice!TraitGate("present"), Advice!Said(trait.event)),
                    Advice!Gate("installed", "pass", {})}
              ELSE {}
  <1>1. CASE requirements = <<>>
    <2>1. DOMAIN requirements = {}
      BY <1>1
    <2> QED
      BY <2>1 DEF Advice!Required
  <1>2. CASE requirements = [user |-> "yes", installed |-> "no"]
    <2>1. /\ DOMAIN requirements = {"user", "installed"}
          /\ requirements["user"] = "yes" /\ requirements["installed"] = "no"
      BY <1>2
    <2>2. Advice!BoolGate("no", "no") = "pass"
      BY DEF Advice!BoolGate
    <2> QED
      BY <2>1, <2>2 DEF Advice!Required
  <1> QED
    BY <1>1, <1>2 DEF RequireSets

LEMMA QueryGatesAre ==
    ASSUME NEW recipe, NEW minutes, NEW requirements \in RequireSets, NEW game, NEW g
    PROVE  g \in Advice!Gates(recipe, 1, minutes, requirements, game, "no") <=>
      \/ g = Advice!Gate("owned", "pass", {})
      \/ g = Advice!Gate("game", Advice!BoolGate(game, "yes"), {})
      \/ g = Advice!Gate("snoozed", IF Advice!Read("snooze") > 1 THEN "fail" ELSE "pass",
                         Advice!FieldEvidence("snooze"))
      \/ minutes # -1 /\ g = Advice!Gate("minimum_session_within_time", Advice!WithinTime("minimum", minutes),
                                         Advice!FieldEvidence("minimum"))
      \/ "user" \in DOMAIN requirements /\ g = Advice!Gate("user", Advice!TraitGate("present"), Advice!Said(trait.event))
      \/ "user" \in DOMAIN requirements /\ g = Advice!Gate("installed", "pass", {})
      \/ rule.value[2] = "hard" /\ g = Advice!Gate("profile", Advice!TraitGate(Advice!Wanted), Advice!RuleEvidence)
      \/ /\ recipe # "preference-fit"
         /\ g = Advice!Gate("not_finished", IF Advice!Read("play_state") = "finished" THEN "fail" ELSE "pass",
                            Advice!FieldEvidence("play_state"))
      \/ /\ recipe = "finishability" /\ minutes # -1
         /\ g = Advice!Gate("remaining_within_time", Advice!WithinTime("remaining", minutes),
                            Advice!FieldEvidence("remaining"))
  BY RequiredIs, Zenon DEF Advice!Gates, Advice!TimeGate, Advice!RuleGate, Advice!Null

\* Every gate quotes the newest events only.
LEMMA GatesQuoteNewest ==
    ASSUME AdviceInv, NEW recipe, NEW minutes, NEW requirements \in RequireSets, NEW game,
           NEW g \in Advice!Gates(recipe, 1, minutes, requirements, game, "no")
    PROVE  g.by \subseteq
              (UNION {Advice!Said(Advice!LastWord(said, k).event) : k \in Advice!Fields \cup {"trait"}})
                 \cup Advice!Ruled(Advice!LastWord(ruled, "rule").event)
  <1> DEFINE quoted == UNION {Advice!Said(Advice!LastWord(said, k).event) : k \in Advice!Fields \cup {"trait"}}
             weighed == Advice!Ruled(Advice!LastWord(ruled, "rule").event)
  <1>1. \A k \in Advice!Fields \cup {"trait"} : Advice!Said(Advice!LastWord(said, k).event) \subseteq quoted
    OBVIOUS
  <1> HIDE DEF quoted
  <1>2. \A f \in Advice!Fields : Advice!FieldEvidence(f) \subseteq quoted
    BY <1>1, NewestIsLast DEF Advice!FieldEvidence
  <1>3. Advice!Said(trait.event) \subseteq quoted
    <2>1. trait.event = 0 \/ trait.event = Advice!LastWord(said, "trait").event
      BY ReadIsSaid
    <2> QED
      BY <1>1, <2>1 DEF Advice!Said
  <1>4. Advice!RuleEvidence \subseteq quoted \cup weighed
    <2>1. rule.event = 0 \/ rule.event = Advice!LastWord(ruled, "rule").event
      BY ReadIsSaid
    <2> QED
      BY <1>3, <2>1 DEF Advice!RuleEvidence, Advice!Ruled
  <1> HIDE DEF weighed
  <1>5. g.by \in {{}, Advice!Said(trait.event), Advice!RuleEvidence} \cup {Advice!FieldEvidence(f) : f \in Advice!Fields}
    BY QueryGatesAre, GateIs DEF Advice!Fields
  <1>6. g.by \subseteq quoted \cup weighed
    BY <1>2, <1>3, <1>4, <1>5
  <1> QED
    BY <1>6 DEF quoted, weighed

Late(f, minutes) == minutes # Advice!Null /\ (Advice!Word(f) = Advice!Null \/ Advice!Word(f) > minutes)

LEMMA LateGate ==
    ASSUME AdviceInv, NEW f \in {"minimum", "remaining"}, NEW minutes \in Budgets
    PROVE  /\ Advice!WithinTime(f, minutes) \in {"unknown", "pass", "fail"}
           /\ minutes # -1 => (Advice!WithinTime(f, minutes) # "pass" <=> Late(f, minutes))
           /\ Advice!WithinTime(f, minutes) = "unknown" <=> Advice!Word(f) = -1
           /\ Advice!WithinTime(f, minutes) = "fail" => Advice!Word(f) > minutes
  BY WhatIsSaid DEF Advice!WithinTime, Advice!Null, Late, Budgets

Bar(recipe, minutes, requirements, class) ==
    [snoozed |-> Advice!Word("snooze") > 1,
     not_finished |-> recipe # "preference-fit" /\ Advice!Word("play_state") = "finished",
     minimum_session_within_time |-> Late("minimum", minutes),
     remaining_within_time |-> recipe = "finishability" /\ Late("remaining", minutes),
     user |-> "user" \in DOMAIN requirements /\ Advice!Word("trait") # "present",
     profile |-> Advice!TraitBars,
     game |-> class # "game"]

GatesOf(recipe, minutes, requirements, class) ==
    Advice!Gates(recipe, 1, minutes, requirements, Advice!IsGame(class), "no")

\* The gate of that name is there and says so, other than to pass.
Barred(recipe, minutes, requirements, class, name, state) ==
    \/ name = "game" /\ state = (IF class = "old" THEN "unknown" ELSE "fail") /\ class # "game"
    \/ name = "snoozed" /\ state = "fail" /\ Advice!Word("snooze") > 1
    \/ name = "minimum_session_within_time" /\ minutes # -1 /\ state = Advice!WithinTime("minimum", minutes)
    \/ name = "user" /\ "user" \in DOMAIN requirements /\ state = Advice!TraitGate("present")
    \/ name = "profile" /\ rule.value[2] = "hard" /\ state = Advice!TraitGate(Advice!Wanted)
    \/ name = "not_finished" /\ state = "fail" /\ recipe # "preference-fit"
         /\ Advice!Word("play_state") = "finished"
    \/ name = "remaining_within_time" /\ recipe = "finishability" /\ minutes # -1
         /\ state = Advice!WithinTime("remaining", minutes)

\* The gates that do not pass, and how.
LEMMA BarsAre ==
    ASSUME AdviceInv, NEW recipe, NEW minutes \in Budgets, NEW requirements \in RequireSets,
           NEW class \in Classes
    PROVE  \A name, state : state # "pass" =>
           ((\E g \in GatesOf(recipe, minutes, requirements, class) : g.name = name /\ g.state = state) <=>
            Barred(recipe, minutes, requirements, class, name, state))
  <1> TAKE name, state
  <1> HAVE state # "pass"
  <1> DEFINE gates == GatesOf(recipe, minutes, requirements, class)
  <1>1. Advice!BoolGate(Advice!IsGame(class), "yes") =
            (IF class = "game" THEN "pass" ELSE IF class = "old" THEN "unknown" ELSE "fail")
    BY DEF Advice!BoolGate, Advice!IsGame, Classes
  <1>2. Advice!Read("snooze") = Advice!Word("snooze") /\ Advice!Read("play_state") = Advice!Word("play_state")
    BY WhatIsSaid
  <1>3. ASSUME NEW g \in gates, g.name = name, g.state = state
        PROVE  Barred(recipe, minutes, requirements, class, name, state)
    BY <1>1, <1>2, <1>3, QueryGatesAre, GateIs DEF GatesOf, Barred
  <1>4. ASSUME NEW n, NEW s, NEW e, Advice!Gate(n, s, e) \in gates, n = name, s = state
        PROVE  \E g \in gates : g.name = name /\ g.state = state
    BY <1>4, GateIs
  <1>5. /\ Advice!Gate("game", Advice!BoolGate(Advice!IsGame(class), "yes"), {}) \in gates
        /\ Advice!Gate("snoozed", IF Advice!Read("snooze") > 1 THEN "fail" ELSE "pass",
                       Advice!FieldEvidence("snooze")) \in gates
        /\ minutes # -1 => Advice!Gate("minimum_session_within_time", Advice!WithinTime("minimum", minutes),
                                       Advice!FieldEvidence("minimum")) \in gates
        /\ "user" \in DOMAIN requirements =>
                Advice!Gate("user", Advice!TraitGate("present"), Advice!Said(trait.event)) \in gates
        /\ rule.value[2] = "hard" =>
                Advice!Gate("profile", Advice!TraitGate(Advice!Wanted), Advice!RuleEvidence) \in gates
        /\ recipe # "preference-fit" =>
                Advice!Gate("not_finished", IF Advice!Read("play_state") = "finished" THEN "fail" ELSE "pass",
                            Advice!FieldEvidence("play_state")) \in gates
        /\ recipe = "finishability" /\ minutes # -1 =>
                Advice!Gate("remaining_within_time", Advice!WithinTime("remaining", minutes),
                            Advice!FieldEvidence("remaining")) \in gates
    BY QueryGatesAre, Zenon DEF GatesOf
  <1> HIDE DEF gates
  <1>6. ASSUME Barred(recipe, minutes, requirements, class, name, state)
        PROVE  \E g \in gates : g.name = name /\ g.state = state
    BY <1>1, <1>2, <1>4, <1>5, <1>6, Zenon DEF Barred
  <1> QED
    BY <1>3, <1>6 DEF gates

BarNames == {"snoozed", "not_finished", "minimum_session_within_time", "remaining_within_time",
             "user", "profile", "game"}

\* A gate does not pass exactly when the last words bar it.
LEMMA BarsBar ==
    ASSUME AdviceInv, NEW recipe, NEW minutes \in Budgets, NEW requirements \in RequireSets,
           NEW class \in Classes
    PROVE  LET gates == GatesOf(recipe, minutes, requirements, class)
               bar == Bar(recipe, minutes, requirements, class)
           IN /\ DOMAIN bar = BarNames
              /\ \A name : (\E g \in gates : g.name = name /\ g.state # "pass") <=> name \in BarNames /\ bar[name]
              /\ \A g \in gates : g.state \in {"pass", "fail", "unknown"} /\ g.name # "none"
  <1> DEFINE gates == GatesOf(recipe, minutes, requirements, class)
             bar == Bar(recipe, minutes, requirements, class)
  <1>1. /\ DOMAIN bar = BarNames
        /\ bar["snoozed"] = (Advice!Word("snooze") > 1)
        /\ bar["not_finished"] = (recipe # "preference-fit" /\ Advice!Word("play_state") = "finished")
        /\ bar["minimum_session_within_time"] = Late("minimum", minutes)
        /\ bar["remaining_within_time"] = (recipe = "finishability" /\ Late("remaining", minutes))
        /\ bar["user"] = ("user" \in DOMAIN requirements /\ Advice!Word("trait") # "present")
        /\ bar["profile"] = Advice!TraitBars
        /\ bar["game"] = (class # "game")
    BY DEF Bar, BarNames
  <1>2. /\ Advice!TraitGate("present") \in {"unknown", "pass", "fail"}
        /\ Advice!TraitGate("present") # "pass" <=> Advice!Word("trait") # "present"
    BY WhatIsSaid DEF Advice!TraitGate
  <1>3. \A f \in {"minimum", "remaining"} :
           /\ Advice!WithinTime(f, minutes) \in {"unknown", "pass", "fail"}
           /\ minutes # -1 => (Advice!WithinTime(f, minutes) # "pass" <=> Late(f, minutes))
           /\ Late(f, minutes) => minutes # -1
    BY LateGate DEF Late, Advice!Null
  <1>4. /\ Advice!TraitGate(Advice!Wanted) \in {"unknown", "pass", "fail"}
        /\ Advice!TraitBars <=> rule.value[2] = "hard" /\ Advice!TraitGate(Advice!Wanted) # "pass"
    BY HardGate
  <1>5. \A name, state : state # "pass" =>
          ((\E g \in gates : g.name = name /\ g.state = state) <=>
             Barred(recipe, minutes, requirements, class, name, state))
    BY BarsAre
  <1> HIDE DEF gates, bar
  <1>6. ASSUME NEW name, NEW state, state # "pass", \E g \in gates : g.name = name /\ g.state = state
        PROVE  name \in BarNames /\ bar[name] /\ state \in {"fail", "unknown"}
    <2>1. Barred(recipe, minutes, requirements, class, name, state)
      BY <1>5, <1>6
    <2> QED
      BY <1>1, <1>2, <1>3, <1>4, <1>6, <2>1 DEF BarNames, Barred
  <1>7. ASSUME NEW name \in BarNames, bar[name] PROVE \E g \in gates : g.name = name /\ g.state # "pass"
    <2>1. \E state : state # "pass" /\ \E g \in gates : g.name = name /\ g.state = state
      <3> DEFINE state == CASE name = "game" -> IF class = "old" THEN "unknown" ELSE "fail"
                            [] name = "snoozed" -> "fail"
                            [] name = "minimum_session_within_time" -> Advice!WithinTime("minimum", minutes)
                            [] name = "user" -> Advice!TraitGate("present")
                            [] name = "profile" -> Advice!TraitGate(Advice!Wanted)
                            [] name = "not_finished" -> "fail"
                            [] name = "remaining_within_time" -> Advice!WithinTime("remaining", minutes)
      <3>1. state # "pass"
        BY <1>1, <1>2, <1>3, <1>4, <1>7 DEF BarNames
      <3>2. Barred(recipe, minutes, requirements, class, name, state)
        <4>1. /\ state = CASE name = "game" -> IF class = "old" THEN "unknown" ELSE "fail"
                            [] name = "snoozed" -> "fail"
                            [] name = "minimum_session_within_time" -> Advice!WithinTime("minimum", minutes)
                            [] name = "user" -> Advice!TraitGate("present")
                            [] name = "profile" -> Advice!TraitGate(Advice!Wanted)
                            [] name = "not_finished" -> "fail"
                            [] name = "remaining_within_time" -> Advice!WithinTime("remaining", minutes)
          OBVIOUS
        <4> HIDE DEF state
        <4>2. CASE name \in {"game", "snoozed", "not_finished"}
          BY <1>1, <1>7, <4>1, <4>2 DEF Barred
        <4>3. CASE name \in {"user", "profile"}
          BY <1>1, <1>4, <1>7, <4>1, <4>3 DEF Barred
        <4>4. CASE name \in {"minimum_session_within_time", "remaining_within_time"}
          BY <1>1, <1>3, <1>7, <4>1, <4>4 DEF Barred
        <4> QED
          BY <4>2, <4>3, <4>4 DEF BarNames
      <3> HIDE DEF state
      <3>3. \E g \in gates : g.name = name /\ g.state = state
        BY <1>5, <3>1, <3>2, Zenon
      <3> QED
        BY <3>1, <3>3
    <2> QED
      BY <2>1
  <1>8. \A g \in gates : g.name # "none"
    BY QueryGatesAre, GateIs DEF gates, GatesOf
  <1>9. \A name : (\E g \in gates : g.name = name /\ g.state # "pass") <=> name \in BarNames /\ bar[name]
    BY <1>6, <1>7
  <1>10. \A g \in gates : g.state \in {"pass", "fail", "unknown"}
    BY <1>6
  <1> QED
    BY <1>1, <1>8, <1>9, <1>10 DEF gates, bar

LEMMA AdviceHolds == AdviceInv => Advice!AdviceIsEarned
  <1> SUFFICES ASSUME AdviceInv PROVE Advice!AdviceIsEarned
    OBVIOUS
  <1>1. ASSUME NEW recipe \in Advice!Recipes, NEW minutes \in Budgets, NEW class \in {"game", "old"},
               NEW requirements \in RequireSets
        PROVE  LET gates == GatesOf(recipe, minutes, requirements, class)
                   bar == Bar(recipe, minutes, requirements, class)
               IN /\ \A g \in gates : g.by \subseteq
                        (UNION {Advice!Said(Advice!LastWord(said, k).event) : k \in Advice!Fields \cup {"trait"}})
                            \cup Advice!Ruled(Advice!LastWord(ruled, "rule").event)
                  /\ \A overrides \in Advice!Overrides(gates) :
                       /\ Advice!Eligibility(gates, overrides, FALSE) = "refused" <=> "none" \in DOMAIN overrides
                       /\ Advice!Eligibility(gates, overrides, FALSE) = "eligible" <=>
                            /\ "none" \notin DOMAIN overrides
                            /\ \A name \in DOMAIN bar : bar[name] => name \in DOMAIN overrides
                  /\ \A g \in gates : Advice!Eligibility(gates, Advice!Only(g.name, "fail"), TRUE) = "excluded"
    <2> DEFINE gates == GatesOf(recipe, minutes, requirements, class)
               bar == Bar(recipe, minutes, requirements, class)
               names == {g.name : g \in gates}
    <2>0. class \in Classes
      BY DEF Classes
    <2>1. /\ DOMAIN bar = BarNames
          /\ \A name : (\E g \in gates : g.name = name /\ g.state # "pass") <=> name \in BarNames /\ bar[name]
          /\ \A g \in gates : g.state \in {"pass", "fail", "unknown"} /\ g.name # "none"
      BY <2>0, BarsBar
    <2>2. \A g \in gates : g.by \subseteq
                        (UNION {Advice!Said(Advice!LastWord(said, k).event) : k \in Advice!Fields \cup {"trait"}})
                            \cup Advice!Ruled(Advice!LastWord(ruled, "rule").event)
      BY GatesQuoteNewest DEF GatesOf
    <2> HIDE DEF gates, bar
    <2>3. ASSUME NEW overrides \in Advice!Overrides(gates)
          PROVE  /\ DOMAIN overrides \subseteq names \cup {"none"}
                 /\ \A n \in DOMAIN overrides : overrides[n] = "pass"
      <3>1. CASE overrides = <<>>
        <4>1. DOMAIN overrides = {}
          BY <3>1
        <4> QED
          BY <4>1
      <3>2. CASE overrides # <<>>
        <4>1. PICK n \in names \cup {"none"} : overrides = Advice!Only(n, "pass")
          BY <3>2 DEF Advice!Overrides
        <4>2. DOMAIN overrides = {n} /\ overrides[n] = "pass"
          BY <4>1 DEF Advice!Only
        <4> QED
          BY <4>2
      <3> QED
        BY <3>1, <3>2
    <2>4. ASSUME NEW overrides, DOMAIN overrides \subseteq names \cup {"none"},
                 \A n \in DOMAIN overrides : overrides[n] = "pass"
          PROVE  /\ Advice!Eligibility(gates, overrides, FALSE) = "refused" <=> "none" \in DOMAIN overrides
                 /\ Advice!Eligibility(gates, overrides, FALSE) = "eligible" <=>
                      /\ "none" \notin DOMAIN overrides
                      /\ \A name \in DOMAIN bar : bar[name] => name \in DOMAIN overrides
      <3> DEFINE states == {Advice!Effective(g, overrides) : g \in gates}
      <3>1. DOMAIN overrides \subseteq names <=> "none" \notin DOMAIN overrides
        BY <2>1, <2>4
      <3>2. \A g \in gates : Advice!Effective(g, overrides) = IF g.name \in DOMAIN overrides THEN "pass" ELSE g.state
        BY <2>4 DEF Advice!Effective
      <3>3. ("fail" \in states \/ "unknown" \in states) <=>
               \E g \in gates : g.name \notin DOMAIN overrides /\ g.state # "pass"
        BY <2>1, <3>2
      <3>4. (\E g \in gates : g.name \notin DOMAIN overrides /\ g.state # "pass") <=>
               \E name \in DOMAIN bar : bar[name] /\ name \notin DOMAIN overrides
        BY <2>1
      <3>5. Advice!Eligibility(gates, overrides, FALSE) =
               IF ~(DOMAIN overrides \subseteq names) THEN "refused"
               ELSE IF "fail" \in states \/ "unknown" \in states THEN "excluded"
               ELSE IF "unknown" \in states THEN "conditional" ELSE "eligible"
        BY DEF Advice!Eligibility
      <3> HIDE DEF states, names
      <3> QED
        BY <3>1, <3>3, <3>4, <3>5
    <2>5. \A g \in gates : Advice!Eligibility(gates, Advice!Only(g.name, "fail"), TRUE) = "excluded"
      <3>1. TAKE g \in gates
      <3> DEFINE overrides == Advice!Only(g.name, "fail")
                 states == {Advice!Effective(h, overrides) : h \in gates}
      <3>2. DOMAIN overrides = {g.name} /\ overrides[g.name] = "fail"
        BY DEF Advice!Only
      <3>3. "fail" \in states /\ DOMAIN overrides \subseteq names
        BY <3>2 DEF Advice!Effective
      <3> HIDE DEF overrides
      <3> QED
        BY <3>3 DEF Advice!Eligibility, overrides
    <2> QED
      BY <2>2, <2>3, <2>4, <2>5 DEF gates, bar
  <1> QED
    BY <1>1, Zenon DEF Budgets, Advice!AdviceIsEarned, RequireSets, Bar, Late, GatesOf

-----------------------------------------------------------------------------

Told == Advice!RuleIs({"prefer", "avoid", "require"}, "soft") /\ Advice!Word("trait") \in {"present", "absent"}

\* The points of a title are there when something was said of it.
LEMMA PointsSaid ==
    ASSUME AdviceInv
    PROVE  /\ Advice!RatingPoints = {} <=> Advice!Word("rating") = "none"
           /\ 1 \in Advice!RatingPoints <=> Advice!Word("rating") = "liked"
           /\ Advice!PlayPoints = {} <=> Advice!Word("play_state") = "none"
           /\ -1 \in Advice!PlayPoints <=> Advice!Word("play_state") \in {"finished", "user_abandoned"}
           /\ \A wish \in BOOLEAN : Advice!RulePoints(wish) = {} <=> ~Told
  <1>1. /\ Advice!RatingPoints = {} <=> Advice!Word("rating") = "none"
        /\ 1 \in Advice!RatingPoints <=> Advice!Word("rating") = "liked"
    BY WhatIsSaid DEF Advice!RatingPoints
  <1>2. /\ Advice!PlayPoints = {} <=> Advice!Word("play_state") = "none"
        /\ -1 \in Advice!PlayPoints <=> Advice!Word("play_state") \in {"finished", "user_abandoned"}
    BY WhatIsSaid DEF Advice!PlayPoints
  <1>3. \A wish \in BOOLEAN : Advice!RulePoints(wish) = {} <=> ~Told
    <2>1. Told <=> rule.value[2] = "soft" /\ trait.value \notin {"none", "unknown"}
      BY WhatIsSaid, RulesSaid DEF Told
    <2> QED
      BY <2>1 DEF Advice!RulePoints
  <1> QED
    BY <1>1, <1>2, <1>3

LEMMA PointsSided ==
    ASSUME AdviceInv, NEW wish \in BOOLEAN, NEW points \in Advice!RulePoints(wish)
    PROVE  /\ points = 1 => Advice!Word("trait") = "present" /\ ~Advice!RuleIs({"avoid"}, "soft")
           /\ points = -1 => Advice!Word("trait") = IF Advice!RuleIs({"avoid"}, "soft") THEN "present" ELSE "absent"
  <1> DEFINE there == IF trait.value = "present" THEN 1 ELSE -1
             sign == CASE rule.value[1] = "require" -> there
                       [] rule.value[1] = "prefer"  -> IF wish \/ there = 1 THEN there ELSE 0
                       [] rule.value[1] = "avoid"   -> IF there = 1 THEN -1 ELSE 0
  <1>1. /\ rule.value[2] = "soft" /\ trait.value \notin {"none", "unknown"}
        /\ points = rule.value[3] * sign
    BY DEF Advice!RulePoints
  <1>2. /\ rule.value[1] \in {"prefer", "avoid", "require"} /\ rule.value[3] \in {0, 1}
        /\ Advice!RuleIs({"avoid"}, "soft") <=> rule.value[1] = "avoid"
    BY <1>1, RulesSaid
  <1>3. sign \in {-1, 0, 1}
    BY <1>2
  <1>4. /\ sign = 1 => trait.value = "present" /\ rule.value[1] # "avoid"
        /\ sign = -1 => trait.value = (IF rule.value[1] = "avoid" THEN "present" ELSE "absent")
    <2>1. trait.value = Advice!Word("trait") /\ trait.value \in {"present", "absent"}
      BY <1>1, WhatIsSaid
    <2> QED
      BY <1>2, <2>1
  <1> HIDE DEF sign
  <1>5. points = 0 \/ points = sign
    <2>1. rule.value[3] = 0 \/ rule.value[3] = 1
      BY <1>2
    <2>2. 0 * sign = 0 /\ 1 * sign = sign
      BY <1>3
    <2> QED
      BY <1>1, <2>1, <2>2
  <1> QED
    BY <1>2, <1>3, <1>4, <1>5, WhatIsSaid

LEMMA OpinionHolds == AdviceInv => Advice!OpinionIsSaid
  <1> SUFFICES ASSUME AdviceInv PROVE Advice!OpinionIsSaid
    OBVIOUS
  <1>1. Advice!PreferenceKnown <=> Advice!Word("rating") # "none" \/ Told
    BY PointsSaid DEF Advice!PreferenceKnown
  <1>2. ASSUME NEW now \in 0 .. 2, NEW keeps \in BOOLEAN,
               Advice!WishlistAnswer("US", TRUE, now, {}, keeps, "complete") = "complete"
        PROVE  /\ Advice!Word("rating") # "none" \/ Told
               /\ Advice!Word("play_state") # "user_abandoned"
               /\ Advice!Word("snooze") <= now
    <2> DEFINE eligibility == Advice!WishEligibility(now, {}, keeps)
    <2>1. ~Advice!Degraded(eligibility)
      BY <1>2 DEF Advice!WishlistAnswer, Advice!WishlistStatus
    <2>2. eligibility # "excluded" /\ Advice!PreferenceKnown
      BY <2>1 DEF Advice!Degraded
    <2>3. \A g \in Advice!WishGates(now) : g.state # "fail"
      BY <2>2 DEF Advice!WishEligibility
    <2>4. Advice!Read("play_state") # "user_abandoned" /\ Advice!Read("snooze") <= now
      <3>1. CASE Advice!Read("play_state") = "user_abandoned"
        <4>1. Advice!Gate("explicit_hard_exclude", "fail", Advice!FieldEvidence("play_state")) \in Advice!WishGates(now)
          BY <3>1 DEF Advice!WishGates
        <4> QED
          BY <2>3, <4>1, GateIs
      <3>2. CASE ~(Advice!Read("snooze") <= now)
        <4>1. Advice!Gate("active_snooze", "fail", Advice!FieldEvidence("snooze")) \in Advice!WishGates(now)
          BY <3>2 DEF Advice!WishGates
        <4> QED
          BY <2>3, <4>1, GateIs
      <3> QED
        BY <3>1, <3>2
    <2> QED
      BY <1>1, <2>2, <2>4, WhatIsSaid
  <1>3. \A points \in Advice!RulePoints(TRUE) \cup Advice!RulePoints(FALSE) :
           /\ Told
           /\ points = 1 => Advice!Word("trait") = "present" /\ ~Advice!RuleIs({"avoid"}, "soft")
           /\ points = -1 => Advice!Word("trait") = IF Advice!RuleIs({"avoid"}, "soft") THEN "present" ELSE "absent"
    BY PointsSaid, PointsSided
  <1> QED
    BY <1>1, <1>2, <1>3, PointsSaid DEF Advice!OpinionIsSaid, Told

-----------------------------------------------------------------------------

LEMMA NoRequirements == <<>> \in RequireSets /\ DOMAIN <<>> = {}
  BY DEF RequireSets

\* Without overrides and requirements a title's answer is what its gates say.
LEMMA PlainEligibility ==
    ASSUME NEW gates, NEW keeps \in BOOLEAN
    PROVE  /\ Advice!Eligibility(gates, <<>>, keeps) =
                IF (\E g \in gates : g.state = "fail") \/ ((\E g \in gates : g.state = "unknown") /\ ~keeps)
                THEN "excluded"
                ELSE IF \E g \in gates : g.state = "unknown" THEN "conditional" ELSE "eligible"
           /\ \A untold : Advice!RankComplete(gates, <<>>, keeps, untold) <=>
                \/ ~(\E g \in gates : g.state = "unknown") /\ untold = {}
                \/ /\ Advice!Eligibility(gates, <<>>, keeps) = "excluded"
                   /\ \E g \in gates : g.state = "fail"
  <1> DEFINE states == {Advice!Effective(g, <<>>) : g \in gates}
  <1>1. DOMAIN <<>> = {}
    OBVIOUS
  <1>2. \A g \in gates : Advice!Effective(g, <<>>) = g.state
    BY <1>1 DEF Advice!Effective
  <1>3. /\ "fail" \in states <=> \E g \in gates : g.state = "fail"
        /\ "unknown" \in states <=> \E g \in gates : g.state = "unknown"
    BY <1>2
  <1>4. DOMAIN <<>> \subseteq {g.name : g \in gates}
    BY <1>1
  <1>5. Advice!Eligibility(gates, <<>>, keeps) =
                IF "fail" \in states \/ ("unknown" \in states /\ ~keeps) THEN "excluded"
                ELSE IF "unknown" \in states THEN "conditional" ELSE "eligible"
    BY <1>4 DEF Advice!Eligibility
  <1>6. \A untold : Advice!RankComplete(gates, <<>>, keeps, untold) <=>
           \/ ~("unknown" \in states) /\ untold = {}
           \/ Advice!Eligibility(gates, <<>>, keeps) = "excluded" /\ "fail" \in states
    BY DEF Advice!RankComplete
  <1> HIDE DEF states
  <1> QED
    BY <1>3, <1>5, <1>6

\* The rest of what CompleteIsKnown says of a complete answer.
LEMMA ToldOfIt ==
    ASSUME AdviceInv, NEW recipe \in Advice!Recipes, NEW behavior, Advice!Untold(recipe, behavior) = {}
    PROVE  /\ Advice!Word("rating") # "none" /\ Advice!Word("play_state") # "none"
           /\ Advice!RuleIs({"prefer", "avoid", "require"}, "soft") => Advice!Word("trait") \in {"present", "absent"}
           /\ recipe = "finishability" => Advice!Word("remaining") # -1
  <1>1. Advice!RatingPoints # {} /\ Advice!PlayPoints # {}
        /\ ~(rule.value[2] = "soft" /\ Advice!RulePoints(FALSE) = {})
        /\ ~(recipe = "finishability" /\ Advice!Read("remaining") = -1)
    BY DEF Advice!Untold, Advice!Null
  <1> QED
    BY <1>1, PointsSaid, WhatIsSaid, RulesSaid DEF Told

LEMMA CompleteHolds == AdviceInv => Advice!CompleteIsKnown
  <1> SUFFICES ASSUME AdviceInv PROVE Advice!CompleteIsKnown
    OBVIOUS
  <1> DEFINE applied == [activity |-> "applied", achievements |-> "applied"]
             at == [c \in {"installed", "activity", "achievements", "owned"} |-> Advice!Seen]
             Ranked(recipe, minutes, keeps, class) ==
                Advice!Recommended(recipe, 1, minutes, <<>>, class, "no", applied, <<>>, keeps)
             Gaps(recipe, class) == Advice!QueryGaps(recipe, <<>>, class, Advice!Seen, at, applied)
  <1>1. ASSUME NEW recipe \in Advice!Recipes, NEW minutes \in Budgets, NEW keeps \in BOOLEAN, NEW class \in Classes,
               Advice!QueryAnswer(TRUE, TRUE, Ranked(recipe, minutes, keeps, class), Gaps(recipe, class)) = "complete"
        PROVE  LET eligibility == Ranked(recipe, minutes, keeps, class).eligibility
               IN /\ class # "old"
                  /\ eligibility # "excluded" =>
                      /\ class = "game" /\ Advice!Word("rating") # "none" /\ Advice!Word("play_state") # "none"
                      /\ Advice!RuleIs({"prefer", "avoid", "require"}, "soft") \/ Advice!RuleIs({"avoid", "require"}, "hard")
                            => Advice!Word("trait") \in {"present", "absent"}
                      /\ minutes # Advice!Null => Advice!Word("minimum") \in 0 .. minutes
                      /\ recipe = "finishability" => Advice!Word("remaining") # Advice!Null
                  /\ eligibility = "excluded" =>
                      \/ class = "non_game" \/ Advice!Word("snooze") > 1
                      \/ recipe # "preference-fit" /\ Advice!Word("play_state") = "finished"
                      \/ minutes # Advice!Null /\ (Advice!Word("minimum") > minutes \/ Advice!Word("remaining") > minutes)
                      \/ Advice!TraitBars /\ Advice!Word("trait") \in {"present", "absent"}
    <2> DEFINE gates == GatesOf(recipe, minutes, <<>>, class)
               ranked == Ranked(recipe, minutes, keeps, class)
               untold == Advice!Untold(recipe, applied)
    <2>1. ranked = [eligibility |-> Advice!Eligibility(gates, <<>>, keeps),
                    complete |-> Advice!RankComplete(gates, <<>>, keeps, untold)]
      BY DEF Advice!Recommended, GatesOf
    <2>2. ranked.eligibility = Advice!Eligibility(gates, <<>>, keeps)
          /\ ranked.complete = Advice!RankComplete(gates, <<>>, keeps, untold)
      BY <2>1
    <2>3. ranked.complete /\ Gaps(recipe, class) = {}
      BY <1>1 DEF Advice!QueryAnswer
    <2>4. class # "old"
      <3>1. Advice!IsGame(class) # "unknown"
        BY <2>3 DEF Advice!QueryGaps
      <3> QED
        BY <3>1 DEF Advice!IsGame
    <2>5. \A name, state : state # "pass" =>
             ((\E g \in gates : g.name = name /\ g.state = state) <=>
               Barred(recipe, minutes, <<>>, class, name, state))
      BY BarsAre, NoRequirements
    <2>6. \A g \in gates : g.state \in {"pass", "fail", "unknown"}
      BY BarsBar, NoRequirements
    <2> HIDE DEF gates, ranked, untold
    <2>7. ASSUME ranked.eligibility # "excluded"
          PROVE  /\ class = "game" /\ Advice!Word("rating") # "none" /\ Advice!Word("play_state") # "none"
                 /\ Advice!RuleIs({"prefer", "avoid", "require"}, "soft") \/ Advice!RuleIs({"avoid", "require"}, "hard")
                       => Advice!Word("trait") \in {"present", "absent"}
                 /\ minutes # Advice!Null => Advice!Word("minimum") \in 0 .. minutes
                 /\ recipe = "finishability" => Advice!Word("remaining") # Advice!Null
      <3>1. untold = {} /\ \A g \in gates : g.state = "pass"
        BY <2>2, <2>3, <2>6, <2>7, PlainEligibility
      <3>2. \A name, state : state # "pass" => ~Barred(recipe, minutes, <<>>, class, name, state)
        BY <2>5, <3>1
      <3>3. class = "game"
        BY <2>4, <3>2 DEF Barred, Classes
      <3>4. rule.value[2] = "hard" => Advice!TraitGate(Advice!Wanted) = "pass"
        BY <3>2 DEF Barred
      <3>5. minutes # Advice!Null => Advice!WithinTime("minimum", minutes) = "pass"
        BY <3>2 DEF Barred, Advice!Null
      <3>6. minutes # Advice!Null => Advice!Word("minimum") \in 0 .. minutes
        BY <3>5, WhatIsSaid DEF Advice!WithinTime, Advice!Null, Budgets
      <3>7. Advice!RuleIs({"avoid", "require"}, "hard") => Advice!Word("trait") \in {"present", "absent"}
        <4>1. Advice!RuleIs({"avoid", "require"}, "hard") => rule.value[2] = "hard"
          BY RulesSaid
        <4>2. Advice!TraitGate(Advice!Wanted) = "pass" => Advice!Word("trait") \notin {"none", "unknown"}
          BY HardGate
        <4> QED
          BY <3>4, <4>1, <4>2, WhatIsSaid
      <3> QED
        BY <3>1, <3>3, <3>6, <3>7, ToldOfIt DEF untold, Advice!Null
    <2>8. ASSUME ranked.eligibility = "excluded"
          PROVE  \/ class = "non_game" \/ Advice!Word("snooze") > 1
                 \/ recipe # "preference-fit" /\ Advice!Word("play_state") = "finished"
                 \/ minutes # Advice!Null /\ (Advice!Word("minimum") > minutes \/ Advice!Word("remaining") > minutes)
                 \/ Advice!TraitBars /\ Advice!Word("trait") \in {"present", "absent"}
      <3>1. PICK g \in gates : g.state = "fail"
        BY <2>2, <2>3, <2>8, PlainEligibility
      <3>2. Barred(recipe, minutes, <<>>, class, g.name, "fail")
        <4>1. "fail" # "pass"
          OBVIOUS
        <4> QED
          BY <2>5, <3>1, <4>1
      <3>3. \/ class # "game" /\ class # "old"
            \/ Advice!Word("snooze") > 1
            \/ recipe # "preference-fit" /\ Advice!Word("play_state") = "finished"
            \/ minutes # Advice!Null /\ Advice!WithinTime("minimum", minutes) = "fail"
            \/ minutes # Advice!Null /\ Advice!WithinTime("remaining", minutes) = "fail"
            \/ rule.value[2] = "hard" /\ Advice!TraitGate(Advice!Wanted) = "fail"
        BY <3>2, NoRequirements DEF Barred, Advice!Null
      <3>4. class # "game" /\ class # "old" => class = "non_game"
        BY DEF Classes
      <3>5. /\ Advice!WithinTime("minimum", minutes) = "fail" => Advice!Word("minimum") > minutes
            /\ Advice!WithinTime("remaining", minutes) = "fail" => Advice!Word("remaining") > minutes
        BY LateGate
      <3>6. rule.value[2] = "hard" /\ Advice!TraitGate(Advice!Wanted) = "fail" =>
                Advice!TraitBars /\ Advice!Word("trait") \in {"present", "absent"}
        BY HardGate, WhatIsSaid
      <3> QED
        BY <3>3, <3>4, <3>5, <3>6
    <2> QED
      BY <2>4, <2>7, <2>8 DEF ranked
  <1> QED
    BY <1>1, Zenon DEF Budgets, Classes, Advice!CompleteIsKnown

LEMMA AdviceStanding == AdviceInv => Advice!AdviceStands
  BY ReplayHolds, WishHolds, AdviceHolds, OpinionHolds, CompleteHolds DEF Advice!AdviceStands

-----------------------------------------------------------------------------
(***************************************************************************)
(* The store.  A behaviour stays with the part it began with, and a step   *)
(* of StoreSpec is a step of that part.                                    *)
(***************************************************************************)
StoreInv ==
    /\ part = "snapshot" => SnapshotInv /\ ActivityVouched
    /\ part = "price" => PriceInv
    /\ part = "subject" => SubjectInv /\ AllStand(Subject!Tables)
    /\ part = "catalog" => CatalogInv /\ AllAnswered
    /\ part = "budget" => BudgetInv
    /\ part = "credential" => CredentialInv
    /\ part = "advice" => AdviceInv

LEMMA PartsAssumed ==
    /\ Snapshot!SyncRunsAssumption /\ Snapshot!SnapshotAssumption /\ Price!SyncRunsAssumption
    /\ Subject!SyncRunsAssumption /\ Subject!SubjectAssumption
    /\ Catalog!SyncRunsAssumption /\ Catalog!CatalogAssumption
    /\ Budget!BudgetAssumption /\ Credential!CredentialAssumption
  BY StoreAssumption

LEMMA PartSteps ==
    ASSUME [StoreNext]_storevars
    PROVE  /\ part' = part
           /\ part = "snapshot" => [Snapshot!SnapshotNext]_(Snapshot!snapvars)
           /\ part = "price" => [Price!PriceNext]_(Price!pricevars)
           /\ part = "subject" => [Subject!SubjectNext]_(Subject!subjectvars)
           /\ part = "catalog" => [Catalog!CatalogNext]_(Catalog!catalogvars)
           /\ part = "budget" => [Budget!BudgetNext]_(Budget!budgetvars)
           /\ part = "credential" => [Credential!CredentialNext]_(Credential!credentialvars)
           /\ part = "advice" => [Advice!AdviceNext]_(Advice!advicevars)
  BY DEF StoreNext, storevars, common, snapshots, prices, subjects, catalogue, budgets, credentials,
      advice, Advice!advicevars, Snapshot!snapvars, Price!pricevars, Subject!subjectvars, Catalog!catalogvars,
      Budget!budgetvars, Credential!credentialvars

LEMMA StoreInitially == StoreInit => StoreInv
  BY PartsAssumed, SnapshotInitially, VouchedInitially, PriceInitially, SubjectInitially, StandsInitially,
     CatalogInitially, AnsweredInitially, BudgetInitially, CredentialInitially, AdviceInitially
  DEF StoreInit, StoreInv

LEMMA StoreStep ==
    ASSUME StoreInv, [StoreNext]_storevars
    PROVE  /\ StoreInv'
           /\ part = "snapshot" => Snapshot!SnapshotKept
           /\ part = "price" => Price!PriceMovesForward
           /\ part = "subject" => Subject!FactMovesForward /\ Subject!DeletionSpares
           /\ part = "budget" => Budget!RequestSpaced
  <1>1. CASE part = "snapshot"
    BY <1>1, PartsAssumed, PartSteps, SnapshotNextStep, VouchedStep DEF StoreInv
  <1>2. CASE part = "budget"
    BY <1>2, PartsAssumed, PartSteps, BudgetStep, GrantedSpaced DEF StoreInv
  <1>3. CASE part = "credential"
    BY <1>3, PartsAssumed, PartSteps, CredentialStep DEF StoreInv
  <1>4. CASE part = "price"
    BY <1>4, PartsAssumed, PartSteps, PriceNextStep DEF StoreInv
  <1>5. CASE part = "subject"
    <2>1. AllStand(Subject!Tables)'
      BY <1>5, PartsAssumed, PartSteps, StandsStep DEF StoreInv
    <2> QED
      BY <1>5, <2>1, PartsAssumed, PartSteps, SubjectNextStep DEF StoreInv
  <1>6. CASE part = "catalog"
    BY <1>6, PartsAssumed, PartSteps, CatalogNextStep, AnsweredStep DEF StoreInv
  <1>7. CASE part = "advice"
    BY <1>7, PartSteps, AdviceStep DEF StoreInv
  <1> QED
    BY <1>1, <1>2, <1>3, <1>4, <1>5, <1>6, <1>7, PartSteps DEF StoreInv

(* The snapshot a query shows is that of the newest completed run, whole    *)
(* and with its evidence, however commands overlap, fail, die and are       *)
(* pruned or deleted under (the promotions of storage.py).                  *)
THEOREM CurrentRunIsNewest == StoreSpec => []CurrentIsNewest
  <1>1. StoreInv => CurrentIsNewest
    BY RestsIsNewest DEF StoreInv, SnapshotInv, CurrentIsNewest
  <1> QED
    BY <1>1, StoreInitially, StoreStep, PTL DEF StoreSpec

(* A price is kept for a title that has been on the wishlist since the run  *)
(* asked for it, but for what a run stored that a wishlist had overtaken    *)
(* (_prune_price_cache_to_wishlist, complete_price_sync).                   *)
THEOREM OnlyOvertakenPricesLinger == StoreSpec => []OnlyOvertakenLinger
  <1>1. StoreInv => OnlyOvertakenLinger
    BY DEF StoreInv, PriceInv, OnlyOvertakenLinger
  <1> QED
    BY <1>1, StoreInitially, StoreStep, PTL DEF StoreSpec

(* A command that fails, dies or only begins leaves the snapshot alone      *)
(* (storage.py's promotions); the price shown of a title is of a run that   *)
(* exists and ended well, and neither it nor a fact a run answered goes     *)
(* back to an older run's (complete_price_sync and the upserts of the       *)
(* subject tables).                                                         *)
THEOREM ShownNeverGoesBack == StoreSpec => ShownMovesForward
  BY StoreInitially, StoreStep, PTL DEF StoreSpec, ShownMovesForward

(* Two runs never ask a provider for one title, or for one account's review *)
(* of it, at a time: a run leaves out what another is still asking for, and *)
(* gives up its own targets when it ends or is closed as abandoned.         *)
THEOREM OneRunAsks == StoreSpec => []OneAskerPerTitle
  <1>1. StoreInv => OneAskerPerTitle
    BY SubjectHolds DEF StoreInv, OneAskerPerTitle
  <1> QED
    BY <1>1, StoreInitially, StoreStep, PTL DEF StoreSpec

(* A fact is what the run it names was answered, whatever was pruned,       *)
(* quarantined, deleted or moved to another run since; so is a catalogue    *)
(* fact's source, and an account's facts there are also shared.             *)
THEOREM FactsHaveAnswers == StoreSpec => []FactsRestOnAnswers
  <1>1. StoreInv => FactsRestOnAnswers
    BY SubjectHolds, CatalogHolds DEF StoreInv, FactsRestOnAnswers
  <1> QED
    BY <1>1, StoreInitially, StoreStep, PTL DEF StoreSpec

(* Deleting an account's reviews loses none that another account wishes for *)
(* and has an answer to (_rehome_review_current_for_account).               *)
THEOREM OthersAreSpared == StoreSpec => DeletionSparesOthers
  BY StoreInitially, StoreStep, PTL DEF StoreSpec, DeletionSparesOthers

(* reserve_provider_request grants a request an interval after the last one *)
(* and after every cooldown asked for, whatever clocks the processes read.  *)
THEOREM RequestsAreSpaced == StoreSpec => RequestsSpaced
  BY StoreInitially, StoreStep, PTL DEF StoreSpec, RequestsSpaced

(* A command over a key that fails and is not killed leaves the store and   *)
(* the row as it found them, or says that it could not (the undo blocks of  *)
(* application.py).                                                         *)
THEOREM FailuresAreUndone == StoreSpec => []FailuresUndone
  <1>1. StoreInv => FailuresUndone
    BY DEF StoreInv, CredentialInv, FailuresUndone
  <1> QED
    BY <1>1, StoreInitially, StoreStep, PTL DEF StoreSpec

(* What the tables hold of a title is the player's last word on it, by the  *)
(* event that said it, and either recommender goes by those words: an       *)
(* unknown is never taken for a yes, an override excuses the gate it names, *)
(* and an answer that calls itself complete knows what it rests on          *)
(* (apply_explicit_feedback_fields(), rank_wishlist(),                      *)
(* rank_recommendations() and their commands).                              *)
THEOREM AdviceIsStanding == StoreSpec => []AdviceStands
  <1>1. StoreInv => AdviceStands
    BY AdviceStanding DEF StoreInv, AdviceStands
  <1> QED
    BY <1>1, StoreInitially, StoreStep, PTL DEF StoreSpec

(* What a query says of the evidence it shows fits it: "complete" means the  *)
(* answer of the newest attempt, or an older one while a newer attempt is    *)
(* under way, and a title reported ready is shown with the answer of the run *)
(* whose row says so (_account_snapshot_completeness, _catalog_completeness, *)
(* query_achievements).                                                      *)
THEOREM LabelsFit == StoreSpec => []LabelsMatch
  <1>1. StoreInv => LabelsMatch
    BY PartsAssumed, SnapshotLabels, CatalogLabels, AchievementsHold DEF StoreInv, LabelsMatch
  <1> QED
    BY <1>1, StoreInitially, StoreStep, PTL DEF StoreSpec

=============================================================================
