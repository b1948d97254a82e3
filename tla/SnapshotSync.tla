----------------------------- MODULE SnapshotSync -----------------------------
(***************************************************************************)
(* Synchronisations that replace a whole snapshot: what is installed on a  *)
(* machine, what an account owns, its wishlist, its activity, and the      *)
(* profile of the machine (src/steam_agent/storage.py; the drivers in      *)
(* application.py, owned_library.py, wishlist_library.py, activity.py and  *)
(* system_profile.py; the commands in cli.py).                             *)
(*                                                                         *)
(* Each command records observations under its own run and, when the run   *)
(* completes, promotes them to the current snapshot unless a newer run did *)
(* so first.  Commands overlap: the credential lock covers only those that *)
(* use the stored key.                                                     *)
(*                                                                         *)
(* A behaviour follows one kind of snapshot; kinds share no row but the    *)
(* account's.  Abstracted: an observation is the title it is about; the    *)
(* provider answers anything or fails; the sharing of evidence rows.       *)
(***************************************************************************)
EXTENDS SyncRuns, QueryLabels

CONSTANTS
    Proc,        \* commands that may be under way
    Apps,        \* the titles a snapshot may hold
    Stale,       \* 15 minutes: an abandoned profile run
    Keep,        \* 7 or 30 days: how long history is kept
    MaxOwners    \* bound: times the account is configured

SnapshotAssumption == Stale \in Nat /\ Keep \in Nat /\ MaxOwners \in Nat

VARIABLES
    owner,       \* the account (or machine) row the commands work for; 0: none
    consent,     \* the disclosure accepted for it
    kind,        \* the snapshot this behaviour follows
    current,     \* the promoted run (0: none), its titles, when observed (for activity)
    rows,        \* observations kept, by run
    proc         \* the commands

snapvars == <<runs, nextRun, owner, consent, kind, current, rows, proc>>

Kinds == {"installed", "owned", "wishlist", "activity", "system_profile"}
OfAccount == kind \in {"owned", "wishlist", "activity"}

\* A disclosure of an earlier version, or the one this build asks for.
None == 0
Earlier == 1
Current == 2

NoRows == [kept |-> FALSE, apps |-> {}]
RowSets == [kept: BOOLEAN, apps: SUBSET Apps]
NoSnapshot == [run |-> 0, apps |-> {}, at |-> 0]
Idle == [pc |-> "idle", run |-> 0]

SnapshotInit ==
    /\ SyncRunsInit
    /\ owner = 1 /\ consent \in {None, Earlier}
    /\ kind \in Kinds
    /\ current = NoSnapshot
    /\ rows = [r \in RunIds |-> NoRows]
    /\ proc = [p \in Proc |-> Idle]

\* The scan, the owned titles and the wishlist compare no timestamps, and only
\* the profile's pruning reads completed_at: elsewhere they are left at 0.
ClockShows == IF kind \in {"activity", "system_profile"} THEN Times ELSE {0}
CompletedAt(t) == IF kind = "system_profile" THEN t ELSE 0

\* The order in which a later run supersedes an earlier one.
Later(q, r) == IF kind = "activity" THEN StartedLater(q, r) ELSE q > r

SupersededUnlessPromoted(r) ==   \* faulty: the last promotion wins
    \E q \in RunIds : Is(q, "complete") /\ Later(q, r) /\ ~runs[q].promoted

\* newer_complete, newer_success
Superseded(r) ==
    \E q \in RunIds : /\ Is(q, "complete") /\ Later(q, r)
                      /\ kind = "activity" => runs[q].promoted

\* The consent a completion checks again inside its transaction.
Consented ==
    CASE kind = "installed" -> TRUE
      [] kind \in {"owned", "wishlist"} -> consent # None
      [] OTHER -> consent = Current

MayComplete(p) ==
    /\ proc[p].pc = "running"
    /\ Live(proc[p].run) /\ Is(proc[p].run, "running")
    /\ Consented

Frees(p) == proc' = [proc EXCEPT ![p] = Idle]
Runs(p) == proc' = [proc EXCEPT ![p] = [pc |-> "running", run |-> nextRun]]

\* DELETE ... WHERE run IN (terminal runs other than r)
Pruned(table, r) ==
    [q \in RunIds |-> IF q # r /\ ~Is(q, "running") THEN NoRows ELSE table[q]]

-----------------------------------------------------------------------------
(* The command line: the account is there, the disclosure is accepted.      *)

\* A command records the disclosure it asks for, or stops.
Admits(p) ==
    /\ proc[p].pc = "idle" /\ owner # 0 /\ CanOpen
    /\ proc' = [proc EXCEPT ![p].pc = "admitted"]
    /\ consent' = Current
    /\ UNCHANGED <<runs, nextRun, owner, kind, current, rows>>

AdmitOwned(p) == kind = "owned" /\ Admits(p)
AdmitWishlist(p) == kind = "wishlist" /\ Admits(p)
AdmitActivity(p) == kind = "activity" /\ Admits(p)
AdmitSystemProfile(p) == kind = "system_profile" /\ Admits(p)

\* The installed scan asks for no consent.
AdmitScan(p) ==
    /\ kind = "installed" /\ proc[p].pc = "idle" /\ CanOpen
    /\ proc' = [proc EXCEPT ![p].pc = "admitted"]
    /\ UNCHANGED <<runs, nextRun, owner, consent, kind, current, rows>>

\* begin_sync() for the installed scan, the owned titles and the wishlist
BeginSync(p, t) ==
    /\ kind \in {"installed", "owned", "wishlist"}
    /\ proc[p].pc = "admitted" /\ CanOpen
    /\ owner # 0   \* a foreign key
    /\ runs' = Opened(runs, t) /\ nextRun' = nextRun + 1
    /\ Runs(p)
    /\ UNCHANGED <<owner, consent, kind, current, rows>>

\* _prune_activity(): runs and rows a week old go; a promoted run takes the
\* snapshot with it.
ExpiredRuns(table, t) == {r \in RunIds : table[r].status # "absent" /\ table[r].started < t - Keep}
PrunedActivity(c, table, t) ==
    IF c.run \in ExpiredRuns(table, t) \/ c.at < t - Keep THEN NoSnapshot ELSE c

BeginActivity(p, t) ==
    /\ kind = "activity" /\ proc[p].pc = "admitted" /\ CanOpen /\ owner # 0 /\ Consented
    /\ LET gone == ExpiredRuns(runs, t) IN
       /\ runs' = Opened(Without(runs, gone), t)
       /\ rows' = [r \in RunIds |-> IF r \in gone THEN NoRows ELSE rows[r]]
       /\ current' = PrunedActivity(current, runs, t)
    /\ nextRun' = nextRun + 1
    /\ Runs(p)
    /\ UNCHANGED <<owner, consent, kind>>

\* Runs open for 15 minutes are closed; history of 30 days goes, but for the
\* run the snapshot rests on.
Abandoned(t) == {r \in RunIds : Is(r, "running") /\ runs[r].started < t - Stale}
OldHistory(t) ==
    {r \in RunIds : Terminal(r) /\ runs[r].completed < t - Keep /\ r # current.run}

BeginSystemProfile(p, t) ==
    /\ kind = "system_profile" /\ proc[p].pc = "admitted" /\ CanOpen /\ owner # 0 /\ Consented
    /\ LET gone == OldHistory(t)
           left == [r \in RunIds |->
                       IF r \in gone THEN NoRun
                       ELSE IF r \in Abandoned(t)
                            THEN EndedRun(runs[r], "failed", t, FALSE)
                            ELSE runs[r]]
       IN /\ runs' = Opened(left, t)
          /\ rows' = [r \in RunIds |-> IF r \in gone THEN NoRows ELSE rows[r]]
          /\ current' = IF current.run \in gone THEN NoSnapshot ELSE current
    /\ nextRun' = nextRun + 1
    /\ Runs(p)
    /\ UNCHANGED <<owner, consent, kind>>

-----------------------------------------------------------------------------
(* Recording and promotion *)

\* record_installed_observation(): one transaction per title
RecordInstalled(p, a) ==
    LET r == proc[p].run IN
    /\ kind = "installed" /\ MayComplete(p) /\ a \notin rows[r].apps
    /\ rows' = [rows EXCEPT ![r] = [kept |-> TRUE, apps |-> @.apps \cup {a}]]
    /\ UNCHANGED <<runs, nextRun, owner, consent, kind, current, proc>>

\* finish_installed_sync("complete")
CompleteInstalled(p, t) ==
    LET r == proc[p].run IN
    /\ kind = "installed" /\ MayComplete(p)
    /\ runs' = Closed(runs, r, "complete", CompletedAt(t), ~Superseded(r))
    /\ rows' = [rows EXCEPT ![r].kept = TRUE]
    /\ current' = IF Superseded(r) THEN current
                  ELSE [run |-> r, apps |-> rows[r].apps, at |-> 0]
    /\ Frees(p)
    /\ UNCHANGED <<nextRun, owner, consent, kind>>

\* complete_owned_snapshot(): record, promote, prune, close.  Pruning spares
\* the runs of the commands still under way.
CompleteOwned(p, apps, t) ==
    LET r == proc[p].run IN
    /\ kind = "owned" /\ MayComplete(p)
    /\ runs' = Closed(runs, r, "complete", CompletedAt(t), ~Superseded(r))
    /\ IF Superseded(r)
       THEN UNCHANGED <<rows, current>>
       ELSE /\ rows' = [Pruned(rows, r) EXCEPT ![r] = [kept |-> TRUE, apps |-> apps]]
            /\ current' = [run |-> r, apps |-> apps, at |-> 0]
    /\ Frees(p)
    /\ UNCHANGED <<nextRun, owner, consent, kind>>

\* complete_wishlist_snapshot(), without the caches of prices and reviews
\* that hang on the wishlist (PriceSync, SubjectSync)
CompleteWishlist(p, apps, t) ==
    LET r == proc[p].run IN
    /\ kind = "wishlist" /\ MayComplete(p)
    /\ runs' = Closed(runs, r, "complete", CompletedAt(t), ~Superseded(r))
    /\ IF Superseded(r)
       THEN UNCHANGED <<rows, current>>
       ELSE /\ rows' = [Pruned(rows, r) EXCEPT ![r] = [kept |-> TRUE, apps |-> apps]]
            /\ current' = [run |-> r, apps |-> apps, at |-> 0]
    /\ Frees(p)
    /\ UNCHANGED <<nextRun, owner, consent, kind>>

\* complete_activity_snapshot(), observed at o; the pruning comes last, and
\* may take what was just promoted when the clock has moved.
CompleteActivity(p, apps, o, t) ==
    LET r == proc[p].run
        table == Closed(runs, r, "complete", CompletedAt(t), ~Superseded(r))
        put == [rows EXCEPT ![r] = [kept |-> TRUE, apps |-> apps]]
        next == IF Superseded(r) THEN current
                ELSE [run |-> r, apps |-> apps, at |-> o]
        gone == ExpiredRuns(table, t)
    IN /\ kind = "activity" /\ MayComplete(p)
       /\ runs' = Without(table, gone)
       /\ rows' = [q \in RunIds |-> IF q \in gone THEN NoRows ELSE put[q]]
       /\ current' = PrunedActivity(next, table, t)
       /\ Frees(p)
       /\ UNCHANGED <<nextRun, owner, consent, kind>>

CompleteSystemProfile(p, apps, t) ==
    LET r == proc[p].run IN
    /\ kind = "system_profile" /\ MayComplete(p)
    /\ runs' = Closed(runs, r, "complete", CompletedAt(t), ~Superseded(r))
    /\ rows' = [rows EXCEPT ![r] = [kept |-> TRUE, apps |-> apps]]
    /\ current' = IF Superseded(r) THEN current ELSE [run |-> r, apps |-> apps, at |-> 0]
    /\ Frees(p)
    /\ UNCHANGED <<nextRun, owner, consent, kind>>

-----------------------------------------------------------------------------
(* Everything else *)

\* A provider error, a refused transaction, an interrupt.  A run that is gone
\* or closed by another command is left as it is.
Fails(p, s, t) ==
    LET r == proc[p].run IN
    /\ proc[p].pc = "running"
    /\ runs' = IF Live(r) /\ Is(r, "running")
               THEN Closed(runs, r, s, CompletedAt(t), FALSE) ELSE runs
    /\ Frees(p)
    /\ UNCHANGED <<nextRun, owner, consent, kind>>
KeepsSnapshot == UNCHANGED <<current, rows>>

FailInstalled(p, t) ==
    /\ kind = "installed" /\ KeepsSnapshot
    /\ \E s \in {"partial", "failed"} : Fails(p, s, t)
FailOwned(p, t) == kind = "owned" /\ Fails(p, "failed", t) /\ KeepsSnapshot
FailWishlist(p, t) == kind = "wishlist" /\ Fails(p, "failed", t) /\ KeepsSnapshot
FailSystemProfile(p, t) ==
    /\ kind = "system_profile" /\ KeepsSnapshot
    /\ \E s \in {"partial", "failed"} : Fails(p, s, t)

\* _finish_simple_sync() refuses a run that is gone before it prunes.
FailActivity(p, t) ==
    LET r == proc[p].run
        table == Closed(runs, r, "failed", 0, FALSE)
        gone == ExpiredRuns(table, t)
    IN /\ kind = "activity" /\ proc[p].pc = "running"
       /\ IF Live(r) /\ Is(r, "running")
          THEN /\ runs' = Without(table, gone)
               /\ rows' = [q \in RunIds |-> IF q \in gone THEN NoRows ELSE rows[q]]
               /\ current' = PrunedActivity(current, table, t)
          ELSE UNCHANGED <<runs, rows, current>>
       /\ Frees(p)
       /\ UNCHANGED <<nextRun, owner, consent, kind>>

\* A killed command leaves its run open; so does one whose account is gone
\* before it begins.
Crash(p) ==
    /\ proc[p].pc # "idle"
    /\ Frees(p)
    /\ UNCHANGED <<runs, nextRun, owner, consent, kind, current, rows>>

\* read_activity_snapshot(now): a query prunes before it reads; so do the
\* commands for achievements.
ReadActivity(t) ==
    /\ kind = "activity" /\ owner # 0
    /\ LET gone == ExpiredRuns(runs, t) IN
       /\ runs' = Without(runs, gone)
       /\ rows' = [r \in RunIds |-> IF r \in gone THEN NoRows ELSE rows[r]]
       /\ current' = PrunedActivity(current, runs, t)
    /\ UNCHANGED <<nextRun, owner, consent, kind, proc>>

Emptied ==
    /\ runs' = [r \in RunIds |-> NoRun]
    /\ rows' = [r \in RunIds |-> NoRows]
    /\ current' = NoSnapshot /\ consent' = None

\* delete_steam_account_data(): everything cascades.
DeleteAccount ==
    /\ OfAccount /\ owner # 0
    /\ Emptied /\ owner' = 0
    /\ UNCHANGED <<nextRun, kind, proc>>

\* configure_steam_account() after a removal: a new row with a new id
ConfigureAccount(n) ==
    /\ OfAccount /\ owner = 0 /\ n \in 2 .. MaxOwners
    /\ owner' = n
    /\ UNCHANGED <<runs, nextRun, consent, kind, current, rows, proc>>

\* delete_system_profile_data(): the machine stays.
DeleteSystemProfile ==
    /\ kind = "system_profile" /\ Emptied
    /\ UNCHANGED <<nextRun, owner, kind, proc>>

SnapshotStep(p) ==
    \/ AdmitScan(p) \/ AdmitOwned(p) \/ AdmitWishlist(p) \/ AdmitActivity(p)
    \/ AdmitSystemProfile(p) \/ Crash(p)
    \/ \E a \in Apps : RecordInstalled(p, a)
    \/ \E t \in ClockShows :
        \/ BeginSync(p, t) \/ BeginActivity(p, t) \/ BeginSystemProfile(p, t)
        \/ CompleteInstalled(p, t)
        \/ FailInstalled(p, t) \/ FailOwned(p, t) \/ FailWishlist(p, t)
        \/ FailActivity(p, t) \/ FailSystemProfile(p, t)
        \/ \E apps \in SUBSET Apps :
            \/ CompleteOwned(p, apps, t) \/ CompleteWishlist(p, apps, t)
            \/ CompleteSystemProfile(p, apps, t)
            \/ \E o \in ClockShows : CompleteActivity(p, apps, o, t)

SnapshotNext ==
    \/ \E p \in Proc : SnapshotStep(p)
    \/ \E t \in ClockShows : ReadActivity(t)
    \/ \E n \in 2 .. MaxOwners : ConfigureAccount(n)
    \/ DeleteAccount \/ DeleteSystemProfile

SnapshotSpec == SnapshotInit /\ [][SnapshotNext]_snapvars

-----------------------------------------------------------------------------
(* What a query reads and says: the rows shown are those of `current`, the   *)
(* rest comes from the attempts.                                            *)

\* latest_sync(), latest_account_sync(); read_activity_snapshot() by started_at
NewestOf(S) == CHOOSE r \in S : \A q \in S \ {r} : Later(r, q)
Attempts == {r \in RunIds : Live(r)}
LatestStatus == IF Attempts = {} THEN "absent" ELSE runs[NewestOf(Attempts)].status

\* latest_complete, good_row
Successes == {r \in RunIds : Is(r, "complete") /\ (kind = "activity" => runs[r].promoted)}

\* Of the snapshots only what is owned and wished for grows stale.
SnapshotLabel(stale, abandoned) ==
    IF kind = "activity" THEN ActivityLabel(LatestStatus, Successes # {}, stale)
    ELSE AccountLabel(LatestStatus, Successes # {},
                      stale /\ kind \in {"owned", "wishlist"}, abandoned)

\* build_deal_query_from_snapshot()
DealWishlistLabel(stale, abandoned) ==
    WishlistLabel(LatestStatus, Successes # {}, stale, abandoned)
DealWishlistAccepted(stale) ==
    WishlistAccepted(LatestStatus, Successes # {}, Successes # {} /\ ~stale)

\* query_system_profile(): the profile shown is not the newest attempt's.
UsingLastGood == Attempts # {} /\ LatestStatus # "complete" /\ current.run # 0

-----------------------------------------------------------------------------
(* Types of the tables and of the commands. *)
SnapshotTypeOK ==
    /\ runs \in [RunIds -> RunRecords]
    /\ nextRun \in 1 .. MaxRuns + 1
    /\ owner \in 0 .. MaxOwners /\ consent \in {None, Earlier, Current}
    /\ kind \in Kinds
    /\ current \in [run: 0 .. MaxRuns, apps: SUBSET Apps, at: Times]
    /\ rows \in [RunIds -> RowSets]
    /\ proc \in [Proc -> [pc: {"idle", "admitted", "running"}, run: 0 .. MaxRuns]]

(* What a query shows as the snapshot is what the newest completed run saw, *)
(* whole and with its evidence, in whatever order overlapping commands      *)
(* finish and whatever history is pruned (the promotions of storage.py).    *)
(* Activity may also show nothing: its snapshot expires.                    *)
CurrentIsNewest ==
    /\ current.run # 0 =>
        /\ Is(current.run, "complete") /\ runs[current.run].promoted
        /\ rows[current.run] = [kept |-> TRUE, apps |-> current.apps]
        /\ \A q \in RunIds : Is(q, "complete") /\ Later(q, current.run) =>
              kind = "activity" /\ ~runs[q].promoted
    /\ current.run = 0 /\ kind # "activity" =>
        \A r \in RunIds : ~Is(r, "complete")

(* A command that fails, dies, or only begins leaves the snapshot alone:    *)
(* it changes when a run completes, when its owner deletes it, and, for     *)
(* activity, when it expires ("last-good" in cli.py).                       *)
SnapshotKept ==
    current' # current =>
     \/ \E r \in RunIds : Is(r, "running") /\ current'.run = r
     \/ /\ current' = NoSnapshot
        /\ consent' = None \/ kind = "activity"
LastGoodKept == [][SnapshotKept]_snapvars

(* A label rests on attempts and the items on promotions: "unavailable"      *)
(* where nothing is shown (activity may have expired besides), a             *)
(* last-success date that is that of the run shown, and "complete", or a     *)
(* profile that does not call itself last-good, only when no newer attempt   *)
(* ended otherwise, or one under way has taken its place.  A query of deals  *)
(* answers over any wish list, and says the same of it as a query of games.  *)
SnapshotLabelsMatch ==
    \A stale, abandoned \in BOOLEAN :
     LET label == SnapshotLabel(stale, abandoned)
         newest == Attempts # {} => NewestOf(Attempts) = current.run
     IN IF kind = "system_profile"
        THEN current.run # 0 => /\ NewestOf(Successes) = current.run
                                /\ newest \/ UsingLastGood
        ELSE /\ label = "unavailable" => current.run = 0
             /\ kind # "activity" /\ current.run = 0 => label = "unavailable"
             /\ kind # "activity" /\ current.run # 0 => NewestOf(Successes) = current.run
             /\ kind = "wishlist" =>
                    label = DealWishlistLabel(stale, abandoned) /\ DealWishlistAccepted(stale)
             /\ label = "complete" =>
                    \/ newest
                    \/ LatestStatus = "running" /\ kind # "activity" /\ ~abandoned
                    \/ current.run = 0 /\ kind = "activity"

=============================================================================
