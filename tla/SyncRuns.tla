------------------------------- MODULE SyncRuns -------------------------------
(***************************************************************************)
(* The table of synchronisations (sync_runs) that every collector of the   *)
(* product store goes through (src/steam_agent/storage.py).  A row is      *)
(* opened "running" by one command and closed by it; a command that dies   *)
(* leaves it open.  Ids are AUTOINCREMENT: none is used twice.             *)
(*                                                                         *)
(* Every SQLite transaction is one step.  A timestamp is what the wall     *)
(* clock shows when a command reads it, and that clock may step either     *)
(* way between two reads, so a step takes any time.                        *)
(***************************************************************************)
EXTENDS Integers, FiniteSets

CONSTANTS
    MaxRuns,    \* bound: synchronisations ever begun
    MaxTime     \* bound: the wall clock

SyncRunsAssumption == MaxRuns \in Nat /\ MaxTime \in Nat

VARIABLES
    runs,       \* sync_runs; the rows that do not exist are "absent"
    nextRun     \* the next id

RunIds == 1 .. MaxRuns
Times == 0 .. MaxTime

Statuses == {"absent", "running", "complete", "partial", "failed"}
RunRecords == [status: Statuses, started: Times, completed: Times, promoted: BOOLEAN]
NoRun == [status |-> "absent", started |-> 0, completed |-> 0, promoted |-> FALSE]

Is(r, s) == runs[r].status = s
Live(r) == r \in RunIds /\ ~Is(r, "absent")
Terminal(r) == Live(r) /\ ~Is(r, "running")

SyncRunsInit == runs = [r \in RunIds |-> NoRun] /\ nextRun = 1

\* begin_sync()
Opened(table, t) ==
    [table EXCEPT ![nextRun] =
        [status |-> "running", started |-> t, completed |-> 0, promoted |-> FALSE]]

EndedRun(row, s, t, promoted) ==
    [status |-> s, started |-> row.started, completed |-> t, promoted |-> promoted]

Closed(table, r, s, t, promoted) == [table EXCEPT ![r] = EndedRun(@, s, t, promoted)]

Without(table, S) == [r \in RunIds |-> IF r \in S THEN NoRun ELSE table[r]]

CanOpen == nextRun \in RunIds   \* the bound on runs

\* ORDER BY started_at, id
StartedLater(q, r) ==
    \/ runs[q].started > runs[r].started
    \/ runs[q].started = runs[r].started /\ q > r

=============================================================================
