# steam-cli in TLA+

steam-cli (package `steam_agent`) answers questions about an owner's Steam
library from evidence it collects into a local store, and, through a separate
*execution broker*, acts on that library: it installs and verifies games with
steamcmd, launches them and stops them. Next to it, `evals/` runs agents
against the commands and judges what they answer. All three are sets of
short-lived processes that share files and databases, overlap, and may die at
any point. This directory models them, checks the models with TLC on small
instances, and proves properties of their cores with TLAPS for all instances.

Paths below are relative to `src/src/steam_agent/`, those of the harness to
`src/evals/runner/`.

## 1. The system

### Components

| Component | State it keeps | Operations | What makes it correct |
|---|---|---|---|
| Operation ledger, `execution/ledger.py` | SQLite: `operations`, `events`, two unique partial indexes | `request`, `confirm`, `transition`, `expire_lapsed`, reads | one live operation per machine; one attempt per plan key; confirmed once before it starts; every state change has its event; receipts never change |
| Content executor, `execution/executor.py` | none of its own: the ledger row, the per-user lock, the journal, the marker directory | `execute`, `reconcile`, `release_client` | one writer; a stopped client is never forgotten; the verdict tells what is in the library; every crash is recovered |
| Launch and stop, `execution/executor.py:_launch`, `client_executor.py` | the ledger row | `execute`, `reconcile` | intent durable before the request; never replayed |
| Manifest adoption and steamcmd adapter, `execution/content_plane.py` | manifest, backup and journal files; the steamcmd process | `install`, `adopt_manifest`, `clear_adoption_journal`, `reconcile_adoption` | a swap is journaled whatever a power loss keeps; a failed adoption leaves the old manifest for good |
| Broker CLI, `execution/broker_main.py` | `broker.json`, `state.lock` | `init`, `request`, direct verbs, `confirm`, `run`, `reconcile`, `status`, `policy`, `inspect` | the configuration is fixed while an operation is live; a refusal ends only what it may end |
| Direct requests, policy, lock, `execution/agent_requests.py`, `policy.py`, `locking.py` | rows keyed by a request id; `policy.toml`; lock files | `record_or_reuse`, `load_policy`, `acquire_file_lock` | one id, one operation, for ever; an unreadable policy is a denial; a lock is freed when its process dies |
| Sessions and runtime, `execution/linux_session.py`, `windows_session.py`, `sessions.py`, `runtime.py` | the Steam client and the processes of games | gates, probes, stop, start, launch | unknown reads as the worst; only attributed processes are asked |
| Product store, `storage.py` | SQLite of evidence: `sync_runs`, snapshots, current facts, provenance, request limits; what the owner says of people, titles and traits | begin, record, complete, fail and delete of every synchronisation; groups, feedback, preferences | a failed or late run never replaces the newest answer; every fact keeps its source; deleting one account spares the others |
| Synchronisation drivers, `owned_library.py`, `wishlist_library.py`, `activity.py`, `price_library.py`, `review_library.py`, `catalog_inventory.py` | none: a run id between transactions | `sync …` | each run is closed as what it was |
| Query CLI, `cli.py`, `application.py` | the credential lock | `sync`, `auth`, `account`, `data delete`, `groups`, `feedback`, `preferences`, queries | an envelope's label fits the evidence in it; a failed command undoes what it did |
| Credentials, `credentials.py`, `provider_auth.py` | a key in a secret store, its reference in SQLite | `auth set`, `auth remove`, `data delete --all` | no key without a row, no row without a key, unless the user was told |
| Rankings, `deal_query.py`, `deal_ranking.py`, `recommendations.py`, `wishlist_recommendations.py`, `groups.py` | none | queries | the unknown is never taken for a yes; the answer does not depend on the order of the facts |
| Evaluation harness, `__main__.py`, `run_state.py`, `matrix.py`, `review.py`, `judge.py`, `acceptance.py`, `codex_driver.py`, `grade.py` | manifests, attempts, packages, operations, judgments, decisions; a conversation on a pipe | `run`, `matrix run/resume`, `review …`, `judge …`, `acceptance …` | a counted result is an observation; a verdict is final; an agreement rests on what the judges recorded; a grade is earned |
| Readiness, receipts, desktop bridge, Windows backend, planners, host parsers, adapters, scripts | none that a later step depends on | reports, HTTP, parsing | not modelled, section 8 |

### How they interact

*Broker.* A plan reaches it through `request` (a planner's plan, keyed by its
idempotency key) or through a direct verb (keyed by a request id). Intake runs
under `state.lock`: it inserts a `pending_confirmation` row with a nonce, and,
when the policy grants `allow`, confirms it on the spot; otherwise `confirm`
consumes the nonce. `run` (or the direct verb itself) executes an `authorized`
row under the per-user execution lock. Execution reads the policy, the window
and the client again before each effect, and writes the ledger before each
effect that a crash could make ambiguous. `reconcile` maps the one live row to
one recovery action. Shared: the ledger, the execution lock (non-blocking), the
state lock, `broker.json` and `policy.toml` (edited at any time), the client,
the library's files, steamcmd processes that outlive their broker.

*Product.* A command opens a row in `sync_runs`, asks a provider, and records
or promotes what it was told in one or more later transactions. The credential
lock covers only commands that use a stored key, so scans of the machine,
reviews, declared facts, profile scans and commands with a key from the
environment overlap with everything. Promotion compares the run with the one
promoted before; pruning, deletions and other accounts' runs share the rows.
Queries join rows of runs with rows of facts, which different transactions
write.

*Harness.* A matrix command starts one cohort per work item in a child process
that outlives it, publishes each attempt before the manifest counts it, and is
resumed by another command. Reviews, judgments and acceptances are commands
over the files a matrix left. A cohort drives one agent through notifications
on a pipe.

### What is hard

* Ledger calls read before their transaction (clock, row) and write in it.
* Processes die between any two effects; steamcmd, and a matrix's children,
  survive them.
* A client that was stopped must come back, though the row that remembers it
  may end under another process, another policy or another window.
* The manifest, its backup, its journal and the ledger live on different media;
  a crash or a power loss keeps any subset the fsyncs allow.
* A launch or a stop is accepted without a way to observe it.
* `run` and `confirm` end operations without holding the execution lock; `run`
  reads its configuration under no lock.
* Overlapping synchronisations end in any order, on clocks that step, while
  history is pruned and accounts are deleted under them.
* A key and its reference are in two stores and no transaction spans both.
* A review is a chain of files written one at a time, each checked against all
  the others by the next command.
* The agent's notifications come before, behind and between the responses.

PROJECT.json lists each hazard at its line with the properties that would catch
it going wrong.

## 2. Modules and how they were ordered

The most harmful part came first: ledger, execution, files, intake; then the
store with what is built on it; then the harness. Proofs followed the runs.

| Modules | Of | Composed by |
|---|---|---|
| `OperationStates`, `ExecutionLedger`, abstract `PlanAttempts` | the ledger | `LedgerAttempts` (refinement mapping) |
| `BrokerHost`, `ContentExecution`, `ClientDispatch` | execution and recovery of one row | `BrokerRun`, with `BrokerRecovery` for liveness |
| `Adoption` | the files of an adoption | |
| `BrokerIntake` | configuration, intake, direct requests | |
| `SyncRuns`, `QueryLabels` | the table of runs, the labels of queries | `SnapshotSync`, `PriceSync`, `SubjectSync`, `CatalogSync` |
| `SnapshotSync`, `PriceSync`, `SubjectSync`, `CatalogSync`, `RequestBudget`, `Credentials`, `Groups`, `Advice`, `Deals` | the parts of the store | `ProductStore` |
| `EvalRun`, `EvalMatrix`, `EvalReview`, `CodexTurn`, `ScenarioGrade` | the harness | `EvalHarness` |
| `…_proofs` | theorems of the module they are named after; `BrokerRun_proofs` also those of `ContentExecution`, `ProductFacts_proofs` the subject and catalogue part of `ProductStore`, `EvalTurns_proofs` the conversations of `EvalHarness` | |

Left of the plan: the stages in which steamcmd is terminated
(`content_plane.py:69-345`), the attribution of game processes (`runtime.py`),
the directory marker (`executor.py:287-479`), the desktop bridge, the
qualification that follows a screen, proofs about `Deals` and `Groups`.

## 3. What the modules say

`OperationStates` holds the states and the transition table; everything of the
broker extends it.

**`ExecutionLedger`** has one process per open connection. A method is the
reads that begin it (`StartRequest`, `StartConfirm`, `StartTransition`,
`StartExpire`: a call record holds what was read) and the transactions that
finish it (`InsertRequest` or `RefuseRequest`, `Confirm` or `RejectConfirm`,
`Transition` or `LoseTransition`, `ExpireLapsed`). `request` sweeps in a
transaction of its own and reads the clock again, as in the code. `op` is the
`operations` table, `events` the `events` table by operation. The clock may
step back. `Abandon` is a crash, or an exception, between two transactions.
Columns that are never written after the insert are left out, and so are the
refusal of ledgers of other versions and the rebuild of an old index.

**`PlanAttempts`** is the abstract specification: plans that are free, asked
for, cleared, started or settled, and machines held by one plan at a time.
`LedgerAttempts` gives the mapping (`Phase`, `Holder`).

**`BrokerHost`** is what all executions share: rows, the execution lock, the
control of a process (`Enter`, `Go`, `Leave`, `Advance`), the client as the
session adapter commands it, and the environment: authorization of one row at a
time, lapsing windows, the owner editing the policy and starting or quitting
the client, steamcmd orphans ending, crashes. `owed` is a history variable: a
broker took the client down for an operation that found it running, and neither
a broker nor the owner has started it since. Ledger calls are atomic here; that a
transition takes the row from the state it read or raises is what
`ExecutionLedger` shows.

**`ContentExecution`** follows `_execute_locked` and `_reconcile_locked` in
their order: each ledger transition, each journal and manifest write, each
client command and each policy or window read that precedes an effect is an
action. The checks of intake are one free refusal (`DeferIntake`,
`RefuseIntake`), the activity gates may fail at every probe. `Fail` and
`RestoreForFailure`/`Terminalize` are `_finish_failure`; `Release` is the best
effort of the paths that keep the row. A probe and the step it guards are one
step: the client does not start between the last probe and the rename, which
the code names an accepted residual race (`executor.py:766-768`).

**`ClientDispatch`** follows `_launch` and `ClientExecutor`'s stop: window,
gates, policy, intent, request, receipt. `asked` counts the commands that sent
anything for an operation. **`BrokerRun`** composes both over the same rows and
client and adds the refusals of `run` (read, `release_client` under the lock,
abort outside it) and `confirm`. **`BrokerRecovery`** adds fairness, section 5.

**`Adoption`** has for each of manifest, backup and journal the value processes
see and the value on the disk. `_durable_write` is a rename and then an fsync of
the directory; a power loss keeps either value of each file. It covers
`adopt_manifest`, `clear_adoption_journal`, `reconcile_adoption` with its verdicts
(clean, stale, completed, restored, deferred) and the ledger writes of its
callers. While no command runs the owner may start the client, which rewrites
manifests in its own formatting or writes one for an install of the owner's.

**`BrokerIntake`** has the state lock, `broker.json`, the rows with the library
they were taken in for, and the verbs `init`, `request`, the direct ones,
`confirm` and `run`. An execution is its start, its end and the interruption of
a dead one.

**`SyncRuns`** is the table every collector goes through: rows are opened by one
transaction and closed by another, ids are never used twice, and every
transaction brings any time, since the wall clock may step between two reads.
A command that dies leaves its run open.

**`SnapshotSync`** follows a kind of snapshot (installed, owned, wishlist,
activity, system profile) through admission, begin, completion, failure,
takeover, pruning, expiry and deletion. **`PriceSync`** has the wish list, the
price run that read its demand from it in another transaction, and the price of
each title. **`SubjectSync`** has the runs that ask title by title (reviews,
declared facts, achievements): targets, answers, cooldowns, abandoned runs taken
over, deletion with *rehoming*, which moves shared answers to runs that name
nobody. **`CatalogSync`** has the catalogue, kept shared and per account.
**`QueryLabels`** is what the envelopes say about all of these.

**`RequestBudget`** is the row that spaces requests to one provider across
processes, with cooldowns and the defence against a clock that ran ahead.
**`Credentials`** is the saga over a key and its row: stores may fail after
having taken effect, rollbacks may fail, commands may be killed. **`Groups`**
has profiles, ownership, copies, families and player limits of one title, with
the assignment of copies by augmenting paths (`Augment`) checked against every
possible assignment. **`Advice`** has feedback as a log and as current rows,
rules and overrides, with both recommenders' gates, the signs of what counts for
or against a title, what stays unknown, and how complete either answer calls
itself. **`Deals`** has two
providers' last answers to a title with their ages.

**`ProductStore`** runs them one at a time: `part` is chosen at the start and
names the one a behaviour follows. The parts share the table of runs but none
of its rows, so their product would show nothing more.

**`EvalRun`** is one cohort process with its manifest, its frozen source and
signals at any moment. **`EvalMatrix`** is the command over them: lock, reload,
attempt, child, result, count, resume. **`EvalReview`** is the review package,
the canary, the amendment, operations and imports, agreements, direct imports
and the finalization of a screen. Its commands hold a lock from their first
read to their last write, so they are atomic up to kills, and `reach` says which
writes a killed one had done. **`CodexTurn`** is one conversation: the driver's
requests, the queue of notifications put aside while a response is awaited,
turns, settings, the quiet boundary, and which grades the runner gives. The pipe
is FIFO, so a message counts as read when it is sent unless a response is
awaited. **`ScenarioGrade`** is what follows: commands, as what the parsers of
`grade.py` find out about each (the programs in it, its subcommand, whether its
arguments, data directory and format are the required ones), answers with their
claims, the five layers of the grade, and what is kept of the conversation. What
the commands did is kept apart (`touched`), so that a grade can be held against
it. **`EvalHarness`** is their sum, as `ProductStore` is that of the store.

Each module keeps, next to a definition, mutated forms of it (`... \* faulty`)
that a plausible bug would produce; PROJECT.json names the property that each
breaks.

## 4. Runs

| Run | Instance | What it shows |
|---|---|---|
| `ledger_races` | 2 processes, 2 plans, 1 machine, 2 rows, 2 clock readings, at most 4 events a row | the ledger's invariants and `ReceiptsAreFinal` under racing calls; the ledger implements `PlanAttempts` |
| `content_runs` | 2 processes, 2 content operations | writers, stopped clients, verdicts and journals across crashes, orphans, policy edits and recoveries |
| `recovery_runs` | 1 process, 1 operation of any kind, 2 setbacks, fairness | whatever has begun ends; the client comes back |
| `broker_runs` | 2 processes, 1 operation of any kind, all commands | no request is sent twice or forgotten; content, adoptions and requests are only under way for operations that have not ended, whatever a refusal aborts outside the lock |
| `adoption_runs` | 3 adoptions of one title | durability order, restores, completions |
| `intake_verbs` | 2 processes, 2 libraries, 1 plan, 1 request id, 2 rows | configuration and request ids |
| `product_store` | 2 commands, 2 accounts, 1 title, 2 to 4 runs, 2 readings of the clock (3 for title by title synchronisations, 9 for request limits); 2 stored keys; groups of up to 3 with 2 lendings; 2 providers of deals; 3 words of feedback | `CurrentIsNewest`, `OnlyOvertakenLinger`, `OneAskerPerTitle`, `FactsRestOnAnswers`, `ShownMovesForward`, `DeletionSparesOthers`, `RequestsSpaced`, `FailuresUndone`, `AnswersStand`, `AdviceStands`, `LabelsMatch` |
| `eval_runs` | 2 commands, 2 work items, 3 cohorts, 2 edits, 2 starts; 2 cases, 2 judges, 2 verdicts, 1 direct import before a review and 3 before a screen; 2 turns, 1 fault of the server; up to 2 prompts and 3 prompts and commands | `ObservationsStand`, `AgreementsRest`, `ReviewResumable`, `GradesAreEarned`, `FinalStaysFinal` |
| `broker_refusal`, `intake_bare`, `adoption_user`, `adoption_durable` | as above, smaller | section 7 |

*Broker.* Two processes are enough for every race in the code: the execution
lock admits one, and every unlocked verb races with that one. Two rows let a row
meet its successor (`JournalCoversSwap`, `VerdictMatchesLibrary`,
`SingleActive`); the third adoption meets remains of both kinds of predecessor.
In `broker_runs` there is one row, because the unlocked verbs act on the row
they read and rows share only the lock and the client; the theorems of section 6
have no such bound. Two clock readings with lifetimes of one tick make every
nonce and window lapse, and let the clock step back. `MaxEvents` cuts resume
loops, which add no new state of the row.

*Store.* Two overlapping commands race, and the third or fourth run is the one
that meets what two earlier ones left. One title suffices where titles are
handled by themselves; a snapshot's set of titles is present or absent. The code's
15 minutes (`Abandon`), its day or week before a fact is asked for anew (`Serve`)
and its week or month of history (`History`) keep their order: a run is abandoned
and a fact stale once the clock has moved at all, history goes a tick later. With
three readings of the clock a title by title run is taken over, still answers,
and is pruned after that, and the clock can step back over all of it. Snapshots
(`SnapshotHistory`) are pruned as soon as the clock moves, and prices a tick later.
A limit's clock needs more readings: with an interval of 2, a window of 4 and
retries after 0 or 3, a second request at the same time, one that comes too
early, one after a cooldown and one after a clock that ran ahead all differ.
With two lendings and three profiles a copy has to be taken back from its first
holder for the assignment to be complete. `part` is chosen at the start.

*Harness.* Two work items are one that is done and one that is not when a
command dies; the third cohort is the retry of a lost one. Two judges agree or
do not. One direct import is enough to come between an operation and its own
import. One fault of the server is a lost or an uncalled-for message, at any
moment once the thread was asked for; a server without faults runs its command
at most once in a conversation.

Processes, plans, libraries, accounts and judges are symmetric where the run has
no liveness property. `product_store` and `eval_runs` do not check deadlock: a
behaviour of theirs may have used up its runs, and ends. Every other run checks
it, since the broker can always be invoked again.

## 5. Fairness

Only `recovery_runs` needs any. It assumes weak fairness for the step of a live
command and for the steps of a refused run (a process that has not died goes
on), strong fairness for `reconcile` (the lock may be taken and freed for ever,
and the operator or the agent keeps invoking it), and weak fairness for the
lapse of a window and the end of a steamcmd left alone. No action of the owner
and no crash is fair.

None of that makes an attempt succeed: a restart of the client may fail for
ever, and then the row stays live for ever, which is what the code chooses. So
the run counts setbacks (a command that gives up with its row live, a refused
run that could not bring the client back, an owner who starts the client under a
command that needs it stopped) and allows two: one to send a row through a failed
recovery and one to fail the next. What it shows is that no state, however
reached, is one that recovery does not leave. Crashes count only when they leave
a row live.

One process stands for all commands, one after the other. With two, fairness of
each process does not exclude that the two hand the lock to each other, each
entering just when the row is none of its business; nothing in the code excludes
it either.

## 6. Proofs

All proofs hold for any number of processes, rows, runs, accounts, items, cases
and judges, and any bounds. The assumptions are those of the modules' `ASSUME`s,
which every run evaluates; none says more than that a bound is a natural and that
an absent thing is none of the present ones.

**`ExecutionLedger_proofs`**. `TypeCorrect`: `TypeOK` is inductive by itself.
`OneOperationAtATime`, `AuditTrailComplete`, `StartedOnce`, `ConfirmedBeforeStart`,
`ReceiptsFinal` follow from the inductive `LedgerInv`. `AuditTrail` alone is not
inductive: a pending `transition()` holds a state read long ago and a target
chosen then, so the invariant carries that the pair is in the table; the
compare-and-set then makes it a step from the present state. `StartedOncePerKey`
talks about events of two rows, so the invariant keeps a history of each row
(`RowHistory`): cleared once, by a `confirm` that filled in the actor and the
window and emptied the nonce, and started at most once afterwards, because the
table has no way back to `authorized`. With all but one row of a key expired, and
none of those started, this gives one start per key. `TableSteps` reduces all
actions to the four that write the tables.

`ImplementsAttempts` is the refinement of `PlanAttempts`. The mapping of
`LedgerAttempts` chooses a row; `Reads` shows that under the two unique indexes
there is one to choose, so that the phase of a plan and the holder of a machine
can be read off any row that is one. A sweep can expire rows of several plans in
one transaction; that is one abstract step, since `Lapse` takes a set of plans.

**`BrokerRun_proofs`**. Its first part is the executor's. `OneWriterAtATime`, `WritersAreAccounted` and
`StoppedClientIsRemembered` follow from `ContentInv`: each process at each place
of its command knows something (`Standing`: that it holds the lock for a row it
has read, in which state that row is, whether a steamcmd may be alive, whether the
owner's client was taken down), steamcmds are accounted for by rows, and no row
remembers a client before its lease. `StoppedClientHasRow` needs `PriorKnown`: a
command ends a row only after it has brought back the client that the row says it
found. This holds for `ContentSpec`, the executor; `broker_refusal` shows that it
does not survive the refusals of the CLI, so it is not claimed of `BrokerSpec`.

`VerdictsTellTheLibrary` and `SwapsAreCovered` rest on `LibraryInv`: operations
come one after the other (`OneByOne`, from the ledger's index on machines); what
the newest row's state says of the manifest (`RowLibrary`: untouched before
`adopting`, and while it is `adopting` new only under that row's own journal); and
what a command knows of manifest and journal where it stands (`PlaceLibrary`). The
beginning, how a step moves a process and its row (`Walks`, `OpMoves`), serves
every command.

Its second part is over all commands of the broker. `RequestsAreSentOnce` and `IntentsAreDurable` follow from `BrokerInv`: a command that is about to send
has recorded its intent and sent nothing (`Unsent`), a row for which anything was
sent is in a state that says so (`Told`, and such states only lead to such
states), and a command past its entrance, or a refused run restoring the client,
holds the lock (`Inside`). `AdvancedRowsAreKept` needs the executor's account of
writers again (`WritersKnown`), but not `ContentInv`: under refusals a row may end
under a command that is resuming it. `TakenInv` therefore says in which exact state
a command's row is only from its lease, its commitment to content or its intent on
(`RowTaken`), and nothing of a resume before that: its row stays `interrupted` till
then and may be ended. No step outside the lock moves a row that a command has
taken on (`RowsSpared`), since what a refused run aborts is in a state it has seen,
`authorized` or `interrupted`; and a resume whose row was ended cannot commit, the
transition to `content_running` being not in the table, so no content follows.
That the client is then left down is the case of
`broker_refusal`.

**`Adoption_proofs`**. `SwapsAreJournaled`, `FailuresAreFinal`, `FailuresRestore`,
`CompletionsAdopt`. Each file has two values, and all four properties speak of the
manifest alone; what makes them inductive is the journal and the backup behind it.
`Judged`: the operation's manifest is there, for the processes or on the disk, only
while both journals name the operation, and is gone from both before the journal
is dropped. `BackedUp`: a journal that names the operation tells the truth about a
backup that is on the disk too. `Fate` adds, short of a power loss or an install by
the owner, which of the two manifests each end leaves.

**`BrokerIntake_proofs`**. `RequestIdsAreBound`, `ConfigIsHeld`, `NamedRunsStay`.
Live rows are of the library `broker.json` names (`LiveAtHome`), because a row is
inserted and a configuration written under one lock and the second only when no
row is live. A named run loads the configuration under no lock; what it read is
right as long as its row is live (`LoadedRight`), since no row comes back to life
and the configuration cannot change before it dies.

**`ProductStore_proofs`** and **`ProductFacts_proofs`**, over `StoreSpec`, whose
behaviours follow one `part`. `StoreInv` is one invariant for each of seven parts.

* Snapshots (`CurrentRunIsNewest`, and with prices and facts `ShownNeverGoesBack`):
  the invariant is stated of any three tables (`Rests`), so that it can be followed
  through the three parts of one transaction, closing a run, promoting it, pruning.
  It needs that ids are not used again (`Unborn`); activity, whose order is by
  start, needs that a run which lost to a newer one is marked as not promoted.
* Prices (`OnlyOvertakenPricesLinger`): a run under way rests on a wishlist that
  has ended, and if that is still the current one it targets titles on it only
  (`Based`); the wishlist is a completed run's, and no title's place on it is
  younger than it (`Promoter`, `SinceThen`). With that a run that nothing overtook
  stores nothing for a title that has left and come back.
* Reviews, declared facts and achievements (`OneRunAsks`, `FactsHaveAnswers`,
  `OthersAreSpared`). A transaction here closes, quarantines, prunes, drops and
  rehomes in a row, so everything is stated of a copy `db` of the four tables:
  `Sound`, that each fact rests on an answer of a run of its own holder, and
  `OneAsks`. Most of the parts only take away (`Lessens`), and a table that lessened
  is still right and shows nothing newer. Rehoming does not: that the answer it
  picks is there and is the latest needs that finite non-empty sets of runs have a
  latest one (`LatestRun`, by the well-founded order of the naturals).
* The catalogue (`FactsHaveAnswers`): an account's facts rest on its own runs and
  are no newer than the shared ones (`OwnFacts`), every source is a completed run
  with its provenance (`AllSourced`). Deleting an account detaches its runs under
  fresh consecutive ids (`DetachedIds`), which keeps their order.
* Request budgets (`RequestsAreSpaced`): `RowCovers` relates the row to the history:
  its next slot is an interval behind the last grant, its cooldown not before any
  that was asked for.
* Credentials (`FailuresAreUndone`): for each point at which a command may stand,
  what it has changed and what it remembers for putting it back (`AtStore`, `AtRow`,
  `AtUndo`); `broken`, that the user was told, is the only exception.

* Advice (`AdviceIsStanding`): the tables replay the logs (`AdviceInv`), with the
  last word on each thing as `LastIsLast` reads it off a log, and a blank word as no
  row (`Kept`). The game's row names one event for all its fields, the latest of any
  of them. What is then advised is a case analysis over the recipes, budgets and gates.
* Labels (`LabelsFit`). A snapshot's label is read off the newest attempt and the
  newest success, what it shows off the promoted run: for activity, where runs
  promote by start, a completed run is left unpromoted only for a later one that
  was promoted and is pruned no earlier (`Vouched`). An achievement row that says
  `ready` is the shown row's unless a later run asked (`Stands`, of any copy of the
  four tables, carried through each part of a transaction). A title that a completed
  catalogue run asked for is the account's from that run or a later one
  (`Answered`).

**`EvalTurns_proofs`** and **`EvalHarness_proofs`**, over `EvalSpec`, whose behaviours follow one `side`.
`CountedIsObserved`: `Moves` says what one cohort does to the table of cohorts and
`Counted` relates the manifest to the attempts. `AgreementsAreRested`: a case agreed
on has an operation of every judge (`AgreedRecorded`). `KilledReviewsResume` is
stated of a review without direct imports; `Fits` lists what its kills leave: every
retained file is its own operation's, at most one operation is lost, the amendment
names a slot whose record it amends, and what was agreed on was imported.
`FinalVerdictsStay` joins two action properties: a cohort whose verdict is written
does not write again, and the evidence under a decision only grows before it
(`RecordsGrow`).

`GradesRestOnEvidence` has two halves. For a graded scenario (`GradeInv`), every
turn keeps what its answer may rest on, and whatever was touched on the host was
touched by a command that ran; a call without a violation touches only what its
prompt permits. For a conversation (`TurnInv`), the driver reads one message at a
time and grades the transcripts, while `Clean` speaks of the order of the whole wire,
each message with all before and behind it. The invariant is that what was read
divides into turns that follow one another without a gap (`Divided`, `Concluded`),
and that each transcript holds what a reader of its own part would say: violated
exactly if a message of it is out of place (`Judged`, with `Fine` the place of one
message), its commands and answers where they stand in it (`Evident`), the efforts
and models said before what they vouch for (`Stated`), the driver's open and done
items those of the part (`Tracked`). `Advances` is the induction over the messages of
a turn, `TurnBegins` and `BetweenKeeps` what lies between two; `OrderedIsFine` and
`FineIsOrdered` show that messages in their place, turn by turn, and an ordered wire
are the same.

*Only model-checked.* Liveness and fairness (`recovery_runs`), which are out of the
prover's reach. `AnswersStand`: the assignment of copies and the state of a deal
are computed by recursion over the data, and what a recursion computes for every
input cannot be proved here. Every other invariant and action property of the
passing runs is a theorem.

## 7. Disagreements between the code and what it says

* `broker_refusal`. `run` on a revoked policy releases the client under the
  execution lock, drops the lock, then aborts with `expected_from` the state it
  read first. Another command may by then be resuming the row, and stop the
  client again; a resume keeps the row `interrupted` until it commits
  (`execution/executor.py:504-619`), so the abort succeeds anywhere in it. The
  resume's own transition is then refused and it ends without a restore, or it
  dies; no recovery will see the row. `execution/broker_main.py:906-908` promises otherwise.
* `intake_bare`. `run` without `--operation-id` loads `broker.json` before it
  picks the row, so an `init` and a `request` in between make it run a row
  against a library it was not taken in for, which
  `execution/broker_main.py:498-500` says the state lock prevents. A `run` that
  names its operation is not affected (`NamedRunsWhereTakenIn`).
* `adoption_user`. After a crash between journal and rename of a fresh install,
  an install by the owner is taken for the landed swap
  (`execution/content_plane.py:627-629` says it "can only be the landed swap").
  The consequence is a verdict about a manifest that the operation did not write.
* `adoption_durable`. A repair or a recovery that finds the new bytes answers
  `completed` without syncing the manifest's directory, and the journal is retired;
  "durably complete" (`execution/content_plane.py:557`) does not hold when that
  sync raised, or the command died before it. The journal was on the disk and is
  durably gone, the swap is seen and is not on the disk. The owner has no part in it.

What the models do as the code does, and a reader may not expect:

* Store. A run stamped in the future blocks every promotion until the clock has
  caught up. The prune at the end of `complete_activity` may delete what the same
  transaction promoted. The demand of a price run under way survives the pruning
  of the wish list it was read from. A refused completion leaves its run
  `running` until it expires. A label goes from partial back to complete when a
  new run starts after a failed one (`cli.py:6690-6735`).
* Keys. The credential lock is held only by commands that use a stored key; a kill
  between the two writes of `auth set` leaves a key without a row, which
  `FailuresUndone` allows of a kill but of no failure.
* Deals. Prices count as fresh for 6 hours, historical lows for 24, and both are
  kept for 7 days; the two recommenders differ about a preferred trait that is
  known to be absent.
* Harness. A kill inside `atomic_publish` leaves a temporary name that the
  layout checks refuse from then on (`spoiled`, `torn`), where
  `evals/README.md:84-86` speaks of resuming. A clock that steps back during a
  child makes its `completed_at` precede its start, and the matrix is refused as a
  whole. A killed matrix leaves its child running. A direct import between an
  operation and its own import makes every review command refuse, hence the
  premise of `ReviewResumable`. Judges pass or fail a case; a case that all judges
  call uncertain, which the code leaves unresolved (`evals/runner/judge.py:1249-1255`), is outside
  the instance, and `Agreement` is meant for such verdicts. A screen can be finalized before the judgments
  that follow are imported.
* Conversation. A reroute does not carry over into the next turn, and a message
  later than the 50 ms in which the driver waits for quiet is never seen.

## 8. Not modelled

* Text: plans, manifests, log lines, messages, the parsers and schema checks,
  the TOML of the policy, the JSON of answers; migrations of the databases.
* The readers of `/proc` and of the Windows registry: a probe tells the truth or
  fails closed. The attribution of a game's processes, and with it the reuse of a
  pid between observation and request (`execution/runtime.py`).
* The stages in which steamcmd is terminated (`execution/content_plane.py:69-345`),
  the ownership marker and the path checks of intake.
* The desktop bridge, a protocol in front of the same verbs; the Windows content
  backend, whose `release_denial()` refuses every execution; readiness and
  receipts, which only read.
* The provider adapters, the local Steam and system probes, the planners: no
  state that a later step depends on. What a lost, late or partial answer does
  to the store is modelled.
* The order of equal ranks and the wording of reasons; rankings are modelled up
  to which title passes which gate with which evidence.
* Of the harness: the qualification that follows a screen, the construction of
  a candidate, `evals/` outside the runner, `scripts/`.

A resume stops a client that the owner started after the interruption, and
restores it only if the lease had found a client running; `owed` follows that
promise, about the client that the lease recorded. A probe and the step it
guards are one step, so the residual race of `execution/executor.py:766-768` is
accepted here as it is there.
