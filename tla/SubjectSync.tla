------------------------------ MODULE SubjectSync ------------------------------
(***************************************************************************)
(* Synchronisations that ask a provider about one title after another and  *)
(* store each answer by itself: reviews of the titles on a wishlist, facts *)
(* the store declares, and a player's achievements                         *)
(* (src/steam_agent/storage.py; the drivers in review_library.py,          *)
(* activity.py and cli.py).  A command records the owner's consent and then *)
(* begins its run; when the consent is withdrawn in between, the second    *)
(* transaction is refused, so the two are one step here.                   *)
(*                                                                         *)
(* A run records what it demands and what it targets.  Each target ends by *)
(* itself; an answer is promoted to the current fact at once, while other  *)
(* runs, of this account or of another, are under way.  Reviews and        *)
(* declared facts are shared by all accounts, achievements are a player's. *)
(* A command that is killed, or whose transaction is refused, takes no     *)
(* further step, and its run stays under way; another command may begin.   *)
(*                                                                         *)
(* A behaviour follows one kind.  Abstracted: a fact is the run that saw   *)
(* it and when; the order and the number in which candidates are targeted  *)
(* (any subset); the cooldown of a provider (a smaller subset); the cache  *)
(* of achievement schemas; completed_at, which nothing here compares.      *)
(***************************************************************************)
EXTENDS SyncRuns, QueryLabels

CONSTANTS
    Proc,        \* commands that may be under way
    Accounts,    \* the accounts
    Everyone,    \* the holder of what all accounts share
    Apps,        \* titles
    Stale,       \* 15 minutes: an abandoned run
    Day,         \* 24 hours or 7 days: an answer that is fresh
    Keep         \* 7 or 30 days: how long answers are kept

SubjectAssumption ==
    /\ Everyone \notin Accounts
    /\ Stale \in Nat /\ Day \in Nat /\ Keep \in Nat

VARIABLES
    kind,        \* the synchronisation this behaviour follows
    by,          \* the account of a run
    demand,      \* ..._sync_demand: by run and title
    fact,        \* ..._current: by holder and title
    wishlist,    \* wishlist_current: by account
    accounts,    \* the accounts there are
    agreed,      \* those that accepted the disclosure of this build, where an
                 \* answer is stored only under it (achievements)
    proc         \* the commands

subjectvars == <<runs, nextRun, kind, by, demand, fact, wishlist, accounts, agreed, proc>>

Kinds == {"reviews", "declared", "achievements"}

\* "invalid" is a failure with the code PROVIDER_RESPONSE_INVALID, which for
\* reviews alone is not asked about anew; a title demanded and not targeted is
\* "skipped" (a fresh answer exists) or "left".
Answers == {"ready", "not_found", "failed", "invalid"}
States == {"none", "skipped", "left", "running", "unevaluated"} \cup Answers

Answered ==
    CASE kind = "reviews" -> Answers \ {"not_found"}
      [] kind = "declared" -> Answers \ {"invalid"}
      [] kind = "achievements" -> {"ready", "failed"}   \* or not public, or none

\* at: observed_at.  promoted: of the observation.  good: a "not_found" that
\* leaves an earlier fact in place.
NoDemand == [state |-> "none", at |-> 0, promoted |-> FALSE, good |-> FALSE]
Demands == [state: States, at: Times, promoted: BOOLEAN, good: BOOLEAN]

\* run 0: the run that promoted it is gone (ON DELETE SET NULL).
NoFact == [known |-> FALSE, run |-> 0, at |-> 0]
Facts == [known: BOOLEAN, run: 0 .. MaxRuns, at: Times]

\* Whose fact it is
Holders == {Everyone} \cup Accounts
Holder(acct) == IF kind = "achievements" THEN acct ELSE Everyone

Idle == [pc |-> "idle", acct |-> Everyone, run |-> 0]

SubjectInit ==
    /\ SyncRunsInit
    /\ kind \in Kinds
    /\ by = [r \in RunIds |-> Everyone]
    /\ demand = [r \in RunIds |-> [a \in Apps |-> NoDemand]]
    /\ fact = [h \in Holders |-> [a \in Apps |-> NoFact]]
    /\ wishlist = [c \in Accounts |-> IF kind = "reviews" THEN Apps ELSE {}]
    /\ accounts = Accounts /\ agreed = {}
    /\ proc = [p \in Proc |-> Idle]

-----------------------------------------------------------------------------
(* The tables a transaction works on, and what it does to them in turn.     *)

Tables == [runs |-> runs, by |-> by, demand |-> demand, fact |-> fact]

\* Rows of a run go with it; a fact loses its run, or goes too.
DropRuns(db, S) ==
    [runs   |-> Without(db.runs, S),
     by     |-> [r \in RunIds |-> IF r \in S THEN Everyone ELSE db.by[r]],
     demand |-> [r \in RunIds |-> IF r \in S THEN [a \in Apps |-> NoDemand] ELSE db.demand[r]],
     fact   |-> [h \in Holders |-> [a \in Apps |->
                    IF db.fact[h][a].run \notin S THEN db.fact[h][a]
                    ELSE IF kind = "achievements" THEN NoFact
                    ELSE [db.fact[h][a] EXCEPT !.run = 0]]]]

DropFacts(db, Dropped(_, _)) ==
    [db EXCEPT !.fact = [h \in Holders |-> [a \in Apps |->
        IF Dropped(h, a) THEN NoFact ELSE db.fact[h][a]]]]

Wished(lists) == UNION {lists[c] : c \in Accounts}

OldRunsAll(db, acct, t) ==   \* faulty: a run a review rests on goes with the rest
    {r \in RunIds :
        /\ db.runs[r].status # "absent" /\ db.runs[r].started < t - Keep
        /\ kind = "achievements" => db.by[r] = acct}

\* The runs that began before the horizon: not those a review rests on, and
\* of achievements the account's only.
OldRuns(db, acct, t) ==
    {r \in RunIds :
        /\ db.runs[r].status # "absent" /\ db.runs[r].started < t - Keep
        /\ kind = "reviews" => \A a \in Apps : db.fact[Everyone][a].run # r
        /\ kind = "achievements" => db.by[r] = acct}

\* _prune_reviews(), _prune_declared_apps(), _prune_achievements()
Pruned(db, acct, t) ==
    LET Dropped(h, a) ==
            /\ db.fact[h][a].known
            /\ h \in {Everyone, acct}
            /\ \/ db.fact[h][a].at < t - Keep
               \/ kind = "reviews" /\ a \notin Wished(wishlist)
        kept == DropFacts(db, Dropped)
    IN DropRuns(kept, OldRuns(kept, acct, t))

\* A run that began, and last heard of a target, 15 minutes ago is closed.
Abandoned(db, acct, t) ==
    {r \in RunIds :
        /\ db.runs[r].status = "running" /\ db.runs[r].started < t - Stale
        /\ kind = "reviews" => db.by[r] = acct
        /\ \A a \in Apps : db.demand[r][a].at < t - Stale}

Unanswered(row, t) ==
    IF row.state = "running" THEN [row EXCEPT !.state = "unevaluated", !.at = t] ELSE row

InterruptedRunsAlone(db, S, t) ==   \* faulty: what they ask about stays open
    [db EXCEPT !.runs = [r \in RunIds |->
        IF r \in S THEN [db.runs[r] EXCEPT !.status = "failed"] ELSE db.runs[r]]]

Interrupted(db, S, t) ==
    [db EXCEPT
        !.runs = [r \in RunIds |->
            IF r \in S THEN [db.runs[r] EXCEPT !.status = "failed"] ELSE db.runs[r]],
        !.demand = [r \in RunIds |-> [a \in Apps |->
            IF r \in S THEN Unanswered(db.demand[r][a], t) ELSE db.demand[r][a]]]]

\* _declared_app_eligibility(): a fact from the future of both clocks goes,
\* with every row that shares the fault; runs left without demand go too.
Quarantined(db, asked, t, now) ==
    LET Future(x) == x > t /\ x > now
        faulty == {a \in asked : db.fact[Everyone][a].known /\ Future(db.fact[Everyone][a].at)}
        Goes(r, a) == /\ a \in faulty /\ db.demand[r][a].state # "none"
                      /\ r = db.fact[Everyone][a].run \/ Future(db.demand[r][a].at)
        left == [r \in RunIds |-> [a \in Apps |->
                    IF Goes(r, a) THEN NoDemand ELSE db.demand[r][a]]]
        empty == {r \in RunIds : /\ \E a \in Apps : Goes(r, a)
                                 /\ \A a \in Apps : left[r][a].state = "none"}
        Dropped(h, a) == a \in faulty
    IN DropRuns([DropFacts(db, Dropped) EXCEPT !.demand = left], empty)

\* Titles some run under way is asking about: for reviews this account's runs.
Active(db, acct) ==
    {a \in Apps : \E r \in RunIds :
        /\ db.runs[r].status = "running" /\ db.demand[r][a].state = "running"
        /\ kind = "reviews" => db.by[r] = acct}

\* Titles whose last answer still serves.
Fresh(db, acct, t) ==
    {a \in Apps :
        \/ /\ kind = "reviews"
           /\ \E r \in RunIds : /\ db.by[r] = acct /\ db.demand[r][a].at >= t - Day
                                /\ \/ db.demand[r][a].state = "ready" /\ db.fact[Everyone][a].known
                                   \/ db.demand[r][a].state = "invalid"
        \/ /\ kind = "declared"
           /\ \/ db.fact[Everyone][a].known /\ db.fact[Everyone][a].at \in t - Day .. t
              \/ \E r \in RunIds : /\ db.demand[r][a].state = "not_found"
                                   /\ db.demand[r][a].at \in t - Day .. t}

Stored(db) ==
    runs' = db.runs /\ by' = db.by /\ demand' = db.demand /\ fact' = db.fact

-----------------------------------------------------------------------------
(* The commands *)

\* The owner's consent, then the run and its demand
Opens(p, acct, db, asked, targeted, skipped, t) ==
    LET Row(a) == [NoDemand EXCEPT
                      !.state = IF a \notin asked THEN "none"
                                ELSE IF a \in targeted THEN "running"
                                ELSE IF a \in skipped THEN "skipped" ELSE "left",
                      !.at = IF kind = "declared" /\ a \in asked \ targeted THEN t ELSE 0]
    IN /\ Stored([db EXCEPT !.runs = Opened(db.runs, t), !.by[nextRun] = acct,
                            !.demand[nextRun] = [a \in Apps |-> Row(a)]])
       /\ nextRun' = nextRun + 1
       /\ agreed' = IF kind = "achievements" THEN agreed \cup {acct} ELSE agreed
       /\ proc' = [proc EXCEPT ![p] = [pc |-> "running", acct |-> acct, run |-> nextRun]]
       /\ UNCHANGED <<kind, wishlist, accounts>>

MayOpen(p, acct) == proc[p].pc = "idle" /\ CanOpen /\ acct \in accounts

\* begin_review_sync(): a wishlist synchronised, its titles not being asked
\* about and, unless the owner named a limit, without a fresh answer.
BeginReviews(p, acct, targeted, skipFresh, t) ==
    LET pruned == Pruned(Tables, acct, t)
        db == Interrupted(pruned, Abandoned(pruned, acct, t), t)
        candidates == (wishlist[acct] \ Active(db, acct))
                        \ (IF skipFresh THEN Fresh(db, acct, t) ELSE {})
    IN /\ kind = "reviews" /\ MayOpen(p, acct)
       /\ targeted \subseteq candidates
       /\ Opens(p, acct, db, candidates, targeted, {}, t)

\* begin_declared_app_sync(): any titles of the account; now is the store's
\* clock, t the time the command began.
BeginDeclared(p, acct, asked, targeted, t, now) ==
    LET pruned == Pruned(Tables, acct, t)
        closed == Interrupted(pruned, Abandoned(pruned, acct, t), t)
        db == Quarantined(closed, asked, t, now)
        skipped == asked \cap (Fresh(db, acct, t) \ Active(db, acct))
    IN /\ kind = "declared" /\ MayOpen(p, acct)
       /\ asked # {} /\ targeted \subseteq (asked \ skipped) \ Active(db, acct)
       /\ Opens(p, acct, db, asked, targeted, skipped, t)

\* begin_achievement_sync(): titles chosen before the transaction
BeginAchievements(p, acct, asked, targeted, t) ==
    /\ kind = "achievements" /\ MayOpen(p, acct)
    /\ targeted \subseteq asked
    /\ Opens(p, acct, Pruned(Tables, acct, t), asked, targeted, {}, t)

NewerByArrival(r, f, t) == ~f.known \/ t >= f.at   \* faulty: the run that asked does not count

\* An answer of run r observed at t replaces fact f.
Newer(r, f, t) ==
    \/ ~f.known
    \/ /\ kind = "achievements" \/ t >= f.at
       /\ \/ f.run = 0
          \/ StartedLater(r, f.run)

\* A target nobody has answered, or given up, yet
Awaited(r, a) == r # 0 /\ demand[r][a].state = "running"

\* The target is still this run's to answer.
Record(p, a, answer, t) ==
    LET r == proc[p].run
        h == Holder(proc[p].acct)
        promote == answer = "ready" /\ Newer(r, fact[h][a], t)
    IN /\ proc[p].pc = "running"
       /\ Awaited(r, a)
       /\ answer \in Answered
       /\ demand' = [demand EXCEPT ![r][a] =
            [state |-> answer, at |-> t, promoted |-> promote /\ kind = "declared",
             good |-> answer = "not_found" /\ fact[h][a].known]]
       /\ fact' = IF promote
                  THEN [fact EXCEPT ![h][a] = [known |-> TRUE, run |-> r, at |-> t]] ELSE fact
       /\ UNCHANGED <<runs, nextRun, kind, by, wishlist, accounts, agreed, proc>>

RecordReview(p, a, answer, t) == kind = "reviews" /\ Record(p, a, answer, t)
RecordDeclared(p, a, answer, t) == kind = "declared" /\ Record(p, a, answer, t)

\* A player's data is stored under the consent of that moment.
RecordAchievement(p, a, answer, t) ==
    /\ kind = "achievements" /\ proc[p].acct \in accounts \cap agreed
    /\ Record(p, a, answer, t)

\* mark_remaining_..._unevaluated(): the provider is unwell, the budget is
\* spent, or the command was interrupted.
StopEarly(p, t) ==
    /\ proc[p].pc = "running"
    /\ demand' = [demand EXCEPT ![proc[p].run] =
                    [a \in Apps |-> Unanswered(demand[proc[p].run][a], t)]]
    /\ UNCHANGED <<runs, nextRun, kind, by, fact, wishlist, accounts, agreed, proc>>

StopReviews(p, t) == kind = "reviews" /\ StopEarly(p, t)
StopDeclared(p, t) == kind = "declared" /\ StopEarly(p, t)
StopAchievements(p, t) == kind = "achievements" /\ StopEarly(p, t)

\* What the demand of a finished run says of it.
Outcome(rows) ==
    LET valid == \E a \in Apps :
            \/ rows[a].state \in {"ready", "not_found", "skipped"}
        unresolved == \E a \in Apps :
            \/ rows[a].state \in {"failed", "invalid", "unevaluated", "left"}
            \/ rows[a].good
    IN IF kind # "declared" \/ ~unresolved THEN "complete"
       ELSE IF valid THEN "partial" ELSE "failed"

\* The run is closed with its demand as `ended`; then history is pruned.
Finishes(p, ended, promoted, t) ==
    LET r == proc[p].run
        db == [Tables EXCEPT !.runs = Closed(runs, r, Outcome(ended), 0, promoted),
                             !.demand[r] = ended]
    IN /\ proc[p].pc = "running" /\ \A a \in Apps : demand[r][a].state # "running"
       /\ Is(r, "running")
       /\ Stored(Pruned(db, proc[p].acct, t))
       /\ proc' = [proc EXCEPT ![p] = Idle]
       /\ UNCHANGED <<nextRun, kind, wishlist, accounts, agreed>>

\* Targets nobody answered are closed with the run.
AllEnded(p, t) == [a \in Apps |-> Unanswered(demand[proc[p].run][a], t)]
AnyPromoted(rows) == \E a \in Apps : rows[a].promoted

FinishReviews(p, t) == kind = "reviews" /\ Finishes(p, AllEnded(p, t), TRUE, t)
FinishDeclared(p, t) ==
    kind = "declared" /\ Finishes(p, AllEnded(p, t), AnyPromoted(AllEnded(p, t)), t)
FinishAchievements(p, t) ==
    LET rows == demand[proc[p].run]
        ended == [a \in Apps |-> IF Awaited(proc[p].run, a)
                                 THEN [rows[a] EXCEPT !.state = "failed", !.at = t]
                                 ELSE rows[a]]
    IN kind = "achievements" /\ proc[p].run # 0 /\ Finishes(p, ended, TRUE, t)

-----------------------------------------------------------------------------
(* Wishlists and deletions *)

DropUnwished(db, lists) ==
    LET Dropped(h, a) == kind = "reviews" /\ a \notin Wished(lists) IN DropFacts(db, Dropped)

\* complete_wishlist_snapshot() drops the reviews nobody wishes for.
WishlistChanges(acct, apps) ==
    /\ kind = "reviews" /\ acct \in accounts /\ wishlist[acct] # apps
    /\ LET lists == [wishlist EXCEPT ![acct] = apps]
       IN wishlist' = lists /\ Stored(DropUnwished(Tables, lists))
    /\ UNCHANGED <<nextRun, kind, accounts, agreed, proc>>

\* _rehome_review_current_for_account(): a review this account fetched is
\* replaced by the last one another account holds, or goes.
ReadyElsewhere(acct, a, now) ==
    {r \in RunIds : Live(r) /\ by[r] # acct /\ demand[r][a].state = "ready"
                    /\ demand[r][a].at >= now - Keep}
RehomedNowhere(acct, now) ==   \* faulty: the review goes whoever else holds one
    [fact EXCEPT ![Everyone] = [a \in Apps |->
        IF fact[Everyone][a].known /\ (fact[Everyone][a].run = 0 \/ by[fact[Everyone][a].run] = acct)
        THEN NoFact ELSE fact[Everyone][a]]]

Rehomed(acct, now) ==
    [fact EXCEPT ![Everyone] = [a \in Apps |->
        LET f == fact[Everyone][a]
            sources == ReadyElsewhere(acct, a, now)
        IN IF ~f.known \/ (f.run # 0 /\ by[f.run] # acct) THEN f
           ELSE IF sources = {} THEN NoFact
           ELSE LET r == CHOOSE r \in sources : \A q \in sources \ {r} : StartedLater(r, q)
                IN [known |-> TRUE, run |-> r, at |-> demand[r][a].at]]]

Withdrawn(acct) == agreed \ {acct}

RunsOf(acct) == {r \in RunIds : Live(r) /\ by[r] = acct}
Detached(acct, now) ==
    DropRuns([Tables EXCEPT !.fact = IF kind = "reviews" THEN Rehomed(acct, now) ELSE fact],
             RunsOf(acct))

\* What one account asked for goes.
DeleteKind(acct, now) ==
    /\ acct \in accounts
    /\ Stored(DropUnwished(Detached(acct, now), wishlist))
    /\ agreed' = Withdrawn(acct)
    /\ UNCHANGED <<nextRun, kind, wishlist, accounts, proc>>

DeleteReviews(acct, now) == kind = "reviews" /\ DeleteKind(acct, now)

\* The declared facts themselves are public and stay.
DeleteDeclared(acct, now) == kind = "declared" /\ DeleteKind(acct, now)

\* delete_steam_account_data()
DeleteAccount(acct, now) ==
    /\ acct \in accounts
    /\ accounts' = accounts \ {acct} /\ agreed' = Withdrawn(acct)
    /\ LET lists == [wishlist EXCEPT ![acct] = {}]
           db == DropUnwished(Detached(acct, now), lists)
           Dropped(h, a) == h = acct
       IN wishlist' = lists /\ Stored(DropFacts(db, Dropped))
    /\ UNCHANGED <<nextRun, kind, proc>>

\* delete_all_steam_account_data(): the declared facts alone are kept.
DeleteAll ==
    /\ accounts # {}
    /\ accounts' = {} /\ agreed' = {} /\ wishlist' = [c \in Accounts |-> {}]
    /\ LET Dropped(h, a) == kind # "declared"
       IN Stored(DropFacts(DropRuns(Tables, RunIds), Dropped))
    /\ UNCHANGED <<nextRun, kind, proc>>

\* delete_review_data(), delete_declared_app_data() for every account
DeleteProvider ==
    /\ kind # "achievements"
    /\ LET Dropped(h, a) == TRUE IN Stored(DropFacts(DropRuns(Tables, RunIds), Dropped))
    /\ agreed' = {}
    /\ UNCHANGED <<nextRun, kind, wishlist, accounts, proc>>

SubjectStep(p) ==
    \/ \E t \in Times :
        \/ StopReviews(p, t) \/ StopDeclared(p, t) \/ StopAchievements(p, t)
        \/ FinishReviews(p, t) \/ FinishDeclared(p, t) \/ FinishAchievements(p, t)
        \/ \E a \in Apps, answer \in Answers :
            \/ RecordReview(p, a, answer, t) \/ RecordDeclared(p, a, answer, t)
            \/ RecordAchievement(p, a, answer, t)
    \/ \E acct \in Accounts, targeted \in SUBSET Apps, t \in Times :
        \/ /\ kind = "reviews"
           /\ \E skipFresh \in BOOLEAN : BeginReviews(p, acct, targeted, skipFresh, t)
        \/ /\ kind = "declared"
           /\ \E asked \in SUBSET Apps, now \in Times :
                BeginDeclared(p, acct, asked, targeted, t, now)
        \/ /\ kind = "achievements"
           /\ \E asked \in SUBSET Apps : BeginAchievements(p, acct, asked, targeted, t)

\* The store's clock at a deletion, as far as it matters: it tells which
\* reviews expired, and none has before Keep.
DeletionTimes ==
    IF kind = "reviews" THEN {t \in Times : t >= Keep \/ t = MaxTime} ELSE {MaxTime}

SubjectNext ==
    \/ \E p \in Proc : SubjectStep(p)
    \/ DeleteProvider \/ DeleteAll
    \/ \E acct \in Accounts :
        \/ \E apps \in SUBSET Apps : WishlistChanges(acct, apps)
        \/ \E now \in DeletionTimes :
            DeleteReviews(acct, now) \/ DeleteDeclared(acct, now) \/ DeleteAccount(acct, now)

SubjectSpec == SubjectInit /\ [][SubjectNext]_subjectvars

-----------------------------------------------------------------------------
(* query_achievements() *)

\* read_achievement_snapshot(): of each title the row of the newest run
AskedOf(acct, a) ==
    {r \in RunIds : Live(r) /\ by[r] = acct /\ demand[r][a].state # "none"}
ShownRun(acct, a) ==
    CHOOSE r \in AskedOf(acct, a) : \A q \in AskedOf(acct, a) \ {r} : StartedLater(r, q)
ShownState(acct, a, now) ==
    LET row == demand[ShownRun(acct, a)][a] IN
    IF row.at < now - Keep /\ row.state \notin {"unevaluated", "running", "left"}
    THEN "expired" ELSE row.state

LatestOf(acct) ==
    LET mine == {r \in RunIds : Live(r) /\ by[r] = acct} IN
    IF mine = {} THEN "absent"
    ELSE runs[CHOOSE r \in mine : \A q \in mine \ {r} : StartedLater(r, q)].status

AchievementsLabel(acct, stale, now) ==
    AchievementLabel(LatestOf(acct),
        {ShownState(acct, a, now) : a \in {b \in Apps : AskedOf(acct, b) # {}}}, stale)

-----------------------------------------------------------------------------
(* Types of the tables and of the commands. *)
SubjectTypeOK ==
    /\ runs \in [RunIds -> RunRecords] /\ nextRun \in 1 .. MaxRuns + 1
    /\ kind \in Kinds
    /\ by \in [RunIds -> Holders]
    /\ demand \in [RunIds -> [Apps -> Demands]]
    /\ fact \in [Holders -> [Apps -> Facts]]
    /\ wishlist \in [Accounts -> SUBSET Apps]
    /\ agreed \subseteq accounts /\ accounts \subseteq Accounts
    /\ proc \in [Proc -> [pc: {"idle", "running"},
                          acct: Holders, run: 0 .. MaxRuns]]

(* A title is asked about by one run at a time: for reviews by one of each  *)
(* account, for declared facts by one at all.  An answer is taken for any    *)
(* target that is still open, whatever became of its run                     *)
(* (record_review_result, record_declared_app_result), so a command slower   *)
(* than 15 minutes must find its target closed when another took it over     *)
(* (begin_review_sync, _declared_app_eligibility).                           *)
OneAskerPerTitle ==
    kind # "achievements" =>
        \A a \in Apps : \A q, r \in RunIds :
            /\ demand[q][a].state = "running" /\ demand[r][a].state = "running"
            /\ kind = "reviews" => by[q] = by[r]
            => q = r

(* A fact says what the run it names answered, and a review always names a   *)
(* run, whatever is pruned, quarantined, deleted or rehomed in between.      *)
FactsRestOnAnswers ==
    \A h \in Holders, a \in Apps :
        LET f == fact[h][a] IN
        /\ f.run # 0 =>
            /\ Live(f.run) /\ Holder(by[f.run]) = h
            /\ demand[f.run][a].state = "ready" /\ demand[f.run][a].at = f.at
        /\ kind = "reviews" /\ f.known => f.run # 0

(* An answer gives way only to one of a run that began later, and, but for   *)
(* achievements, that was not seen earlier, in whatever order overlapping    *)
(* runs answer.  Rehoming alone goes back to another account's answer.       *)
FactMovesForward ==
    \A h \in Holders, a \in Apps :
     LET old == fact[h][a]
         new == fact'[h][a]
     IN new.run \notin {0, old.run} /\ old.run # 0 =>
         \/ StartedLater(new.run, old.run) /\ (kind = "achievements" \/ new.at >= old.at)
         \/ \E acct \in accounts : by[old.run] = acct /\ runs'[old.run].status = "absent"
FactsMoveForward == [][FactMovesForward]_subjectvars

(* Deleting one account's reviews loses no review that another account still *)
(* wishes for and has an answer to that has not expired                      *)
(* (_rehome_review_current_for_account).                                     *)
DeletionSpares ==
    kind = "reviews" /\ proc' = proc =>
     \A a \in Wished(wishlist') :
         /\ fact[Everyone][a].known
         /\ \E r \in RunIds : /\ runs'[r].status # "absent"
                              /\ demand'[r][a].state = "ready"
                              /\ demand'[r][a].at >= MaxTime - Keep
         => fact'[Everyone][a].known
DeletionSparesOthers == [][DeletionSpares]_subjectvars

(* A title that a query of achievements reports as ready, and so counts what *)
(* is unlocked, is shown with the answer of the run whose row says so,       *)
(* though other runs asked about it since or before, and pruning takes facts *)
(* and rows by different clocks; for a row that is not older than its run.   *)
AchievementsMatch ==
    kind = "achievements" =>
        \A acct \in accounts, a \in Apps, now \in Times :
            (/\ AskedOf(acct, a) # {} /\ ShownState(acct, a, now) = "ready"
             /\ demand[ShownRun(acct, a)][a].at >= runs[ShownRun(acct, a)].started)
            => /\ fact[acct][a].known
               /\ fact[acct][a].run = ShownRun(acct, a)

=============================================================================
