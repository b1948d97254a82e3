---------------------------- MODULE ProductStore ----------------------------
(***************************************************************************)
(* The parts of the product store, one at a time: `part` names the one a   *)
(* behaviour follows, and the others' tables stay as they are.  The parts  *)
(* share the table of synchronisations but none of its rows.               *)
(***************************************************************************)
EXTENDS Integers, FiniteSets

CONSTANTS
    Proc, Accounts, Everyone, Nobody, Apps,
    SnapshotRuns, SnapshotTime, PriceRuns, PriceTime,   \* the bounds of each part
    SubjectRuns, SubjectTime, CatalogRuns, BudgetTime,
    Abandon, Serve, History,        \* 15 minutes; 24 hours or 7 days; 7 or 30 days
    SnapshotHistory,                \* 7 or 30 days, of snapshots
    MaxOwners, Interval, Window, Retry, MaxKeys,
    Names, Steam, Limits, MaxLent, Quotes, MaxEvents

VARIABLES
    part,
    runs, nextRun, proc, kind, demand, wishlist, accounts,      \* of several parts
    owner, consent, current, rows,                              \* snapshots
    cap, basis, price, since, overtaken,                        \* prices
    by, fact, agreed,                                           \* subjects
    subject, sourced, shared, own, owns, installed, command,    \* the catalogue
    limit, granted, deferred,                                   \* request budgets
    key, ref, cmd, entered, outcome, was, broken,               \* credentials
    topic, configured, profiles, library, copy, family, least, most, slug,  \* groups
    answer, attempt,                                            \* deals
    said, row, trait, ruled, rule                               \* advice

common == <<runs, nextRun, proc, kind, demand, wishlist, accounts>>
snapshots == <<owner, consent, current, rows>>
prices == <<cap, basis, price, since, overtaken>>
subjects == <<by, fact, agreed>>
catalogue == <<subject, sourced, shared, own, owns, installed, command>>
budgets == <<limit, granted, deferred>>
credentials == <<key, ref, cmd, entered, outcome, was, broken>>
groups == <<topic, configured, profiles, library, copy, family, least, most, slug>>
deals == <<answer, attempt>>
advice == <<said, row, trait, ruled, rule>>

storevars == <<part, common, snapshots, prices, subjects, catalogue, budgets, credentials,
               groups, deals, advice>>

Snapshot == INSTANCE SnapshotSync WITH
    MaxRuns <- SnapshotRuns, MaxTime <- SnapshotTime, Stale <- Abandon, Keep <- SnapshotHistory
Price == INSTANCE PriceSync WITH MaxRuns <- PriceRuns, MaxTime <- PriceTime, Week <- History
Subject == INSTANCE SubjectSync WITH
    MaxRuns <- SubjectRuns, MaxTime <- SubjectTime,
    Stale <- Abandon, Day <- Serve, Keep <- History
Catalog == INSTANCE CatalogSync WITH MaxRuns <- CatalogRuns, MaxTime <- 0
Budget == INSTANCE RequestBudget WITH MaxTime <- BudgetTime
Credential == INSTANCE Credentials
Group == INSTANCE Groups
Deal == INSTANCE Deals
Advice == INSTANCE Advice

ASSUME StoreAssumption ==
    /\ Snapshot!SyncRunsAssumption /\ Snapshot!SnapshotAssumption
    /\ Price!SyncRunsAssumption /\ Price!PriceAssumption
    /\ Subject!SyncRunsAssumption /\ Subject!SubjectAssumption
    /\ Catalog!SyncRunsAssumption /\ Catalog!CatalogAssumption
    /\ Budget!BudgetAssumption /\ Credential!CredentialAssumption
    /\ Group!GroupAssumption /\ Deal!DealAssumption /\ Advice!AdviceAssumption

Unused == "unused"

NoSnapshots == owner = Unused /\ consent = Unused /\ current = Unused /\ rows = Unused
NoPrices == cap = Unused /\ basis = Unused /\ price = Unused /\ since = Unused /\ overtaken = Unused
NoSubjects == by = Unused /\ fact = Unused /\ agreed = Unused
NoCatalogue ==
    /\ subject = Unused /\ sourced = Unused /\ shared = Unused /\ own = Unused
    /\ owns = Unused /\ installed = Unused /\ command = Unused
NoBudgets == limit = Unused /\ granted = Unused /\ deferred = Unused
NoCredentials ==
    /\ key = Unused /\ ref = Unused /\ cmd = Unused /\ entered = Unused
    /\ outcome = Unused /\ was = Unused /\ broken = Unused
NoGroups ==
    /\ topic = Unused /\ configured = Unused /\ profiles = Unused /\ library = Unused
    /\ copy = Unused /\ family = Unused /\ least = Unused /\ most = Unused /\ slug = Unused
NoDeals == answer = Unused /\ attempt = Unused
NoAdvice == said = Unused /\ row = Unused /\ trait = Unused /\ ruled = Unused /\ rule = Unused
NoRuns == runs = Unused /\ nextRun = Unused

NoCommon == NoRuns /\ proc = Unused /\ kind = Unused /\ demand = Unused /\ wishlist = Unused /\ accounts = Unused

StoreInit ==
    \/ /\ part = "snapshot" /\ Snapshot!SnapshotInit
       /\ demand = Unused /\ wishlist = Unused /\ accounts = Unused
       /\ NoPrices /\ NoSubjects /\ NoCatalogue /\ NoBudgets /\ NoCredentials
       /\ NoGroups /\ NoDeals /\ NoAdvice
    \/ /\ part = "price" /\ Price!PriceInit
       /\ kind = Unused /\ accounts = Unused
       /\ NoSnapshots /\ NoSubjects /\ NoCatalogue /\ NoBudgets /\ NoCredentials
       /\ NoGroups /\ NoDeals /\ NoAdvice
    \/ /\ part = "subject" /\ Subject!SubjectInit
       /\ NoSnapshots /\ NoPrices /\ NoCatalogue /\ NoBudgets /\ NoCredentials
       /\ NoGroups /\ NoDeals /\ NoAdvice
    \/ /\ part = "catalog" /\ Catalog!CatalogInit
       /\ proc = Unused /\ kind = Unused /\ wishlist = Unused
       /\ NoSnapshots /\ NoPrices /\ NoSubjects /\ NoBudgets /\ NoCredentials
       /\ NoGroups /\ NoDeals /\ NoAdvice
    \/ /\ part = "budget" /\ Budget!BudgetInit
       /\ NoCommon /\ NoSnapshots /\ NoPrices /\ NoSubjects /\ NoCatalogue /\ NoCredentials
       /\ NoGroups /\ NoDeals /\ NoAdvice
    \/ /\ part = "credential" /\ Credential!CredentialInit
       /\ NoCommon /\ NoSnapshots /\ NoPrices /\ NoSubjects /\ NoCatalogue /\ NoBudgets
       /\ NoGroups /\ NoDeals /\ NoAdvice
    \/ /\ part = "group" /\ Group!GroupInit
       /\ NoCommon /\ NoSnapshots /\ NoPrices /\ NoSubjects /\ NoCatalogue /\ NoBudgets
       /\ NoCredentials /\ NoDeals /\ NoAdvice
    \/ /\ part = "deal" /\ Deal!DealInit
       /\ NoCommon /\ NoSnapshots /\ NoPrices /\ NoSubjects /\ NoCatalogue /\ NoBudgets
       /\ NoCredentials /\ NoGroups /\ NoAdvice
    \/ /\ part = "advice" /\ Advice!AdviceInit
       /\ NoCommon /\ NoSnapshots /\ NoPrices /\ NoSubjects /\ NoCatalogue /\ NoBudgets
       /\ NoCredentials /\ NoGroups /\ NoDeals

StoreNext ==
    /\ part' = part
    /\ \/ /\ part = "snapshot" /\ Snapshot!SnapshotNext
          /\ UNCHANGED <<demand, wishlist, accounts, prices, subjects, catalogue,
                         budgets, credentials, groups, deals, advice>>
       \/ /\ part = "price" /\ Price!PriceNext
          /\ UNCHANGED <<kind, accounts, snapshots, subjects, catalogue, budgets, credentials, groups, deals, advice>>
       \/ /\ part = "subject" /\ Subject!SubjectNext
          /\ UNCHANGED <<snapshots, prices, catalogue, budgets, credentials, groups, deals, advice>>
       \/ /\ part = "catalog" /\ Catalog!CatalogNext
          /\ UNCHANGED <<proc, kind, wishlist, snapshots, prices, subjects, budgets, credentials, groups, deals, advice>>
       \/ /\ part = "budget" /\ Budget!BudgetNext
          /\ UNCHANGED <<common, snapshots, prices, subjects, catalogue, credentials, groups, deals, advice>>
       \/ /\ part = "credential" /\ Credential!CredentialNext
          /\ UNCHANGED <<common, snapshots, prices, subjects, catalogue, budgets, groups, deals, advice>>
       \/ /\ part = "group" /\ Group!GroupNext
          /\ UNCHANGED <<common, snapshots, prices, subjects, catalogue, budgets, credentials, deals, advice>>
       \/ /\ part = "deal" /\ Deal!DealNext
          /\ UNCHANGED <<common, snapshots, prices, subjects, catalogue, budgets, credentials,
                         groups, advice>>
       \/ /\ part = "advice" /\ Advice!AdviceNext
          /\ UNCHANGED <<common, snapshots, prices, subjects, catalogue, budgets, credentials,
                         groups, deals>>

StoreSpec == StoreInit /\ [][StoreNext]_storevars

-----------------------------------------------------------------------------
(* SnapshotSync: what a query shows as the snapshot is what the newest      *)
(* completed run saw, whole and with its evidence.                          *)
CurrentIsNewest == part = "snapshot" => Snapshot!CurrentIsNewest

(* PriceSync: a price is off the wishlist, or older than the title's place  *)
(* on it, only when a wishlist overtook the run that stored it.             *)
OnlyOvertakenLinger == part = "price" => Price!OnlyOvertakenLinger

(* SnapshotSync: a command that fails, dies or only begins leaves the       *)
(* snapshot alone.  PriceSync, SubjectSync: what is shown of a title never  *)
(* goes back to the answer of a run that began earlier, and is never that   *)
(* of a failed one.                                                         *)
ShownMovesForward ==
    [][/\ part = "snapshot" => Snapshot!SnapshotKept
       /\ part = "price" => Price!PriceMovesForward
       /\ part = "subject" => Subject!FactMovesForward]_storevars

(* SubjectSync: a provider is asked about a title by one run at a time.     *)
OneAskerPerTitle == part = "subject" => Subject!OneAskerPerTitle

(* SubjectSync: deleting one account's reviews loses none that another      *)
(* account wishes for and has an answer to.                                 *)
DeletionSparesOthers == [][part = "subject" => Subject!DeletionSpares]_storevars

(* SubjectSync, CatalogSync: every fact is what the run it names answered,  *)
(* and that run and its provenance are kept, whatever is pruned,            *)
(* quarantined, deleted or moved to runs that name nobody; an account's     *)
(* catalogue facts are also shared.                                         *)
FactsRestOnAnswers ==
    /\ part = "subject" => Subject!FactsRestOnAnswers
    /\ part = "catalog" => Catalog!FactsKeepTheirSource

(* RequestBudget: requests are granted an interval apart and after every    *)
(* cooldown.                                                                *)
RequestsSpaced == [][part = "budget" => Budget!RequestSpaced]_storevars

(* Credentials: a command that fails leaves the key and its reference as    *)
(* they were, or says that it could not.                                    *)
FailuresUndone == part = "credential" => Credential!FailuresUndone

(* Groups, Deals: what a query says of a group's copies and eligibility,    *)
(* and of a title's price, is what the facts it holds mean, after any       *)
(* edits, answers, failures and deletions.                                  *)
AnswersStand ==
    /\ part = "group" => Group!GroupAnswersStand
    /\ part = "deal" => Deal!DealAnswersStand

(* Advice: what the tables hold is the player's last word on each thing,    *)
(* and a title is recommended by it: the unknown is never taken for a yes.  *)
AdviceStands == part = "advice" => Advice!AdviceStands

(* SnapshotSync, CatalogSync, SubjectSync: what a query says of the          *)
(* evidence it shows, and whose evidence it names, fits what it shows.       *)
LabelsMatch ==
    /\ part = "snapshot" => Snapshot!SnapshotLabelsMatch
    /\ part = "catalog" => Catalog!CatalogLabelsMatch
    /\ part = "subject" => Subject!AchievementsMatch

=============================================================================
