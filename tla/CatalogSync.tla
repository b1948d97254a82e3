----------------------------- MODULE CatalogSync -----------------------------
(***************************************************************************)
(* The catalogue of titles: facts fetched for the titles that an account   *)
(* owns or that are installed (begin_catalog_sync,                         *)
(* complete_catalog_snapshot, finish_catalog_sync,                         *)
(* _prune_catalog_payloads, _delete_account_catalog_scope in               *)
(* src/steam_agent/storage.py; the driver in catalog_inventory.py).        *)
(*                                                                         *)
(* Every fact is kept twice, shared by everyone and for the account that   *)
(* asked.  Deleting an account erases what it asked for and keeps the      *)
(* shared facts others still need, moved to runs that name nobody.         *)
(*                                                                         *)
(* A command that synchronises or deletes holds the credential lock to its *)
(* end; scans of the machine do not.  Abstracted: a fact is the run that   *)
(* saw it; one machine; the pages of a scan; observations, which pruning   *)
(* cuts down to the facts.                                                 *)
(***************************************************************************)
EXTENDS SyncRuns, QueryLabels

CONSTANTS
    Accounts,   \* the accounts
    Nobody,     \* the subject of a run detached from its account
    Apps        \* titles

CatalogAssumption == Nobody \notin Accounts

VARIABLES
    subject,    \* catalog_sync_subjects: the account of a run
    demand,     \* catalog_sync_demand: its titles
    sourced,    \* catalog_sync_metadata: the runs whose provenance is kept
    shared,     \* catalog_current: by title, the run (0: no fact)
    own,        \* catalog_subject_current: by account and title
    owns,       \* owned_current: by account
    installed,  \* installed_current
    accounts,   \* the accounts there are
    command     \* the run of the command that holds the lock (0: none)

catalogvars == <<runs, nextRun, subject, demand, sourced, shared, own, owns,
                 installed, accounts, command>>

NoFacts == [a \in Apps |-> 0]

CatalogInit ==
    /\ SyncRunsInit
    /\ subject = [r \in RunIds |-> Nobody]
    /\ demand = [r \in RunIds |-> {}]
    /\ sourced = {}
    /\ shared = NoFacts
    /\ own = [c \in Accounts |-> NoFacts]
    /\ owns = [c \in Accounts |-> {}] /\ installed = {}
    /\ accounts = Accounts
    /\ command = 0

\* read_catalog_demand(), then begin_catalog_sync()
BeginCatalog(c) ==
    /\ command = 0 /\ CanOpen /\ c \in accounts
    /\ runs' = Opened(runs, 0) /\ nextRun' = nextRun + 1
    /\ subject' = [subject EXCEPT ![nextRun] = c]
    /\ demand' = [demand EXCEPT ![nextRun] = owns[c] \cup installed]
    /\ command' = nextRun
    /\ UNCHANGED <<sourced, shared, own, owns, installed, accounts>>

\* A fact gives way to one of a later run only.
Promoted(facts, r) ==
    [a \in Apps |-> IF a \in demand[r] /\ facts[a] <= r THEN r ELSE facts[a]]

\* _prune_catalog_payloads(): provenance no fact names goes.
Named(all, each) ==
    {all[a] : a \in Apps} \cup {each[c][a] : c \in Accounts, a \in Apps}

\* complete_catalog_snapshot(): every title demanded, or nothing
CompleteCatalog ==
    LET r == command
        each == [own EXCEPT ![subject[r]] = Promoted(@, r)]
    IN /\ command # 0
       /\ shared' = Promoted(shared, r)
       /\ own' = each
       /\ runs' = Closed(runs, r, "complete", 0, demand[r] # {})
       /\ sourced' = (sourced \cup {r}) \cap Named(shared', own')
       /\ command' = 0
       /\ UNCHANGED <<nextRun, subject, demand, owns, installed, accounts>>

\* finish_catalog_sync(): a stream that broke off, a refusal, an interrupt
FailCatalog(s) ==
    /\ command # 0
    /\ runs' = Closed(runs, command, s, 0, FALSE)
    /\ command' = 0
    /\ UNCHANGED <<nextRun, subject, demand, sourced, shared, own, owns, installed, accounts>>

\* A killed command frees the lock and leaves its run open for good.
CrashCatalog ==
    /\ command # 0
    /\ command' = 0
    /\ UNCHANGED <<runs, nextRun, subject, demand, sourced, shared, own, owns,
                   installed, accounts>>

-----------------------------------------------------------------------------
(* _delete_account_catalog_scope() *)

Of(c) == {r \in RunIds : subject[r] = c}

\* What someone else asked about or owns, and what is installed
Needed(c) ==
    installed
        \cup (UNION {demand[r] : r \in {q \in RunIds : subject[q] \in accounts \ {c}}})
        \cup (UNION {owns[d] : d \in accounts \ {c}})

\* The runs whose facts are kept under a new run each, in their order
Sources(c) == {r \in Of(c) : \E a \in Needed(c) : shared[a] = r}
DetachedId(c, r) == nextRun + Cardinality({q \in Sources(c) : q < r})

\* "shared catalog provenance is incomplete" refuses the deletion.
Detachable(c) == \A r \in Sources(c) : Is(r, "complete") /\ r \in sourced

DeleteAccountCatalog(c) ==
    LET new == {DetachedId(c, r) : r \in Sources(c)}
        moved == [a \in Apps |->
                    IF a \notin Needed(c) THEN 0
                    ELSE IF shared[a] \in Sources(c) THEN DetachedId(c, shared[a])
                    ELSE shared[a]]
        each == [own EXCEPT ![c] = NoFacts]
        kept == (sourced \cup new) \cap (Named(moved, each) \ Of(c))
        \* runs that name nobody and whose facts have all been replaced go too
        gone == Of(c) \cup {r \in RunIds : subject[r] = Nobody /\ r \notin kept}
    IN /\ command = 0 /\ c \in accounts
       /\ new \subseteq RunIds
       /\ Detachable(c)
       /\ accounts' = accounts \ {c}
       /\ owns' = [owns EXCEPT ![c] = {}]
       /\ shared' = moved /\ own' = each
       /\ sourced' = kept
       /\ runs' = [r \in RunIds |->
                     IF r \in new THEN EndedRun(NoRun, "complete", 0, TRUE)
                     ELSE IF r \in gone THEN NoRun ELSE runs[r]]
       /\ nextRun' = nextRun + Cardinality(new)
       /\ subject' = [r \in RunIds |-> IF r \in gone THEN Nobody ELSE subject[r]]
       /\ demand' = [r \in RunIds |-> IF r \in gone THEN {} ELSE demand[r]]
       /\ UNCHANGED <<installed, command>>

\* delete_all_steam_account_data()
DeleteAllCatalog ==
    /\ command = 0
    /\ runs' = [r \in RunIds |-> NoRun]
    /\ subject' = [r \in RunIds |-> Nobody] /\ demand' = [r \in RunIds |-> {}]
    /\ sourced' = {} /\ shared' = NoFacts /\ own' = [c \in Accounts |-> NoFacts]
    /\ owns' = [c \in Accounts |-> {}] /\ accounts' = {}
    /\ UNCHANGED <<nextRun, installed, command>>

-----------------------------------------------------------------------------
(* What the catalogue depends on: accounts, what they own (under the lock   *)
(* too), what is installed (at any time)                                    *)

AccountReturns(c) ==
    /\ command = 0 /\ c \notin accounts
    /\ accounts' = accounts \cup {c}
    /\ UNCHANGED <<runs, nextRun, subject, demand, sourced, shared, own, owns,
                   installed, command>>

Buys(c, apps) ==
    /\ command = 0 /\ c \in accounts /\ owns[c] # apps
    /\ owns' = [owns EXCEPT ![c] = apps]
    /\ UNCHANGED <<runs, nextRun, subject, demand, sourced, shared, own,
                   installed, accounts, command>>

Scans(apps) ==
    /\ installed # apps
    /\ installed' = apps
    /\ UNCHANGED <<runs, nextRun, subject, demand, sourced, shared, own, owns,
                   accounts, command>>

CatalogNext ==
    \/ CompleteCatalog \/ CrashCatalog \/ DeleteAllCatalog
    \/ \E s \in {"partial", "failed"} : FailCatalog(s)
    \/ \E c \in Accounts : BeginCatalog(c) \/ DeleteAccountCatalog(c) \/ AccountReturns(c)
    \/ \E apps \in SUBSET Apps : Scans(apps) \/ \E c \in Accounts : Buys(c, apps)

CatalogSpec == CatalogInit /\ [][CatalogNext]_catalogvars

-----------------------------------------------------------------------------
(* read_library_snapshot(): the catalogue's part of a library query          *)

Demanded(c) == owns[c] \cup installed

\* _latest_catalog_attempts(): the newest run that asked about a title (0: none)
AskedBy(c, a) == {r \in RunIds : Live(r) /\ subject[r] = c /\ a \in demand[r]}
Attempt(c, a) ==
    IF AskedBy(c, a) = {} THEN 0 ELSE CHOOSE r \in AskedBy(c, a) : \A q \in AskedBy(c, a) : q <= r

Missing(c) == {a \in Demanded(c) : own[c][a] = 0}
Unasked(c) == {a \in Demanded(c) : Attempt(c, a) = 0}
AttemptStatuses(c) == {runs[Attempt(c, a)].status : a \in Demanded(c) \ Unasked(c)}

CatalogueLabel(c, stale, abandoned) ==
    CatalogLabel(Missing(c), Unasked(c), AttemptStatuses(c), stale, abandoned)
LibraryQueryLabel(c, ownedLabel, installedLabel, stale, abandoned) ==
    LibraryLabel(ownedLabel, installedLabel, CatalogueLabel(c, stale, abandoned),
                 Missing(c) \cup Unasked(c) # {})

-----------------------------------------------------------------------------
(* Types of the tables. *)
CatalogTypeOK ==
    /\ runs \in [RunIds -> RunRecords] /\ nextRun \in 1 .. MaxRuns + 1
    /\ subject \in [RunIds -> Accounts \cup {Nobody}]
    /\ demand \in [RunIds -> SUBSET Apps]
    /\ sourced \subseteq RunIds
    /\ shared \in [Apps -> 0 .. MaxRuns]
    /\ own \in [Accounts -> [Apps -> 0 .. MaxRuns]]
    /\ owns \in [Accounts -> SUBSET Apps] /\ installed \subseteq Apps
    /\ accounts \subseteq Accounts /\ command \in 0 .. MaxRuns

(* Whatever accounts are deleted, a fact an account has is also shared, by  *)
(* a run at least as new, and every fact names a completed run whose        *)
(* provenance is kept: otherwise a read raises "catalog source provenance   *)
(* is missing" and deleting an account is refused with "shared catalog      *)
(* provenance is incomplete" (storage.py).                                  *)
FactsKeepTheirSource ==
    /\ \A c \in Accounts, a \in Apps : own[c][a] <= shared[a]
    /\ \A r \in Named(shared, own) \ {0} :
          Is(r, "complete") /\ runs[r].promoted /\ r \in sourced

(* A library query is "complete" only when both snapshots are and every      *)
(* title shown has the fact of the newest attempt that asked about it, or    *)
(* an older one while a newer attempt is under way: facts and attempts are   *)
(* read from tables that deletions and promotions change apart.              *)
CatalogLabelsMatch ==
    \A c \in accounts, o \in Labels, stale, abandoned \in BOOLEAN :
        LibraryQueryLabel(c, o, "complete", stale, abandoned) = "complete" =>
            /\ o = "complete"
            /\ \A a \in Demanded(c) :
                  /\ own[c][a] \in AskedBy(c, a)
                  /\ \/ own[c][a] = Attempt(c, a)
                     \/ Is(Attempt(c, a), "running") /\ ~abandoned

=============================================================================
