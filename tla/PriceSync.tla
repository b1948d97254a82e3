------------------------------- MODULE PriceSync -------------------------------
(***************************************************************************)
(* Prices of the titles on one account's wishlist: the wishlist snapshot,  *)
(* the price synchronisations that take their demand from it, and the      *)
(* cache of prices (begin_price_sync, complete_price_sync,                 *)
(* finish_price_sync, _expire_price_data, _prune_price_cache_to_wishlist   *)
(* and complete_wishlist_snapshot in src/steam_agent/storage.py; the       *)
(* driver in price_library.py).                                            *)
(*                                                                         *)
(* Prices are promoted title by title: a run that fails half way keeps     *)
(* what it saw.  Between the read of the wishlist, the begin of the run    *)
(* and its end any other command may run.                                  *)
(*                                                                         *)
(* A behaviour follows one provider and one country: their rows never      *)
(* meet.  Abstracted: a price is the run that observed it and when; the    *)
(* observations, pruned to the current prices by the transaction that      *)
(* inserts them; the 24 hours after which the driver refuses a wishlist.   *)
(***************************************************************************)
EXTENDS SyncRuns

CONSTANTS
    Proc,    \* commands that may be under way
    Apps,    \* the titles a wishlist may hold
    Week     \* 7 days: how long a price may be kept

PriceAssumption == Week \in Nat

VARIABLES
    cap,         \* the capability of a run: "wishlist" or "prices"
    demand,      \* price_sync_demand: the titles of a price run, and those targeted
    basis,       \* wishlist_sync_run_id of a price run
    wishlist,    \* wishlist_current, and the run that promoted it
    price,       \* price_subject_current and price_current, by title
    proc,        \* the commands
    since,       \* for the properties: the run that put a title on the wishlist
    overtaken    \* for the properties: price runs that ended on an old wishlist

pricevars == <<runs, nextRun, cap, demand, basis, wishlist, price,
               proc, since, overtaken>>

Outcomes == {"observed", "not_found"}
Unpriced == [run |-> 0, outcome |-> "none", at |-> 0]
Prices == [run: 0 .. MaxRuns, outcome: Outcomes \cup {"none"}, at: Times]
Idle == [pc |-> "idle", run |-> 0]
NoDemand == [all |-> {}, targeted |-> {}]

PriceInit ==
    /\ SyncRunsInit
    /\ cap = [r \in RunIds |-> "wishlist"]
    /\ demand = [r \in RunIds |-> NoDemand]
    /\ basis = [r \in RunIds |-> 0]
    /\ wishlist = [run |-> 0, apps |-> {}]
    /\ price = [a \in Apps |-> Unpriced]
    /\ proc = [p \in Proc |-> Idle]
    /\ since = [a \in Apps |-> 0] /\ overtaken = {}

Frees(p) == proc' = [proc EXCEPT ![p] = Idle]
Of(c) == {r \in RunIds : Live(r) /\ cap[r] = c}
Newest(S) == IF S = {} THEN 0 ELSE CHOOSE r \in S : \A q \in S : q <= r
WishlistRuns == Of("wishlist")
LatestAttempt == Newest(WishlistRuns)
LatestComplete == Newest({r \in WishlistRuns : Is(r, "complete")})

-----------------------------------------------------------------------------
(* The wishlist *)

BeginWishlist(p) ==
    /\ proc[p].pc = "idle" /\ CanOpen
    /\ runs' = Opened(runs, 0) /\ nextRun' = nextRun + 1
    /\ cap' = [cap EXCEPT ![nextRun] = "wishlist"]
    /\ proc' = [proc EXCEPT ![p] = [pc |-> "wishlist", run |-> nextRun]]
    /\ UNCHANGED <<demand, basis, wishlist, price, since, overtaken>>

PrunedPricesNone(apps) == price   \* faulty: the cache is left to expire

\* _prune_price_cache_to_wishlist(): prices off the wishlist go, and so does
\* the demand of the runs that have ended.
PrunedPrices(apps) == [a \in Apps |-> IF a \in apps THEN price[a] ELSE Unpriced]
PrunedDemand(apps) ==
    [r \in RunIds |->
        IF Is(r, "running") THEN demand[r]
        ELSE [all |-> demand[r].all \cap apps, targeted |-> demand[r].targeted \cap apps]]

\* complete_wishlist_snapshot()
CompleteWishlist(p, apps) ==
    LET r == proc[p].run
        newer == \E q \in WishlistRuns : q > r /\ Is(q, "complete")
    IN /\ proc[p].pc = "wishlist" /\ Live(r) /\ Is(r, "running")
       /\ runs' = Closed(runs, r, "complete", 0, ~newer)
       /\ IF newer
          THEN UNCHANGED <<wishlist, price, demand, since>>
          ELSE /\ wishlist' = [run |-> r, apps |-> apps]
               /\ price' = PrunedPrices(apps)
               /\ demand' = PrunedDemand(apps)
               /\ since' = [a \in Apps |->
                              IF a \notin apps THEN 0
                              ELSE IF a \in wishlist.apps THEN since[a] ELSE r]
       /\ Frees(p)
       /\ UNCHANGED <<nextRun, cap, basis, overtaken>>

\* finish_wishlist_sync()
FailWishlist(p) ==
    LET r == proc[p].run IN
    /\ proc[p].pc = "wishlist" /\ Live(r) /\ Is(r, "running")
    /\ runs' = Closed(runs, r, "failed", 0, FALSE)
    /\ Frees(p)
    /\ UNCHANGED <<nextRun, cap, demand, basis, wishlist, price, since, overtaken>>

-----------------------------------------------------------------------------
(* The price synchronisation *)

\* _expire_price_data(): prices of a week, then the runs of a week, the open
\* ones among them by when they began; their prices go with them.
ExpiredRuns(table, t) ==
    {r \in RunIds :
        /\ cap[r] = "prices" /\ table[r].status # "absent"
        /\ (IF table[r].status = "running" THEN table[r].started ELSE table[r].completed) <= t - Week}
Expired(table, prices, t) ==
    [a \in Apps |-> IF \/ prices[a].run # 0 /\ prices[a].at + Week <= t
                       \/ prices[a].run \in ExpiredRuns(table, t)
                    THEN Unpriced ELSE prices[a]]
Expire(table, prices, t) ==
    LET gone == ExpiredRuns(table, t) IN
    /\ runs' = Without(table, gone)
    /\ price' = Expired(table, prices, t)
    /\ demand' = [r \in RunIds |-> IF r \in gone THEN NoDemand ELSE demand[r]]

\* read_price_snapshot() expires first; the driver then reads the wishlist and
\* goes on when its latest attempt is its latest success.
ReadDemand(p, t) ==
    /\ proc[p].pc = "idle"
    /\ Expire(runs, price, t)
    /\ proc' = IF /\ LatestComplete # 0 /\ LatestAttempt = LatestComplete
                  /\ wishlist.apps # {}
               THEN [proc EXCEPT ![p] = [pc |-> "demand", run |-> LatestComplete]]
               ELSE proc
    /\ UNCHANGED <<nextRun, cap, basis, wishlist, since, overtaken>>

\* The demand is checked against the wishlist inside the transaction.
StillCurrent(w) ==
    /\ Live(w) /\ Is(w, "complete") /\ runs[w].promoted
    /\ LatestComplete = w /\ LatestAttempt = w

\* begin_price_sync(); the provider is asked about the targeted titles.
BeginPrices(p, targeted, t) ==
    LET w == proc[p].run IN
    /\ proc[p].pc = "demand" /\ CanOpen
    /\ StillCurrent(w)
    /\ targeted # {} /\ targeted \subseteq wishlist.apps
    /\ runs' = Opened(runs, t) /\ nextRun' = nextRun + 1
    /\ cap' = [cap EXCEPT ![nextRun] = "prices"]
    /\ basis' = [basis EXCEPT ![nextRun] = w]
    /\ demand' = [demand EXCEPT ![nextRun] = [all |-> wishlist.apps, targeted |-> targeted]]
    /\ proc' = [proc EXCEPT ![p] = [pc |-> "prices", run |-> nextRun]]
    /\ UNCHANGED <<wishlist, price, since, overtaken>>

\* A price gives way to one of a later run only.
Replaces(r, a) == price[a].run <= r

Promoted(r, seen, outcome, t) ==
    [a \in Apps |-> IF a \in seen /\ Replaces(r, a)
                    THEN [run |-> r, outcome |-> outcome[a], at |-> t] ELSE price[a]]

\* complete_price_sync(): some of the targets, or all of them ("complete"),
\* observed no earlier than the run began.  Promotion, expiry and pruning are
\* one transaction.  The driver goes on to the next provider with the same
\* wishlist, or ends.
CompletePrices(p, seen, outcome, again, t) ==
    LET r == proc[p].run
        table == Closed(runs, r, IF seen = demand[r].targeted THEN "complete" ELSE "partial", t,
                        \E a \in seen : Replaces(r, a))
    IN /\ proc[p].pc = "prices" /\ Live(r) /\ Is(r, "running")
       /\ seen # {} /\ seen \subseteq demand[r].targeted /\ runs[r].started <= t
       /\ Expire(table, Promoted(r, seen, outcome, t), t)
       /\ overtaken' = IF wishlist.run = basis[r] THEN overtaken ELSE overtaken \cup {r}
       /\ proc' = [proc EXCEPT ![p] =
                     IF again THEN [pc |-> "demand", run |-> basis[r]] ELSE Idle]
       /\ UNCHANGED <<nextRun, cap, basis, wishlist, since>>

\* finish_price_sync(): nothing was observed.
FailPrices(p, t) ==
    LET r == proc[p].run IN
    /\ proc[p].pc = "prices" /\ Live(r) /\ Is(r, "running")
    /\ runs' = Closed(runs, r, "failed", t, FALSE)
    /\ Frees(p)
    /\ UNCHANGED <<nextRun, cap, demand, basis, wishlist, price, since, overtaken>>

\* A command that is killed, or refused by a transaction: its run stays open.
Crash(p) ==
    /\ proc[p].pc # "idle"
    /\ Frees(p)
    /\ UNCHANGED <<runs, nextRun, cap, demand, basis, wishlist, price, since, overtaken>>

\* delete_price_data()
DeletePrices ==
    /\ Of("prices") # {}
    /\ runs' = Without(runs, Of("prices"))
    /\ price' = [a \in Apps |-> Unpriced]
    /\ demand' = [r \in RunIds |-> NoDemand]
    /\ UNCHANGED <<nextRun, cap, basis, wishlist, proc, since, overtaken>>

PriceStep(p) ==
    \/ BeginWishlist(p) \/ FailWishlist(p) \/ Crash(p)
    \/ \E apps \in SUBSET Apps : CompleteWishlist(p, apps)
    \/ \E t \in Times :
        \/ ReadDemand(p, t) \/ FailPrices(p, t)
        \/ \E targeted \in SUBSET Apps : BeginPrices(p, targeted, t)
        \/ \E seen \in SUBSET Apps, outcome \in [Apps -> Outcomes], again \in BOOLEAN :
              CompletePrices(p, seen, outcome, again, t)

PriceNext == (\E p \in Proc : PriceStep(p)) \/ DeletePrices
PriceSpec == PriceInit /\ [][PriceNext]_pricevars

-----------------------------------------------------------------------------
(* Types of the tables and of the commands. *)
PriceTypeOK ==
    /\ runs \in [RunIds -> RunRecords] /\ nextRun \in 1 .. MaxRuns + 1
    /\ cap \in [RunIds -> {"wishlist", "prices"}]
    /\ demand \in [RunIds -> [all: SUBSET Apps, targeted: SUBSET Apps]]
    /\ basis \in [RunIds -> 0 .. MaxRuns]
    /\ wishlist \in [run: 0 .. MaxRuns, apps: SUBSET Apps]
    /\ price \in [Apps -> Prices]
    /\ proc \in [Proc -> [pc: {"idle", "wishlist", "demand", "prices"}, run: 0 .. MaxRuns]]
    /\ since \in [Apps -> 0 .. MaxRuns] /\ overtaken \subseteq RunIds

(* A title's price was asked for while the title has been on the wishlist:  *)
(* one that left and came back starts anew (_prune_price_cache_to_wishlist).*)
PriceOfThisMembership ==
    \A a \in Apps : price[a].run # 0 =>
        a \in wishlist.apps /\ basis[price[a].run] >= since[a]

(* It holds but for prices stored by a run that a wishlist overtook between *)
(* its begin and its end: nothing else leaves a price off the wishlist.     *)
OnlyOvertakenLinger ==
    \A a \in Apps : price[a].run # 0 =>
        \/ a \in wishlist.apps /\ basis[price[a].run] >= since[a]
        \/ price[a].run \in overtaken

(* The price shown is of a run that still exists and ended well, and was    *)
(* asked of the provider; a newer run's answer is never put back to an      *)
(* older one's (complete_price_sync).                                       *)
PriceMovesForward ==
    \A a \in Apps :
     /\ price'[a].run # 0 =>
           /\ runs'[price'[a].run].status \in {"complete", "partial"}
           /\ runs'[price'[a].run].promoted
     /\ price'[a].run \in {0} \cup price[a].run .. MaxRuns
PricesMoveForward == [][PriceMovesForward]_pricevars

=============================================================================
