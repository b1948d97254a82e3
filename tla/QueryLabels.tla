------------------------------ MODULE QueryLabels ------------------------------
(***************************************************************************)
(* What a query says of the evidence it shows (src/steam_agent/cli.py):    *)
(* "complete", "partial" or "unavailable".  The items come from the tables *)
(* that promotions write, the label from the rows of the synchronisations; *)
(* nothing but those promotions keeps the two in step.                     *)
(*                                                                         *)
(* `latest` is the status of the newest attempt ("absent": there is none), *)
(* `good` says that a completed one exists, `stale` that it is older than  *)
(* the freshness policy, `abandoned` that the newest attempt has been      *)
(* running for more than 15 minutes.                                       *)
(***************************************************************************)

Labels == {"complete", "partial", "unavailable"}

AccountLabelHopeful(latest, good, stale, abandoned) ==   \* faulty: a failed attempt is passed over
    CASE ~good     -> IF latest = "complete" THEN "complete" ELSE "unavailable"
      [] good /\ stale -> "partial"
      [] OTHER     -> IF latest = "running" /\ abandoned THEN "partial" ELSE "complete"

\* _account_snapshot_completeness(): owned, installed, wishlist
AccountLabel(latest, good, stale, abandoned) ==
    CASE latest = "absent"   -> "unavailable"
      [] latest = "complete" -> IF stale THEN "partial" ELSE "complete"
      [] latest \notin {"absent", "complete"} /\ ~good -> "unavailable"
      [] latest = "running" /\ good -> IF stale \/ abandoned THEN "partial" ELSE "complete"
      [] latest \in {"failed", "partial"} /\ good -> "partial"

\* build_deal_query(): what a query of deals says of the wish list alone
WishlistLabel(latest, good, stale, abandoned) ==
    IF ~good THEN "unavailable"
    ELSE IF stale \/ latest \in {"failed", "partial"} \/ (latest = "running" /\ abandoned)
         THEN "partial" ELSE "complete"

\* _validate_wishlist_state(): its ValueError is caught by no query of deals.
WishlistAccepted(latest, good, fresh) ==
    /\ fresh => good
    /\ latest = "complete" => good

\* _activity_query_completeness("activity"): a refresh under way is never complete.
ActivityLabel(latest, good, stale) ==
    IF latest = "absent" \/ (latest # "complete" /\ ~good) THEN "unavailable"
    ELSE IF latest # "complete" \/ stale THEN "partial" ELSE "complete"

\* _activity_query_completeness("achievements"): by the state of each title
AchievementLabel(latest, states, stale) ==
    IF latest = "absent" THEN "unavailable"
    ELSE IF latest # "complete" \/ stale
            \/ states \cap {"failed", "running", "unevaluated", "expired"} # {}
         THEN "partial" ELSE "complete"

\* _catalog_completeness(): missing, titles without a fact; unasked, titles
\* no attempt demanded; attempts, the statuses of the newest attempt of each
CatalogLabel(missing, unasked, attempts, stale, abandoned) ==
    LET failed == attempts \cap {"failed", "partial"} # {}
        running == "running" \in attempts
    IN IF missing # {} \/ unasked # {}
       THEN IF (running \/ failed) /\ unasked = {} THEN "partial" ELSE "unavailable"
       ELSE IF failed \/ stale \/ (running /\ abandoned) THEN "partial" ELSE "complete"

\* _dispatch_account_games_query(): the three labels of a library query; a
\* capability is missing exactly where its own label is unavailable, and for
\* the catalogue wherever a title lacks a fact or an attempt.
LibraryLabel(owned, installed, catalog, catalogMissing) ==
    LET missing == "unavailable" \in {owned, installed} \/ catalogMissing
        usable == owned # "unavailable" \/ installed # "unavailable"
    IN IF missing /\ ~usable THEN "unavailable"
       ELSE IF missing \/ "partial" \in {owned, installed, catalog} THEN "partial"
       ELSE "complete"

=============================================================================
