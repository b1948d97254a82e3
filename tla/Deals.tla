--------------------------------- MODULE Deals ---------------------------------
(***************************************************************************)
(* What a query says of the price of one wished title, from what two       *)
(* providers last answered: GG.deals, then CheapShark                      *)
(* (deal_query.py, deal_ranking.py, the deal of                            *)
(* wishlist_recommendation_query.py and wishlist_recommendations.py; the   *)
(* answers are stored as price_library.py and storage.py store them).      *)
(*                                                                         *)
(* An answer's offers are fresh for 6 hours, its lows for 24, and it is    *)
(* kept for 7 days: `age` is the interval it is in.  Abstracted: both      *)
(* providers compare games, never exact products; a run that has been      *)
(* abandoned counts as running, and the codes of failures are left out.    *)
(***************************************************************************)
EXTENDS Integers, FiniteSets

CONSTANT Quotes     \* the facts a provider may answer with, by provider

Providers == {"gg-deals", "cheapshark"}
Classes == {"official", "keyshop", "unknown"}     \* of stores; a low's scope names one

DealAssumption ==
    /\ DOMAIN Quotes = Providers
    /\ \A p \in Providers : \A quote \in Quotes[p] :
        /\ quote # {}
        /\ \A f \in quote : f \in [kind: {"offer", "low"}, class: Classes, amount: Nat, regular: Nat]

VARIABLES
    answer,     \* price_subject_current and price_current, by provider
    attempt     \* the newest run that demanded the title, by provider

dealvars == <<answer, attempt>>

NoAnswer == [outcome |-> "none", facts |-> {}, age |-> 0]

DealInit ==
    /\ answer = [p \in Providers |-> NoAnswer]
    /\ attempt = [p \in Providers |-> "none"]

\* begin_price_sync(): a bounded run targets the first titles only.
DealBegin(p, targeted) ==
    /\ attempt' = [attempt EXCEPT ![p] = IF targeted THEN "running" ELSE "untargeted"]
    /\ UNCHANGED answer

\* sync_wishlist_prices(), complete_price_sync(): an answer with no fact of
\* any kind is "not_found".  The answer of a run that a newer one overtook is
\* stored as well, unless the newer one has answered.
DealAnswer(p, facts, overtaken) ==
    /\ IF overtaken THEN attempt[p] \in {"running", "untargeted", "failed"}
                    ELSE attempt[p] = "running"
    /\ answer' = [answer EXCEPT ![p] =
                    [outcome |-> IF facts = {} THEN "not_found" ELSE "observed",
                     facts |-> facts, age |-> 0]]
    /\ attempt' = IF overtaken THEN attempt ELSE [attempt EXCEPT ![p] = "answered"]

\* finish_price_sync(), or an end that did not come to this title
DealFail(p) ==
    /\ attempt[p] = "running"
    /\ attempt' = [attempt EXCEPT ![p] = "failed"]
    /\ UNCHANGED answer

\* Time: past 6 hours, past 24, past 7 days (_expire_price_data(); the answer
\* goes before the run, which ended after it)
DealAges(p) ==
    /\ answer[p].outcome # "none"
    /\ answer' = [answer EXCEPT ![p] =
                    IF answer[p].age = 2 THEN NoAnswer ELSE [@ EXCEPT !.age = @ + 1]]
    /\ UNCHANGED attempt

\* The title leaves the wishlist, or the prices are deleted.
DealForgotten(open) ==
    /\ answer' = [p \in Providers |-> NoAnswer]
    /\ attempt' = [p \in Providers |-> IF open /\ attempt[p] = "running" THEN "running" ELSE "none"]

DealNext ==
    \/ \E p \in Providers :
        \/ DealFail(p) \/ DealAges(p)
        \/ \E targeted \in BOOLEAN : DealBegin(p, targeted)
        \/ \E facts \in Quotes[p] \cup {{}}, overtaken \in BOOLEAN : DealAnswer(p, facts, overtaken)
    \/ \E open \in BOOLEAN : DealForgotten(open)

DealSpec == DealInit /\ [][DealNext]_dealvars

-----------------------------------------------------------------------------
(* deals query: the state of each provider *)

FactFresh(p, f) == IF f.kind = "offer" THEN answer[p].age = 0 ELSE answer[p].age <= 1

\* _subject_state()
SubjectState(p) ==
    IF answer[p].outcome = "observed" /\ \E f \in answer[p].facts : f.kind = "offer"
    THEN "ready" ELSE "not_found"

\* _stored_provider_states()
StoredState(p, keyed) ==
    CASE attempt[p] \in {"running", "failed"} -> attempt[p]
      [] attempt[p] \in {"none", "untargeted", "answered"} /\ answer[p].outcome # "none" -> SubjectState(p)
      [] attempt[p] = "answered" /\ answer[p].outcome = "none" -> "expired"
      [] attempt[p] = "untargeted" /\ answer[p].outcome = "none" -> "unevaluated"
      [] attempt[p] = "none" /\ answer[p].outcome = "none" ->
            IF p = "gg-deals" /\ ~keyed THEN "failed" ELSE "not_synced"

\* _state_is_stale(): a subject is fresh as long as an offer.
StateIsStale(p, state) ==
    state = "expired" \/ (state \in {"ready", "not_found"} /\ answer[p].age > 0)

\* _candidate_coverage()
Covered(keyed) ==
    LET Fresh(p, states) ==
            LET state == StoredState(p, keyed) IN state \in states /\ ~StateIsStale(p, state)
    IN Fresh("gg-deals", {"ready"}) \/ Fresh("cheapshark", {"ready", "not_found"})

\* build_deal_query(): `wished` is what it says of the wishlist alone.
DealStatus(wished, keyed) ==
    IF wished = "unavailable" THEN "unavailable"
    ELSE IF \/ wished = "partial" \/ ~Covered(keyed)
            \/ \E p \in Providers :
                  \/ StateIsStale(p, StoredState(p, keyed))
                  \/ \E f \in answer[p].facts : ~FactFresh(p, f)
         THEN "partial" ELSE "complete"

\* _dispatch_deals_query(): a title of an account that is configured or not
DealQuery(configured, wished, keyed) ==
    IF configured THEN DealStatus(wished, keyed) ELSE "unavailable"

-----------------------------------------------------------------------------
(* rank_deals(), on the fresh facts of every provider *)

Evidence(kind, current) ==
    {f \in [provider: Providers, fact: UNION {answer[p].facts : p \in Providers}] :
        /\ f.fact \in answer[f.provider].facts /\ f.fact.kind = kind
        /\ current => FactFresh(f.provider, f.fact)}

Pairs(class) ==
    {pair \in Evidence("offer", TRUE) \X Evidence("low", TRUE) :
        /\ pair[1].provider = pair[2].provider
        /\ pair[1].fact.class = class /\ pair[2].fact.class = class}

BestPair(class) ==
    CHOOSE best \in Pairs(class) : \A pair \in Pairs(class) :
        \/ best[1].fact.amount < pair[1].fact.amount
        \/ best[1].fact.amount = pair[1].fact.amount /\ best[2].fact.amount <= pair[2].fact.amount

Eligible(class) == {f \in Evidence("offer", TRUE) : f.fact.class = class}
BestCurrent(class) ==
    CHOOSE best \in Eligible(class) : \A f \in Eligible(class) : best.fact.amount <= f.fact.amount

WithinFivePercent(current, low) ==
    IF low = 0 THEN current = 0 ELSE current * 10000 <= low * 10500

\* _discount_bps(), where it is above 0; GG.deals tells no regular price.
Discounted(offer) == offer.amount * 10000 + offer.regular <= offer.regular * 10000 /\ offer.regular # 0

\* _rank_candidate()
Unpriced(bucket, grade) == [bucket |-> bucket, grade |-> grade, provider |-> "none", current |-> -1, low |-> -1]
RankedDeal(class) ==
    IF Pairs(class) # {}
    THEN LET offer == BestPair(class)[1]  low == BestPair(class)[2] IN
         [bucket |-> IF offer.fact.amount <= low.fact.amount THEN "at_or_below_low"
                     ELSE IF WithinFivePercent(offer.fact.amount, low.fact.amount) THEN "within_5_percent"
                     ELSE IF Discounted(offer.fact) THEN "discounted" ELSE "current_only",
          grade |-> "normalized", provider |-> offer.provider,
          current |-> offer.fact.amount, low |-> low.fact.amount]
    ELSE IF Eligible(class) # {}
    THEN LET offer == BestCurrent(class) IN
         [bucket |-> IF Discounted(offer.fact) THEN "discounted" ELSE "current_only",
          grade |-> "normalized", provider |-> offer.provider,
          current |-> offer.fact.amount, low |-> -1]
    ELSE IF Evidence("offer", TRUE) \cup Evidence("low", TRUE) # {}
    THEN Unpriced("noncomparable", "degraded") ELSE Unpriced("unknown", "unknown")

-----------------------------------------------------------------------------
(* wishlist recommendations: the deal as evidence of a title's value *)

Retained == Evidence("offer", FALSE) \cup Evidence("low", FALSE)

\* wishlist_recommendation_query._deal(): "none", or the fields of a
\* DealDimension; "refused" is its ValueError.
Dimension(class, keyed) ==
    LET deal == RankedDeal(class)
        With(state, freshness) ==
            [state |-> state, bucket |-> deal.bucket, grade |-> deal.grade, freshness |-> freshness,
             current |-> deal.current, low |-> deal.low]
        fresh == {f \in Retained : FactFresh(f.provider, f.fact)}
        missed == \A p \in Providers :
                    StoredState(p, keyed) = "not_found" /\ ~StateIsStale(p, "not_found")
    IN IF deal.current # -1 THEN With("ready", "fresh")
       ELSE IF Retained # {} /\ deal.bucket = "noncomparable"
            THEN With("ready", IF fresh # {} THEN "fresh" ELSE "stale")
       ELSE IF Retained # fresh THEN With("unknown", "stale")
       ELSE IF ~missed THEN With("none", "unknown")
       ELSE IF answer["cheapshark"].outcome # "not_found" THEN With("refused", "unknown")
       ELSE With("not_found", "fresh")

\* DealDimension.__post_init__(), past the types of its fields
Accepted(d) ==
    /\ d.state = "ready" =>
        /\ d.bucket # "unknown"
        /\ d.bucket \in {"at_or_below_low", "within_5_percent"} => d.current # -1 /\ d.low # -1
        /\ d.bucket = "at_or_below_low" => d.current <= d.low
        /\ d.bucket = "within_5_percent" =>
              d.low < d.current /\ d.low # 0 /\ d.current * 10000 <= d.low * 10500
        /\ d.bucket \in {"discounted", "current_only"} => d.current # -1
        /\ IF d.bucket = "noncomparable"
           THEN d.current = -1 /\ d.low = -1 /\ d.grade = "degraded" ELSE d.grade # "unknown"
    /\ d.state # "ready" => d.current = -1 /\ d.low = -1 /\ d.bucket = "unknown" /\ d.grade = "unknown"
    /\ d.state = "unknown" => d.freshness = "stale"

\* wishlist_recommendations._deal(): what the value of the deal rests on
DealValue(d) ==
    CASE d.state = "none" -> "unknown"
      [] d.state = "ready" /\ d.bucket = "noncomparable" ->
            IF d.freshness = "stale" THEN "stale" ELSE "noncomparable"
      [] d.state = "ready" /\ d.bucket # "noncomparable" ->
            IF d.freshness = "fresh" THEN "supported" ELSE "stale"
      [] d.state = "not_found" -> "not_found"
      [] d.state = "unknown"   -> d.freshness

-----------------------------------------------------------------------------
(* A query answers, whatever the two providers left behind.                 *)
AlwaysAnswers ==
    \A class \in Classes, keyed \in BOOLEAN :
        LET d == Dimension(class, keyed) IN d.state # "refused" /\ Accepted(d)

(* A supported value rests on an offer of the last 6 hours, the least of    *)
(* its kind of store, and a low it is compared with is the same provider's, *)
(* of the same kind of store and no older than a day; "not found" on two    *)
(* answers of the last 6 hours that hold no fact at all.                    *)
ValueIsEvident ==
    \A class \in Classes, keyed \in BOOLEAN :
        LET d == Dimension(class, keyed)
            Offered(p) == {f.amount : f \in {g \in answer[p].facts : g.kind = "offer" /\ g.class = class}}
            Lows(p) == {f.amount : f \in {g \in answer[p].facts : g.kind = "low" /\ g.class = class}}
        IN /\ DealValue(d) = "supported" =>
                \E p \in Providers :
                    /\ answer[p].age = 0 /\ d.current \in Offered(p)
                    /\ d.low # -1 => d.low \in Lows(p)
                    /\ \A q \in Providers : answer[q].age = 0 => \A n \in Offered(q) : d.current <= n
           /\ DealValue(d) = "not_found" =>
                \A p \in Providers : answer[p].outcome = "not_found" /\ answer[p].age = 0

(* "complete" says that the newest run that asked either provider has       *)
(* answered, within 6 hours, with an offer or after the last of them, and   *)
(* that nothing shown is older than it may be.                              *)
CompleteIsCurrent ==
    \A configured, keyed \in BOOLEAN, wished \in {"complete", "partial", "unavailable"} :
        DealQuery(configured, wished, keyed) = "complete" =>
            /\ configured /\ wished = "complete"
            /\ \E p \in Providers :
                /\ answer[p].outcome # "none" /\ answer[p].age = 0
                /\ attempt[p] \notin {"running", "failed"}
                /\ p = "gg-deals" => \E f \in answer[p].facts : f.kind = "offer"
            /\ \A p \in Providers : \A f \in answer[p].facts : FactFresh(p, f)

(* The answers above, together.                                             *)
DealAnswersStand == AlwaysAnswers /\ ValueIsEvident /\ CompleteIsCurrent

=============================================================================
