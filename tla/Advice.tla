-------------------------------- MODULE Advice --------------------------------
(***************************************************************************)
(* What a player says of one title and of one trait, kept as a log and as  *)
(* the tables of what holds now (feedback.py; apply_explicit_feedback_     *)
(* fields() and its kin in storage.py), and what the two recommenders make *)
(* of it: the gates in front of the title, what counts for and against it, *)
(* and how complete they call their answer (recommendations.py,            *)
(* recommendation_query.py, wishlist_recommendations.py,                   *)
(* wishlist_recommendation_query.py and their commands in cli.py).         *)
(*                                                                         *)
(* Every command is one transaction on a configured account.  Abstracted:  *)
(* of the points, all but their sign; the evidence of play and             *)
(* achievements, of which only the state counts here.                      *)
(***************************************************************************)
EXTENDS Integers, Sequences, FiniteSets

CONSTANT MaxEvents      \* bound: events of both logs

AdviceAssumption == MaxEvents \in Nat

Fields == {"rating", "play_state", "snooze", "minimum", "remaining"}

Null == -1

\* What may be said, and the blank that stands for NULL and for no row
Blank == [rating |-> "none", play_state |-> "none", snooze |-> Null, minimum |-> Null,
          remaining |-> Null, trait |-> "none", rule |-> <<"none", "none", 0>>]
Values == [
    rating |-> {"liked", "disliked", "neutral"},
    play_state |-> {"finished", "user_abandoned", "active"},
    snooze |-> {1, 2},          \* until then
    minimum |-> {0, 90},        \* minutes of a session
    remaining |-> {0, 90},      \* minutes to the end
    trait |-> {"present", "absent", "unknown"},
    rule |->        \* kind, strength, weight; set_rule() refuses a hard "prefer".
        ({"prefer", "avoid", "require"} \X {"soft"} \X {0, 1})
        \cup ({"avoid", "require"} \X {"hard"} \X {0, 1})]
Sayable(kind) == Values[kind] \cup {Blank[kind]}

VARIABLES
    said,       \* explicit_feedback_events
    row,        \* explicit_feedback_current: one row, when it is held
    trait,      \* explicit_trait_current
    ruled,      \* preference_rule_events
    rule        \* preference_rules_current

advicevars == <<said, row, trait, ruled, rule>>

EmptyRow == [held |-> FALSE, last |-> 0, at |-> [f \in Fields |-> Blank[f]]]
Unsaid(kind) == [value |-> Blank[kind], event |-> 0]

AdviceInit ==
    /\ said = <<>> /\ row = EmptyRow /\ trait = Unsaid("trait")
    /\ ruled = <<>> /\ rule = Unsaid("rule")

CanSay(n) == Len(said) + Len(ruled) + n <= MaxEvents
Event(kind, value) == [kind |-> kind, value |-> value]

\* _remove_empty_feedback_current()
WithoutEmpty(r) == IF \A f \in Fields : r.at[f] = Blank[f] THEN EmptyRow ELSE r

\* apply_explicit_feedback_fields(), of the fields that are given another value:
\* one that is given its own leaves no event and is as one not given, and so is
\* the clearing of what is blank.
ApplyFields(changes) ==
    LET At(f) == {i \in DOMAIN changes : changes[i].kind = f}
    IN /\ \A i \in DOMAIN changes : row.at[changes[i].kind] # changes[i].value
       /\ CanSay(Len(changes))
       /\ said' = said \o changes
       /\ row' = WithoutEmpty(
            [held |-> TRUE, last |-> Len(said) + Len(changes),
             at |-> [f \in Fields |-> IF At(f) = {} THEN row.at[f] ELSE changes[CHOOSE i \in At(f) : TRUE].value]])
       /\ UNCHANGED <<trait, ruled, rule>>

\* set_explicit_trait()
SetTrait(value) ==
    /\ value # trait.value /\ CanSay(1)
    /\ said' = Append(said, Event("trait", value))
    /\ trait' = [value |-> value, event |-> Len(said) + 1]
    /\ UNCHANGED <<row, ruled, rule>>

\* clear_explicit_trait()
ClearTrait ==
    /\ trait.event # 0 /\ CanSay(1)
    /\ said' = Append(said, Event("trait", Blank.trait))
    /\ trait' = Unsaid("trait")
    /\ row' = WithoutEmpty(row)
    /\ UNCHANGED <<ruled, rule>>

\* set_preference_rule()
SetRule(value) ==
    /\ value # rule.value /\ CanSay(1)
    /\ ruled' = Append(ruled, Event("rule", value))
    /\ rule' = [value |-> value, event |-> Len(ruled) + 1]
    /\ UNCHANGED <<said, row, trait>>

\* remove_preference_rule()
RemoveRule ==
    /\ rule.event # 0 /\ CanSay(1)
    /\ ruled' = Append(ruled, Event("rule", Blank.rule))
    /\ rule' = Unsaid("rule")
    /\ UNCHANGED <<said, row, trait>>

\* FeedbackService: a blank stands for --clear.
Rate == \E v \in Sayable("rating") : ApplyFields(<<Event("rating", v)>>)
PlayState == \E v \in Sayable("play_state") : ApplyFields(<<Event("play_state", v)>>)
Snooze == \E v \in Sayable("snooze") : ApplyFields(<<Event("snooze", v)>>)
Estimate ==
    \/ \E f \in {"minimum", "remaining"} : \E v \in Sayable(f) : ApplyFields(<<Event(f, v)>>)
    \/ \E m \in Sayable("minimum"), r \in Sayable("remaining") :
          ApplyFields(<<Event("minimum", m), Event("remaining", r)>>)
Trait == ClearTrait \/ \E v \in Values.trait : SetTrait(v)
Preferences == RemoveRule \/ \E v \in Values.rule : SetRule(v)

\* _dispatch_feedback(): feedback rate; finish, abandon, resume, clear-state;
\* snooze; estimate; trait; preferences set, remove
AdviceNext == Rate \/ PlayState \/ Snooze \/ Estimate \/ Trait \/ Preferences

AdviceSpec == AdviceInit /\ [][AdviceNext]_advicevars

-----------------------------------------------------------------------------
(* What a query reads *)

NewestSaid(kind) ==
    LET events == {i \in DOMAIN said : said[i].kind = kind}
    IN IF events = {} THEN 0 ELSE CHOOSE i \in events : \A j \in events : j <= i

\* list_explicit_feedback(): a title is listed by its row or its trait, and the
\* evidence of a field is its newest event.
Listed == row.held \/ trait.event # 0
Read(f) == IF Listed THEN row.at[f] ELSE Blank[f]

\* The events a finding rests on, told apart by their log
Said(event) == IF event = 0 THEN {} ELSE {<<"feedback", event>>}
Ruled(event) == IF event = 0 THEN {} ELSE {<<"preference", event>>}
FieldEvidence(f) == IF Listed THEN Said(NewestSaid(f)) ELSE {}
RuleEvidence == Ruled(rule.event) \cup Said(trait.event)

\* A gate names what it found and the events it found it by.
Gate(name, state, by) == [name |-> name, state |-> state, by |-> by]

\* _bool_gate()
BoolGate(actual, expected) ==
    IF actual = "unknown" THEN "unknown" ELSE IF actual = expected THEN "pass" ELSE "fail"

TraitGateHopeful(expected) ==   \* faulty: what nobody said stands in nobody's way
    IF trait.value \in {"none", "unknown", expected} THEN "pass" ELSE "fail"

\* _trait_gate(); the wish list's gates say the same.
TraitGate(expected) ==
    IF trait.value \in {"none", "unknown"} THEN "unknown"
    ELSE IF trait.value = expected THEN "pass" ELSE "fail"

Wanted == IF rule.value[1] = "require" THEN "present" ELSE "absent"
RuleGate(name) ==
    IF rule.value[2] # "hard" THEN {}
    ELSE {Gate(name, TraitGate(Wanted), RuleEvidence)}

-----------------------------------------------------------------------------
(* recommendations wishlist: _evaluate() *)

WishGates(now) ==
    (IF Read("play_state") # "user_abandoned" THEN {}
     ELSE {Gate("explicit_hard_exclude", "fail", FieldEvidence("play_state"))})
    \cup (IF Read("snooze") <= now THEN {}
          ELSE {Gate("active_snooze", "fail", FieldEvidence("snooze"))})
    \cup RuleGate("hard_rule")

\* rank_wishlist(): every override must name a gate that does not pass; it
\* makes that gate pass.  `keeps` says that the unknown is not excluded.
WishEligibility(now, overridden, keeps) ==
    LET gates == WishGates(now)
        open == {g \in gates : g.name \notin overridden}
        unknown == \E g \in open : g.state = "unknown"
    IN IF ~(overridden \subseteq {g.name : g \in {h \in gates : h.state # "pass"}}) THEN "refused"
       ELSE IF (\E g \in open : g.state = "fail") \/ (unknown /\ ~keeps) THEN "excluded"
       ELSE IF unknown THEN "conditional" ELSE "eligible"

-----------------------------------------------------------------------------
(* recommendations query: _gates(), _rank() *)

Recipes == {"resume", "finishability", "preference-fit"}

WithinTime(f, minutes) ==
    IF Read(f) = Null THEN "unknown" ELSE IF Read(f) <= minutes THEN "pass" ELSE "fail"

TimeGate(name, f, minutes) ==
    IF minutes = Null THEN {} ELSE {Gate(name, WithinTime(f, minutes), FieldEvidence(f))}

\* What was asked for by --require: of the machine, or of the trait
Required(requirements, installed) ==
    {IF name = "installed" THEN Gate(name, BoolGate(installed, requirements[name]), {})
     ELSE Gate(name, TraitGate(IF requirements[name] = "yes" THEN "present" ELSE "absent"), Said(trait.event)) :
        name \in DOMAIN requirements}

\* `game` and `installed` are what the catalogue and the machine say: yes, no
\* or unknown.
Gates(recipe, now, minutes, requirements, game, installed) ==
    {Gate("owned", "pass", {}), Gate("game", BoolGate(game, "yes"), {}),
     Gate("snoozed", IF Read("snooze") > now THEN "fail" ELSE "pass", FieldEvidence("snooze"))}
    \cup TimeGate("minimum_session_within_time", "minimum", minutes)
    \cup Required(requirements, installed)
    \cup RuleGate("profile")
    \cup (IF recipe = "preference-fit" THEN {}
          ELSE {Gate("not_finished", IF Read("play_state") = "finished" THEN "fail" ELSE "pass",
                     FieldEvidence("play_state"))})
    \cup (IF recipe # "finishability" THEN {}
          ELSE TimeGate("remaining_within_time", "remaining", minutes))

\* An override puts any state in the place of the gate's own; one that names no
\* gate refuses the query.
Effective(g, overrides) == IF g.name \in DOMAIN overrides THEN overrides[g.name] ELSE g.state
Eligibility(gates, overrides, keeps) ==
    LET states == {Effective(g, overrides) : g \in gates} IN
    IF ~(DOMAIN overrides \subseteq {g.name : g \in gates}) THEN "refused"
    ELSE IF "fail" \in states \/ ("unknown" \in states /\ ~keeps) THEN "excluded"
    ELSE IF "unknown" \in states THEN "conditional" ELSE "eligible"

-----------------------------------------------------------------------------
(* What counts for or against it, in either query: the factors of           *)
(* _evaluate() and the components of _components() that the player said,    *)
(* as the sign of their points                                              *)

RatingPoints ==
    CASE Read("rating") = "liked" -> {1} [] Read("rating") = "disliked" -> {-1}
      [] Read("rating") = "neutral" -> {0} [] OTHER -> {}

\* The wish list's query makes nothing of it but a gate.
PlayPoints ==
    CASE Read("play_state") \in {"finished", "user_abandoned"} -> {-1}
      [] Read("play_state") = "active" -> {0} [] OTHER -> {}

\* The two queries differ on a preferred trait that is absent.
RulePoints(wish) ==
    LET there == IF trait.value = "present" THEN 1 ELSE -1
        sign == CASE rule.value[1] = "require" -> there
                  [] rule.value[1] = "prefer"  -> IF wish \/ there = 1 THEN there ELSE 0
                  [] rule.value[1] = "avoid"   -> IF there = 1 THEN -1 ELSE 0
    IN IF rule.value[2] # "soft" \/ trait.value \in {"none", "unknown"} THEN {}
       ELSE {rule.value[3] * sign}

\* The preference fit of a wished title is known.
PreferenceKnown == RatingPoints \cup RulePoints(TRUE) # {}

\* rank_wishlist(): the status is degraded when no title is left, or of none
\* that is left a preference is known.
Degraded(eligibility) == eligibility = "excluded" \/ ~PreferenceKnown

\* build_wishlist_recommendation_query() of the one title, over what a query of
\* deals said of the same evidence
WishlistStatus(eligibility, deals) ==
    IF Degraded(eligibility) /\ deals = "complete" THEN "partial" ELSE deals

\* _dispatch_wishlist_recommendations(): a country without evidence and a
\* refused override refuse it all.
WishlistAnswer(country, configured, now, overridden, keeps, deals) ==
    LET eligibility == WishEligibility(now, overridden, keeps)
    IN IF country # "US" THEN "refused"
       ELSE IF ~configured THEN "unavailable"
       ELSE IF eligibility = "refused" THEN "refused"
       ELSE WishlistStatus(eligibility, deals)

\* The families of _components() that nobody can tell the points of, and a
\* read of achievements that is not ready; `behavior` is the state of the
\* title's play and of its achievements.
Plays(recipe) == recipe \in {"resume", "preference-fit"}
Earns(recipe) == recipe \in {"resume", "finishability"}
Untold(recipe, behavior) ==
    {f \in {"rating", "play_state", "profile_rule", "remaining", "activity", "achievements"} :
        CASE f = "rating" -> RatingPoints = {}
          [] f = "play_state" -> PlayPoints = {}
          [] f = "profile_rule" -> rule.value[2] = "soft" /\ RulePoints(FALSE) = {}
          [] f = "remaining" -> recipe = "finishability" /\ Read(f) = Null
          [] f = "activity" -> Plays(recipe) /\ behavior.activity # "applied"
          [] f = "achievements" -> IF Earns(recipe) THEN behavior.achievements # "applied"
                                   ELSE behavior.achievements = "unready"}

\* _rank(): an answer is complete that rests on nothing unknown, or excludes
\* the title by what is known.
RankComplete(gates, overrides, keeps, untold) ==
    LET states == {Effective(g, overrides) : g \in gates}
    IN \/ "unknown" \notin states /\ untold = {}
       \/ Eligibility(gates, overrides, keeps) = "excluded" /\ "fail" \in states

\* A newest attempt that left the last good evidence where it was; `abandoned`
\* says that it has been running too long.
Failing(attempt) ==
    attempt.latest \in {"failed", "partial"} \/ (attempt.latest = "running" /\ attempt.abandoned)

\* build_recommendation_query(): is_game, by what the catalogue holds
IsGame(fact) == CASE fact = "game" -> "yes" [] fact = "non_game" -> "no" [] OTHER -> "unknown"

\* _dispatch_recommendations_query(): the capabilities it calls missing or
\* stale.  `at` is the newest attempt of each, with whether one ever completed
\* and whether that is fresh; `asked` the attempt at the title's classification.
QueryGaps(recipe, requirements, fact, asked, at, behavior) ==
    LET old == {"stale", "expired"} IN
    {c \in {"classification", "application", "installed", "activity", "achievements", "owned"} :
        CASE c = "classification" -> IsGame(fact) = "unknown"
          [] c = "application" -> asked.latest = "absent" \/ Failing(asked)
          [] c = "installed" -> "installed" \in DOMAIN requirements /\ (~at[c].good \/ Failing(at[c]))
          [] c = "activity" -> Plays(recipe) /\ (~at[c].good \/ Failing(at[c]) \/ behavior.activity \in old)
          [] c = "achievements" -> Earns(recipe) /\ (at[c].latest = "absent" \/ behavior.achievements \in old)
          [] c = "owned" -> ~at[c].fresh \/ Failing(at[c])}

\* build_recommendation_query(), rank_recommendations() of one title owned
Recommended(recipe, now, minutes, requirements, fact, installed, behavior, overrides, keeps) ==
    LET gates == Gates(recipe, now, minutes, requirements, IsGame(fact), installed)
    IN [eligibility |-> Eligibility(gates, overrides, keeps),
        complete |-> RankComplete(gates, overrides, keeps, Untold(recipe, behavior))]

\* _dispatch_recommendations_query(): the label of the answer about it
QueryAnswer(configured, synced, recommended, gaps) ==
    IF ~configured \/ ~synced THEN "unavailable"
    ELSE IF recommended.eligibility = "refused" THEN "refused"
    ELSE IF ~recommended.complete \/ gaps # {} THEN "partial" ELSE "complete"

-----------------------------------------------------------------------------
(* The tables hold the newest word on each thing, and name the event that   *)
(* said it, whatever was said, changed and cleared before                   *)
(* (apply_explicit_feedback_fields(), list_explicit_feedback()).            *)
LastWord(log, kind) ==
    LET events == {i \in DOMAIN log : log[i].kind = kind}
    IN IF events = {} THEN Unsaid(kind)
       ELSE LET i == CHOOSE i \in events : \A j \in events : j <= i
            IN [value |-> log[i].value, event |-> i]

Holds(held, word) == held.value = word.value /\ (held.event # 0 => held.event = word.event)
TablesReplayLogs ==
    /\ \A f \in Fields : Read(f) = LastWord(said, f).value
                       /\ FieldEvidence(f) \subseteq Said(LastWord(said, f).event)
    /\ Holds(trait, LastWord(said, "trait")) /\ Holds(rule, LastWord(ruled, "rule"))
    /\ row.held => \E f \in Fields : row.last = LastWord(said, f).event
                     /\ \A g \in Fields : LastWord(said, g).event <= row.last

\* What the logs say last of each thing, for the properties below
Word(kind) == LastWord(said, kind).value
RuleIs(kinds, strength) == LET last == LastWord(ruled, "rule").value IN last[1] \in kinds /\ last[2] = strength
WantedTrait == IF RuleIs({"require"}, "hard") THEN "present" ELSE "absent"
TraitBars == RuleIs({"avoid", "require"}, "hard") /\ Word("trait") # WantedTrait

(* A wished title is recommended only when the player's last words let it:  *)
(* not abandoned, not snoozed, and with the trait a hard rule wants, where  *)
(* silence is not consent; an override excuses the gate it names and        *)
(* nothing else, and is refused where it excuses nothing (rank_wishlist()). *)
WishIsEarned ==
    \A now \in {1}, keeps \in BOOLEAN :
      \A overridden \in SUBSET {"explicit_hard_exclude", "active_snooze", "hard_rule"} :
        LET answer == WishEligibility(now, overridden, keeps)
            barred == [explicit_hard_exclude |-> Word("play_state") = "user_abandoned",
                       active_snooze |-> Word("snooze") > now,
                       hard_rule |-> TraitBars]
        IN /\ answer = "refused" <=> \E name \in overridden : ~barred[name]
           /\ answer = "eligible" => \A name \in DOMAIN barred : barred[name] => name \in overridden
           /\ answer = "conditional" =>
                /\ keeps /\ Word("trait") \in {"none", "unknown"} /\ TraitBars
                /\ \A name \in {"explicit_hard_exclude", "active_snooze"} :
                        barred[name] => name \in overridden

(* An owned title is recommended as a game that is not snoozed, not         *)
(* finished, that fits the time and has the trait asked for, all by what is *)
(* known, but for the gates an override speaks for; what the player said is *)
(* quoted by its newest event (rank_recommendations()).                     *)
Only(name, state) == [n \in {name} |-> state]
Overrides(gates) == {<<>>} \cup {Only(name, "pass") : name \in {g.name : g \in gates} \cup {"none"}}
AdviceIsEarned ==
    \A recipe \in Recipes, minutes \in {Null, 0}, fact \in {"game", "old"} :
      \A requirements \in {<<>>, [user |-> "yes", installed |-> "no"]} :
        LET now == 1
            gates == Gates(recipe, now, minutes, requirements, IsGame(fact), "no")
            late(f) == minutes # Null /\ (Word(f) = Null \/ Word(f) > minutes)
            bar == [snoozed |-> Word("snooze") > now,
                    not_finished |-> recipe # "preference-fit" /\ Word("play_state") = "finished",
                    minimum_session_within_time |-> late("minimum"),
                    remaining_within_time |-> recipe = "finishability" /\ late("remaining"),
                    user |-> "user" \in DOMAIN requirements /\ Word("trait") # "present",
                    profile |-> TraitBars,
                    game |-> fact # "game"]
        IN /\ \A g \in gates : g.by \subseteq
                    (UNION {Said(LastWord(said, kind).event) : kind \in Fields \cup {"trait"}})
                        \cup Ruled(LastWord(ruled, "rule").event)
           /\ \A overrides \in Overrides(gates) :
                /\ Eligibility(gates, overrides, FALSE) = "refused" <=> "none" \in DOMAIN overrides
                /\ Eligibility(gates, overrides, FALSE) = "eligible" <=>
                        /\ "none" \notin DOMAIN overrides
                        /\ \A name \in DOMAIN bar : bar[name] => name \in DOMAIN overrides
           /\ \A g \in gates : Eligibility(gates, Only(g.name, "fail"), TRUE) = "excluded"

(* Nothing counts for or against a title but what the player said last: a   *)
(* rating, a state of play, or a trait that a soft rule is about, on the    *)
(* rule's side of it; without any of that, no answer about the wish list    *)
(* calls itself complete.                                                   *)
OpinionIsSaid ==
    LET told == RuleIs({"prefer", "avoid", "require"}, "soft") /\ Word("trait") \in {"present", "absent"}
    IN /\ PreferenceKnown <=> Word("rating") # "none" \/ told
       /\ \A now \in 0 .. 2, keeps \in BOOLEAN :
            WishlistAnswer("US", TRUE, now, {}, keeps, "complete") = "complete" =>
                /\ Word("rating") # "none" \/ told
                /\ Word("play_state") # "user_abandoned"
                /\ Word("snooze") <= now
       /\ 1 \in RatingPoints <=> Word("rating") = "liked"
       /\ -1 \in PlayPoints <=> Word("play_state") \in {"finished", "user_abandoned"}
       /\ \A points \in RulePoints(TRUE) \cup RulePoints(FALSE) :
            /\ told
            /\ points = 1 => Word("trait") = "present" /\ ~RuleIs({"avoid"}, "soft")
            /\ points = -1 => Word("trait") = IF RuleIs({"avoid"}, "soft") THEN "present" ELSE "absent"

(* An answer about an owned title that calls itself complete excludes it by *)
(* what is known, or knows it for a game and knows what the player thinks   *)
(* of it and all that a rule or a budget asks about; a title that the       *)
(* unknown alone excludes leaves the answer partial.                        *)
Seen == [latest |-> "complete", abandoned |-> FALSE, good |-> TRUE, fresh |-> TRUE]
CompleteIsKnown ==
    \A recipe \in Recipes, minutes \in {Null, 0}, keeps \in BOOLEAN, fact \in {"game", "non_game", "old"} :
        LET applied == [activity |-> "applied", achievements |-> "applied"]
            ranked == Recommended(recipe, 1, minutes, <<>>, fact, "no", applied, <<>>, keeps)
            eligibility == ranked.eligibility
            gaps == QueryGaps(recipe, <<>>, fact, Seen,
                              [c \in {"installed", "activity", "achievements", "owned"} |-> Seen], applied)
            answer == QueryAnswer(TRUE, TRUE, ranked, gaps)
        IN answer = "complete" =>
            /\ fact # "old"
            /\ eligibility # "excluded" =>
                /\ fact = "game" /\ Word("rating") # "none" /\ Word("play_state") # "none"
                /\ RuleIs({"prefer", "avoid", "require"}, "soft") \/ RuleIs({"avoid", "require"}, "hard") =>
                        Word("trait") \in {"present", "absent"}
                /\ minutes # Null => Word("minimum") \in 0 .. minutes
                /\ recipe = "finishability" => Word("remaining") # Null
            /\ eligibility = "excluded" =>
                \/ fact = "non_game" \/ Word("snooze") > 1
                \/ recipe # "preference-fit" /\ Word("play_state") = "finished"
                \/ minutes # Null /\ (Word("minimum") > minutes \/ Word("remaining") > minutes)
                \/ TraitBars /\ Word("trait") \in {"present", "absent"}

(* What is said now is what was said last, and advice follows it.           *)
AdviceStands == TablesReplayLogs /\ WishIsEarned /\ AdviceIsEarned /\ OpinionIsSaid /\ CompleteIsKnown

=============================================================================
