------------------------------- MODULE Groups -------------------------------
(***************************************************************************)
(* People who may play a title together: the profiles that name them, what *)
(* they assert about one title, and what a query answers from it           *)
(* (src/steam_agent/groups.py; the group tables of storage.py; the group   *)
(* commands of cli.py).                                                    *)
(*                                                                         *)
(* Every command is one transaction.  A profile's row and its              *)
(* acknowledgement are written together, so one set stands for both.       *)
(* Abstracted: one title; an assertion that says nothing more than its     *)
(* absence is its absence; the ranking of several titles.                  *)
(***************************************************************************)
EXTENDS Integers, FiniteSets, TLC

CONSTANTS
    Names,      \* aliases, 1 .. n in their order
    Steam,      \* those a Steam account is configured under
    Limits,     \* numbers of players
    MaxLent     \* bound: family relations that are not "unavailable"

GroupAssumption ==
    /\ IsFiniteSet(Names) /\ Names \subseteq Nat /\ Steam \subseteq Names
    /\ Limits \subseteq Nat \ {0} /\ MaxLent \in Nat

Refs == ({"account"} \X Steam) \cup ({"synthetic"} \X Names)    \* MemberRef

Topics == {"copies", "scope", "limits", "slug"}

\* What a query finds of an account's library: no snapshot, one that a later
\* attempt or time overtook, the same two after a refusal, or one it can rely
\* on, without and with the title
Libraries == {"missing", "stale", "inaccessible", "lost", "visible", "owned"}

VARIABLES
    topic,      \* the facts a behaviour follows; the tables are independent
    configured, \* accounts, by alias
    profiles,   \* group_profiles with group_profile_consents
    library,    \* by account
    copy,       \* group_ownership_current
    family,     \* group_family_current, by recipient and source
    least, most,    \* group_app_assertion_current: players:min, players:max
    slug        \* the same: one policy or trait

groupvars == <<topic, configured, profiles, library, copy, family, least, most, slug>>

GroupInit ==
    /\ topic \in Topics
    /\ configured = {} /\ profiles = {}
    /\ library = [n \in Steam |-> "missing"]
    /\ copy = [r \in Refs |-> "none"]
    /\ family = [e \in Refs \X Refs |-> "unavailable"]
    /\ least = [r \in Refs |-> 0] /\ most = [r \in Refs |-> 0]
    /\ slug = [r \in Refs |-> "unknown"]

-----------------------------------------------------------------------------
(* Profiles *)

\* configure_steam_account(): refuses the alias of a synthetic profile
Configure(n) ==
    /\ <<"synthetic", n>> \notin profiles
    /\ configured' = configured \cup {n}
    /\ UNCHANGED <<topic, profiles, library, copy, family, least, most, slug>>

\* create_synthetic_group_profile(): refuses the alias of an account
CreateSynthetic(n) ==
    /\ n \notin configured
    /\ profiles' = profiles \cup {<<"synthetic", n>>}
    /\ UNCHANGED <<topic, configured, library, copy, family, least, most, slug>>

\* get_group_profile(): an account needs no row to be known.
Known == ({"account"} \X configured) \cup (profiles \cap ({"synthetic"} \X Names))

\* acknowledge_group_profile_storage(), _ensure_group_profile()
Acknowledge(r) ==
    /\ r \in Known
    /\ profiles' = profiles \cup {r}
    /\ UNCHANGED <<topic, configured, library, copy, family, least, most, slug>>

\* A profile's rows go with it, both ways (ON DELETE CASCADE).
Erased(r) ==
    /\ copy' = [copy EXCEPT ![r] = "none"]
    /\ family' = [e \in Refs \X Refs |-> IF r \in {e[1], e[2]} THEN "unavailable" ELSE family[e]]
    /\ least' = [least EXCEPT ![r] = 0] /\ most' = [most EXCEPT ![r] = 0]
    /\ slug' = [slug EXCEPT ![r] = "unknown"]

\* _delete_group_profile()
DeleteProfile(r) ==
    /\ r \in profiles
    /\ profiles' = profiles \ {r}
    /\ Erased(r)
    /\ UNCHANGED <<topic, configured, library>>

\* remove_account()
RemoveAccount(n) ==
    /\ n \in configured
    /\ configured' = configured \ {n}
    /\ profiles' = profiles \ {<<"account", n>>}
    /\ library' = [library EXCEPT ![n] = "missing"]
    /\ Erased(<<"account", n>>)
    /\ UNCHANGED topic

-----------------------------------------------------------------------------
(* What they assert.  A clear is the assertion that says nothing. *)

\* set_group_ownership(), clear_group_ownership(): an account's copies are
\* Steam's to say
SetOwnership(r, state) ==
    /\ topic \in {"copies", "scope"} /\ r[1] = "synthetic" /\ r \in profiles
    /\ copy' = [copy EXCEPT ![r] = state]
    /\ UNCHANGED <<topic, configured, profiles, library, family, least, most, slug>>

\* set_group_family(), clear_group_family()
SetFamily(to, from, state) ==
    /\ topic = "copies" /\ to # from /\ {to, from} \subseteq profiles
    /\ family' = [family EXCEPT ![<<to, from>>] = state]
    /\ Cardinality({e \in Refs \X Refs : family'[e] # "unavailable"}) <= MaxLent
    /\ UNCHANGED <<topic, configured, profiles, library, copy, least, most, slug>>

\* set_group_app_assertion(): each profile's limits are not inverted.
SetLeast(r, n) ==
    /\ topic = "limits" /\ r \in profiles
    /\ (n # 0 /\ most[r] # 0) => n <= most[r]
    /\ least' = [least EXCEPT ![r] = n]
    /\ UNCHANGED <<topic, configured, profiles, library, copy, family, most, slug>>
SetMost(r, n) ==
    /\ topic = "limits" /\ r \in profiles
    /\ n # 0 => least[r] <= n
    /\ most' = [most EXCEPT ![r] = n]
    /\ UNCHANGED <<topic, configured, profiles, library, copy, family, least, slug>>
SetSlug(r, state) ==
    /\ topic = "slug" /\ r \in profiles
    /\ slug' = [slug EXCEPT ![r] = state]
    /\ UNCHANGED <<topic, configured, profiles, library, copy, family, least, most>>

\* A synchronisation or time (SnapshotSync, _owned_scope_state())
LibraryTurns(n, state) ==
    /\ n \in configured
    /\ topic \in IF state \in {"visible", "owned"} THEN {"scope", "copies"} ELSE {"scope"}
    /\ library' = [library EXCEPT ![n] = state]
    /\ UNCHANGED <<topic, configured, profiles, copy, family, least, most, slug>>

GroupNext ==
    \/ \E n \in Steam : Configure(n) \/ RemoveAccount(n)
    \/ \E n \in Names : CreateSynthetic(n)
    \/ \E r \in Refs : Acknowledge(r) \/ DeleteProfile(r)
    \/ \E r \in Refs, s \in {"none", "owned", "not_owned"} : SetOwnership(r, s)
    \/ \E r \in Refs : topic = "scope" /\ SetOwnership(r, "unknown")
    \/ \E to, from \in Refs, s \in {"available", "unavailable", "unknown"} : SetFamily(to, from, s)
    \/ \E r \in Refs, n \in Limits \cup {0} : SetLeast(r, n) \/ SetMost(r, n)
    \/ \E r \in Refs, s \in {"present", "absent", "unknown"} : SetSlug(r, s)
    \/ \E n \in Steam, s \in Libraries : LibraryTurns(n, s)

GroupSpec == GroupInit /\ [][GroupNext]_groupvars

-----------------------------------------------------------------------------
(* Copies: who has one, and whether everyone can play *)

Reliable(r) == library[r[2]] \in {"visible", "owned"}

\* _group_ownership_by_app(): a title missing from a visible library is not
\* known to be missing.
Ownership(r) ==
    IF r[1] = "account" THEN IF library[r[2]] = "owned" THEN "owned" ELSE "unknown"
    ELSE IF copy[r] = "none" THEN "unknown" ELSE copy[r]

\* summarize_ownership()
UnionOf(members) ==
    LET states == {Ownership(m) : m \in members}
    IN IF "owned" \in states THEN "owned" ELSE IF states = {"not_owned"} THEN "not_owned" ELSE "unknown"
IntersectionOf(members) ==
    LET states == {Ownership(m) : m \in members}
    IN IF states = {"owned"} THEN "owned" ELSE IF "not_owned" \in states THEN "not_owned" ELSE "unknown"

\* _self_edge(), _family_edge()
EdgeOf(member, source) ==
    LET owns == Ownership(source)
        lent == IF member = source THEN "available" ELSE family[member, source]
    IN IF lent = "unavailable" \/ owns = "not_owned" THEN "absent"
       ELSE IF lent = "available" /\ owns = "owned" THEN "known"
       ELSE "possible"

Rank(r) == IF r[1] = "account" THEN r[2] ELSE Cardinality(Names) + r[2]
First(S) == CHOOSE r \in S : \A q \in S : Rank(r) <= Rank(q)

\* _maximum_matching(): augment() tries the member's sources in their order,
\* once each, and takes one from its holder if the holder finds another.
GreedyAugment(edges, m, st) ==   \* faulty: no holder gives its copy up
    LET free == edges[m] \ DOMAIN st.held
    IN IF free = {} THEN [st EXCEPT !.found = FALSE]
       ELSE [st EXCEPT !.found = TRUE, !.held = (First(free) :> m) @@ @]
Augment(edges, m, st) ==
    LET sources == UNION {edges[r] : r \in DOMAIN edges}
        States == [seen: SUBSET sources, found: BOOLEAN,
                   held: UNION {[D -> DOMAIN edges] : D \in SUBSET sources}]
        augment[r \in DOMAIN edges, s \in States] ==
            LET left == edges[r] \ s.seen
                source == First(left)
                tried == [s EXCEPT !.seen = @ \cup {source}]
                freed == IF source \notin DOMAIN s.held THEN [tried EXCEPT !.found = TRUE]
                         ELSE augment[s.held[source], tried]
            IN IF left = {} THEN [s EXCEPT !.found = FALSE]
               ELSE IF freed.found THEN [freed EXCEPT !.held = (source :> r) @@ @]
               ELSE augment[r, freed]
    IN augment[m, st]

\* The members are matched in their order.
Matched(edges, members) ==
    LET matched[M \in SUBSET members] ==
            IF M = {} THEN <<>>
            ELSE LET m == CHOOSE r \in M : \A q \in M : Rank(q) <= Rank(r)
                 IN Augment(edges, m, [seen |-> {}, held |-> matched[M \ {m}], found |-> FALSE]).held
    IN matched[members]

Matching(players, edges) == Cardinality(DOMAIN Matched(edges, players))

\* _topology(): in a shared or remote-play mode only the host needs a copy.
Players(members, mode, host) == IF mode = "host" THEN {host} ELSE members

\* assess_copies()
Missing(members, sources, mode, host) ==
    LET players == Players(members, mode, host)
        known == [m \in players |-> {s \in sources : EdgeOf(m, s) = "known"}]
        possible == [m \in players |-> {s \in sources : EdgeOf(m, s) # "absent"}]
    IN [minimum |-> Cardinality(players) - Matching(players, possible),
        maximum |-> Cardinality(players) - Matching(players, known)]

Guarantee(missing) ==
    IF missing.maximum = 0 THEN "guaranteed"
    ELSE IF missing.minimum = 0 THEN "conditional"
    ELSE "insufficient"

-----------------------------------------------------------------------------
(* Whether the group may play it: assess_eligibility(), _evaluate_group_app() *)

Said(limit, members) == {limit[m] : m \in members} \ {0}
Value(S) == IF Cardinality(S) = 1 THEN CHOOSE n \in S : TRUE ELSE 0

\* _count_state()
CountGate(members, mode) ==
    LET n == Cardinality(members)
        low == Value(Said(least, members))
        high == Value(Said(most, members))
        conflicting ==
            \/ Cardinality(Said(least, members)) > 1 \/ Cardinality(Said(most, members)) > 1
            \/ high # 0 /\ low > high
    IN IF conflicting THEN "unknown"
       ELSE IF n < low \/ (high # 0 /\ n > high) THEN "fail"
       ELSE IF mode = "pass" /\ (n = 2 \/ high # 0) THEN "pass"
       ELSE "unknown"

\* _policy_state(), and the trait that excludes a title
PolicyGate(members) ==
    LET states == {slug[m] : m \in members}
    IN IF "absent" \in states THEN "fail" ELSE IF "unknown" \in states THEN "unknown" ELSE "pass"
TraitGate(members) ==
    LET states == {slug[m] : m \in members}
    IN IF "present" \in states THEN "fail" ELSE IF "unknown" \in states THEN "unknown" ELSE "pass"

Combined(gates) == IF "fail" \in gates THEN "fail" ELSE IF "unknown" \in gates THEN "unknown" ELSE "pass"

\* assess_eligibility(): the slug is of the policy asked for, or of a trait
Eligibility(members, declared, asks) ==
    Combined({declared, CountGate(members, declared)}
                \cup (IF asks = "policy" THEN {PolicyGate(members)} ELSE {}))

\* _dispatch_group(), _dispatch_group_recommend(): the members and the other
\* copies a query may name
Asked(members, extra) ==
    /\ Cardinality(members) >= 2 /\ members \cap extra = {}
    /\ members \cup extra \subseteq Known

\* _evaluate_group_app()
Evaluation(members, extra, mode, host, declared, asks) ==
    [union |-> UnionOf(members), intersection |-> IntersectionOf(members),
     missing |-> Missing(members, members \cup extra, mode, host),
     eligibility |-> Eligibility(members, declared, asks),
     trait |-> IF asks = "trait" THEN TraitGate(members) ELSE "pass"]

\* rank_candidates(): whether a title is listed
Listed(objective, answer) ==
    /\ answer.trait # "fail" /\ answer.eligibility # "fail"
    /\ objective = "no-purchase" => answer.missing = [minimum |-> 0, maximum |-> 0]

\* _account_member_evidence(): the evidence that format 0.2 names
Inaccessible(r) == r[1] = "account" /\ library[r[2]] \in {"inaccessible", "lost"}

\* _group_query_completeness(), and _group_v02_generic_ownership_state()
Completeness(members, sources, named, declared) ==
    LET asked == {r \in members \cup sources : r[1] = "account" /\ ~(named /\ r \in members /\ Inaccessible(r))}
        refused == named /\ \E m \in members : Inaccessible(m)
        missing == refused \/ \E r \in asked : library[r[2]] \in {"missing", "inaccessible"}
        stale == \E r \in asked : library[r[2]] \in {"stale", "lost"}
        evidence == \E r \in members \cup sources :
            IF r[1] = "account" THEN Reliable(r) /\ (named => library[r[2]] = "owned")
            ELSE copy[r] # "none" /\ (named => copy[r] # "unknown")
    IN IF (missing /\ ~evidence) \/ declared = "missing" THEN "unavailable"
       ELSE IF missing \/ stale \/ declared = "stale" THEN "partial"
       ELSE "complete"

\* _dispatch_group(): what one query says, from one snapshot of the tables
QueryGroup(members, extra, mode, host, named, declared, asks) ==
    [result |-> Evaluation(members, extra, mode, host,
                           IF declared = "missing" THEN "unknown" ELSE "pass", asks),
     completeness |-> Completeness(members, members \cup extra, named, declared)]

\* _dispatch_group_recommend()
Recommends(objective, members, extra, mode, host, named, declared, asks) ==
    Listed(objective, QueryGroup(members, extra, mode, host, named, declared, asks).result)

-----------------------------------------------------------------------------
(* Types of the tables. *)
GroupTypeOK ==
    /\ topic \in Topics /\ configured \subseteq Steam /\ profiles \subseteq Refs
    /\ library \in [Steam -> Libraries]
    /\ copy \in [Refs -> {"none", "owned", "not_owned", "unknown"}]
    /\ family \in [Refs \X Refs -> {"available", "unavailable", "unknown"}]
    /\ least \in [Refs -> Limits \cup {0}] /\ most \in [Refs -> Limits \cup {0}]
    /\ slug \in [Refs -> {"present", "absent", "unknown"}]

\* A world in which everything unknown is so, or is not so
Reaches(world, m) ==
    {s \in Known :
        /\ Ownership(s) \in {"owned"} \cup (IF world = "best" THEN {"unknown"} ELSE {})
        /\ \/ m = s
           \/ family[m, s] \in {"available"} \cup (IF world = "best" THEN {"unknown"} ELSE {})}

\* By how many some of the players outnumber the copies that any of them reach
Shortfall(world, players) ==
    LET short == {Cardinality(P) - Cardinality(UNION {Reaches(world, m) : m \in P}) : P \in SUBSET players}
    IN CHOOSE n \in short : \A k \in short : k <= n

(* "guaranteed" says that everyone has a copy at once in whatever way the   *)
(* unknown facts turn out, "insufficient" that in none they do, and the     *)
(* range of missing copies is what the worst and the best of them leave     *)
(* short, though copies are handed out one player at a time                 *)
(* (_maximum_matching, assess_copies in groups.py).  The summary of a       *)
(* group's ownership does not contradict it.                                *)
CopiesMeanWorlds ==
    topic = "copies" => \A members \in SUBSET Known : Asked(members, Known \ members) =>
        \A mode \in {"online", "host"} : \A host \in IF mode = "host" THEN members ELSE {First(members)} :
            LET players == Players(members, mode, host)
                answer == Evaluation(members, Known \ members, mode, host, "pass", "nothing")
            IN /\ answer.missing = [minimum |-> Shortfall("best", players),
                                    maximum |-> Shortfall("worst", players)]
               /\ answer.intersection = "owned" => answer.missing.maximum = 0
               /\ (answer.union = "not_owned" /\ members = Known)
                     => answer.missing.minimum = Cardinality(players)
               /\ Listed("no-purchase", answer) <=>
                     Guarantee(answer.missing) = "guaranteed" /\ answer.eligibility # "fail"

(* A group passes only if no member's assertion speaks against it, and      *)
(* fails only if one does; an answer is complete only when every account in *)
(* it had a library to rely on; and no fact outlives its profile or the     *)
(* account that took its alias (cli.py, groups.py, storage.py).             *)
TermsMeanFacts ==
    /\ \A members \in SUBSET Known : Asked(members, Known \ members) =>
        LET n == Cardinality(members)
            against == \E m \in members : n < least[m] \/ (most[m] # 0 /\ n > most[m])
            limits == Eligibility(members, "pass", "nothing")
            policy == Eligibility(members, "pass", "policy")
        IN /\ topic = "limits" => (limits = "pass" => ~against) /\ (limits = "fail" => against)
           /\ topic = "slug" =>
                /\ policy = "pass" => \A m \in members : slug[m] = "present"
                /\ policy = "fail" <=> \E m \in members : slug[m] = "absent"
                /\ Recommends("min-copies", members, {}, "host", First(members), FALSE, "fresh", "trait")
                     => \A m \in members : slug[m] # "present"
           /\ topic = "scope" => \A named \in BOOLEAN :
                QueryGroup(members, Known \ members, "host", First(members), named, "fresh", "nothing")
                    .completeness = "complete" =>
                    \A r \in Known : r[1] = "account" => Reliable(r)
    /\ \A r \in Refs \ profiles :
        /\ copy[r] = "none" /\ least[r] = 0 /\ most[r] = 0 /\ slug[r] = "unknown"
        /\ \A q \in Refs : {family[r, q], family[q, r]} = {"unavailable"}
    /\ \A n \in configured : <<"synthetic", n>> \notin profiles

GroupAnswersStand == CopiesMeanWorlds /\ TermsMeanFacts

=============================================================================
