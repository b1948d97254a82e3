---------------------------- MODULE RequestBudget ----------------------------
(***************************************************************************)
(* The interval kept between two requests to one provider by all processes *)
(* of the user (provider_request_limits; reserve_provider_request,         *)
(* defer_provider_requests and record_declared_app_result in               *)
(* src/steam_agent/storage.py; _reserve_provider_request in cli.py).       *)
(*                                                                         *)
(* A process reads the wall clock and then reserves in a transaction of    *)
(* its own: it may wait for the database in between, and the clock may     *)
(* step, so every transaction brings any time.                             *)
(***************************************************************************)
EXTENDS Integers

CONSTANTS
    Interval,   \* the interval asked for
    Window,     \* max(5 seconds, twice the interval)
    Retry,      \* the delays providers ask for
    MaxTime     \* bound: the wall clock

BudgetAssumption ==
    /\ Interval \in Nat \ {0}
    /\ Window \in Nat /\ Window >= 2 * Interval
    /\ Retry \subseteq Nat
    /\ MaxTime \in Nat

VARIABLES
    limit,      \* the row: the next request allowed, and a cooldown
    granted,    \* for the properties: when the last request was granted, in
                \* turns, so that two granted at one time differ; and
    deferred    \* the cooldowns asked for, since the row was last forgotten

budgetvars == <<limit, granted, deferred>>

Times == 0 .. MaxTime
None == -1
NoLimit == [known |-> FALSE, next |-> 0, cooldown |-> None]

BudgetInit ==
    limit = NoLimit /\ granted = [at |-> None, turn |-> 0] /\ deferred = None

Granted(t) == granted' = [at |-> t, turn |-> 1 - granted.turn]
Forgotten == granted' = [granted EXCEPT !.at = None]

Cooling(t) == limit.known /\ t < limit.cooldown
RemainingSinceGrant(t) == limit.next - Interval - t   \* faulty: the limit is read as the last request
Remaining(t) == limit.next - t

\* Granted: the interval starts anew, and a cooldown that is over goes.
Reserve(t) ==
    /\ ~Cooling(t)
    /\ limit.known => Remaining(t) <= 0
    /\ limit' = [known |-> TRUE, next |-> t + Interval, cooldown |-> None]
    /\ Granted(t) /\ deferred' = None

\* Refused: rolled back.
Refused(t) ==
    limit.known /\ (Cooling(t) \/ Remaining(t) \in 1 .. Window)
Refuse(t) == Refused(t) /\ UNCHANGED budgetvars

\* A limit further away than any interval sets is taken for a clock that ran
\* ahead: it is rewritten, and the request still refused.
Recover(t) ==
    /\ limit.known /\ ~Cooling(t) /\ Remaining(t) > Window
    /\ limit' = [known |-> TRUE, next |-> t + Interval, cooldown |-> None]
    /\ Forgotten /\ deferred' = None

\* The later of two cooldowns stands.
Cooled(until) == IF limit.cooldown < until THEN until ELSE limit.cooldown

\* defer_provider_requests(), and a declared fact that does not parse
Defer(t, d) ==
    LET until == t + d IN
    /\ limit' = IF limit.known THEN [limit EXCEPT !.cooldown = Cooled(until)]
                ELSE [known |-> TRUE, next |-> t, cooldown |-> until]
    /\ deferred' = IF deferred < until THEN until ELSE deferred
    /\ UNCHANGED granted

\* delete_review_data(), delete_declared_app_data() for every account
ForgetLimit ==
    limit' = NoLimit /\ Forgotten /\ deferred' = None

BudgetNext ==
    \/ ForgetLimit
    \/ \E t \in Times : Reserve(t) \/ Refuse(t) \/ Recover(t) \/ \E d \in Retry : Defer(t, d)

BudgetSpec == BudgetInit /\ [][BudgetNext]_budgetvars

-----------------------------------------------------------------------------
(* Types of the row and of the history. *)
BudgetTypeOK ==
    /\ limit \in [known: BOOLEAN, next: Int, cooldown: Int]
    /\ granted \in [at: Times \cup {None}, turn: {0, 1}] /\ deferred \in Int

(* A request is granted an interval after the last one and after every      *)
(* cooldown asked for, also to two processes at the same time, and in       *)
(* whatever order their transactions come, unless the row was deleted or    *)
(* taken for a clock that ran ahead in between (reserve_provider_request).  *)
RequestSpaced ==
    granted'.turn # granted.turn =>
     /\ granted.at # None => granted'.at >= granted.at + Interval
     /\ deferred # None => granted'.at >= deferred
RequestsSpaced == [][RequestSpaced]_budgetvars

=============================================================================
