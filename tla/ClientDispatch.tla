---------------------------- MODULE ClientDispatch ----------------------------
(***************************************************************************)
(* The operations that ask the Steam client or a running game to do        *)
(* something and do not observe the effect: launch and stop                *)
(* (src/steam_agent/execution/executor.py, _launch; client_executor.py;    *)
(* runtime.py, stop_app).  The intent is durable before the request leaves, *)
(* because nothing tells afterwards whether it arrived.                    *)
(*                                                                         *)
(* Abstracted: which processes of a game are asked (one stop may send many *)
(* requests; `asked` counts the commands that sent any), and what makes a  *)
(* gate or an observation refuse.                                          *)
(***************************************************************************)
EXTENDS BrokerHost

VARIABLE asked   \* by operation: the commands that sent it a request

dvars == <<hostVars, asked>>

DispatchInit == asked = [i \in Ids |-> 0]

Quietly == UNCHANGED <<client, owed, policy, writers, asked>>

Ask(p) == asked' = [asked EXCEPT ![my[p].id] = @ + 1]

\* The command ends with the transition to `to`, which raises, and changes
\* nothing, when the row is not where the caller expects it.
Settle(p, from, to) ==
    /\ IF Row(p).state \in from /\ Allowed(my[p].id, to)
       THEN SetState(my[p].id, to) ELSE UNCHANGED op
    /\ Leave(p)

\* window_valid(), or the sweep that expires the row.
InWindow(p, l) ==
    \/ Row(p).open /\ Go(p, l) /\ UNCHANGED op
    \/ ~Row(p).open /\ Leave(p) /\ Sweep

Result(p, to) ==
    /\ pc' = [pc EXCEPT ![p] = "result"]
    /\ my' = [my EXCEPT ![p].to = to]
    /\ UNCHANGED lock

BeginDispatch(p) ==
    \E i \in Ids :
        /\ op[i].state = "authorized"
        /\ \/ op[i].kind = "launch" /\ Enter(p, "l_window", [Nothing EXCEPT !.id = i])
           \/ op[i].kind = "stop" /\ Enter(p, "s_window", [Nothing EXCEPT !.id = i])
        /\ UNCHANGED op /\ Quietly

-----------------------------------------------------------------------------
(* launch *)

LaunchWindow(p) == At(p, "l_window") /\ InWindow(p, "l_gates") /\ Quietly

\* The client is started when it is provably absent.
LaunchGates(p) ==
    /\ At(p, "l_gates")
    /\ \/ Leave(p) /\ SameClient                            \* busy, unknown
       \/ client = "up" /\ Go(p, "l_recheck") /\ SameClient
       \/ client = "down" /\ StartSucceeds /\ Go(p, "l_recheck")
       \/ client = "down" /\ StartFails /\ Leave(p)
    /\ UNCHANGED <<op, policy, writers, asked>>

LaunchRecheck(p) ==
    /\ At(p, "l_recheck")
    /\ \/ client = "up" /\ InWindow(p, "l_policy")
       \/ Leave(p) /\ UNCHANGED op
    /\ Quietly

\* The dispatch policy answers unreadable as a denial.
LaunchPolicy(p) ==
    /\ At(p, "l_policy")
    /\ IF Permitted THEN Go(p, "l_intent") ELSE Go(p, "l_abort")
    /\ UNCHANGED op /\ Quietly

LaunchAbort(p) ==
    /\ At(p, "l_abort") /\ Settle(p, {"authorized"}, "aborted") /\ Quietly

LaunchIntentDeferred(p) ==   \* faulty: the intent is left to the verdict
    /\ At(p, "l_intent") /\ Go(p, "l_send")
    /\ UNCHANGED op /\ Quietly

LaunchIntent(p) ==
    /\ At(p, "l_intent")
    /\ AdvanceFrom(p, "authorized", "dispatch_pending", "l_send")
    /\ Quietly

\* steam -applaunch may be accepted, be refused, or be accepted and not say so.
LaunchSend(p) ==
    /\ At(p, "l_send")
    /\ \/ Ask(p) /\ Result(p, "dispatched")
       \/ Ask(p) /\ Result(p, "unconfirmed")
       \/ Result(p, "unconfirmed") /\ UNCHANGED asked
    /\ UNCHANGED <<op, client, owed, policy, writers>>

-----------------------------------------------------------------------------
(* stop *)

StopWindow(p) == At(p, "s_window") /\ InWindow(p, "s_observe") /\ Quietly

StopObserve(p) ==
    /\ At(p, "s_observe")
    /\ Leave(p) \/ Go(p, "s_policy")
    /\ UNCHANGED op /\ Quietly

StopPolicy(p) ==
    /\ At(p, "s_policy")
    /\ \/ policy = "unreadable" /\ Leave(p)
       \/ policy = "deny" /\ Go(p, "s_abort")
       \/ policy = "allow" /\ Go(p, "s_recheck")
    /\ UNCHANGED op /\ Quietly

StopAbort(p) == At(p, "s_abort") /\ Settle(p, States, "aborted") /\ Quietly

StopRecheck(p) == At(p, "s_recheck") /\ InWindow(p, "s_intent") /\ Quietly

StopIntent(p) ==
    /\ At(p, "s_intent")
    /\ AdvanceFrom(p, "authorized", "dispatch_pending", "s_ask")
    /\ Quietly

\* stop_app(): a fresh observation, then before_request() before each signal.
StopAsk(p) ==
    /\ At(p, "s_ask")
    /\ \/ Result(p, "dispatched") /\ UNCHANGED asked      \* nothing runs
       \/ Result(p, "unconfirmed") /\ UNCHANGED asked     \* gate, probe, identity
       \/ Permitted /\ Row(p).open /\ Ask(p) /\ Go(p, "s_confirm")
    /\ UNCHANGED <<op, client, owed, policy, writers>>

StopConfirm(p) ==
    /\ At(p, "s_confirm")
    /\ Result(p, "dispatched") \/ Result(p, "unconfirmed")
    /\ UNCHANGED op /\ Quietly

RecordResult(p) ==
    /\ At(p, "result")
    /\ Settle(p, {"dispatch_pending"}, my[p].to)
    /\ Quietly

-----------------------------------------------------------------------------
(* reconcile() *)

RecoverDispatchReplaying(p) ==   \* faulty: the request is sent again
    \E i \in Ids :
        /\ op[i].state = "dispatch_pending"
        /\ Enter(p, "l_send", [Nothing EXCEPT !.id = i])
        /\ UNCHANGED op /\ Quietly

\* "dispatch acceptance unknown; not replayable"
RecoverDispatch(p) ==
    \E i \in Ids :
        /\ op[i].state = "dispatch_pending"
        /\ pc[p] = "idle" /\ lock = NoProc
        /\ SetState(i, "unconfirmed")
        /\ UNCHANGED <<lock, pc, my>>
        /\ Quietly

-----------------------------------------------------------------------------

ContinueDispatch(p) ==
    \/ LaunchWindow(p) \/ LaunchGates(p) \/ LaunchRecheck(p) \/ LaunchPolicy(p)
    \/ LaunchAbort(p) \/ LaunchIntent(p) \/ LaunchSend(p)
    \/ StopWindow(p) \/ StopObserve(p) \/ StopPolicy(p) \/ StopAbort(p)
    \/ StopRecheck(p) \/ StopIntent(p) \/ StopAsk(p) \/ StopConfirm(p)
    \/ RecordResult(p)

-----------------------------------------------------------------------------
(* Properties *)

\* "never replayed, because the client may already have accepted the
\* request": whatever crashes and recoveries happen, at most one command
\* ever sends requests for an operation.
NeverReplayed == \A i \in Ids : asked[i] <= 1

\* "Dispatch intent is durable before the external command": an operation
\* whose request may have left never reads as untouched, aborted or expired.
IntentDurable ==
    \A i \in Ids :
        asked[i] > 0 => op[i].state \in {"dispatch_pending", "dispatched", "unconfirmed"}

=============================================================================
