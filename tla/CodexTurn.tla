------------------------------ MODULE CodexTurn ------------------------------
(***************************************************************************)
(* One conversation of the evaluation runner with the agent's app server:   *)
(* the driver (codex_driver.py) asks, collects each turn from the           *)
(* notifications on the server's pipe, and closes at a quiet boundary; the  *)
(* runner (__main__.py) grades what was collected.  The pipe is FIFO and    *)
(* the driver touches nothing between two reads, so a message counts as     *)
(* read when it is sent, unless a request is unanswered: then it waits in   *)
(* `queue`.  The server follows its own protocol except for `faults`        *)
(* messages that are lost, or that nothing called for.                      *)
(***************************************************************************)
EXTENDS Integers, FiniteSets, Sequences, SequencesExt

CONSTANTS
    Turns,        \* prompts of the conversation
    MaxFaults     \* deviations of the server

VARIABLES
    log,          \* every message of the server, responses left out
    queue,        \* _pending_notifications
    client,       \* the driver and the transcripts it has collected
    server,       \* what the server has done of its protocol
    faults

turnvars == <<log, queue, client, server, faults>>

ItemIds == {"command", "answer"}
ItemType(i) == IF i = "command" THEN "commandExecution" ELSE "agentMessage"
Informational == {"agentMessage"}
Routes == {"asked", "other"}

(* The requests before the first turn, in order; each answer is validated   *)
(* before the next request, and the last one creates the thread.            *)
Setup == <<"initialize", "account/read", "config/read", "hooks/list",
           "mcpServerStatus/list", "skills/list", "thread/start">>

TurnStarted(n) == [kind |-> "turn/started", turn |-> n]
ItemStarted(n, i, t) == [kind |-> "item/started", turn |-> n, item |-> i, type |-> t]
ItemCompleted(n, i, t, ok) ==
    [kind |-> "item/completed", turn |-> n, item |-> i, type |-> t, ok |-> ok]
TurnCompleted(n, ok) == [kind |-> "turn/completed", turn |-> n, ok |-> ok]
SettingsUpdated(r) == [kind |-> "thread/settings/updated", route |-> r]
Rerouted(n, from, to) == [kind |-> "model/rerouted", turn |-> n, from |-> from, route |-> to]
Other(kind) == [kind |-> kind]

Messages ==
    {TurnStarted(n) : n \in 1 .. Turns}
    \cup (UNION {{ItemStarted(n, i, t), ItemCompleted(n, i, t, TRUE)} :
                    n \in 1 .. Turns, i \in ItemIds, t \in {"agentMessage", "commandExecution", "mcpToolCall"}})
    \cup {TurnCompleted(n, ok) : n \in 1 .. Turns, ok \in BOOLEAN}
    \cup {SettingsUpdated(r) : r \in Routes}
    \cup {Rerouted(n, r, s) : n \in 1 .. Turns, r \in Routes, s \in Routes}
    \cup {Other(k) : k \in {"request", "response", "account/rateLimits/updated",
                            "unknown", "error", "hook"}}

-----------------------------------------------------------------------------
(* A transcript: completions with their place among the turn's events, the  *)
(* models and efforts observed, and those observed before the first item.   *)
NoTranscript(model, effort) ==
    [events |-> 0, commands |-> {}, answers |-> {}, violated |-> FALSE, ok |-> FALSE,
     model |-> model, models |-> {model}, preModels |-> {model},
     efforts |-> effort, preEfforts |-> effort, confirmed |-> {}]

(* _TurnCollectionState and the locals of _collect_turn.                     *)
Collecting(c, n, model, effort) ==
    [c EXCEPT !.pc = "collecting", !.turn = n, !.started = FALSE, !.open = {},
              !.done = {}, !.active = FALSE,
              !.turns = Append(c.turns, NoTranscript(model, effort))]

NoClient ==
    [pc |-> "asking", step |-> 1, turn |-> 0, started |-> FALSE, open |-> {}, done |-> {},
     active |-> FALSE, model |-> "none", effort |-> {}, turns |-> <<>>]

TurnInit ==
    /\ log = <<>> /\ queue = <<>> /\ faults = 0
    /\ client = NoClient
    /\ server = [turn |-> 0, running |-> FALSE, open |-> {}, used |-> {}, settled |-> FALSE]

T == client.turns[client.turn]
Event(t) == [t EXCEPT !.events = @ + 1]
Violated(t) == [Event(t) EXCEPT !.violated = TRUE]

Fail == client' = [client EXCEPT !.pc = "failed"]
Record(t) == client' = [client EXCEPT !.turns[client.turn] = t]

(* request: the next one of the setup, of the turns, then the closing read.  *)
Asked ==
    IF client.step <= Len(Setup) THEN Setup[client.step]
    ELSE IF client.turn < Turns THEN "turn/start" ELSE "thread/read"

-----------------------------------------------------------------------------
(* What the driver does with one message m of the turn it collects.          *)

MatchesTurn(m) == m.turn = client.turn
OpenTypes(i) == {o[2] : o \in {p \in client.open : p[1] = i}}

ReadTurnStarted(m) ==
    LET valid == ~client.started /\ MatchesTurn(m)
    IN  client' = [client EXCEPT !.started = @ \/ valid,
                                 !.turns[client.turn] = IF valid THEN Event(T) ELSE Violated(T)]

(* start_item: an item starts once, inside its turn.                         *)
MayStart(m) ==
    client.started /\ MatchesTurn(m) /\ OpenTypes(m.item) = {} /\ m.item \notin client.done

ReadItemStarted(m) ==
    LET allowed == m.type \in Informational \cup {"commandExecution"}
    IN  client' = IF MayStart(m)
                  THEN [client EXCEPT
                          !.open = @ \cup {<<m.item, m.type>>}, !.active = TRUE,
                          !.turns[client.turn] = IF allowed THEN Event(T) ELSE Violated(T)]
                  ELSE [client EXCEPT !.turns[client.turn] = Violated(T)]

(* complete_item: only an open item of the same type.                        *)
MayComplete(m) == client.started /\ MatchesTurn(m) /\ m.type \in OpenTypes(m.item)

ReadItemCompleted(m) ==
    LET kept == CASE m.type = "commandExecution" ->
                        [T EXCEPT !.commands = @ \cup {<<T.events, m.ok>>}]
                  [] m.type = "agentMessage" ->
                        [T EXCEPT !.answers = @ \cup {T.events}]
                  [] OTHER -> [T EXCEPT !.violated = TRUE]
    IN  client' = IF MayComplete(m)
                  THEN [client EXCEPT !.open = @ \ {<<m.item, m.type>>}, !.done = @ \cup {m.item},
                                      !.turns[client.turn] = Event(kept)]
                  ELSE [client EXCEPT !.turns[client.turn] = Violated(T)]

BeforeActivity(set, r) == IF client.active THEN set ELSE set \cup {r}

ReadSettings(m) ==
    Record([Event(T) EXCEPT
              !.model = m.route, !.models = @ \cup {m.route}, !.efforts = @ \cup {m.route},
              !.preModels = BeforeActivity(@, m.route),
              !.preEfforts = BeforeActivity(@, m.route), !.confirmed = {m.route}])

ReadRerouted(m) ==
    IF ~MatchesTurn(m) THEN Record(Violated(T))
    ELSE IF m.from # T.model THEN Fail
    ELSE Record([Event(T) EXCEPT !.model = m.route, !.models = @ \cup {m.route},
                                 !.preModels = BeforeActivity(@, m.route)])

(* turn/completed ends the turn, and blames every item left open.  The       *)
(* confirmed settings, not a reroute, are what the next turn starts from.    *)
ReadTurnCompleted(m) ==
    IF ~(client.started /\ MatchesTurn(m)) THEN Record(Violated(T))
    ELSE client' =
        [client EXCEPT !.pc = "asking",
           !.turns[client.turn] = [Event(T) EXCEPT !.ok = m.ok,
                                     !.violated = @ \/ client.open # {}],
           !.model = IF T.confirmed = {} THEN @ ELSE CHOOSE r \in T.confirmed : TRUE,
           !.effort = IF T.confirmed = {} THEN @ ELSE T.confirmed]

ReadOther(m) ==
    \/ m.kind = "error" /\ Fail
    \/ m.kind = "account/rateLimits/updated" /\ Record(Event(T))
    \/ /\ m.kind \in {"request", "response", "unknown"}
       /\ Record(Violated(T))

(* _collect_turn reads the oldest waiting message.                           *)
ReadMessage ==
    /\ client.pc = "collecting" /\ queue # <<>>
    /\ LET m == Head(queue)
       IN  \/ m.kind = "turn/started" /\ ReadTurnStarted(m)
           \/ m.kind = "item/started" /\ ReadItemStarted(m)
           \/ m.kind = "item/completed" /\ ReadItemCompleted(m)
           \/ m.kind = "thread/settings/updated" /\ ReadSettings(m)
           \/ m.kind = "model/rerouted" /\ ReadRerouted(m)
           \/ m.kind = "turn/completed" /\ ReadTurnCompleted(m)
           \/ ReadOther(m)
    /\ queue' = Tail(queue)
    /\ UNCHANGED <<log, server, faults>>

(* assert_quiescent: behind the answer to thread/read, nothing but a global  *)
(* notification may arrive until the settling window has passed.             *)
DrainQuiet ==
    /\ client.pc = "settling" /\ queue # <<>>
    /\ IF Head(queue).kind = "account/rateLimits/updated" THEN UNCHANGED client ELSE Fail
    /\ queue' = Tail(queue)
    /\ UNCHANGED <<log, server, faults>>

ReturnTranscripts ==
    /\ client.pc = "settling" /\ queue = <<>>
    /\ client' = [client EXCEPT !.pc = "returned"]
    /\ UNCHANGED <<log, queue, server, faults>>

(* The deadline of the whole conversation passes: the group is terminated.   *)
Deadline ==
    /\ client.pc \in {"asking", "collecting", "settling"}
    /\ client' = [NoClient EXCEPT !.pc = "failed"]
    /\ log' = <<>> /\ queue' = <<>>
    /\ UNCHANGED <<server, faults>>

-----------------------------------------------------------------------------
(* What arrived before a response waits for the turn's collector.            *)
NothingPending == <<>>
PendingNotifications == queue

(* The answer to the outstanding request: validated at once, whatever waits  *)
(* in the queue.  `good` is a response every check of its method accepts.    *)
Respond(good, route) ==
    /\ client.pc = "asking"
    /\ route # "asked" => Asked = "thread/start"
    /\ queue' = PendingNotifications
    /\ \/ ~good /\ Fail /\ UNCHANGED server
       \/ /\ good /\ Asked = "turn/start"
          /\ client' = Collecting(client, client.turn + 1, client.model, client.effort)
          /\ server' = [server EXCEPT !.turn = client.turn + 1]
       \/ /\ good /\ Asked = "thread/read" /\ ~server.running
          /\ client' = [client EXCEPT !.pc = "settling"]
          /\ UNCHANGED server
       \/ /\ good /\ Asked \in Range(Setup)
          /\ client' = [client EXCEPT !.step = @ + 1,
                                      !.model = IF Asked = "thread/start" THEN route ELSE @]
          /\ UNCHANGED server
    /\ UNCHANGED <<log, faults>>

(* Every incoming frame passes _prepare_incoming: a hook ends the            *)
(* conversation, and a frame without a method is taken for the response      *)
(* while one is awaited.                                                     *)
Send(m) ==
    /\ queue = <<>> \/ client.pc = "asking"
    /\ client.pc \in {"asking", "collecting", "settling"}
    /\ log' = Append(log, m)
    /\ IF m.kind = "hook" \/ (m.kind = "response" /\ client.pc = "asking")
       THEN Fail /\ UNCHANGED queue
       ELSE queue' = Append(queue, m) /\ UNCHANGED client

(* A step of the server's own protocol, whose message a fault may lose.      *)
Emit(m, s) ==
    /\ server' = s
    /\ \/ Send(m) /\ UNCHANGED faults
       \/ /\ faults < MaxFaults /\ faults' = faults + 1
          /\ client.pc \in {"asking", "collecting"} /\ UNCHANGED <<log, queue, client>>

(* The notification of a turn's start may overtake the response.             *)
ServerStartsTurn ==
    LET n == IF client.pc = "asking" /\ Asked = "turn/start" THEN client.turn + 1
             ELSE client.turn
    IN  /\ n > 0 /\ ~server.running
        /\ TurnStarted(n) \notin Range(log)
        /\ n = server.turn \/ client.pc = "asking"
        /\ Emit(TurnStarted(n), [server EXCEPT !.running = TRUE, !.turn = n])

ServerWorks ==
    /\ server.running /\ client.pc = "collecting" /\ server.turn = client.turn
    /\ \/ \E i \in ItemIds \ server.used :
            Emit(ItemStarted(server.turn, i, ItemType(i)),
                 [server EXCEPT !.used = @ \cup {i}, !.open = @ \cup {i}])
       \/ \E i \in server.open :
            \E ok \in IF i = "command" THEN BOOLEAN ELSE {TRUE} :
                Emit(ItemCompleted(server.turn, i, ItemType(i), ok),
                     [server EXCEPT !.open = @ \ {i}])
       \/ /\ ~server.settled /\ server.used = {}
          /\ Emit(SettingsUpdated("asked"), [server EXCEPT !.settled = TRUE])

ServerEndsTurn ==
    /\ server.running /\ server.open = {}
    /\ client.pc = "collecting" /\ server.turn = client.turn
    /\ Emit(TurnCompleted(server.turn, TRUE),
            [server EXCEPT !.running = FALSE, !.used = @ \ {"answer"}])

ServerDeviates ==
    /\ faults < MaxFaults /\ faults' = faults + 1
    /\ client.step >= Len(Setup)
    /\ \E m \in Messages : Send(m)
    /\ UNCHANGED server

TurnNext ==
    \/ \E good \in BOOLEAN, r \in Routes : Respond(good, r)
    \/ ReadMessage \/ DrainQuiet \/ ReturnTranscripts \/ Deadline
    \/ ServerStartsTurn \/ ServerWorks \/ ServerEndsTurn \/ ServerDeviates

-----------------------------------------------------------------------------
(* The grade of a returned conversation.                                     *)

(* _capture_required_document: exactly one successful run of the command.    *)
Candidates ==
    UNION {{<<n, c[1]>> : c \in {d \in client.turns[n].commands : d[2]}} : n \in 1 .. Turns}
Captured == Cardinality(Candidates) = 1

FinalAnswer(n) == CHOOSE a \in client.turns[n].answers : \A b \in client.turns[n].answers : b <= a

(* _grade_claims_by_turn: each turn's claims against evidence it had seen.   *)
EvidenceAvailable(n) ==
    \E e \in Candidates : \/ e[1] < n
                          \/ e[1] = n /\ e[2] < FinalAnswer(n)
ClaimsPass ==
    Captured /\ \A n \in 1 .. Turns : client.turns[n].answers # {} /\ EvidenceAvailable(n)

Clean == \A n \in 1 .. Turns : ~client.turns[n].violated
AgentTurnsPass == \A n \in 1 .. Turns : client.turns[n].ok
ScenarioPassed == AgentTurnsPass /\ Clean /\ ClaimsPass

(* _requested_route_confirmed, model and effort.                             *)
RouteConfirmed ==
    \A n \in 1 .. Turns :
        LET t == client.turns[n]
        IN  /\ "asked" \in t.preModels /\ t.models = {"asked"}
            /\ "asked" \in t.preEfforts /\ t.efforts = {"asked"}

-----------------------------------------------------------------------------
(* What a reader of the wire would say of it.                                *)

Before(p, m) == \E q \in 1 .. p - 1 : log[q] = m
After(p, kind, n) == \E q \in p + 1 .. Len(log) : log[q].kind = kind /\ log[q].turn = n
SameItem(p, kind) ==
    {q \in 1 .. Len(log) : /\ log[q].kind = kind
                           /\ log[q].turn = log[p].turn /\ log[q].item = log[p].item}
Ordered(p) ==
    LET m == log[p]
    IN  CASE m.kind = "turn/started" ->
                /\ ~Before(p, m)
                /\ \A k \in 1 .. m.turn - 1 : \E ok \in BOOLEAN : Before(p, TurnCompleted(k, ok))
          [] m.kind = "turn/completed" ->
                Before(p, TurnStarted(m.turn)) /\ ~After(p, "turn/completed", m.turn)
          [] m.kind \in {"item/started", "item/completed"} ->
                /\ Before(p, TurnStarted(m.turn)) /\ After(p, "turn/completed", m.turn)
                /\ m.type # "mcpToolCall"
                /\ Cardinality(SameItem(p, "item/started")) = 1
                /\ Cardinality(SameItem(p, "item/completed")) = 1
                /\ \A q \in SameItem(p, "item/started"), r \in SameItem(p, "item/completed") :
                        q < r /\ log[q].type = log[r].type
          [] m.kind = "model/rerouted" ->
                /\ After(p, "turn/completed", m.turn)
                /\ \A k \in 1 .. m.turn - 1 : ~After(p, "turn/completed", k)
          [] OTHER -> m.kind \in {"thread/settings/updated", "account/rateLimits/updated"}

EvidenceFirst ==
    \A p \in 1 .. Len(log) :
        log[p].kind = "turn/completed" =>
            \E q \in 1 .. p : \E r \in 1 .. q :
                /\ log[q].kind = "item/completed" /\ log[q].turn = log[p].turn
                /\ log[q].type = "agentMessage"
                /\ log[r].kind = "item/completed" /\ log[r].type = "commandExecution" /\ log[r].ok

RouteStated ==
    \A p \in 1 .. Len(log) :
        /\ log[p].kind \in {"thread/settings/updated", "model/rerouted"} => log[p].route = "asked"
        /\ log[p].kind = "item/started" => Before(p, SettingsUpdated("asked"))

(* codex_driver._collect_turn, __main__._grade_claims_by_turn: a returned    *)
(* conversation is clean exactly if the wire was well ordered; one that      *)
(* passes answered every turn after its evidence; and a confirmed route was  *)
(* stated before any activity and never changed.                             *)
GradesAreEarned ==
    client.pc = "returned" =>
        /\ Clean <=> \A p \in 1 .. Len(log) : Ordered(p)
        /\ ScenarioPassed => EvidenceFirst
        /\ RouteConfirmed /\ Clean => RouteStated

=============================================================================
