-------------------------- MODULE EvalTurns_proofs --------------------------
(***************************************************************************)
(* What a conversation with the app server is graded for is earned, for    *)
(* any number of turns, faults and messages.  The inductive invariant of   *)
(* CodexTurn, as EvalHarness instantiates it, and that the grade holds     *)
(* with it; EvalHarness_proofs carries both over to EvalSpec.              *)
(*                                                                         *)
(* The driver reads one message at a time.  The invariant says that what   *)
(* it has read divides into the turns (Divided, Concluded) and that each   *)
(* transcript holds what a reader of its turn alone would say of it        *)
(* (Judged, Evident, Stated, Tracked); that such readings add up to the    *)
(* order of the whole wire is shown of a returned conversation.            *)
(***************************************************************************)
EXTENDS EvalHarness, Sequences, SequencesExt, FiniteSetTheorems, WellFoundedInduction, TLAPS

Prompts == 1 .. Turns
ItemTypes == {"agentMessage", "commandExecution", "mcpToolCall"}
OtherKinds == {"request", "response", "account/rateLimits/updated", "unknown", "error", "hook"}
(* What may arrive, message by message.                                     *)
Incoming ==
    {Turn!TurnStarted(n) : n \in Prompts}
    \cup {Turn!ItemStarted(n, i, t) : n \in Prompts, i \in Turn!ItemIds, t \in ItemTypes}
    \cup {Turn!ItemCompleted(n, i, t, ok) :
             n \in Prompts, i \in Turn!ItemIds, t \in ItemTypes, ok \in BOOLEAN}
    \cup {Turn!TurnCompleted(n, ok) : n \in Prompts, ok \in BOOLEAN}
    \cup {Turn!SettingsUpdated(r) : r \in Turn!Routes}
    \cup {Turn!Rerouted(n, r, s) : n \in Prompts, r \in Turn!Routes, s \in Turn!Routes}
    \cup {Turn!Other(k) : k \in OtherKinds}

LEMMA IncomingForms ==
    ASSUME NEW m \in Incoming
    PROVE  /\ m.kind \in {"turn/started", "turn/completed", "item/started", "item/completed",
                          "thread/settings/updated", "model/rerouted"} \cup OtherKinds
           /\ m.kind = "turn/started" => m.turn \in Prompts /\ m = Turn!TurnStarted(m.turn)
           /\ m.kind = "turn/completed" =>
                m.turn \in Prompts /\ m.ok \in BOOLEAN /\ m = Turn!TurnCompleted(m.turn, m.ok)
           /\ m.kind \in {"item/started", "item/completed"} =>
                m.turn \in Prompts /\ m.item \in Turn!ItemIds /\ m.type \in ItemTypes
           /\ m.kind = "item/completed" => m.ok \in BOOLEAN
           /\ m.kind = "thread/settings/updated" =>
                m.route \in Turn!Routes /\ m = Turn!SettingsUpdated(m.route)
           /\ m.kind = "model/rerouted" => m.turn \in Prompts /\ m.route \in Turn!Routes
  <1>1. ASSUME NEW n \in Prompts, m = Turn!TurnStarted(n)
        PROVE  m.kind = "turn/started" /\ m.turn = n
    BY <1>1 DEF Turn!TurnStarted
  <1>2. ASSUME NEW n \in Prompts, NEW i \in Turn!ItemIds, NEW t \in ItemTypes, m = Turn!ItemStarted(n, i, t)
        PROVE  m.kind = "item/started" /\ m.turn = n /\ m.item = i /\ m.type = t
    BY <1>2 DEF Turn!ItemStarted
  <1>3. ASSUME NEW n \in Prompts, NEW i \in Turn!ItemIds, NEW t \in ItemTypes, NEW ok \in BOOLEAN,
               m = Turn!ItemCompleted(n, i, t, ok)
        PROVE  m.kind = "item/completed" /\ m.turn = n /\ m.item = i /\ m.type = t /\ m.ok = ok
    BY <1>3 DEF Turn!ItemCompleted
  <1>4. ASSUME NEW n \in Prompts, NEW ok \in BOOLEAN, m = Turn!TurnCompleted(n, ok)
        PROVE  m.kind = "turn/completed" /\ m.turn = n /\ m.ok = ok
    BY <1>4 DEF Turn!TurnCompleted
  <1>5. ASSUME NEW r \in Turn!Routes, m = Turn!SettingsUpdated(r)
        PROVE  m.kind = "thread/settings/updated" /\ m.route = r
    BY <1>5 DEF Turn!SettingsUpdated
  <1>6. ASSUME NEW n \in Prompts, NEW r \in Turn!Routes, NEW s \in Turn!Routes, m = Turn!Rerouted(n, r, s)
        PROVE  m.kind = "model/rerouted" /\ m.turn = n /\ m.route = s
    BY <1>6 DEF Turn!Rerouted
  <1>7. ASSUME NEW k \in OtherKinds, m = Turn!Other(k)
        PROVE  m.kind = k
    BY <1>7 DEF Turn!Other
  <1>8. \/ \E n \in Prompts : m = Turn!TurnStarted(n)
        \/ \E n \in Prompts, i \in Turn!ItemIds, t \in ItemTypes : m = Turn!ItemStarted(n, i, t)
        \/ \E n \in Prompts, i \in Turn!ItemIds, t \in ItemTypes, ok \in BOOLEAN : m = Turn!ItemCompleted(n, i, t, ok)
        \/ \E n \in Prompts, ok \in BOOLEAN : m = Turn!TurnCompleted(n, ok)
        \/ \E r \in Turn!Routes : m = Turn!SettingsUpdated(r)
        \/ \E n \in Prompts, r \in Turn!Routes, s \in Turn!Routes : m = Turn!Rerouted(n, r, s)
        \/ \E k \in OtherKinds : m = Turn!Other(k)
    BY DEF Incoming
  <1>9. CASE \E n \in Prompts : m = Turn!TurnStarted(n)
    BY <1>1, <1>9 DEF OtherKinds
  <1>10. CASE \E n \in Prompts, i \in Turn!ItemIds, t \in ItemTypes : m = Turn!ItemStarted(n, i, t)
    BY <1>2, <1>10 DEF OtherKinds
  <1>11. CASE \E n \in Prompts, i \in Turn!ItemIds, t \in ItemTypes, ok \in BOOLEAN : m = Turn!ItemCompleted(n, i, t, ok)
    BY <1>3, <1>11 DEF OtherKinds
  <1>12. CASE \E n \in Prompts, ok \in BOOLEAN : m = Turn!TurnCompleted(n, ok)
    BY <1>4, <1>12 DEF OtherKinds
  <1>13. CASE \E r \in Turn!Routes : m = Turn!SettingsUpdated(r)
    BY <1>5, <1>13 DEF OtherKinds
  <1>14. CASE \E n \in Prompts, r \in Turn!Routes, s \in Turn!Routes : m = Turn!Rerouted(n, r, s)
    BY <1>6, <1>14 DEF OtherKinds
  <1>15. CASE \E k \in OtherKinds : m = Turn!Other(k)
    BY <1>7, <1>15 DEF OtherKinds
  <1> QED
    BY <1>8, <1>9, <1>10, <1>11, <1>12, <1>13, <1>14, <1>15

Names == Turn!Routes \cup {"none"}
Transcript ==
    [events : Nat, commands : SUBSET (Nat \X BOOLEAN), answers : SUBSET Nat, violated : BOOLEAN,
     ok : BOOLEAN, model : Names, models : SUBSET Names, preModels : SUBSET Names,
     efforts : SUBSET Names, preEfforts : SUBSET Names, confirmed : SUBSET Names]
Stages == {"asking", "collecting", "settling", "returned", "failed"}
Driver ==
    [pc : Stages, step : Nat \ {0}, turn : Nat, started : BOOLEAN,
     open : SUBSET (Turn!ItemIds \X ItemTypes), done : SUBSET Turn!ItemIds, active : BOOLEAN,
     model : Names, effort : SUBSET Names, turns : Seq(Transcript)]

(* What the driver has read of the wire; the rest waits in its queue.       *)
Reads == Len(log) - Len(queue)
Wired ==
    /\ log \in Seq(Incoming) /\ queue \in Seq(Incoming) /\ Len(queue) <= Len(log)
    /\ \A i \in 1 .. Len(queue) : queue[i] = log[Reads + i]

(* The turns divide what was read: turn k has the messages from b[k] + 1 to *)
(* b[k + 1].                                                                *)
Part(b, k) == b[k] + 1 .. b[k + 1]
EndedTurns == IF client.pc = "collecting" THEN client.turn - 1 ELSE client.turn

(* Turns follow one another without a gap; what is read after the last is   *)
(* neither of a turn nor, past the settling, anything but rate limits.      *)
Divided(b) ==
    /\ b \in [Nat -> Nat] /\ b[1] = 0
    /\ client.turn = Len(client.turns) /\ client.turn <= Turns
    /\ client.pc = "collecting" => client.turn >= 1
    /\ \A j, k \in 1 .. client.turn + 1 : j <= k => b[j] <= b[k]
    /\ \A k \in 1 .. client.turn : b[k + 1] = b[k] + client.turns[k].events
    /\ \A p \in 1 .. b[client.turn + 1] : \E k \in 1 .. client.turn : p \in Part(b, k)
    /\ b[client.turn + 1] <= Reads
    /\ client.pc \in {"asking", "collecting"} => b[client.turn + 1] = Reads
    /\ client.pc \in {"settling", "returned"} =>
         /\ client.turn = Turns
         /\ \A p \in b[client.turn + 1] + 1 .. Reads : log[p].kind = "account/rateLimits/updated"
    /\ client.pc = "returned" => queue = << >>

(* The messages of a turn, from s + 1 to p, as a reader of the wire has them. *)
Begins(s, k, p) == \E q \in s + 1 .. p : log[q] = Turn!TurnStarted(k)
StartsItem(s, p, i) == \E q \in s + 1 .. p : log[q].kind = "item/started" /\ log[q].item = i
StartsAs(s, p, i, t) ==
    \E q \in s + 1 .. p : log[q].kind = "item/started" /\ log[q].item = i /\ log[q].type = t
EndsItem(s, p, i) == \E q \in s + 1 .. p : log[q].kind = "item/completed" /\ log[q].item = i

(* Message p is in its place in turn k, which has the messages from s + 1:  *)
(* the turn starts once and ends with no item open, an item starts once     *)
(* after the turn and ends once as what it started.                         *)
Fine(s, k, p) ==
    LET m == log[p]
    IN  \/ /\ m.kind = "turn/started" /\ m.turn = k
           /\ \A q \in s + 1 .. p - 1 : log[q].kind # "turn/started"
        \/ /\ m.kind = "turn/completed" /\ m.turn = k /\ Begins(s, k, p - 1)
           /\ \A q \in s + 1 .. p - 1 : log[q].kind = "item/started" => EndsItem(s, p - 1, log[q].item)
        \/ /\ m.kind = "item/started" /\ m.turn = k /\ Begins(s, k, p - 1)
           /\ m.type # "mcpToolCall" /\ ~StartsItem(s, p - 1, m.item)
        \/ /\ m.kind = "item/completed" /\ m.turn = k /\ Begins(s, k, p - 1)
           /\ StartsAs(s, p - 1, m.item, m.type) /\ ~EndsItem(s, p - 1, m.item)
        \/ m.kind = "model/rerouted" /\ m.turn = k
        \/ m.kind \in {"thread/settings/updated", "account/rateLimits/updated"}

(* A turn ends with its completion, the first after its start.              *)
Concluded(b) ==
    /\ \A k \in 1 .. EndedTurns :
         /\ b[k] < b[k + 1] /\ Begins(b[k], k, b[k + 1] - 1)
         /\ log[b[k + 1]] = Turn!TurnCompleted(k, client.turns[k].ok)
    /\ \A k \in 1 .. client.turn : \A p \in Part(b, k) :
         log[p].kind = "turn/completed" /\ log[p].turn = k /\ Begins(b[k], k, p - 1)
           => p = b[k + 1] /\ k <= EndedTurns

(* A transcript is violated when, and only when, a message was out of place.*)
Judged(b) ==
    \A k \in 1 .. client.turn :
        client.turns[k].violated <=> \E p \in Part(b, k) : ~Fine(b[k], k, p)

(* Commands and answers stand at their place among the turn's messages.     *)
Evident(b) ==
    \A k \in 1 .. client.turn :
        /\ \A c \in client.turns[k].commands :
             /\ c[1] < client.turns[k].events
             /\ LET m == log[b[k] + c[1] + 1]
                IN  m.kind = "item/completed" /\ m.type = "commandExecution" /\ (c[2] => m.ok)
        /\ \A a \in client.turns[k].answers :
             /\ a < client.turns[k].events
             /\ LET m == log[b[k] + a + 1]
                IN  m.kind = "item/completed" /\ m.type = "agentMessage" /\ m.turn = k

Said(r, p) == \E q \in 1 .. p : log[q] = Turn!SettingsUpdated(r)
(* Efforts and models observed were said on the wire, those before the first*)
(* item before it, and every model said in the turn was observed.           *)
Stated(b) ==
    /\ \A r \in client.effort : Said(r, Reads)
    /\ \A k \in 1 .. client.turn :
         /\ \A r \in client.turns[k].preEfforts \cup client.turns[k].confirmed : Said(r, b[k + 1])
         /\ \A p \in Part(b, k) :
              /\ log[p].kind = "thread/settings/updated"
                 \/ (log[p].kind = "model/rerouted" /\ log[p].turn = k)
                   => log[p].route \in client.turns[k].models
              /\ log[p].kind = "item/started" /\ ~client.turns[k].violated
                   => \A r \in client.turns[k].preEfforts : Said(r, p - 1)

(* _TurnCollectionState, while nothing of the turn was a violation.         *)
Tracked(b) ==
    client.pc = "collecting" =>
        LET s == b[client.turn]
        IN  /\ client.started <=> Begins(s, client.turn, Reads)
            /\ ~client.turns[client.turn].violated =>
                 /\ \A i \in Turn!ItemIds, t \in ItemTypes :
                      <<i, t>> \in client.open <=> StartsAs(s, Reads, i, t) /\ ~EndsItem(s, Reads, i)
                 /\ \A i \in Turn!ItemIds : i \in client.done <=> EndsItem(s, Reads, i)
                 /\ client.active <=> \E i \in Turn!ItemIds : StartsItem(s, Reads, i)

Collected(b) ==
    Divided(b) /\ Concluded(b) /\ Judged(b) /\ Evident(b) /\ Stated(b) /\ Tracked(b)

(* The app server, as far as what it may send depends on it.                *)
AppServer ==
    [turn : Nat, running : BOOLEAN, open : SUBSET Turn!ItemIds, used : SUBSET Turn!ItemIds, settled : BOOLEAN]

(* While the conversation has not failed, the messages read are divided     *)
(* among its turns, and the transcripts hold what that division says.       *)
TurnInv ==
    client.pc # "failed" => client \in Driver /\ server \in AppServer /\ Wired /\ \E b : Collected(b)

-----------------------------------------------------------------------------
(* A returned conversation. *)

Returned(b) == client.pc = "returned" /\ client \in Driver /\ Wired /\ Collected(b)

(* Parts of a division do not overlap.                                      *)
LEMMA OrderedParts ==
    ASSUME NEW p, NEW m, m = log[p]
    PROVE  /\ m.kind = "turn/started" =>
                (Turn!Ordered(p) <=>
                    /\ ~Turn!Before(p, m)
                    /\ \A k \in 1 .. m.turn - 1 : \E ok \in BOOLEAN : Turn!Before(p, Turn!TurnCompleted(k, ok)))
           /\ m.kind = "turn/completed" =>
                (Turn!Ordered(p) <=>
                    Turn!Before(p, Turn!TurnStarted(m.turn)) /\ ~Turn!After(p, "turn/completed", m.turn))
           /\ m.kind \in {"item/started", "item/completed"} =>
                (Turn!Ordered(p) <=>
                    /\ Turn!Before(p, Turn!TurnStarted(m.turn)) /\ Turn!After(p, "turn/completed", m.turn)
                    /\ m.type # "mcpToolCall"
                    /\ Cardinality(Turn!SameItem(p, "item/started")) = 1
                    /\ Cardinality(Turn!SameItem(p, "item/completed")) = 1
                    /\ \A q \in Turn!SameItem(p, "item/started"), r \in Turn!SameItem(p, "item/completed") :
                            q < r /\ log[q].type = log[r].type)
           /\ m.kind = "model/rerouted" =>
                (Turn!Ordered(p) <=>
                    /\ Turn!After(p, "turn/completed", m.turn)
                    /\ \A k \in 1 .. m.turn - 1 : ~Turn!After(p, "turn/completed", k))
           /\ m.kind \in {"thread/settings/updated", "account/rateLimits/updated"} => Turn!Ordered(p)
           /\ m.kind \in {"request", "response", "unknown", "error", "hook"} => ~Turn!Ordered(p)
  <1>0. \A S : Turn!Cardinality(S) = Cardinality(S)
    BY DEF Cardinality, Turn!Cardinality
  <1> QED
    BY <1>0 DEF Turn!Ordered

(* A returned conversation read everything, in its turns or after them.     *)
LEMMA WholeWire ==
    ASSUME NEW b, Returned(b), Turns \in Nat
    PROVE  /\ client.turn = Turns /\ EndedTurns = Turns /\ Reads = Len(log) /\ Len(log) \in Nat
           /\ \A k \in Nat : b[k] \in Nat
           /\ \A p \in 1 .. Len(log) : log[p] \in Incoming
           /\ \A p \in 1 .. Len(log) : (\E k \in Prompts : p \in Part(b, k)) \/ log[p].kind = "account/rateLimits/updated"
           /\ \A k \in Prompts : 0 <= b[k] /\ b[k] < b[k + 1] /\ b[k + 1] <= Len(log)
           /\ \A j, k \in Prompts : j < k => b[j + 1] <= b[k]
           /\ \A j, k \in Prompts : \A p \in Part(b, j) : p \in Part(b, k) => j = k
           /\ \A k \in Prompts : \A p \in Part(b, k) : p \in 1 .. Len(log)
           /\ \A k \in Prompts : log[b[k + 1]].kind = "turn/completed" /\ log[b[k + 1]].turn = k
           /\ \A k \in Prompts : \E q \in b[k] + 1 .. b[k + 1] - 1 : log[q] = Turn!TurnStarted(k)
  <1>1. client.turn = Turns /\ EndedTurns = Turns
    BY DEF Returned, Collected, Divided, EndedTurns
  <1>2. Reads = Len(log) /\ Len(log) \in Nat
    <2>1. queue = << >> /\ log \in Seq(Incoming)
      BY DEF Returned, Collected, Divided, Wired
    <2> QED
      BY <2>1 DEF Reads
  <1>3. \A k \in Nat : b[k] \in Nat
    BY DEF Returned, Collected, Divided
  <1>4. \A p \in 1 .. Len(log) : log[p] \in Incoming
    BY DEF Returned, Wired
  <1>5. \A k \in Prompts : b[k] < b[k + 1] /\ log[b[k + 1]].kind = "turn/completed" /\ log[b[k + 1]].turn = k
                           /\ \E q \in b[k] + 1 .. b[k + 1] - 1 : log[q] = Turn!TurnStarted(k)
    <2> TAKE k \in Prompts
    <2>1. /\ b[k] < b[k + 1] /\ Begins(b[k], k, b[k + 1] - 1)
          /\ log[b[k + 1]] = Turn!TurnCompleted(k, client.turns[k].ok)
      BY <1>1 DEF Returned, Collected, Concluded, Prompts
    <2>2. log[b[k + 1]].kind = "turn/completed" /\ log[b[k + 1]].turn = k
      BY <2>1 DEF Turn!TurnCompleted
    <2> QED
      BY <2>1, <2>2 DEF Begins
  <1>6. \A j, k \in 1 .. Turns + 1 : j <= k => b[j] <= b[k]
    BY <1>1 DEF Returned, Collected, Divided
  <1>7. b[Turns + 1] <= Len(log)
    BY <1>1, <1>2 DEF Returned, Collected, Divided
  <1>8. \A k \in Prompts : k \in Nat /\ k + 1 \in Nat /\ k \in 1 .. Turns + 1 /\ k + 1 \in 1 .. Turns + 1
    BY DEF Prompts
  <1>9. \A k \in Prompts : 0 <= b[k] /\ b[k] < b[k + 1] /\ b[k + 1] <= Len(log)
    <2> TAKE k \in Prompts
    <2>1. b[k] \in Nat /\ b[k + 1] \in Nat /\ b[Turns + 1] \in Nat /\ b[k + 1] <= b[Turns + 1]
      BY <1>3, <1>6, <1>8 DEF Prompts
    <2> QED
      BY <1>2, <1>5, <1>7, <2>1
  <1>10. \A j, k \in Prompts : j < k => b[j + 1] <= b[k]
    BY <1>6, <1>8 DEF Prompts
  <1>11. \A j, k \in Prompts : \A p \in Part(b, j) : p \in Part(b, k) => j = k
    <2> SUFFICES ASSUME NEW j \in Prompts, NEW k \in Prompts, NEW p \in Part(b, j), p \in Part(b, k), j < k
                 PROVE  FALSE
      BY DEF Prompts
    <2>1. b[j + 1] <= b[k] /\ b[j + 1] \in Nat /\ b[k] \in Nat /\ b[j] \in Nat /\ b[k + 1] \in Nat
      BY <1>3, <1>8, <1>10
    <2> QED
      BY <2>1 DEF Part
  <1>12. \A k \in Prompts : \A p \in Part(b, k) : p \in 1 .. Len(log)
    <2> TAKE k \in Prompts
    <2> TAKE p \in Part(b, k)
    <2>1. b[k] \in Nat /\ b[k + 1] \in Nat /\ b[k + 1] <= Len(log)
      BY <1>3, <1>8, <1>9
    <2> QED
      BY <1>2, <2>1 DEF Part
  <1>13. \A p \in 1 .. Len(log) : (\E k \in Prompts : p \in Part(b, k)) \/ log[p].kind = "account/rateLimits/updated"
    <2> TAKE p \in 1 .. Len(log)
    <2>1. b[Turns + 1] \in Nat
      BY <1>3
    <2>2. CASE p <= b[Turns + 1]
      <3>1. \A q \in 1 .. b[Turns + 1] : \E k \in Prompts : q \in Part(b, k)
        BY <1>1 DEF Returned, Collected, Divided, Prompts
      <3>2. p \in 1 .. b[Turns + 1]
        BY <1>2, <2>1, <2>2
      <3> QED
        BY <3>1, <3>2
    <2>3. CASE p > b[Turns + 1]
      <3>1. \A q \in b[Turns + 1] + 1 .. Reads : log[q].kind = "account/rateLimits/updated"
        BY <1>1 DEF Returned, Collected, Divided
      <3>2. p \in b[Turns + 1] + 1 .. Reads
        BY <1>2, <2>1, <2>3
      <3> QED
        BY <3>1, <3>2
    <2> QED
      BY <1>2, <2>1, <2>2, <2>3
  <1> QED
    BY <1>1, <1>2, <1>3, <1>4, <1>5, <1>9, <1>10, <1>11, <1>12, <1>13

(* One turn of it.                                                          *)
LEMMA PartFacts ==
    ASSUME NEW b, Returned(b), Turns \in Nat, NEW k \in Prompts
    PROVE  /\ Len(log) \in Nat /\ b[k] \in Nat /\ b[k + 1] \in Nat
           /\ b[k] < b[k + 1] /\ b[k + 1] <= Len(log)
           /\ log[b[k + 1]].kind = "turn/completed" /\ log[b[k + 1]].turn = k
           /\ \A p \in 1 .. Len(log) : b[k] < p /\ p <= b[k + 1] => p \in Part(b, k)
           /\ \A p \in Part(b, k) : p \in 1 .. Len(log) /\ b[k] < p /\ p <= b[k + 1]
  <1>1. k \in Nat /\ k + 1 \in Nat
    BY DEF Prompts
  <1>2. Len(log) \in Nat
    BY WholeWire
  <1>3. b[k] \in Nat /\ b[k + 1] \in Nat
    BY <1>1, WholeWire
  <1>4. b[k] < b[k + 1] /\ b[k + 1] <= Len(log)
    BY WholeWire
  <1>5. log[b[k + 1]].kind = "turn/completed" /\ log[b[k + 1]].turn = k
    BY WholeWire
  <1> QED
    BY <1>2, <1>3, <1>4, <1>5 DEF Part

(* The wire as CodexTurn orders it, and as a reader of each turn finds it.  *)
WellOrdered == \A p \in 1 .. Len(log) : Turn!Ordered(p)
AllFine(b) == \A k \in Prompts : \A p \in Part(b, k) : Fine(b[k], k, p)

LEMMA MessageKinds ==
    /\ \A n : Turn!TurnStarted(n).kind = "turn/started" /\ Turn!TurnStarted(n).turn = n
    /\ \A n, ok : Turn!TurnCompleted(n, ok).kind = "turn/completed" /\ Turn!TurnCompleted(n, ok).turn = n
    /\ \A r : Turn!SettingsUpdated(r).kind = "thread/settings/updated" /\ Turn!SettingsUpdated(r).route = r
  BY DEF Turn!TurnStarted, Turn!TurnCompleted, Turn!SettingsUpdated

(* On a well ordered wire a turn starts and ends once, inside its part.     *)
LEMMA TurnsOnce ==
    ASSUME NEW b, Returned(b), Turns \in Nat, WellOrdered, NEW k \in Prompts, NEW p \in 1 .. Len(log)
    PROVE  /\ log[p].kind = "turn/completed" /\ log[p].turn = k => p = b[k + 1]
           /\ log[p] = Turn!TurnStarted(k) =>
                /\ b[k] < p /\ p < b[k + 1]
                /\ \A q \in 1 .. Len(log) : log[q] = Turn!TurnStarted(k) => p = q
  <1>0. /\ b[k] \in Nat /\ b[k + 1] \in Nat /\ b[k] < b[k + 1] /\ b[k + 1] <= Len(log) /\ Len(log) \in Nat
        /\ log[b[k + 1]].kind = "turn/completed" /\ log[b[k + 1]].turn = k
    BY PartFacts
  <1>1. ASSUME log[p].kind = "turn/completed", log[p].turn = k
        PROVE  p = b[k + 1]
    <2>1. ~Turn!After(p, "turn/completed", k)
      BY <1>1, OrderedParts DEF WellOrdered
    <2>2. b[k + 1] \in 1 .. Len(log)
      BY <1>0
    <2>3. ~Turn!After(b[k + 1], "turn/completed", k)
      BY <1>0, <2>2, OrderedParts DEF WellOrdered
    <2>4. ~(p < b[k + 1])
      BY <1>0, <2>1 DEF Turn!After
    <2>5. ~(p > b[k + 1])
      BY <1>0, <1>1, <2>3 DEF Turn!After
    <2> QED
      BY <1>0, <2>4, <2>5
  <1>2. ASSUME NEW q \in 1 .. Len(log), NEW r \in 1 .. Len(log), q < r,
               log[q] = Turn!TurnStarted(k), log[r] = Turn!TurnStarted(k)
        PROVE  FALSE
    <2>1. ~Turn!Before(r, Turn!TurnStarted(k))
      BY <1>2, MessageKinds, OrderedParts DEF WellOrdered
    <2> QED
      BY <1>2, <2>1 DEF Turn!Before
  <1>3. \A q, r \in 1 .. Len(log) : log[q] = Turn!TurnStarted(k) /\ log[r] = Turn!TurnStarted(k) => q = r
    BY <1>2
  <1>4. PICK q \in b[k] + 1 .. b[k + 1] - 1 : log[q] = Turn!TurnStarted(k)
    BY WholeWire
  <1>5. q \in 1 .. Len(log) /\ b[k] < q /\ q < b[k + 1]
    BY <1>0, <1>4
  <1> QED
    BY <1>1, <1>3, <1>4, <1>5

(* ... and so do the items and the reroutes of it.                          *)
LEMMA ItemsInside ==
    ASSUME NEW b, Returned(b), Turns \in Nat, WellOrdered, NEW p \in 1 .. Len(log),
           log[p].kind \in {"item/started", "item/completed"}
    PROVE  /\ log[p].turn \in Prompts /\ p \in Part(b, log[p].turn)
           /\ Begins(b[log[p].turn], log[p].turn, p - 1)
           /\ \A k \in Prompts : p \in Part(b, k) => log[p].turn = k
  <1>1. log[p].turn \in Prompts
    BY WholeWire, IncomingForms
  <1> DEFINE j == log[p].turn
  <1> HIDE DEF j
  <1>2. j \in Prompts
    BY <1>1 DEF j
  <1>3. Turn!Before(p, Turn!TurnStarted(j)) /\ Turn!After(p, "turn/completed", j)
    BY OrderedParts DEF WellOrdered, j
  <1>4. PICK q \in 1 .. p - 1 : log[q] = Turn!TurnStarted(j)
    BY <1>3 DEF Turn!Before
  <1>5. PICK r \in p + 1 .. Len(log) : log[r].kind = "turn/completed" /\ log[r].turn = j
    BY <1>3 DEF Turn!After
  <1>6. Len(log) \in Nat /\ b[j] \in Nat /\ b[j + 1] \in Nat
    BY <1>2, WholeWire DEF Prompts
  <1>7. q \in 1 .. Len(log) /\ r \in 1 .. Len(log)
    BY <1>6
  <1>8. b[j] < q /\ r = b[j + 1]
    BY <1>2, <1>4, <1>5, <1>7, TurnsOnce
  <1>9. p \in Part(b, j)
    BY <1>4, <1>5, <1>6, <1>8 DEF Part
  <1>10. Begins(b[j], j, p - 1)
    BY <1>4, <1>6, <1>8 DEF Begins
  <1>11. \A k \in Prompts : p \in Part(b, k) => j = k
    BY <1>2, <1>9, WholeWire
  <1> QED
    BY <1>2, <1>9, <1>10, <1>11 DEF j

LEMMA OnlyOne ==
    ASSUME NEW p, NEW kind, Turns \in Nat, Cardinality(Turn!SameItem(p, kind)) = 1, log \in Seq(Incoming)
    PROVE  \E q \in Turn!SameItem(p, kind) : Turn!SameItem(p, kind) = {q}
  <1>1. IsFiniteSet(1 .. Len(log))
    BY FS_Interval
  <1>2. IsFiniteSet(Turn!SameItem(p, kind))
    BY <1>1, FS_Subset DEF Turn!SameItem
  <1>3. \E q : Turn!SameItem(p, kind) = {q}
    BY <1>2, FS_Singleton
  <1> QED
    BY <1>3

(* A well ordered wire reads without a violation ...                        *)
LEMMA OrderedIsFine ==
    ASSUME NEW b, Returned(b), Turns \in Nat, WellOrdered
    PROVE  AllFine(b)
  <1> SUFFICES ASSUME NEW k \in Prompts, NEW p \in Part(b, k)
               PROVE  Fine(b[k], k, p)
    BY DEF AllFine
  <1>0. /\ Len(log) \in Nat /\ b[k] \in Nat /\ b[k + 1] \in Nat /\ b[k] < b[k + 1] /\ b[k + 1] <= Len(log)
        /\ p \in 1 .. Len(log) /\ b[k] < p /\ p <= b[k + 1] /\ log[p] \in Incoming /\ log \in Seq(Incoming)
        /\ log[b[k + 1]].kind = "turn/completed" /\ log[b[k + 1]].turn = k
    <2>1. log \in Seq(Incoming)
      BY DEF Returned, Wired
    <2> QED
      BY <2>1, PartFacts, WholeWire
  <1>1. Turn!Ordered(p)
    BY <1>0 DEF WellOrdered
  <1>2. ASSUME NEW q \in b[k] + 1 .. p
        PROVE  q \in 1 .. Len(log) /\ q \in Part(b, k)
    BY <1>0 DEF Part
  <1> DEFINE m == log[p]
  <1> HIDE DEF m
  <1>3. m \in Incoming
    BY <1>0 DEF m
  <1>4. CASE m.kind = "turn/started"
    <2>1. m.turn \in Prompts /\ m = Turn!TurnStarted(m.turn)
      BY <1>3, <1>4, IncomingForms
    <2>2. m.turn = k
      <3>1. b[m.turn] < p /\ p < b[m.turn + 1]
        BY <1>0, <2>1, TurnsOnce DEF m
      <3>2. p \in Part(b, m.turn)
        BY <1>0, <2>1, <3>1, PartFacts
      <3> QED
        BY <2>1, <3>2, WholeWire
    <2>3. ASSUME NEW q \in b[k] + 1 .. p - 1, log[q].kind = "turn/started"
          PROVE  FALSE
      <3>0. q \in b[k] + 1 .. p
        BY <1>0
      <3>1. q \in 1 .. Len(log) /\ q \in Part(b, k) /\ log[q] \in Incoming
        BY <1>0, <1>2, <3>0
      <3>2. log[q].turn \in Prompts /\ log[q] = Turn!TurnStarted(log[q].turn)
        BY <2>3, <3>1, IncomingForms
      <3>3. b[log[q].turn] < q /\ q < b[log[q].turn + 1]
        BY <3>1, <3>2, TurnsOnce
      <3>4. q \in Part(b, log[q].turn)
        BY <3>1, <3>2, <3>3, PartFacts
      <3>5. log[q].turn = k
        BY <3>1, <3>2, <3>4, WholeWire
      <3>6. q = p
        BY <1>0, <2>1, <2>2, <3>1, <3>2, <3>5, TurnsOnce DEF m
      <3> QED
        BY <1>0, <3>6
    <2> QED
      BY <1>4, <2>2, <2>3 DEF Fine, m
  <1>5. CASE m.kind = "turn/completed"
    <2>1. m.turn \in Prompts
      BY <1>3, <1>5, IncomingForms
    <2>2. p = b[m.turn + 1]
      BY <1>0, <1>5, <2>1, TurnsOnce DEF m
    <2>3. m.turn = k
      <3>1. b[m.turn] \in Nat /\ b[m.turn + 1] \in Nat /\ b[m.turn] < b[m.turn + 1]
        BY <2>1, PartFacts
      <3>2. p \in Part(b, m.turn)
        BY <2>2, <3>1 DEF Part
      <3> QED
        BY <2>1, <3>2, WholeWire
    <2>4. Begins(b[k], k, p - 1)
      BY <2>2, <2>3, WholeWire DEF Begins
    <2>5. ASSUME NEW q \in b[k] + 1 .. p - 1, log[q].kind = "item/started"
          PROVE  EndsItem(b[k], p - 1, log[q].item)
      <3>1. q \in 1 .. Len(log) /\ q \in Part(b, k) /\ log[q].turn = k
        BY <1>0, <1>2, <2>5, ItemsInside
      <3>2. /\ Cardinality(Turn!SameItem(q, "item/started")) = 1
            /\ Cardinality(Turn!SameItem(q, "item/completed")) = 1
        BY <2>5, <3>1, OrderedParts DEF WellOrdered
      <3>3. PICK r \in Turn!SameItem(q, "item/completed") : TRUE
        BY <1>0, <3>2, OnlyOne
      <3>4. r \in 1 .. Len(log) /\ log[r].kind = "item/completed" /\ log[r].turn = k /\ log[r].item = log[q].item
        BY <3>1, <3>3 DEF Turn!SameItem
      <3>5. r \in Part(b, k)
        BY <3>4, ItemsInside
      <3>6. b[k] < r /\ r <= b[k + 1] /\ r # b[k + 1]
        BY <1>0, <3>4, <3>5 DEF Part
      <3>7. r \in b[k] + 1 .. p - 1
        BY <1>0, <2>2, <2>3, <3>4, <3>6
      <3> QED
        BY <3>4, <3>7 DEF EndsItem
    <2> QED
      BY <1>5, <2>3, <2>4, <2>5 DEF Fine, m
  <1>6. CASE m.kind \in {"item/started", "item/completed"}
    <2>1. m.turn = k /\ Begins(b[k], k, p - 1)
      BY <1>0, <1>6, ItemsInside DEF m
    <2>2. /\ m.type # "mcpToolCall"
          /\ Cardinality(Turn!SameItem(p, "item/started")) = 1
          /\ Cardinality(Turn!SameItem(p, "item/completed")) = 1
          /\ \A q \in Turn!SameItem(p, "item/started"), r \in Turn!SameItem(p, "item/completed") :
                  q < r /\ log[q].type = log[r].type
      BY <1>1, <1>6, OrderedParts DEF m
    <2>3. ASSUME NEW q \in b[k] + 1 .. p - 1, log[q].kind = m.kind, log[q].item = m.item
          PROVE  FALSE
      <3>1. q \in 1 .. Len(log) /\ q \in Part(b, k) /\ log[q].turn = k
        BY <1>0, <1>2, <1>6, <2>3, ItemsInside
      <3>2. q \in Turn!SameItem(p, m.kind) /\ p \in Turn!SameItem(p, m.kind)
        BY <1>0, <2>1, <2>3, <3>1 DEF Turn!SameItem, m
      <3>3. PICK x : Turn!SameItem(p, m.kind) = {x}
        BY <1>0, <1>6, <2>2, OnlyOne
      <3>4. q = p
        BY <3>2, <3>3
      <3> QED
        BY <1>0, <3>4
    <2>4. CASE m.kind = "item/started"
      BY <2>1, <2>2, <2>3, <2>4 DEF Fine, StartsItem, m
    <2>5. CASE m.kind = "item/completed"
      <3>1. PICK q \in Turn!SameItem(p, "item/started") : TRUE
        BY <1>0, <2>2, OnlyOne
      <3>2. p \in Turn!SameItem(p, "item/completed")
        BY <1>0, <2>5 DEF Turn!SameItem, m
      <3>3. q < p /\ log[q].type = m.type
        BY <2>2, <3>1, <3>2 DEF m
      <3>4. q \in 1 .. Len(log) /\ log[q].kind = "item/started" /\ log[q].turn = k /\ log[q].item = m.item
        BY <2>1, <3>1 DEF Turn!SameItem, m
      <3>5. q \in Part(b, k)
        BY <3>4, ItemsInside
      <3>6. StartsAs(b[k], p - 1, m.item, m.type)
        BY <1>0, <3>3, <3>4, <3>5 DEF StartsAs, Part
      <3> QED
        BY <2>1, <2>3, <2>5, <3>6 DEF Fine, EndsItem, m
    <2> QED
      BY <1>6, <2>4, <2>5
  <1>7. CASE m.kind = "model/rerouted"
    <2>1. m.turn \in Prompts
      BY <1>3, <1>7, IncomingForms
    <2>2. /\ Turn!After(p, "turn/completed", m.turn)
          /\ \A j \in 1 .. m.turn - 1 : ~Turn!After(p, "turn/completed", j)
      BY <1>1, <1>7, OrderedParts DEF m
    <2>3. PICK r \in p + 1 .. Len(log) : log[r].kind = "turn/completed" /\ log[r].turn = m.turn
      BY <2>2 DEF Turn!After
    <2>4. b[m.turn + 1] > p
      BY <1>0, <2>1, <2>3, TurnsOnce
    <2>5. ~(m.turn < k)
      <3>1. m.turn < k => b[m.turn + 1] <= b[k]
        BY <2>1, WholeWire
      <3>2. b[m.turn + 1] \in Nat
        BY <2>1, WholeWire, SMTT(20) DEF Prompts
      <3> QED
        BY <1>0, <2>4, <3>1, <3>2
    <2>6. ~(k < m.turn)
      <3>1. b[k + 1] # p
        BY <1>0, <1>7 DEF m
      <3>2. Turn!After(p, "turn/completed", k)
        BY <1>0, <3>1 DEF Turn!After
      <3> QED
        BY <2>1, <2>2, <3>2 DEF Prompts
    <2>7. m.turn = k
      BY <2>1, <2>5, <2>6 DEF Prompts
    <2> QED
      BY <1>7, <2>7 DEF Fine, m
  <1>8. CASE m.kind \in {"thread/settings/updated", "account/rateLimits/updated"}
    BY <1>8 DEF Fine, m
  <1>9. m.kind \notin {"request", "response", "unknown", "error", "hook"}
    BY <1>1, OrderedParts DEF m
  <1> QED
    BY <1>3, <1>4, <1>5, <1>6, <1>7, <1>8, <1>9, IncomingForms DEF OtherKinds

(* ... and a wire that reads without one is well ordered.                   *)
LEMMA FineMessage ==
    ASSUME NEW b, Returned(b), Turns \in Nat, AllFine(b), NEW p \in 1 .. Len(log),
           log[p].kind # "account/rateLimits/updated"
    PROVE  \E k \in Prompts : p \in Part(b, k) /\ Fine(b[k], k, p)
  BY WholeWire DEF AllFine

LEMMA FineTurn ==
    ASSUME NEW b, Returned(b), Turns \in Nat, AllFine(b), NEW p \in 1 .. Len(log),
           log[p].kind \in {"turn/started", "turn/completed", "item/started", "item/completed", "model/rerouted"}
    PROVE  /\ log[p].turn \in Prompts /\ p \in Part(b, log[p].turn) /\ Fine(b[log[p].turn], log[p].turn, p)
           /\ log[p].kind = "turn/completed" => p = b[log[p].turn + 1]
  <1>1. PICK k \in Prompts : p \in Part(b, k) /\ Fine(b[k], k, p)
    BY FineMessage
  <1>2. log[p].turn = k
    BY <1>1 DEF Fine
  <1>3. log[p].kind = "turn/completed" => p = b[k + 1]
    <2>1. log[p].kind = "turn/completed" => Begins(b[k], k, p - 1)
      BY <1>1 DEF Fine
    <2>2. k \in 1 .. client.turn
      BY WholeWire DEF Prompts
    <2> QED
      BY <1>1, <1>2, <2>1, <2>2 DEF Returned, Collected, Concluded
  <1> QED
    BY <1>1, <1>2, <1>3

LEMMA StartedFirst ==
    ASSUME NEW b, Returned(b), Turns \in Nat, NEW k \in Prompts, NEW p \in Part(b, k),
           Begins(b[k], k, p - 1)
    PROVE  Turn!Before(p, Turn!TurnStarted(k))
  <1>1. b[k] \in Nat /\ p \in Nat
    BY PartFacts
  <1>2. PICK q \in b[k] + 1 .. p - 1 : log[q] = Turn!TurnStarted(k)
    BY DEF Begins
  <1> QED
    BY <1>1, <1>2 DEF Turn!Before

LEMMA OneItem ==
    ASSUME NEW p, NEW kind, NEW q, Turn!SameItem(p, kind) = {q}
    PROVE  Cardinality(Turn!SameItem(p, kind)) = 1
  BY FS_Singleton

(* Between its start and its turn's completion an item starts and ends once. *)
LEMMA FineItem ==
    ASSUME NEW b, Returned(b), Turns \in Nat, AllFine(b), NEW p \in 1 .. Len(log),
           log[p].kind \in {"item/started", "item/completed"}
    PROVE  \E q \in 1 .. Len(log), r \in 1 .. Len(log) :
              /\ Turn!SameItem(p, "item/started") = {q} /\ Turn!SameItem(p, "item/completed") = {r}
              /\ q < r /\ log[q].type = log[r].type /\ log[q].type # "mcpToolCall"
  <1> DEFINE k == log[p].turn
             i == log[p].item
  <1> HIDE DEF k, i
  <1>1. k \in Prompts /\ p \in Part(b, k) /\ Fine(b[k], k, p)
    BY FineTurn DEF k
  <1>2. /\ Len(log) \in Nat /\ b[k] \in Nat /\ b[k + 1] \in Nat /\ b[k] < b[k + 1] /\ b[k + 1] <= Len(log)
        /\ log[b[k + 1]].kind = "turn/completed" /\ log[b[k + 1]].turn = k
        /\ b[k] < p /\ p <= b[k + 1]
    BY <1>1, PartFacts
  <1>3. ASSUME NEW q \in 1 .. Len(log), log[q].kind \in {"item/started", "item/completed"},
               log[q].turn = k
        PROVE  q \in b[k] + 1 .. b[k + 1] - 1 /\ Fine(b[k], k, q)
    <2>1. q \in Part(b, k) /\ Fine(b[k], k, q)
      BY <1>3, FineTurn
    <2>2. b[k] < q /\ q <= b[k + 1] /\ q # b[k + 1]
      BY <1>1, <1>2, <1>3, <2>1, PartFacts
    <2> QED
      BY <1>2, <2>1, <2>2
  <1>4. ASSUME NEW q \in 1 .. Len(log), NEW r \in 1 .. Len(log), q < r,
               log[q].kind = log[r].kind, log[r].kind \in {"item/started", "item/completed"},
               log[q].turn = k, log[r].turn = k, log[q].item = i, log[r].item = i
        PROVE  FALSE
    <2>1. q \in b[k] + 1 .. b[k + 1] - 1 /\ r \in b[k] + 1 .. b[k + 1] - 1 /\ Fine(b[k], k, r)
      BY <1>3, <1>4
    <2>2. q \in b[k] + 1 .. r - 1
      BY <1>2, <1>4, <2>1
    <2>3. CASE log[r].kind = "item/started"
      <3>1. ~StartsItem(b[k], r - 1, i)
        BY <1>4, <2>1, <2>3 DEF Fine
      <3> QED
        BY <1>4, <2>2, <2>3, <3>1 DEF StartsItem
    <2>4. CASE log[r].kind = "item/completed"
      <3>1. ~EndsItem(b[k], r - 1, i)
        BY <1>4, <2>1, <2>4 DEF Fine
      <3> QED
        BY <1>4, <2>2, <2>4, <3>1 DEF EndsItem
    <2> QED
      BY <1>4, <2>3, <2>4
  <1>5. \E q \in 1 .. Len(log) : log[q].kind = "item/started" /\ log[q].turn = k /\ log[q].item = i
    <2>1. CASE log[p].kind = "item/started"
      BY <2>1 DEF k, i
    <2>2. CASE log[p].kind = "item/completed"
      <3>1. StartsAs(b[k], p - 1, i, log[p].type)
        BY <1>1, <2>2 DEF Fine, i
      <3>2. PICK q \in b[k] + 1 .. p - 1 : log[q].kind = "item/started" /\ log[q].item = i
        BY <3>1 DEF StartsAs
      <3>3. q \in 1 .. Len(log) /\ q \in Part(b, k)
        BY <1>2, <3>2 DEF Part
      <3>4. log[q].turn = k
        BY <1>1, <3>2, <3>3 DEF AllFine, Fine
      <3> QED
        BY <3>2, <3>3, <3>4
    <2> QED
      BY <2>1, <2>2
  <1>6. PICK q \in 1 .. Len(log) : log[q].kind = "item/started" /\ log[q].turn = k /\ log[q].item = i
    BY <1>5
  <1>7. q \in b[k] + 1 .. b[k + 1] - 1 /\ Fine(b[k], k, q)
    BY <1>3, <1>6
  <1>8. \E r \in 1 .. Len(log) : log[r].kind = "item/completed" /\ log[r].turn = k /\ log[r].item = i
    <2>1. b[k + 1] \in Part(b, k) /\ Fine(b[k], k, b[k + 1])
      BY <1>1, <1>2 DEF AllFine, Part
    <2>2. EndsItem(b[k], b[k + 1] - 1, i)
      BY <1>2, <1>6, <1>7, <2>1 DEF Fine
    <2>3. PICK r \in b[k] + 1 .. b[k + 1] - 1 : log[r].kind = "item/completed" /\ log[r].item = i
      BY <2>2 DEF EndsItem
    <2>4. r \in 1 .. Len(log) /\ r \in Part(b, k)
      BY <1>2, <2>3 DEF Part
    <2>5. log[r].turn = k
      BY <1>1, <2>3, <2>4 DEF AllFine, Fine
    <2> QED
      BY <2>3, <2>4, <2>5
  <1>9. PICK r \in 1 .. Len(log) : log[r].kind = "item/completed" /\ log[r].turn = k /\ log[r].item = i
    BY <1>8
  <1>10. Turn!SameItem(p, "item/started") = {q}
    <2>1. \A x \in 1 .. Len(log) : log[x].kind = "item/started" /\ log[x].turn = k /\ log[x].item = i => x = q
      <3> TAKE x \in 1 .. Len(log)
      <3>1. x < q \/ q < x \/ x = q
        OBVIOUS
      <3> QED
        BY <1>4, <1>6, <3>1
    <2> QED
      BY <1>6, <2>1 DEF Turn!SameItem, k, i
  <1>11. Turn!SameItem(p, "item/completed") = {r}
    <2>1. \A x \in 1 .. Len(log) : log[x].kind = "item/completed" /\ log[x].turn = k /\ log[x].item = i => x = r
      <3> TAKE x \in 1 .. Len(log)
      <3>1. x < r \/ r < x \/ x = r
        OBVIOUS
      <3> QED
        BY <1>4, <1>9, <3>1
    <2> QED
      BY <1>9, <2>1 DEF Turn!SameItem, k, i
  <1>12. q < r /\ log[q].type = log[r].type
    <2>1. r \in b[k] + 1 .. b[k + 1] - 1 /\ Fine(b[k], k, r)
      BY <1>3, <1>9
    <2>2. StartsAs(b[k], r - 1, i, log[r].type)
      BY <1>9, <2>1 DEF Fine
    <2>3. PICK x \in b[k] + 1 .. r - 1 : log[x].kind = "item/started" /\ log[x].item = i /\ log[x].type = log[r].type
      BY <2>2 DEF StartsAs
    <2>4. x \in 1 .. Len(log) /\ x \in Part(b, k) /\ x < r
      BY <1>2, <2>1, <2>3 DEF Part
    <2>5. log[x].turn = k
      BY <1>1, <2>3, <2>4 DEF AllFine, Fine
    <2>6. x \in Turn!SameItem(p, "item/started")
      BY <2>3, <2>4, <2>5 DEF Turn!SameItem, k, i
    <2> QED
      BY <1>10, <2>3, <2>4, <2>6
  <1>13. log[q].type # "mcpToolCall"
    BY <1>6, <1>7 DEF Fine
  <1> QED
    BY <1>10, <1>11, <1>12, <1>13

(* Every message in its place in its turn is ordered on the whole wire.     *)
LEMMA FineIsOrdered ==
    ASSUME NEW b, Returned(b), Turns \in Nat, AllFine(b)
    PROVE  WellOrdered
  <1> SUFFICES ASSUME NEW p \in 1 .. Len(log)
               PROVE  Turn!Ordered(p)
    BY DEF WellOrdered
  <1> DEFINE m == log[p]
             k == m.turn
  <1> HIDE DEF m, k
  <1>0. m \in Incoming /\ Len(log) \in Nat
    BY WholeWire DEF m
  <1>1. ASSUME m.kind \in {"turn/started", "turn/completed", "item/started", "item/completed", "model/rerouted"}
        PROVE  /\ k \in Prompts /\ p \in Part(b, k) /\ Fine(b[k], k, p)
               /\ b[k] \in Nat /\ b[k + 1] \in Nat /\ b[k] < b[k + 1] /\ b[k + 1] <= Len(log)
               /\ b[k] < p /\ p <= b[k + 1]
               /\ log[b[k + 1]].kind = "turn/completed" /\ log[b[k + 1]].turn = k
    <2>1. k \in Prompts /\ p \in Part(b, k) /\ Fine(b[k], k, p)
      BY <1>1, FineTurn DEF m, k
    <2> QED
      BY <2>1, PartFacts
  <1>2. ASSUME NEW j \in Prompts, NEW q \in p + 1 .. Len(log), log[q].kind = "turn/completed", log[q].turn = j
        PROVE  q = b[j + 1]
    <2>1. q \in 1 .. Len(log)
      BY <1>0, <1>2
    <2> QED
      BY <1>2, <2>1, FineTurn
  <1>3. CASE m.kind = "turn/started"
    <2>1. ASSUME Turn!Before(p, m)
          PROVE  FALSE
      <3>1. PICK q \in 1 .. p - 1 : log[q] = m
        BY <2>1 DEF Turn!Before
      <3>2. q \in 1 .. Len(log) /\ q < p
        BY <1>0, <3>1
      <3>3. q \in Part(b, k)
        BY <1>3, <3>1, <3>2, FineTurn DEF k
      <3>4. q \in b[k] + 1 .. p - 1
        BY <1>1, <1>3, <3>2, <3>3 DEF Part
      <3> QED
        BY <1>1, <1>3, <3>1, <3>4 DEF Fine, m
    <2>2. ASSUME NEW j \in 1 .. k - 1
          PROVE  \E ok \in BOOLEAN : Turn!Before(p, Turn!TurnCompleted(j, ok))
      <3>1. j \in Prompts /\ j < k
        BY <1>1, <1>3, <2>2 DEF Prompts
      <3>2. b[j + 1] <= b[k] /\ b[j + 1] \in 1 .. Len(log) /\ b[j + 1] \in Nat
        <4>1. k \in Prompts
          BY <1>1, <1>3
        <4>2. b[j + 1] <= b[k]
          BY <3>1, <4>1, WholeWire, Zenon
        <4>3. b[j] \in Nat /\ b[j + 1] \in Nat /\ b[j] < b[j + 1] /\ b[j + 1] <= Len(log) /\ Len(log) \in Nat
          BY <3>1, PartFacts, Zenon
        <4> QED
          BY <4>2, <4>3
      <3>3. log[b[j + 1]].kind = "turn/completed" /\ log[b[j + 1]].turn = j
        BY <3>1, PartFacts
      <3>4. log[b[j + 1]].ok \in BOOLEAN /\ log[b[j + 1]] = Turn!TurnCompleted(j, log[b[j + 1]].ok)
        BY <3>2, <3>3, WholeWire, IncomingForms
      <3>5. b[j + 1] \in 1 .. p - 1
        BY <1>1, <1>3, <3>2
      <3> QED
        BY <3>4, <3>5 DEF Turn!Before
    <2> QED
      BY <1>3, <2>1, <2>2, OrderedParts DEF m, k
  <1>4. CASE m.kind = "turn/completed"
    <2>1. p = b[k + 1] /\ Begins(b[k], k, p - 1)
      BY <1>1, <1>4, FineTurn DEF m, k, Fine
    <2>2. Turn!Before(p, Turn!TurnStarted(k))
      BY <1>1, <1>4, <2>1, StartedFirst
    <2>3. ~Turn!After(p, "turn/completed", k)
      BY <1>1, <1>2, <1>4, <2>1 DEF Turn!After
    <2> QED
      BY <1>4, <2>2, <2>3, OrderedParts DEF m, k
  <1>5. CASE m.kind \in {"item/started", "item/completed"}
    <2>1. Begins(b[k], k, p - 1)
      BY <1>1, <1>5 DEF Fine, m
    <2>2. Turn!Before(p, Turn!TurnStarted(k))
      BY <1>1, <1>5, <2>1, StartedFirst
    <2>3. Turn!After(p, "turn/completed", k)
      <3>1. p # b[k + 1]
        BY <1>1, <1>5 DEF m
      <3> QED
        BY <1>1, <1>5, <3>1 DEF Turn!After
    <2>4. PICK q \in 1 .. Len(log), r \in 1 .. Len(log) :
              /\ Turn!SameItem(p, "item/started") = {q} /\ Turn!SameItem(p, "item/completed") = {r}
              /\ q < r /\ log[q].type = log[r].type /\ log[q].type # "mcpToolCall"
      BY <1>5, FineItem DEF m
    <2>5. m.type # "mcpToolCall"
      <3>1. p \in Turn!SameItem(p, m.kind)
        BY DEF Turn!SameItem, m
      <3>2. p = q \/ p = r
        BY <1>5, <2>4, <3>1
      <3> QED
        BY <2>4, <3>2 DEF m
    <2>6. /\ Cardinality(Turn!SameItem(p, "item/started")) = 1
          /\ Cardinality(Turn!SameItem(p, "item/completed")) = 1
      BY <2>4, OneItem
    <2> QED
      BY <1>5, <2>2, <2>3, <2>4, <2>5, <2>6, OrderedParts DEF m, k
  <1>6. CASE m.kind = "model/rerouted"
    <2>1. Turn!After(p, "turn/completed", k)
      <3>1. p # b[k + 1]
        BY <1>1, <1>6 DEF m
      <3> QED
        BY <1>1, <1>6, <3>1 DEF Turn!After
    <2>2. ASSUME NEW j \in 1 .. k - 1, Turn!After(p, "turn/completed", j)
          PROVE  FALSE
      <3>1. j \in Prompts /\ j < k
        BY <1>1, <1>6, <2>2 DEF Prompts
      <3>2. PICK q \in p + 1 .. Len(log) : log[q].kind = "turn/completed" /\ log[q].turn = j
        BY <2>2 DEF Turn!After
      <3>3. q = b[j + 1] /\ b[j + 1] <= b[k]
        BY <1>1, <1>2, <1>6, <3>1, <3>2, WholeWire
      <3> QED
        BY <1>0, <1>1, <1>6, <3>2, <3>3
    <2> QED
      BY <1>6, <2>1, <2>2, OrderedParts DEF m, k
  <1>7. CASE m.kind \in {"thread/settings/updated", "account/rateLimits/updated"}
    BY <1>7, OrderedParts DEF m
  <1>8. m.kind \notin {"request", "response", "unknown", "error", "hook"}
    <2>1. CASE m.kind = "account/rateLimits/updated"
      BY <2>1
    <2>2. CASE m.kind # "account/rateLimits/updated"
      <3>1. PICK j \in Prompts : Fine(b[j], j, p)
        BY <2>2, FineMessage DEF m
      <3> QED
        BY <3>1 DEF Fine, m
    <2> QED
      BY <2>1, <2>2
  <1> QED
    BY <1>0, <1>3, <1>4, <1>5, <1>6, <1>7, <1>8, IncomingForms DEF OtherKinds

(* A conversation without a violation has every message in its place.       *)
LEMMA CleanIsFine ==
    ASSUME NEW b, Returned(b), Turns \in Nat
    PROVE  Turn!Clean <=> AllFine(b)
  <1>1. client.turn = Turns
    BY WholeWire
  <1>2. \A k \in Prompts : client.turns[k].violated <=> \E p \in Part(b, k) : ~Fine(b[k], k, p)
    BY <1>1 DEF Returned, Collected, Judged, Prompts
  <1> QED
    BY <1>2 DEF Turn!Clean, AllFine, Prompts

(* A bounded set of numbers has a last one.                                 *)
LEMMA LastOfBounded ==
    ASSUME NEW n \in Nat, NEW S \in SUBSET (0 .. n), S # {}
    PROVE  \E x \in S : \A y \in S : y <= x
  <1> DEFINE U == {n - x : x \in S}
  <1>1. U \in SUBSET Nat /\ U # {}
    <2>1. \A x \in S : n - x \in Nat
      OBVIOUS
    <2> QED
      BY <2>1
  <1>2. PICK u \in U : \A v \in U : u <= v
    <2> HIDE DEF U
    <2>1. PICK u \in U : \A v \in U : <<v, u>> \notin OpToRel(<, Nat)
      BY <1>1, NatLessThanWellFounded, WFMin
    <2>2. \A v \in U : ~(v < u)
      BY <1>1, <2>1, Zenon DEF OpToRel
    <2> QED
      BY <1>1, <2>2
  <1>3. PICK x \in S : u = n - x
    BY <1>2
  <1>4. \A y \in S : n - x <= n - y
    BY <1>2, <1>3
  <1>5. \A y \in S : y \in Int
    OBVIOUS
  <1> QED
    BY <1>3, <1>4, <1>5

LEMMA TranscriptTyped ==
    ASSUME NEW t \in Transcript
    PROVE  /\ t.events \in Nat /\ t.commands \subseteq Nat \X BOOLEAN /\ t.answers \subseteq Nat
           /\ t.violated \in BOOLEAN /\ t.ok \in BOOLEAN /\ t.model \in Names
           /\ t.models \subseteq Names /\ t.preModels \subseteq Names /\ t.efforts \subseteq Names
           /\ t.preEfforts \subseteq Names /\ t.confirmed \subseteq Names
  BY DEF Transcript

(* A turn's commands and answers are messages of its part of the wire.      *)
LEMMA EvidenceOf ==
    ASSUME NEW b, Returned(b), Turns \in Nat, NEW k \in Prompts
    PROVE  /\ client.turns[k] \in Transcript
           /\ \A c \in client.turns[k].commands :
                /\ c \in Nat \X BOOLEAN /\ b[k] + c[1] + 1 \in Part(b, k)
                /\ log[b[k] + c[1] + 1].kind = "item/completed"
                /\ log[b[k] + c[1] + 1].type = "commandExecution"
                /\ c[2] => log[b[k] + c[1] + 1].ok
           /\ \A a \in client.turns[k].answers :
                /\ a \in Nat /\ b[k] + a + 1 \in Part(b, k)
                /\ log[b[k] + a + 1].kind = "item/completed"
                /\ log[b[k] + a + 1].type = "agentMessage" /\ log[b[k] + a + 1].turn = k
  <1> DEFINE t == client.turns[k]
  <1>1. client.turn = Turns /\ k \in 1 .. client.turn
    BY WholeWire DEF Prompts
  <1>2. t \in Transcript
    <2>1. client.turns \in Seq(Transcript) /\ client.turn = Len(client.turns)
      BY DEF Returned, Driver, Collected, Divided
    <2> QED
      BY <1>1, <2>1
  <1>3. b[k + 1] = b[k] + t.events /\ b[k] \in Nat
    BY <1>1, PartFacts DEF Returned, Collected, Divided
  <1> HIDE DEF t
  <1>4. t.events \in Nat /\ t.commands \subseteq Nat \X BOOLEAN /\ t.answers \subseteq Nat
    BY <1>2, TranscriptTyped
  <1>5. \A a \in Nat : a < t.events => b[k] + a + 1 \in Part(b, k)
    BY <1>3, <1>4 DEF Part
  <1>6. ASSUME NEW c \in t.commands
        PROVE  /\ c \in Nat \X BOOLEAN /\ b[k] + c[1] + 1 \in Part(b, k)
               /\ log[b[k] + c[1] + 1].kind = "item/completed"
               /\ log[b[k] + c[1] + 1].type = "commandExecution"
               /\ c[2] => log[b[k] + c[1] + 1].ok
    <2>1. c \in Nat \X BOOLEAN /\ c[1] \in Nat
      BY <1>4
    <2>2. /\ c[1] < t.events
          /\ LET m == log[b[k] + c[1] + 1]
             IN  m.kind = "item/completed" /\ m.type = "commandExecution" /\ (c[2] => m.ok)
      BY <1>1 DEF Returned, Collected, Evident, t
    <2> QED
      BY <1>5, <2>1, <2>2
  <1>7. ASSUME NEW a \in t.answers
        PROVE  /\ a \in Nat /\ b[k] + a + 1 \in Part(b, k)
               /\ log[b[k] + a + 1].kind = "item/completed"
               /\ log[b[k] + a + 1].type = "agentMessage" /\ log[b[k] + a + 1].turn = k
    <2>1. a \in Nat
      BY <1>4
    <2>2. /\ a < t.events
          /\ LET m == log[b[k] + a + 1]
             IN  m.kind = "item/completed" /\ m.type = "agentMessage" /\ m.turn = k
      BY <1>1 DEF Returned, Collected, Evident, t
    <2> QED
      BY <1>5, <2>1, <2>2
  <1> QED
    BY <1>2, <1>6, <1>7 DEF t

(* A scenario passes only on answers given after their evidence.            *)
LEMMA PassedAfterEvidence ==
    ASSUME NEW b, Returned(b), Turns \in Nat, Turn!ScenarioPassed
    PROVE  Turn!EvidenceFirst
  <1>1. AllFine(b) /\ Turn!ClaimsPass
    BY CleanIsFine DEF Turn!ScenarioPassed
  <1> SUFFICES ASSUME NEW p \in 1 .. Len(log), log[p].kind = "turn/completed"
               PROVE  \E q \in 1 .. p : \E r \in 1 .. q :
                          /\ log[q].kind = "item/completed" /\ log[q].turn = log[p].turn
                          /\ log[q].type = "agentMessage"
                          /\ log[r].kind = "item/completed" /\ log[r].type = "commandExecution" /\ log[r].ok
    BY DEF Turn!EvidenceFirst
  <1>2. PICK n \in Prompts : log[p].turn = n /\ p = b[n + 1]
    BY <1>1, FineTurn
  <1>3. client.turns[n].answers # {} /\ Turn!EvidenceAvailable(n)
    BY <1>1, <1>2 DEF Turn!ClaimsPass, Prompts
  <1> DEFINE a == Turn!FinalAnswer(n)
             q == b[n] + a + 1
  <1>4. a \in client.turns[n].answers
    <2>1. \A x \in client.turns[n].answers : x \in Nat /\ b[n] + x + 1 <= b[n + 1]
      <3> TAKE x \in client.turns[n].answers
      <3>1. x \in Nat /\ b[n] + x + 1 \in Part(b, n)
        BY EvidenceOf
      <3> QED
        BY <3>1, PartFacts
    <2>2. \A x \in client.turns[n].answers : x \in 0 .. b[n + 1]
      BY <2>1, PartFacts
    <2>3. \E x \in client.turns[n].answers : \A y \in client.turns[n].answers : y <= x
      <3>1. b[n + 1] \in Nat
        BY PartFacts
      <3> QED
        BY <1>3, <2>2, <3>1, LastOfBounded
    <2> QED
      BY <2>3 DEF Turn!FinalAnswer
  <1> HIDE DEF a
  <1>5. /\ a \in Nat /\ q \in Part(b, n) /\ log[q].kind = "item/completed"
        /\ log[q].type = "agentMessage" /\ log[q].turn = n
    BY <1>4, EvidenceOf
  <1>6. PICK e \in Turn!Candidates : e[1] < n \/ (e[1] = n /\ e[2] < a)
    BY <1>3 DEF Turn!EvidenceAvailable, a
  <1>7. \E j \in Prompts : \E c \in client.turns[j].commands : c[2] /\ e = <<j, c[1]>>
    BY DEF Turn!Candidates, Prompts
  <1>12. PICK j \in Prompts : \E c \in client.turns[j].commands : c[2] /\ e = <<j, c[1]>>
    BY <1>7
  <1>13. PICK c \in client.turns[j].commands : c[2] /\ e = <<j, c[1]>>
    BY <1>12
  <1> DEFINE r == b[j] + c[1] + 1
  <1>8. /\ c[1] \in Nat /\ r \in Part(b, j) /\ log[r].kind = "item/completed"
        /\ log[r].type = "commandExecution" /\ log[r].ok
    <2>1. c \in Nat \X BOOLEAN
      BY EvidenceOf
    <2> QED
      BY <1>13, <2>1, EvidenceOf
  <1> HIDE DEF q, r
  <1>9. /\ q \in 1 .. Len(log) /\ b[n] < q /\ q <= b[n + 1] /\ Len(log) \in Nat
        /\ r \in 1 .. Len(log) /\ r <= b[j + 1]
        /\ b[n] \in Nat /\ b[n + 1] \in Nat /\ b[j] \in Nat /\ b[j + 1] \in Nat
    BY <1>5, <1>8, PartFacts
  <1>10. r <= q
    <2>1. CASE j < n
      <3>1. b[j + 1] <= b[n]
        BY <2>1, WholeWire
      <3> QED
        BY <1>9, <3>1
    <2>2. CASE j = n /\ c[1] < a
      BY <1>5, <1>8, <1>9, <2>2 DEF q, r
    <2> QED
      BY <1>6, <1>13, <2>1, <2>2
  <1>11. q \in 1 .. p /\ r \in 1 .. q
    BY <1>2, <1>9, <1>10
  <1> QED
    BY <1>2, <1>5, <1>8, <1>11

(* A confirmed route was stated before the first item and never left.       *)
LEMMA ConfirmedIsStated ==
    ASSUME NEW b, Returned(b), Turns \in Nat, Turn!RouteConfirmed, Turn!Clean
    PROVE  Turn!RouteStated
  <1>1. AllFine(b)
    BY CleanIsFine
  <1> SUFFICES ASSUME NEW p \in 1 .. Len(log)
               PROVE  /\ log[p].kind \in {"thread/settings/updated", "model/rerouted"} => log[p].route = "asked"
                      /\ log[p].kind = "item/started" => Turn!Before(p, Turn!SettingsUpdated("asked"))
    BY DEF Turn!RouteStated
  <1>2. CASE log[p].kind = "account/rateLimits/updated"
    BY <1>2
  <1>3. CASE log[p].kind # "account/rateLimits/updated"
    <2>1. PICK k \in Prompts : p \in Part(b, k) /\ Fine(b[k], k, p)
      BY <1>1, <1>3, FineMessage
    <2>2. k \in 1 .. client.turn
      BY WholeWire DEF Prompts
    <2>3. /\ client.turns[k].models = {"asked"} /\ "asked" \in client.turns[k].preEfforts
          /\ ~client.turns[k].violated
      BY DEF Turn!RouteConfirmed, Turn!Clean, Prompts
    <2>4. CASE log[p].kind = "thread/settings/updated"
      <3>1. log[p].route \in client.turns[k].models
        BY <2>1, <2>2, <2>4 DEF Returned, Collected, Stated
      <3> QED
        BY <2>3, <2>4, <3>1
    <2>5. CASE log[p].kind = "model/rerouted"
      <3>1. log[p].turn = k
        BY <2>1, <2>5 DEF Fine
      <3>2. log[p].route \in client.turns[k].models
        BY <2>1, <2>2, <2>5, <3>1 DEF Returned, Collected, Stated
      <3> QED
        BY <2>3, <2>5, <3>2
    <2>6. CASE log[p].kind = "item/started"
      <3>1. Said("asked", p - 1)
        BY <2>1, <2>2, <2>3, <2>6 DEF Returned, Collected, Stated
      <3> QED
        BY <2>6, <3>1 DEF Said, Turn!Before
    <2> QED
      BY <2>4, <2>5, <2>6
  <1> QED
    BY <1>2, <1>3

(* What a returned conversation's grade means.                              *)
LEMMA EarnedGrades ==
    ASSUME TurnInv, Turns \in Nat
    PROVE  Turn!GradesAreEarned
  <1> SUFFICES ASSUME client.pc = "returned"
               PROVE  /\ Turn!Clean <=> WellOrdered
                      /\ Turn!ScenarioPassed => Turn!EvidenceFirst
                      /\ Turn!RouteConfirmed /\ Turn!Clean => Turn!RouteStated
    BY DEF Turn!GradesAreEarned, WellOrdered
  <1>1. PICK b : Returned(b)
    BY DEF TurnInv, Returned
  <1> QED
    BY <1>1, CleanIsFine, FineIsOrdered, OrderedIsFine, PassedAfterEvidence, ConfirmedIsStated

LEMMA AppendGrows ==
    ASSUME NEW S, NEW q \in Seq(S), NEW c \in S
    PROVE  /\ Append(q, c) \in Seq(S) /\ Len(Append(q, c)) = Len(q) + 1 /\ Len(q) \in Nat
           /\ DOMAIN Append(q, c) = 1 .. Len(q) + 1
           /\ \A i \in 1 .. Len(q) : Append(q, c)[i] = q[i]
           /\ Append(q, c)[Len(q) + 1] = c
  OBVIOUS

-----------------------------------------------------------------------------
(* The invariant, over the steps. *)

(* The invariant at the start.                                              *)
LEMMA TurnInitially ==
    ASSUME EvalAssumption, Turn!TurnInit
    PROVE  TurnInv
  <1> DEFINE b == [k \in Nat |-> 0]
  <1>0. log = << >> /\ queue = << >> /\ client = Turn!NoClient /\ Turns \in Nat
    BY DEF Turn!TurnInit, EvalAssumption
  <1>1. /\ client.turn = 0 /\ client.pc = "asking" /\ client.turns = << >> /\ client.effort = {}
        /\ client \in Driver
    BY <1>0 DEF Turn!NoClient, Driver, Stages, Names
  <1>2. Wired /\ Reads = 0
    BY <1>0 DEF Wired, Reads
  <1>3. Divided(b)
    BY <1>0, <1>1, <1>2 DEF Divided
  <1>4. Concluded(b) /\ Judged(b) /\ Evident(b) /\ Stated(b) /\ Tracked(b)
    BY <1>1 DEF Concluded, Judged, Evident, Stated, Tracked, EndedTurns
  <1>5. server \in AppServer
    BY DEF Turn!TurnInit, AppServer
  <1> QED
    BY <1>1, <1>2, <1>3, <1>4, <1>5 DEF TurnInv, Collected

(* What was read stays as it was.                                           *)
SameUpTo(n) == \A q \in 1 .. n : log'[q] = log[q]

LEMMA SameReading ==
    ASSUME NEW s \in Nat, NEW k, NEW p \in Nat, SameUpTo(p)
    PROVE  /\ Begins(s, k, p)' <=> Begins(s, k, p)
           /\ \A i : StartsItem(s, p, i)' <=> StartsItem(s, p, i)
           /\ \A i, t : StartsAs(s, p, i, t)' <=> StartsAs(s, p, i, t)
           /\ \A i : EndsItem(s, p, i)' <=> EndsItem(s, p, i)
           /\ \A r : Said(r, p)' <=> Said(r, p)
  <1>1. \A q \in s + 1 .. p : log'[q] = log[q]
    BY DEF SameUpTo
  <1>2. \A q \in 1 .. p : log'[q] = log[q]
    BY DEF SameUpTo
  <1>3. \A n : Turn!TurnStarted(n)' = Turn!TurnStarted(n) /\ Turn!SettingsUpdated(n)' = Turn!SettingsUpdated(n)
    BY DEF Turn!TurnStarted, Turn!SettingsUpdated
  <1>4. Begins(s, k, p)' <=> Begins(s, k, p)
    BY <1>1 DEF Begins
  <1>5. \A i : StartsItem(s, p, i)' <=> StartsItem(s, p, i)
    BY <1>1 DEF StartsItem
  <1>6. \A i, t : StartsAs(s, p, i, t)' <=> StartsAs(s, p, i, t)
    BY <1>1 DEF StartsAs
  <1>7. \A i : EndsItem(s, p, i)' <=> EndsItem(s, p, i)
    BY <1>1 DEF EndsItem
  <1>8. \A r : Said(r, p)' <=> Said(r, p)
    BY <1>2 DEF Said
  <1> QED
    BY <1>4, <1>5, <1>6, <1>7, <1>8

(* ... and so is its place in its turn.                                     *)
LEMMA SameFine ==
    ASSUME NEW s \in Nat, NEW k, NEW p \in Nat \ {0}, p > s, SameUpTo(p)
    PROVE  Fine(s, k, p)' <=> Fine(s, k, p)
  <1>1. log'[p] = log[p] /\ p - 1 \in Nat /\ SameUpTo(p - 1)
    BY DEF SameUpTo
  <1>2. \A q \in s + 1 .. p - 1 : log'[q] = log[q]
    BY DEF SameUpTo
  <1>3. /\ Begins(s, k, p - 1)' <=> Begins(s, k, p - 1)
        /\ \A i : StartsItem(s, p - 1, i)' <=> StartsItem(s, p - 1, i)
        /\ \A i, t : StartsAs(s, p - 1, i, t)' <=> StartsAs(s, p - 1, i, t)
        /\ \A i : EndsItem(s, p - 1, i)' <=> EndsItem(s, p - 1, i)
    BY <1>1, SameReading
  <1> QED
    BY <1>1, <1>2, <1>3, Zenon DEF Fine

LEMMA TurnPart ==
    ASSUME NEW b, Divided(b), Reads \in Nat, NEW k \in 1 .. client.turn, client.turn \in Nat
    PROVE  /\ k \in Nat /\ k + 1 \in Nat
           /\ b[k] \in Nat /\ b[k + 1] \in Nat /\ b[k] <= b[k + 1] /\ b[k + 1] <= Reads
           /\ \A p \in Part(b, k) : p \in 1 .. Reads /\ p > b[k] /\ p <= b[k + 1] /\ p \in Nat \ {0}
                                    /\ p - 1 \in Nat /\ p - 1 <= Reads
  <1>1. k \in Nat /\ k + 1 \in Nat /\ client.turn + 1 \in Nat
        /\ k \in 1 .. client.turn + 1 /\ k + 1 \in 1 .. client.turn + 1 /\ client.turn + 1 \in 1 .. client.turn + 1
    OBVIOUS
  <1>2. b[k] \in Nat /\ b[k + 1] \in Nat /\ b[client.turn + 1] \in Nat
    BY <1>1 DEF Divided
  <1>3. b[k] <= b[k + 1] /\ b[k + 1] <= b[client.turn + 1] /\ b[client.turn + 1] <= Reads
    <2>1. \A i, j \in 1 .. client.turn + 1 : i <= j => b[i] <= b[j]
      BY DEF Divided
    <2>2. k <= k + 1 /\ k + 1 <= client.turn + 1
      OBVIOUS
    <2> QED
      BY <1>1, <2>1, <2>2 DEF Divided
  <1>4. b[k + 1] <= Reads
    BY <1>2, <1>3
  <1> QED
    BY <1>1, <1>2, <1>3, <1>4 DEF Part

LEMMA TurnTranscript ==
    ASSUME NEW b, Divided(b), client \in Driver, NEW k \in 1 .. client.turn
    PROVE  /\ client.turns[k] \in Transcript
           /\ \A c \in client.turns[k].commands : c \in Nat \X BOOLEAN /\ c[1] \in Nat
           /\ \A a \in client.turns[k].answers : a \in Nat
           /\ client.turns[k].events \in Nat
  <1>1. client.turns \in Seq(Transcript) /\ client.turn = Len(client.turns)
    BY DEF Driver, Divided
  <1>2. client.turns[k] \in Transcript
    BY <1>1
  <1> QED
    BY <1>2, TranscriptTyped

(* Messages that arrive, and steps of the driver that read none of a turn.  *)
LEMMA Carried ==
    ASSUME NEW b, Collected(b), Divided(b)', Reads \in Nat, Reads' \in Nat, Reads <= Reads',
           SameUpTo(Reads), client.turn \in Nat, client \in Driver,
           client'.turn = client.turn, client'.turns = client.turns, client'.effort = client.effort,
           EndedTurns' = EndedTurns, EndedTurns \in Int, EndedTurns <= client.turn,
           client'.pc = "collecting" => client' = client /\ Reads' = Reads
    PROVE  Collected(b)'
  <1>0. ASSUME NEW k \in 1 .. client.turn
        PROVE  /\ k \in Nat /\ b[k] \in Nat /\ b[k + 1] \in Nat /\ b[k] <= b[k + 1] /\ b[k + 1] <= Reads
               /\ \A p \in Part(b, k) : /\ p \in 1 .. Reads /\ p > b[k] /\ p \in Nat \ {0} /\ p - 1 \in Nat
                                        /\ SameUpTo(p) /\ SameUpTo(p - 1) /\ log'[p] = log[p]
               /\ SameUpTo(b[k + 1])
    <2>1. /\ k \in Nat /\ b[k] \in Nat /\ b[k + 1] \in Nat /\ b[k] <= b[k + 1] /\ b[k + 1] <= Reads
          /\ \A p \in Part(b, k) : /\ p \in 1 .. Reads /\ p > b[k] /\ p \in Nat \ {0}
                                   /\ p - 1 \in Nat /\ p - 1 <= Reads
      BY TurnPart DEF Collected
    <2>2. \A n \in Nat : n <= Reads => SameUpTo(n)
      BY DEF SameUpTo
    <2>3. \A p \in Part(b, k) : SameUpTo(p) /\ SameUpTo(p - 1) /\ log'[p] = log[p]
      BY <2>1, <2>2 DEF SameUpTo
    <2> QED
      BY <2>1, <2>2, <2>3
  <1>1. Concluded(b)'
    <2>1. ASSUME NEW k \in 1 .. EndedTurns
          PROVE  /\ b[k] < b[k + 1] /\ Begins(b[k], k, b[k + 1] - 1)'
                 /\ log'[b[k + 1]] = Turn!TurnCompleted(k, client.turns[k].ok)
      <3>1. /\ b[k] < b[k + 1] /\ Begins(b[k], k, b[k + 1] - 1)
            /\ log[b[k + 1]] = Turn!TurnCompleted(k, client.turns[k].ok)
        BY DEF Collected, Concluded
      <3>2. k \in 1 .. client.turn
        OBVIOUS
      <3>3. b[k + 1] \in Part(b, k) /\ b[k + 1] - 1 \in Nat
        BY <1>0, <3>1, <3>2 DEF Part
      <3>4. SameUpTo(b[k + 1] - 1) /\ log'[b[k + 1]] = log[b[k + 1]]
        BY <1>0, <3>2, <3>3
      <3>5. Begins(b[k], k, b[k + 1] - 1)'
        BY <1>0, <3>1, <3>2, <3>3, <3>4, SameReading
      <3> QED
        BY <3>1, <3>4, <3>5
    <2>2. ASSUME NEW k \in 1 .. client.turn, NEW p \in Part(b, k),
                 log'[p].kind = "turn/completed", log'[p].turn = k, Begins(b[k], k, p - 1)'
          PROVE  p = b[k + 1] /\ k <= EndedTurns
      <3>1. Begins(b[k], k, p - 1)
        BY <1>0, <2>2, SameReading
      <3>2. log[p].kind = "turn/completed" /\ log[p].turn = k
        BY <1>0, <2>2
      <3> QED
        BY <3>1, <3>2 DEF Collected, Concluded
    <2> QED
      BY <2>1, <2>2 DEF Concluded, Part, Turn!TurnCompleted
  <1>2. Judged(b)'
    <2>1. \A k \in 1 .. client.turn : \A p \in Part(b, k) : Fine(b[k], k, p)' <=> Fine(b[k], k, p)
      BY <1>0, SameFine
    <2> QED
      BY <2>1 DEF Collected, Judged, Part
  <1>3. Evident(b)'
    <2> SUFFICES ASSUME NEW k \in 1 .. client.turn
                 PROVE  /\ \A c \in client.turns[k].commands :
                             /\ c[1] < client.turns[k].events
                             /\ LET m == log'[b[k] + c[1] + 1]
                                IN  m.kind = "item/completed" /\ m.type = "commandExecution" /\ (c[2] => m.ok)
                        /\ \A a \in client.turns[k].answers :
                             /\ a < client.turns[k].events
                             /\ LET m == log'[b[k] + a + 1]
                                IN  m.kind = "item/completed" /\ m.type = "agentMessage" /\ m.turn = k
      BY DEF Evident
    <2>1. /\ \A c \in client.turns[k].commands : c[1] \in Nat
          /\ \A a \in client.turns[k].answers : a \in Nat
          /\ client.turns[k].events \in Nat
      BY TurnTranscript DEF Collected
    <2>2. \A a \in Nat : a < client.turns[k].events => log'[b[k] + a + 1] = log[b[k] + a + 1]
      <3>1. b[k + 1] = b[k] + client.turns[k].events
        BY DEF Collected, Divided
      <3> QED
        BY <1>0, <2>1, <3>1 DEF Part
    <2> QED
      BY <2>1, <2>2 DEF Collected, Evident
  <1>4. Stated(b)'
    <2>1. \A r \in client.effort : Said(r, Reads)'
      <3> TAKE r \in client.effort
      <3>1. Said(r, Reads)
        BY DEF Collected, Stated
      <3>2. PICK q \in 1 .. Reads : log[q] = Turn!SettingsUpdated(r)
        BY <3>1 DEF Said
      <3>3. q \in 1 .. Reads' /\ log'[q] = Turn!SettingsUpdated(r)
        BY <3>2 DEF SameUpTo
      <3> QED
        BY <3>3 DEF Said, Turn!SettingsUpdated
    <2>2. ASSUME NEW k \in 1 .. client.turn
          PROVE  /\ \A r \in client.turns[k].preEfforts \cup client.turns[k].confirmed : Said(r, b[k + 1])'
                 /\ \A p \in Part(b, k) :
                      /\ log'[p].kind = "thread/settings/updated"
                         \/ (log'[p].kind = "model/rerouted" /\ log'[p].turn = k)
                           => log'[p].route \in client.turns[k].models
                      /\ log'[p].kind = "item/started" /\ ~client.turns[k].violated
                           => \A r \in client.turns[k].preEfforts : Said(r, p - 1)'
      <3>1. \A r \in client.turns[k].preEfforts \cup client.turns[k].confirmed : Said(r, b[k + 1])'
        BY <1>0, SameReading DEF Collected, Stated
      <3>2. \A p \in Part(b, k) : \A r : Said(r, p - 1)' <=> Said(r, p - 1)
        BY <1>0, SameReading
      <3> QED
        BY <1>0, <3>1, <3>2 DEF Collected, Stated
    <2> QED
      BY <2>1, <2>2 DEF Stated, Part
  <1>5. Tracked(b)'
    <2> SUFFICES ASSUME client'.pc = "collecting"
                 PROVE  Tracked(b)'
      BY DEF Tracked
    <2>1. client' = client /\ Reads' = Reads /\ client.pc = "collecting"
      OBVIOUS
    <2>2. PICK n, k : n = Reads /\ k = client.turn
      OBVIOUS
    <2>3. b[k] \in Nat /\ n \in Nat /\ SameUpTo(n)
      BY <2>2 DEF Collected, Divided
    <2>4. /\ Begins(b[k], k, n)' <=> Begins(b[k], k, n)
          /\ \A i : StartsItem(b[k], n, i)' <=> StartsItem(b[k], n, i)
          /\ \A i, t : StartsAs(b[k], n, i, t)' <=> StartsAs(b[k], n, i, t)
          /\ \A i : EndsItem(b[k], n, i)' <=> EndsItem(b[k], n, i)
      BY <2>3, SameReading
    <2>5. Reads' = n /\ client'.turn = k
      BY <2>1, <2>2
    <2> QED
      BY <2>1, <2>2, <2>4, <2>5 DEF Collected, Tracked, Turn!ItemIds
  <1> QED
    BY <1>1, <1>2, <1>3, <1>4, <1>5 DEF Collected

DriverFields(c) ==
    /\ c.pc \in Stages /\ c.step \in Nat \ {0} /\ c.turn \in Nat /\ c.started \in BOOLEAN
    /\ c.open \subseteq Turn!ItemIds \X ItemTypes /\ c.done \subseteq Turn!ItemIds /\ c.active \in BOOLEAN
    /\ c.model \in Names /\ c.effort \subseteq Names /\ c.turns \in Seq(Transcript)

LEMMA DriverTyped == \A c \in Driver : DriverFields(c)
  BY DEF Driver, DriverFields

LEMMA ReadsCount ==
    ASSUME Wired
    PROVE  Reads \in Nat /\ Len(log) \in Nat /\ Len(queue) \in Nat /\ Reads + Len(queue) = Len(log)
  BY DEF Wired, Reads

(* What arrives, and what of it the driver takes out of its queue.          *)
LEMMA WireArrives ==
    ASSUME Wired, NEW m \in Incoming, log' = Append(log, m), queue' = Append(queue, m)
    PROVE  Wired' /\ Reads' = Reads /\ SameUpTo(Reads)
  <1>0. Reads \in Nat /\ Len(log) \in Nat /\ Len(queue) \in Nat /\ Reads + Len(queue) = Len(log)
    BY ReadsCount
  <1>1. /\ log \in Seq(Incoming) /\ queue \in Seq(Incoming)
        /\ \A i \in 1 .. Len(queue) : queue[i] = log[Reads + i]
    BY DEF Wired
  <1>2. /\ log' \in Seq(Incoming) /\ Len(log') = Len(log) + 1 /\ log'[Len(log) + 1] = m
        /\ \A i \in 1 .. Len(log) : log'[i] = log[i]
    BY <1>1, AppendGrows
  <1>3. /\ queue' \in Seq(Incoming) /\ Len(queue') = Len(queue) + 1 /\ queue'[Len(queue) + 1] = m
        /\ \A i \in 1 .. Len(queue) : queue'[i] = queue[i]
    BY <1>1, AppendGrows
  <1>4. Reads' = Reads
    BY <1>0, <1>2, <1>3 DEF Reads
  <1>5. ASSUME NEW i \in 1 .. Len(queue')
        PROVE  queue'[i] = log'[Reads + i]
    <2>1. CASE i = Len(queue) + 1
      <3>1. Reads + i = Len(log) + 1
        BY <1>0, <2>1
      <3> QED
        BY <1>2, <1>3, <2>1, <3>1
    <2>2. CASE i # Len(queue) + 1
      <3>1. i \in 1 .. Len(queue) /\ Reads + i \in 1 .. Len(log)
        BY <1>0, <1>3, <2>2
      <3> QED
        BY <1>1, <1>2, <1>3, <3>1
    <2> QED
      BY <2>1, <2>2
  <1>6. SameUpTo(Reads)
    BY <1>0, <1>2 DEF SameUpTo
  <1> QED
    BY <1>0, <1>2, <1>3, <1>4, <1>5, <1>6 DEF Wired

LEMMA WireTaken ==
    ASSUME Wired, queue # << >>, log' = log, queue' = Tail(queue)
    PROVE  /\ Wired' /\ Reads' = Reads + 1 /\ SameUpTo(Reads') /\ Reads + 1 <= Len(log)
           /\ Head(queue) = log[Reads + 1] /\ log[Reads + 1] \in Incoming
  <1>0. Reads \in Nat /\ Len(log) \in Nat /\ Len(queue) \in Nat /\ Reads + Len(queue) = Len(log)
    BY ReadsCount
  <1>1. /\ log \in Seq(Incoming) /\ queue \in Seq(Incoming)
        /\ \A i \in 1 .. Len(queue) : queue[i] = log[Reads + i]
    BY DEF Wired
  <1>2. /\ queue' \in Seq(Incoming) /\ Len(queue') = Len(queue) - 1 /\ Len(queue) >= 1
        /\ \A i \in 1 .. Len(queue') : queue'[i] = queue[i + 1]
        /\ Head(queue) = queue[1]
    BY <1>1
  <1>3. Reads' = Reads + 1
    BY <1>0, <1>2 DEF Reads
  <1>4. ASSUME NEW i \in 1 .. Len(queue')
        PROVE  queue'[i] = log[Reads + 1 + i]
    <2>1. i + 1 \in 1 .. Len(queue) /\ Reads + (i + 1) = Reads + 1 + i
      BY <1>0, <1>2
    <2> QED
      BY <1>1, <1>2, <2>1
  <1>5. Head(queue) = log[Reads + 1] /\ Reads + 1 <= Len(log) /\ Reads + 1 \in 1 .. Len(log)
    BY <1>0, <1>1, <1>2
  <1> QED
    BY <1>0, <1>1, <1>2, <1>3, <1>4, <1>5 DEF Wired, SameUpTo

LEMMA WireRests ==
    ASSUME Wired, log' = log, queue' = queue
    PROVE  Wired' /\ Reads' = Reads /\ SameUpTo(Reads)
  BY DEF Wired, Reads, SameUpTo

(* Messages that arrive, and steps of the driver between two turns.         *)
Between ==
    \/ client' = client /\ Reads' = Reads /\ client.pc \in {"asking", "collecting", "settling"}
    \/ client.pc = "asking" /\ client'.pc = "asking" /\ Reads' = Reads
    \/ client.pc = "asking" /\ client'.pc = "settling" /\ client.turn = Turns /\ Reads' = Reads
    \/ /\ client.pc = "settling" /\ client' = client /\ Reads' = Reads + 1
       /\ log'[Reads + 1].kind = "account/rateLimits/updated"
    \/ client.pc = "settling" /\ client'.pc = "returned" /\ Reads' = Reads /\ queue' = << >>

(* None of them disturbs what was collected.                                *)
LEMMA BetweenKeeps ==
    ASSUME NEW b, Collected(b), client \in Driver, Wired, Wired', SameUpTo(Reads), Between,
           client'.turn = client.turn, client'.turns = client.turns, client'.effort = client.effort
    PROVE  Collected(b)'
  <1>1. Reads \in Nat /\ Reads' \in Nat /\ Reads <= Reads'
    BY ReadsCount DEF Between, Wired, Reads
  <1>2. client.turn \in Nat
    BY DriverTyped DEF DriverFields
  <1>3. EndedTurns' = EndedTurns /\ EndedTurns \in Int /\ EndedTurns <= client.turn
    BY <1>2 DEF EndedTurns, Between
  <1>4. client'.pc = "collecting" => client' = client /\ Reads' = Reads
    BY DEF Between
  <1>5. Divided(b)'
    <2>1. /\ b \in [Nat -> Nat] /\ b[1] = 0
          /\ client.turn = Len(client.turns) /\ client.turn <= Turns
          /\ client.pc = "collecting" => client.turn >= 1
          /\ \A j, k \in 1 .. client.turn + 1 : j <= k => b[j] <= b[k]
          /\ \A k \in 1 .. client.turn : b[k + 1] = b[k] + client.turns[k].events
          /\ \A p \in 1 .. b[client.turn + 1] : \E k \in 1 .. client.turn : p \in Part(b, k)
          /\ b[client.turn + 1] <= Reads
          /\ client.pc \in {"asking", "collecting"} => b[client.turn + 1] = Reads
          /\ client.pc \in {"settling", "returned"} =>
               /\ client.turn = Turns
               /\ \A p \in b[client.turn + 1] + 1 .. Reads : log[p].kind = "account/rateLimits/updated"
      BY DEF Collected, Divided
    <2>2. client'.pc = "collecting" => client.turn >= 1
      BY <2>1 DEF Between
    <2>3. b[client.turn + 1] \in Nat /\ b[client.turn + 1] <= Reads'
      <3>1. client.turn + 1 \in Nat
        BY <1>2
      <3>2. b[client.turn + 1] \in Nat /\ b[client.turn + 1] <= Reads
        BY <2>1, <3>1
      <3> QED
        BY <1>1, <3>2
    <2>4. client'.pc \in {"asking", "collecting"} => b[client.turn + 1] = Reads'
      BY <2>1 DEF Between
    <2>5. client'.pc \in {"settling", "returned"} =>
               /\ client.turn = Turns
               /\ \A p \in b[client.turn + 1] + 1 .. Reads' : log'[p].kind = "account/rateLimits/updated"
      <3> SUFFICES ASSUME client'.pc \in {"settling", "returned"}
                   PROVE  /\ client.turn = Turns
                          /\ \A p \in b[client.turn + 1] + 1 .. Reads' : log'[p].kind = "account/rateLimits/updated"
        OBVIOUS
      <3>1. CASE client.pc = "settling"
        <4>1. Reads' = Reads \/ (Reads' = Reads + 1 /\ log'[Reads + 1].kind = "account/rateLimits/updated")
          BY <3>1 DEF Between
        <4>2. PICK w, r : w = b[client.turn + 1] /\ r = Reads
          OBVIOUS
        <4>3. w \in Nat /\ r \in Nat /\ \A p \in w + 1 .. r : log[p].kind = "account/rateLimits/updated"
          BY <1>1, <2>1, <2>3, <3>1, <4>2
        <4>4. \A p \in w + 1 .. r : log'[p].kind = "account/rateLimits/updated"
          BY <4>2, <4>3 DEF SameUpTo
        <4>5. ASSUME NEW p \in w + 1 .. Reads'
              PROVE  log'[p].kind = "account/rateLimits/updated"
          <5>1. CASE Reads' = r
            BY <4>4, <5>1
          <5>2. CASE Reads' = r + 1 /\ log'[r + 1].kind = "account/rateLimits/updated"
            <6>1. p \in w + 1 .. r \/ p = r + 1
              BY <4>3, <5>2
            <6> QED
              BY <4>4, <5>2, <6>1
          <5> QED
            BY <4>1, <4>2, <5>1, <5>2
        <4> QED
          BY <2>1, <3>1, <4>2, <4>5
      <3>2. CASE client.pc = "asking" /\ client.turn = Turns /\ Reads' = Reads
        <4>1. b[client.turn + 1] = Reads
          BY <2>1, <3>2
        <4> QED
          BY <1>1, <3>2, <4>1
      <3> QED
        BY <3>1, <3>2 DEF Between
    <2>6. client'.pc = "returned" => queue' = << >>
      BY DEF Between
    <2> QED
      BY <2>1, <2>2, <2>3, <2>4, <2>5, <2>6 DEF Divided, Part
  <1> QED
    BY <1>1, <1>2, <1>3, <1>4, <1>5, Carried

(* A turn begins where the reading is.                                      *)
LEMMA NewTranscript ==
    ASSUME NEW x \in Names, NEW e \in SUBSET Names
    PROVE  /\ Turn!NoTranscript(x, e) \in Transcript
           /\ LET t == Turn!NoTranscript(x, e)
              IN  /\ t.events = 0 /\ t.commands = {} /\ t.answers = {} /\ ~t.violated
                  /\ t.preEfforts = e /\ t.confirmed = {}
  BY DEF Turn!NoTranscript, Transcript

LEMMA CollectingFields ==
    ASSUME client \in Driver, client' = Turn!Collecting(client, client.turn + 1, client.model, client.effort)
    PROVE  /\ client' \in Driver /\ client'.pc = "collecting" /\ client'.turn = client.turn + 1
           /\ client'.started = FALSE /\ client'.open = {} /\ client'.done = {} /\ client'.active = FALSE
           /\ client'.effort = client.effort
           /\ client'.turns = Append(client.turns, Turn!NoTranscript(client.model, client.effort))
  <1> DEFINE new == Append(client.turns, Turn!NoTranscript(client.model, client.effort))
  <1>1. client.turn + 1 \in Nat /\ new \in Seq(Transcript)
    <2>1. DriverFields(client)
      BY DriverTyped
    <2>2. Turn!NoTranscript(client.model, client.effort) \in Transcript
      BY <2>1, NewTranscript DEF DriverFields
    <2> QED
      BY <2>1, <2>2, AppendGrows DEF DriverFields
  <1>2. client' = [client EXCEPT !.pc = "collecting", !.turn = client.turn + 1, !.started = FALSE, !.open = {},
                                 !.done = {}, !.active = FALSE, !.turns = new]
    BY DEF Turn!Collecting
  <1> HIDE DEF new
  <1>3. /\ client' \in Driver /\ client'.pc = "collecting" /\ client'.turn = client.turn + 1
        /\ client'.started = FALSE /\ client'.open = {} /\ client'.done = {} /\ client'.active = FALSE
        /\ client'.effort = client.effort /\ client'.turns = new
    BY <1>1, <1>2, ZenonT(40) DEF Driver, Stages
  <1> QED
    BY <1>3 DEF new

(* The collection, one turn at a time: turn k as transcript t has it, over  *)
(* the messages from s + 1 to e.                                            *)
EndsAt(s, e, k, t, last) ==
    /\ k <= last => s < e /\ Begins(s, k, e - 1) /\ log[e] = Turn!TurnCompleted(k, t.ok)
    /\ \A p \in s + 1 .. e :
         log[p].kind = "turn/completed" /\ log[p].turn = k /\ Begins(s, k, p - 1)
           => p = e /\ k <= last
ShowsOf(s, k, t) ==
    /\ \A c \in t.commands :
         /\ c[1] < t.events
         /\ LET m == log[s + c[1] + 1]
            IN  m.kind = "item/completed" /\ m.type = "commandExecution" /\ (c[2] => m.ok)
    /\ \A a \in t.answers :
         /\ a < t.events
         /\ LET m == log[s + a + 1]
            IN  m.kind = "item/completed" /\ m.type = "agentMessage" /\ m.turn = k
StatesOf(s, e, k, t) ==
    /\ \A r \in t.preEfforts \cup t.confirmed : Said(r, e)
    /\ \A p \in s + 1 .. e :
         /\ log[p].kind = "thread/settings/updated"
            \/ (log[p].kind = "model/rerouted" /\ log[p].turn = k)
              => log[p].route \in t.models
         /\ log[p].kind = "item/started" /\ ~t.violated => \A r \in t.preEfforts : Said(r, p - 1)
HoldsOf(s, e, k, t, last) ==
    /\ EndsAt(s, e, k, t, last) /\ ShowsOf(s, k, t) /\ StatesOf(s, e, k, t)
    /\ t.violated <=> \E p \in s + 1 .. e : ~Fine(s, k, p)

TracksAs(s, e, k, c) ==
    /\ c.started <=> Begins(s, k, e)
    /\ ~c.turns[k].violated =>
         /\ \A i \in Turn!ItemIds, t \in ItemTypes :
              <<i, t>> \in c.open <=> StartsAs(s, e, i, t) /\ ~EndsItem(s, e, i)
         /\ \A i \in Turn!ItemIds : i \in c.done <=> EndsItem(s, e, i)
         /\ c.active <=> \E i \in Turn!ItemIds : StartsItem(s, e, i)

(* What was collected, as said of its turns one by one ...                  *)
LEMMA ByTurns ==
    ASSUME NEW b, client.turn \in Nat, Collected(b)
    PROVE  /\ Divided(b)
           /\ \A k \in 1 .. client.turn : HoldsOf(b[k], b[k + 1], k, client.turns[k], EndedTurns)
           /\ \A r \in client.effort : Said(r, Reads)
           /\ client.pc = "collecting" => TracksAs(b[client.turn], Reads, client.turn, client)
  <1>1. ASSUME NEW k \in 1 .. client.turn
        PROVE  k <= EndedTurns <=> k \in 1 .. EndedTurns
    BY DEF EndedTurns
  <1>2. ASSUME NEW k \in 1 .. client.turn
        PROVE  HoldsOf(b[k], b[k + 1], k, client.turns[k], EndedTurns)
    BY <1>1 DEF Collected, Concluded, Judged, Evident, Stated, HoldsOf, EndsAt, ShowsOf, StatesOf, Part
  <1>3. client.pc = "collecting" => TracksAs(b[client.turn], Reads, client.turn, client)
    BY DEF Collected, Tracked, TracksAs
  <1> QED
    BY <1>2, <1>3 DEF Collected, Stated

(* ... and put together again.                                              *)
LEMMA FromTurns ==
    ASSUME NEW b, client'.turn \in Nat, Divided(b)', log' = log,
           \A k \in 1 .. client'.turn : HoldsOf(b[k], b[k + 1], k, client'.turns[k], EndedTurns'),
           \A r \in client'.effort : Said(r, Reads'),
           client'.pc = "collecting" => TracksAs(b[client'.turn], Reads', client'.turn, client')
    PROVE  Collected(b)'
  <1>1. ASSUME NEW k \in 1 .. EndedTurns'
        PROVE  k \in 1 .. client'.turn /\ k <= EndedTurns'
    BY DEF EndedTurns
  <1>4. Concluded(b)'
    <2>1. ASSUME NEW k \in 1 .. EndedTurns'
          PROVE  /\ b[k] < b[k + 1] /\ Begins(b[k], k, b[k + 1] - 1)
                 /\ log[b[k + 1]] = Turn!TurnCompleted(k, client'.turns[k].ok)
      BY <1>1 DEF HoldsOf, EndsAt, ShowsOf, StatesOf
    <2>2. ASSUME NEW k \in 1 .. client'.turn, NEW p \in b[k] + 1 .. b[k + 1],
                 log[p].kind = "turn/completed", log[p].turn = k, Begins(b[k], k, p - 1)
          PROVE  p = b[k + 1] /\ k <= EndedTurns'
      BY <2>2 DEF HoldsOf, EndsAt, ShowsOf, StatesOf
    <2>3. \A s, k, p : Begins(s, k, p)' <=> Begins(s, k, p)
      BY DEF Begins, Turn!TurnStarted
    <2> QED
      BY <2>1, <2>2, <2>3 DEF Concluded, Part, Turn!TurnCompleted
  <1>5. Judged(b)'
    <2>1. \A s, k, p : Fine(s, k, p)' <=> Fine(s, k, p)
      BY DEF Fine, Begins, StartsItem, StartsAs, EndsItem, Turn!TurnStarted
    <2> QED
      BY <2>1 DEF Judged, HoldsOf, EndsAt, ShowsOf, StatesOf, Part
  <1>6. Evident(b)'
    BY DEF Evident, HoldsOf, EndsAt, ShowsOf, StatesOf
  <1>7. Stated(b)'
    BY DEF Stated, HoldsOf, EndsAt, ShowsOf, StatesOf, Part, Said, Turn!SettingsUpdated
  <1>8. Tracked(b)'
    BY DEF Tracked, TracksAs, Begins, StartsItem, StartsAs, EndsItem, Turn!TurnStarted, Turn!ItemIds
  <1> QED
    BY <1>4, <1>5, <1>6, <1>7, <1>8 DEF Collected

(* The division with the end of turn n moved, or first placed, at w.         *)
Bounds(b, n) ==
    /\ b \in [Nat -> Nat] /\ b[1] = 0
    /\ \A j, k \in 1 .. n + 1 : j <= k => b[j] <= b[k]
    /\ \A p \in 1 .. b[n + 1] : \E k \in 1 .. n : p \in Part(b, k)

Moved(b, n, w) == [b EXCEPT ![n + 1] = w]

LEMMA NewBound ==
    ASSUME NEW b, NEW m \in Nat, NEW n \in Nat, n = m + 1, Bounds(b, m), NEW w \in Nat, b[n] <= w,
           NEW c, c = Moved(b, n, w)
    PROVE  /\ Bounds(c, n) /\ c[n] = b[n] /\ c[n + 1] = w
           /\ \A k \in 1 .. m : c[k] = b[k] /\ c[k + 1] = b[k + 1]
  <1>0. /\ n >= 1 /\ n - 1 = m /\ b \in [Nat -> Nat] /\ b[1] = 0
        /\ \A j, k \in 1 .. n : j <= k => b[j] <= b[k]
        /\ \A p \in 1 .. b[n] : \E k \in 1 .. n - 1 : p \in Part(b, k)
    BY DEF Bounds
  <1>1. c \in [Nat -> Nat] /\ c[n + 1] = w
    BY <1>0 DEF Moved
  <1>2. \A k \in 1 .. n : c[k] = b[k]
    BY <1>0 DEF Moved
  <1>3. /\ n \in 1 .. n /\ 1 \in 1 .. n
        /\ \A k \in 1 .. n - 1 : k \in 1 .. n /\ k + 1 \in 1 .. n
        /\ \A k \in 1 .. n + 1 : k \in 1 .. n \/ k = n + 1
    BY <1>0
  <1>4. \A k \in 1 .. n - 1 : c[k] = b[k] /\ c[k + 1] = b[k + 1]
    BY <1>2, <1>3
  <1>5. \A k \in 1 .. n : c[k] \in Nat /\ c[k] <= w
    <2> TAKE k \in 1 .. n
    <2>1. b[k] <= b[n] /\ b[k] \in Nat /\ b[n] \in Nat
      BY <1>0, <1>3
    <2> QED
      BY <1>2, <2>1
  <1>6. ASSUME NEW j \in 1 .. n + 1, NEW k \in 1 .. n + 1, j <= k
        PROVE  c[j] <= c[k]
    <2>1. CASE k = n + 1
      BY <1>1, <1>3, <1>5, <2>1
    <2>2. CASE k \in 1 .. n
      <3>1. j \in 1 .. n
        BY <1>6, <2>2
      <3>2. c[j] = b[j] /\ c[k] = b[k]
        BY <1>2, <2>2, <3>1
      <3>3. b[j] <= b[k]
        BY <1>0, <1>6, <2>2, <3>1
      <3> QED
        BY <3>2, <3>3
    <2> QED
      BY <1>3, <2>1, <2>2
  <1>7. ASSUME NEW p \in 1 .. w
        PROVE  \E k \in 1 .. n : p \in Part(c, k)
    <2>1. CASE p \in 1 .. b[n]
      <3>1. PICK k \in 1 .. n - 1 : p \in Part(b, k)
        BY <1>0, <2>1
      <3> QED
        BY <1>3, <1>4, <3>1 DEF Part
    <2>2. CASE p \notin 1 .. b[n]
      <3>1. b[n] \in Nat
        BY <1>0
      <3>2. p \in c[n] + 1 .. c[n + 1]
        BY <1>1, <1>2, <1>3, <2>2, <3>1
      <3> QED
        BY <1>3, <3>2 DEF Part
    <2> QED
      BY <2>1, <2>2
  <1> QED
    BY <1>0, <1>1, <1>2, <1>3, <1>4, <1>6, <1>7 DEF Bounds

(* A new turn, of which nothing was read.                                   *)
LEMMA TurnBegins ==
    ASSUME NEW b, Collected(b), client \in Driver, Wired, client.pc = "asking", client.turn < Turns,
           Turns \in Nat, log' = log, queue' = queue,
           client' = Turn!Collecting(client, client.turn + 1, client.model, client.effort)
    PROVE  \E c : Collected(c)'
  <1>0. PICK n, w, t : n = client.turn /\ w = Reads /\ t = Turn!NoTranscript(client.model, client.effort)
    OBVIOUS
  <1>1. /\ client'.pc = "collecting" /\ client'.turn = n + 1 /\ client'.started = FALSE /\ client'.open = {}
        /\ client'.done = {} /\ client'.active = FALSE /\ client'.effort = client.effort
        /\ client'.turns = Append(client.turns, t)
    BY <1>0, CollectingFields
  <1>2. n \in Nat /\ w \in Nat /\ client.turn \in Nat
    BY <1>0, DriverTyped, ReadsCount DEF DriverFields
  <1>3. /\ t \in Transcript /\ t.events = 0 /\ t.commands = {} /\ t.answers = {} /\ ~t.violated
        /\ t.preEfforts = client.effort /\ t.confirmed = {}
    BY <1>0, DriverTyped, NewTranscript DEF DriverFields
  <1>4. b \in [Nat -> Nat] /\ b[1] = 0 /\ n = Len(client.turns) /\ b[n + 1] = w
    BY <1>0 DEF Collected, Divided
  <1>5. /\ \A j, k \in 1 .. n + 1 : j <= k => b[j] <= b[k]
        /\ \A k \in 1 .. n : b[k + 1] = b[k] + client.turns[k].events
        /\ \A p \in 1 .. b[n + 1] : \E k \in 1 .. n : p \in Part(b, k)
    BY <1>0 DEF Collected, Divided
  <1>6. /\ n + 1 \in Nat /\ n + 1 >= 1 /\ n + 1 - 1 = n /\ w <= w /\ n + 1 <= Turns
        /\ \A k \in 1 .. n + 1 : k \in 1 .. n \/ k = n + 1
        /\ n + 1 \in 1 .. n + 1
    BY <1>0, <1>2
  <1>7. PICK c, l : c = Moved(b, l, w) /\ l = n + 1
    OBVIOUS
  <1>8. /\ Bounds(c, l) /\ c[l] = w /\ c[l + 1] = w
        /\ \A k \in 1 .. n : c[k] = b[k] /\ c[k + 1] = b[k + 1]
    <2>1. Bounds(b, n)
      BY <1>4, <1>5 DEF Bounds
    <2>2. l \in Nat /\ l = n + 1 /\ w <= w
      BY <1>2, <1>7
    <2>3. b[l] = w
      BY <1>4, <1>7, Zenon
    <2>4. /\ Bounds(c, l) /\ c[l] = b[l] /\ c[l + 1] = w
          /\ \A k \in 1 .. n : c[k] = b[k] /\ c[k + 1] = b[k + 1]
      <3>1. b[l] <= w /\ w \in Nat /\ n \in Nat /\ l \in Nat /\ l = n + 1
        BY <1>2, <2>2, <2>3
      <3> QED
        BY <1>7, <2>1, <3>1, NewBound
    <2> QED
      BY <2>3, <2>4
  <1>9. /\ Len(client'.turns) = n + 1 /\ client'.turns[n + 1] = t
        /\ \A k \in 1 .. n : client'.turns[k] = client.turns[k]
    <2>1. PICK q : q = client.turns
      OBVIOUS
    <2>2. q \in Seq(Transcript) /\ Len(q) = n
      BY <1>4, <2>1, DriverTyped DEF DriverFields
    <2>3. Len(Append(q, t)) = n + 1 /\ Append(q, t)[n + 1] = t /\ \A k \in 1 .. n : Append(q, t)[k] = q[k]
      BY <1>3, <2>2, AppendGrows
    <2> QED
      BY <1>1, <2>1, <2>3
  <1>10. Reads' = w /\ log' = log
    BY <1>0 DEF Reads
  <1>11. Divided(c)'
    <2>1. ASSUME NEW k \in 1 .. n + 1
          PROVE  c[k + 1] = c[k] + client'.turns[k].events
      <3>1. CASE k \in 1 .. n
        BY <1>5, <1>8, <1>9, <3>1
      <3>2. CASE k = n + 1
        <4>1. w = w + 0
          BY <1>2
        <4> QED
          BY <1>3, <1>7, <1>8, <1>9, <3>2, <4>1
      <3> QED
        BY <1>6, <3>1, <3>2
    <2>2. Divided(c)'
      <3>1. /\ c \in [Nat -> Nat] /\ c[1] = 0
            /\ \A j, k \in 1 .. n + 1 + 1 : j <= k => c[j] <= c[k]
            /\ \A p \in 1 .. c[n + 1 + 1] : \E k \in 1 .. n + 1 : p \in Part(c, k)
        BY <1>7, <1>8 DEF Bounds
      <3>2. c[n + 1 + 1] = w /\ n + 1 >= 1 /\ n + 1 <= Turns /\ w <= w
        BY <1>6, <1>7, <1>8
      <3> QED
        BY <1>1, <1>9, <1>10, <2>1, <3>1, <3>2 DEF Divided, Part
    <2> QED
      BY <2>2
  <1>12. ASSUME NEW k \in 1 .. n + 1
         PROVE  HoldsOf(c[k], c[k + 1], k, client'.turns[k], EndedTurns')
    <2>0. EndedTurns = n /\ EndedTurns' = n
      BY <1>0, <1>1, <1>2 DEF EndedTurns
    <2>1. CASE k \in 1 .. n
      <3>1. HoldsOf(b[k], b[k + 1], k, client.turns[k], n)
        BY <1>0, <1>2, <2>0, <2>1, ByTurns
      <3>2. b[k] = c[k] /\ b[k + 1] = c[k + 1] /\ client'.turns[k] = client.turns[k]
        BY <1>8, <1>9, <2>1
      <3> QED
        BY <2>0, <3>1, <3>2
    <2>2. CASE k = n + 1
      <3>1. c[k] = w /\ c[k + 1] = w /\ client'.turns[k] = t
        BY <1>7, <1>8, <1>9, <2>2
      <3>4. w + 1 .. w = {} /\ ~(k <= n)
        BY <1>2, <2>2
      <3>2. \A r \in client.effort : Said(r, w)
        BY <1>0, <1>2, ByTurns
      <3>3. HoldsOf(w, w, k, t, n)
        BY <1>3, <3>2, <3>4 DEF HoldsOf, EndsAt, ShowsOf, StatesOf
      <3> QED
        BY <2>0, <3>1, <3>3
    <2> QED
      BY <1>6, <2>1, <2>2
  <1>13. \A r \in client'.effort : Said(r, Reads')
    BY <1>0, <1>1, <1>2, <1>10, ByTurns
  <1>14. TracksAs(w, w, n + 1, client')
    <2>1. w + 1 .. w = {}
      BY <1>2
    <2>2. Begins(w, n + 1, w) = FALSE /\ \A i, x : ~StartsItem(w, w, i) /\ ~StartsAs(w, w, i, x) /\ ~EndsItem(w, w, i)
      BY <2>1 DEF Begins, StartsItem, StartsAs, EndsItem
    <2> QED
      BY <1>1, <2>2 DEF TracksAs
  <1> QED
    BY <1>1, <1>6, <1>7, <1>8, <1>10, <1>11, <1>12, <1>13, <1>14, FromTurns

(* What the driver's state says of a message, and what it makes of it: t    *)
(* and u are the turn's transcript before and after, d the driver after.    *)
Accepts(m) ==
    \/ m.kind = "turn/started" /\ ~client.started /\ m.turn = client.turn
    \/ m.kind = "turn/completed" /\ client.started /\ m.turn = client.turn /\ client.open = {}
    \/ m.kind = "item/started" /\ Turn!MayStart(m) /\ m.type # "mcpToolCall"
    \/ m.kind = "item/completed" /\ Turn!MayComplete(m) /\ m.type # "mcpToolCall"
    \/ m.kind = "model/rerouted" /\ m.turn = client.turn
    \/ m.kind \in {"thread/settings/updated", "account/rateLimits/updated"}

Ends(m) == m.kind = "turn/completed" /\ m.turn = client.turn /\ client.started
Routed(m) == m.kind = "thread/settings/updated" \/ (m.kind = "model/rerouted" /\ m.turn = client.turn)

TakenBy(m, t, u) ==
    /\ u.events = t.events + 1
    /\ u.violated <=> t.violated \/ ~Accepts(m)
    /\ \A c \in u.commands :
         \/ c \in t.commands
         \/ /\ c[1] = t.events /\ m.kind = "item/completed" /\ m.type = "commandExecution" /\ (c[2] => m.ok)
    /\ \A a \in u.answers :
         \/ a \in t.answers
         \/ /\ a = t.events /\ m.kind = "item/completed" /\ m.type = "agentMessage" /\ m.turn = client.turn
    /\ \A r \in u.preEfforts \cup u.confirmed :
         r \in t.preEfforts \cup t.confirmed \/ m = Turn!SettingsUpdated(r)
    /\ client.active \/ m.kind = "item/started" => u.preEfforts \subseteq t.preEfforts
    /\ t.models \subseteq u.models
    /\ Routed(m) => m.route \in u.models

MovedBy(m, u, d) ==
    /\ d \in Driver /\ d.turn = client.turn /\ d.pc \in {"asking", "collecting"}
    /\ Len(d.turns) = Len(client.turns) /\ d.turns[client.turn] = u
    /\ \A k \in 1 .. Len(client.turns) : k # client.turn => d.turns[k] = client.turns[k]
    /\ d.pc = "asking" <=> Ends(m)
    /\ Ends(m) => m.ok = u.ok
    /\ d.effort \subseteq client.effort \cup u.confirmed
    /\ d.started <=> client.started \/ m = Turn!TurnStarted(client.turn)
    /\ ~u.violated =>
         /\ \A i \in Turn!ItemIds, x \in ItemTypes :
              <<i, x>> \in d.open <=>
                \/ m.kind = "item/started" /\ m.item = i /\ m.type = x
                \/ <<i, x>> \in client.open /\ ~(m.kind = "item/completed" /\ m.item = i /\ m.type = x)
         /\ \A i \in Turn!ItemIds : i \in d.done <=> i \in client.done \/ (m.kind = "item/completed" /\ m.item = i)
         /\ d.active <=> client.active \/ m.kind = "item/started"

(* One more message.                                                        *)
LEMMA OneMore ==
    ASSUME NEW s \in Nat, NEW e \in Nat, s <= e
    PROVE  /\ \A p \in s + 1 .. e + 1 : p \in s + 1 .. e \/ p = e + 1
           /\ \A p \in s + 1 .. e : p \in s + 1 .. e + 1
           /\ e + 1 \in s + 1 .. e + 1 /\ e + 1 - 1 = e
           /\ \A k : Begins(s, k, e + 1) <=> Begins(s, k, e) \/ log[e + 1] = Turn!TurnStarted(k)
           /\ \A i : StartsItem(s, e + 1, i) <=>
                StartsItem(s, e, i) \/ (log[e + 1].kind = "item/started" /\ log[e + 1].item = i)
           /\ \A i, x : StartsAs(s, e + 1, i, x) <=>
                \/ StartsAs(s, e, i, x)
                \/ log[e + 1].kind = "item/started" /\ log[e + 1].item = i /\ log[e + 1].type = x
           /\ \A i : EndsItem(s, e + 1, i) <=>
                EndsItem(s, e, i) \/ (log[e + 1].kind = "item/completed" /\ log[e + 1].item = i)
           /\ \A r : Said(r, e) \/ log[e + 1] = Turn!SettingsUpdated(r) => Said(r, e + 1)
  <1>1. /\ \A p \in s + 1 .. e + 1 : p \in s + 1 .. e \/ p = e + 1
        /\ \A p \in s + 1 .. e : p \in s + 1 .. e + 1
        /\ e + 1 \in s + 1 .. e + 1 /\ e + 1 - 1 = e
        /\ \A p \in 1 .. e : p \in 1 .. e + 1
        /\ e + 1 \in 1 .. e + 1
    OBVIOUS
  <1>2. \A k : Begins(s, k, e + 1) <=> Begins(s, k, e) \/ log[e + 1] = Turn!TurnStarted(k)
    BY <1>1 DEF Begins
  <1>3. \A i : StartsItem(s, e + 1, i) <=>
                StartsItem(s, e, i) \/ (log[e + 1].kind = "item/started" /\ log[e + 1].item = i)
    BY <1>1 DEF StartsItem
  <1>4. \A i, x : StartsAs(s, e + 1, i, x) <=>
                \/ StartsAs(s, e, i, x)
                \/ log[e + 1].kind = "item/started" /\ log[e + 1].item = i /\ log[e + 1].type = x
    BY <1>1 DEF StartsAs
  <1>5. \A i : EndsItem(s, e + 1, i) <=>
                EndsItem(s, e, i) \/ (log[e + 1].kind = "item/completed" /\ log[e + 1].item = i)
    BY <1>1 DEF EndsItem
  <1>6. \A r : Said(r, e) \/ log[e + 1] = Turn!SettingsUpdated(r) => Said(r, e + 1)
    BY <1>1 DEF Said
  <1> QED
    BY <1>1, <1>2, <1>3, <1>4, <1>5, <1>6

(* The turn under way, which has read the messages from s + 1 to e.         *)
UnderWay(s, e, n, t) ==
    /\ s \in Nat /\ e \in Nat /\ s <= e /\ n \in Nat /\ n >= 1 /\ n = client.turn /\ n = Len(client.turns)
    /\ client \in Driver /\ client.pc = "collecting" /\ t = client.turns[n] /\ t \in Transcript
    /\ e = s + t.events
    /\ \A p \in s + 1 .. e + 1 : log[p] \in Incoming
    /\ HoldsOf(s, e, n, t, n - 1) /\ TracksAs(s, e, n, client)
    /\ \A r \in client.effort : Said(r, e)

(* What was collected says so of the last turn.                             *)
LEMMA TurnUnderWay ==
    ASSUME NEW b, Collected(b), client \in Driver, Wired, client.pc = "collecting", queue # << >>
    PROVE  UnderWay(b[client.turn], Reads, client.turn, client.turns[client.turn])
  <1>1. client.turn \in Nat /\ client.turns \in Seq(Transcript)
    BY DriverTyped DEF DriverFields
  <1>2. /\ b \in [Nat -> Nat] /\ client.turn = Len(client.turns) /\ client.turn >= 1
        /\ b[client.turn + 1] = Reads
        /\ \A k \in 1 .. client.turn : b[k + 1] = b[k] + client.turns[k].events
    BY DEF Collected, Divided
  <1>3. client.turn \in 1 .. client.turn /\ EndedTurns = client.turn - 1
    BY <1>1, <1>2 DEF EndedTurns
  <1>4. client.turns[client.turn] \in Transcript
    BY <1>1, <1>2, <1>3
  <1>5. client.turns[client.turn].events \in Nat
    BY <1>4, TranscriptTyped
  <1>6. b[client.turn] \in Nat /\ Reads \in Nat /\ Reads = b[client.turn] + client.turns[client.turn].events
    BY <1>1, <1>2, <1>3, ReadsCount
  <1>7. /\ HoldsOf(b[client.turn], Reads, client.turn, client.turns[client.turn], client.turn - 1)
        /\ TracksAs(b[client.turn], Reads, client.turn, client)
        /\ \A r \in client.effort : Said(r, Reads)
    BY <1>1, <1>2, <1>3, ByTurns
  <1>8. \A p \in b[client.turn] + 1 .. Reads + 1 : log[p] \in Incoming
    <2>1. Len(log) \in Nat /\ Len(queue) \in Nat /\ Reads + Len(queue) = Len(log) /\ log \in Seq(Incoming)
          /\ queue \in Seq(Incoming)
      BY ReadsCount DEF Wired
    <2>2. Len(queue) >= 1
      BY <2>1
    <2>3. PICK w, v : w = Reads /\ v = b[client.turn]
      OBVIOUS
    <2>4. \A p \in v + 1 .. w + 1 : p \in 1 .. Len(log)
      BY <1>6, <2>1, <2>2, <2>3
    <2> QED
      BY <2>1, <2>3, <2>4
  <1>9. b[client.turn] <= Reads
    BY <1>5, <1>6
  <1> QED
    BY <1>1, <1>2, <1>4, <1>6, <1>7, <1>8, <1>9, Zenon DEF UnderWay

(* What the driver accepts is what a reader of the turn finds in order.     *)
LEMMA AcceptsFine ==
    ASSUME NEW s, NEW e, NEW n, NEW t, UnderWay(s, e, n, t), ~t.violated
    PROVE  Fine(s, n, e + 1) <=> Accepts(log[e + 1])
  <1>0. PICK m : m = log[e + 1]
    OBVIOUS
  <1>1. /\ s \in Nat /\ e \in Nat /\ s <= e /\ n = client.turn /\ client \in Driver /\ t = client.turns[n]
        /\ e + 1 - 1 = e /\ \A p \in s + 1 .. e : p \in s + 1 .. e + 1 /\ p - 1 \in Nat /\ p - 1 < e
    BY DEF UnderWay
  <1>2. /\ client.started <=> Begins(s, n, e)
        /\ \A i \in Turn!ItemIds, x \in ItemTypes :
              <<i, x>> \in client.open <=> StartsAs(s, e, i, x) /\ ~EndsItem(s, e, i)
        /\ \A i \in Turn!ItemIds : i \in client.done <=> EndsItem(s, e, i)
    BY DEF UnderWay, TracksAs
  <1>3. client.open \subseteq Turn!ItemIds \X ItemTypes /\ client.done \subseteq Turn!ItemIds
    BY <1>1, DriverTyped DEF DriverFields
  <1>4. \A p \in s + 1 .. e : Fine(s, n, p) /\ log[p] \in Incoming
    BY <1>1 DEF UnderWay, HoldsOf, EndsAt, ShowsOf, StatesOf
  <1>5. m \in Incoming
    BY <1>0, <1>1 DEF UnderWay
  <1>6. \A p \in s + 1 .. e : log[p].kind = "turn/started" => log[p] = Turn!TurnStarted(n)
    <2> SUFFICES ASSUME NEW p \in s + 1 .. e, log[p].kind = "turn/started"
                 PROVE  log[p] = Turn!TurnStarted(n)
      OBVIOUS
    <2>1. log[p].turn = n
      BY <1>4 DEF Fine
    <2> QED
      BY <1>4, <2>1, IncomingForms
  <1>7. Begins(s, n, e) <=> \E p \in s + 1 .. e : log[p].kind = "turn/started"
    BY <1>6 DEF Begins, Turn!TurnStarted
  <1>8. ASSUME NEW p \in s + 1 .. e, log[p].kind = "item/started"
        PROVE  log[p].item \in Turn!ItemIds /\ log[p].type \in ItemTypes /\ log[p].type # "mcpToolCall"
    <2>1. log[p].type # "mcpToolCall"
      BY <1>4, <1>8 DEF Fine
    <2> QED
      BY <1>4, <1>8, <2>1, IncomingForms
  <1>9. ASSUME NEW p \in s + 1 .. e, log[p].kind = "item/completed"
        PROVE  log[p].item \in Turn!ItemIds /\ StartsItem(s, e, log[p].item)
    <2>1. StartsAs(s, p - 1, log[p].item, log[p].type)
      BY <1>4, <1>9 DEF Fine
    <2>2. PICK q \in s + 1 .. p - 1 : log[q].kind = "item/started" /\ log[q].item = log[p].item
      BY <2>1 DEF StartsAs
    <2>3. q \in s + 1 .. e
      BY <1>1
    <2> QED
      BY <1>4, <1>9, <2>2, <2>3, IncomingForms DEF StartsItem
  <1>10. \A i \in Turn!ItemIds : StartsItem(s, e, i) <=> (i \in client.done \/ \E x \in ItemTypes : <<i, x>> \in client.open)
    <2> TAKE i \in Turn!ItemIds
    <2>1. ASSUME StartsItem(s, e, i), i \notin client.done
          PROVE  \E x \in ItemTypes : <<i, x>> \in client.open
      <3>1. PICK p \in s + 1 .. e : log[p].kind = "item/started" /\ log[p].item = i
        BY <2>1 DEF StartsItem
      <3>2. StartsAs(s, e, i, log[p].type) /\ log[p].type \in ItemTypes /\ ~EndsItem(s, e, i)
        BY <1>2, <1>8, <2>1, <3>1 DEF StartsAs
      <3> QED
        BY <1>2, <3>2
    <2>2. ASSUME i \in client.done
          PROVE  StartsItem(s, e, i)
      <3>1. PICK p \in s + 1 .. e : log[p].kind = "item/completed" /\ log[p].item = i
        BY <1>2, <2>2 DEF EndsItem
      <3> QED
        BY <1>9, <3>1
    <2>3. ASSUME NEW x \in ItemTypes, <<i, x>> \in client.open
          PROVE  StartsItem(s, e, i)
      <3>1. StartsAs(s, e, i, x)
        BY <1>2, <2>3
      <3> QED
        BY <3>1 DEF StartsAs, StartsItem
    <2> QED
      BY <2>1, <2>2, <2>3
  <1>11. client.open = {} <=> \A p \in s + 1 .. e : log[p].kind = "item/started" => EndsItem(s, e, log[p].item)
    <2>1. ASSUME client.open = {}, NEW p \in s + 1 .. e, log[p].kind = "item/started"
          PROVE  EndsItem(s, e, log[p].item)
      <3>1. StartsItem(s, e, log[p].item) /\ log[p].item \in Turn!ItemIds
        BY <1>8, <2>1 DEF StartsItem
      <3> QED
        BY <1>2, <1>10, <2>1, <3>1
    <2>2. ASSUME client.open # {}
          PROVE  \E p \in s + 1 .. e : log[p].kind = "item/started" /\ ~EndsItem(s, e, log[p].item)
      <3>1. PICK i \in Turn!ItemIds, x \in ItemTypes : <<i, x>> \in client.open
        BY <1>3, <2>2
      <3>2. StartsAs(s, e, i, x) /\ ~EndsItem(s, e, i)
        BY <1>2, <3>1
      <3> QED
        BY <3>2 DEF StartsAs
    <2> QED
      BY <2>1, <2>2
  <1>12. \A i \in Turn!ItemIds : Turn!OpenTypes(i) = {} <=> ~\E x \in ItemTypes : <<i, x>> \in client.open
    <2> TAKE i \in Turn!ItemIds
    <2>1. \A o \in client.open : o = <<o[1], o[2]>> /\ o[2] \in ItemTypes
      BY <1>3
    <2>2. ASSUME NEW x \in ItemTypes, <<i, x>> \in client.open
          PROVE  x \in Turn!OpenTypes(i)
      BY <2>2 DEF Turn!OpenTypes
    <2>3. ASSUME NEW x \in Turn!OpenTypes(i)
          PROVE  x \in ItemTypes /\ <<i, x>> \in client.open
      BY <2>1 DEF Turn!OpenTypes
    <2> QED
      BY <2>2, <2>3
  <1>13. \A i \in Turn!ItemIds, x \in ItemTypes : x \in Turn!OpenTypes(i) <=> <<i, x>> \in client.open
    BY <1>3 DEF Turn!OpenTypes
  <1>14. CASE m.kind = "turn/started"
    BY <1>0, <1>1, <1>2, <1>7, <1>14 DEF Fine, Accepts
  <1>15. CASE m.kind = "turn/completed"
    BY <1>0, <1>1, <1>2, <1>11, <1>15 DEF Fine, Accepts
  <1>16. CASE m.kind = "item/started"
    <2>1. m.item \in Turn!ItemIds
      BY <1>5, <1>16, IncomingForms
    <2>2. Turn!MayStart(m) <=> Begins(s, n, e) /\ m.turn = n /\ ~StartsItem(s, e, m.item)
      BY <1>1, <1>2, <1>10, <1>12, <2>1 DEF Turn!MayStart, Turn!MatchesTurn
    <2> QED
      BY <1>0, <1>1, <1>16, <2>2 DEF Fine, Accepts
  <1>17. CASE m.kind = "item/completed"
    <2>1. m.item \in Turn!ItemIds /\ m.type \in ItemTypes
      BY <1>5, <1>17, IncomingForms
    <2>2. Turn!MayComplete(m) <=> Begins(s, n, e) /\ m.turn = n /\ StartsAs(s, e, m.item, m.type) /\ ~EndsItem(s, e, m.item)
      BY <1>1, <1>2, <1>13, <2>1 DEF Turn!MayComplete, Turn!MatchesTurn
    <2>3. StartsAs(s, e, m.item, m.type) => m.type # "mcpToolCall"
      BY <1>8 DEF StartsAs
    <2> QED
      BY <1>0, <1>1, <1>17, <2>2, <2>3 DEF Fine, Accepts
  <1>18. CASE m.kind \notin {"turn/started", "turn/completed", "item/started", "item/completed"}
    BY <1>0, <1>1, <1>18 DEF Fine, Accepts
  <1> QED
    BY <1>0, <1>14, <1>15, <1>16, <1>17, <1>18

(* The turn under way has read one message more.                            *)
LEMMA Advances ==
    ASSUME NEW s, NEW e, NEW n, NEW t, UnderWay(s, e, n, t), NEW m, m = log[e + 1],
           NEW u, NEW d, TakenBy(m, t, u), MovedBy(m, u, d),
           NEW last \in Int, last = IF d.pc = "collecting" THEN n - 1 ELSE n
    PROVE  /\ HoldsOf(s, e + 1, n, u, last)
           /\ d.pc = "collecting" => TracksAs(s, e + 1, n, d)
           /\ \A r \in d.effort : Said(r, e + 1)
  <1>1. /\ s \in Nat /\ e \in Nat /\ s <= e /\ n = client.turn /\ n \in Nat /\ client \in Driver
        /\ t = client.turns[n] /\ t \in Transcript /\ e = s + t.events /\ e + 1 - 1 = e
    BY DEF UnderWay
  <1>2. /\ \A p \in s + 1 .. e : ~(log[p].kind = "turn/completed" /\ log[p].turn = n /\ Begins(s, n, p - 1))
        /\ t.violated <=> \E p \in s + 1 .. e : ~Fine(s, n, p)
        /\ \A r \in t.preEfforts \cup t.confirmed : Said(r, e)
        /\ \A p \in s + 1 .. e :
             /\ log[p].kind = "thread/settings/updated"
                \/ (log[p].kind = "model/rerouted" /\ log[p].turn = n)
                  => log[p].route \in t.models
             /\ log[p].kind = "item/started" /\ ~t.violated => \A r \in t.preEfforts : Said(r, p - 1)
    <2>1. HoldsOf(s, e, n, t, n - 1)
      BY DEF UnderWay
    <2>2. ~(n <= n - 1)
      BY <1>1
    <2>3. \A p \in s + 1 .. e : log[p].kind = "turn/completed" /\ log[p].turn = n /\ Begins(s, n, p - 1) => n <= n - 1
      BY <2>1 DEF HoldsOf, EndsAt, ShowsOf, StatesOf
    <2> QED
      BY <2>1, <2>2, <2>3 DEF HoldsOf, EndsAt, ShowsOf, StatesOf
  <1>3. /\ \A c \in t.commands :
             /\ c[1] < t.events
             /\ LET x == log[s + c[1] + 1]
                IN  x.kind = "item/completed" /\ x.type = "commandExecution" /\ (c[2] => x.ok)
        /\ \A a \in t.answers :
             /\ a < t.events
             /\ LET x == log[s + a + 1]
                IN  x.kind = "item/completed" /\ x.type = "agentMessage" /\ x.turn = n
    BY DEF UnderWay, HoldsOf, EndsAt, ShowsOf, StatesOf
  <1>4. client.started <=> Begins(s, n, e)
    BY DEF UnderWay, TracksAs
  <1>5. /\ \A p \in s + 1 .. e + 1 : p \in s + 1 .. e \/ p = e + 1
        /\ \A p \in s + 1 .. e : p \in s + 1 .. e + 1
        /\ e + 1 \in s + 1 .. e + 1
    BY <1>1, OneMore
  <1>6. \A r : Said(r, e) \/ m = Turn!SettingsUpdated(r) => Said(r, e + 1)
    BY <1>1, OneMore
  <1>7. d.pc = "asking" <=> Ends(m)
    BY DEF MovedBy
  <1>8. d.pc \in {"asking", "collecting"}
    BY DEF MovedBy
  <1>9. n <= last <=> Ends(m)
    BY <1>1, <1>7, <1>8, SMTT(20)
  <1>10. Ends(m) => s < e + 1 /\ Begins(s, n, e + 1 - 1) /\ log[e + 1] = Turn!TurnCompleted(n, u.ok)
    <2> SUFFICES ASSUME Ends(m)
                 PROVE  s < e + 1 /\ Begins(s, n, e) /\ log[e + 1] = Turn!TurnCompleted(n, u.ok)
      BY <1>1
    <2>1. m.kind = "turn/completed" /\ m.turn = n /\ client.started /\ m.ok = u.ok
      BY <1>1 DEF Ends, MovedBy
    <2>2. m \in Incoming
      BY <1>5 DEF UnderWay
    <2>3. m = Turn!TurnCompleted(m.turn, m.ok)
      BY <2>1, <2>2, IncomingForms
    <2>4. log[e + 1] = Turn!TurnCompleted(n, u.ok)
      BY <2>1, <2>3
    <2>5. s < e + 1
      BY <1>1, SMTT(20)
    <2> QED
      BY <1>4, <2>1, <2>4, <2>5
  <1>11. ASSUME NEW p \in s + 1 .. e + 1, log[p].kind = "turn/completed", log[p].turn = n, Begins(s, n, p - 1)
         PROVE  p = e + 1 /\ n <= last
    <2>1. p = e + 1
      BY <1>2, <1>5, <1>11
    <2>3. m.kind = "turn/completed" /\ m.turn = n
      BY <1>11, <2>1
    <2>4. Begins(s, n, e)
      BY <1>1, <1>11, <2>1, SMTT(20)
    <2>2. m.kind = "turn/completed" /\ m.turn = n /\ client.started
      BY <1>4, <2>3, <2>4
    <2> QED
      BY <1>1, <1>9, <2>1, <2>2 DEF Ends
  <1>12. u.violated <=> \E p \in s + 1 .. e + 1 : ~Fine(s, n, p)
    <2>1. u.violated <=> t.violated \/ ~Accepts(m)
      BY DEF TakenBy
    <2>2. CASE t.violated
      BY <1>2, <1>5, <2>1, <2>2
    <2>3. CASE ~t.violated
      <3>1. Fine(s, n, e + 1) <=> Accepts(m)
        BY <2>3, AcceptsFine
      <3> QED
        BY <1>2, <1>5, <2>1, <2>3, <3>1
    <2> QED
      BY <2>2, <2>3
  <1>13. t.events \in Nat /\ u.events = t.events + 1 /\ s + t.events + 1 = e + 1
    <2>1. t.events \in Nat
      BY <1>1, TranscriptTyped
    <2> QED
      BY <1>1, <2>1 DEF TakenBy
  <1>14. ASSUME NEW c \in u.commands
         PROVE  /\ c[1] < u.events
                /\ LET x == log[s + c[1] + 1]
                   IN  x.kind = "item/completed" /\ x.type = "commandExecution" /\ (c[2] => x.ok)
    <2>1. CASE c \in t.commands
      <3>1. c[1] \in Nat
        BY <1>1, <2>1, TranscriptTyped
      <3>2. c[1] < t.events
        BY <1>3, <2>1
      <3>3. c[1] < u.events
        BY <1>13, <3>1, <3>2
      <3> QED
        BY <1>3, <2>1, <3>3
    <2>2. CASE c[1] = t.events /\ m.kind = "item/completed" /\ m.type = "commandExecution" /\ (c[2] => m.ok)
      BY <1>13, <2>2
    <2> QED
      BY <2>1, <2>2 DEF TakenBy
  <1>15. ASSUME NEW a \in u.answers
         PROVE  /\ a < u.events
                /\ LET x == log[s + a + 1]
                   IN  x.kind = "item/completed" /\ x.type = "agentMessage" /\ x.turn = n
    <2>1. CASE a \in t.answers
      <3>1. a \in Nat
        BY <1>1, <2>1, TranscriptTyped
      <3>2. a < t.events
        BY <1>3, <2>1
      <3>3. a < u.events
        BY <1>13, <3>1, <3>2
      <3> QED
        BY <1>3, <2>1, <3>3
    <2>2. CASE a = t.events /\ m.kind = "item/completed" /\ m.type = "agentMessage" /\ m.turn = n
      BY <1>13, <2>2
    <2> QED
      BY <1>1, <2>1, <2>2 DEF TakenBy
  <1>16. \A r \in u.preEfforts \cup u.confirmed : Said(r, e + 1)
    BY <1>2, <1>6 DEF TakenBy
  <1>17. ASSUME NEW p \in s + 1 .. e + 1,
                log[p].kind = "thread/settings/updated" \/ (log[p].kind = "model/rerouted" /\ log[p].turn = n)
         PROVE  log[p].route \in u.models
    <2>1. CASE p \in s + 1 .. e
      <3>1. log[p].route \in t.models
        BY <1>2, <1>17, <2>1
      <3> QED
        BY <3>1 DEF TakenBy
    <2>2. CASE p = e + 1
      <3>1. Routed(m)
        BY <1>1, <1>17, <2>2 DEF Routed
      <3> QED
        BY <2>2, <3>1 DEF TakenBy
    <2> QED
      BY <1>5, <2>1, <2>2
  <1>18. ASSUME NEW p \in s + 1 .. e + 1, log[p].kind = "item/started", ~u.violated, NEW r \in u.preEfforts
         PROVE  Said(r, p - 1)
    <2>0. ~t.violated
      BY <1>18 DEF TakenBy
    <2>1. CASE p \in s + 1 .. e
      <3>1. \E i \in Turn!ItemIds : StartsItem(s, e, i)
        <4>1. log[p] \in Incoming
          BY <1>5 DEF UnderWay
        <4>2. log[p].item \in Turn!ItemIds
          BY <1>18, <4>1, IncomingForms
        <4> QED
          BY <1>18, <2>1, <4>2 DEF StartsItem
      <3>2. client.active
        BY <1>1, <2>0, <3>1 DEF UnderWay, TracksAs
      <3>3. r \in t.preEfforts
        BY <3>2 DEF TakenBy
      <3> QED
        BY <1>2, <1>18, <2>0, <2>1, <3>3
    <2>2. CASE p = e + 1
      <3>1. r \in t.preEfforts
        BY <1>18, <2>2 DEF TakenBy
      <3>2. Said(r, e)
        BY <1>2, <3>1
      <3>3. p - 1 = e
        BY <1>1, <2>2, SMTT(20)
      <3> QED
        BY <3>2, <3>3
    <2> QED
      BY <1>5, <2>1, <2>2
  <1>19. HoldsOf(s, e + 1, n, u, last)
    <2>2. \A p \in s + 1 .. e + 1 : log[p].kind = "turn/completed" /\ log[p].turn = n /\ Begins(s, n, p - 1)
             => p = e + 1 /\ n <= last
      BY <1>11
    <2>3. \A p \in s + 1 .. e + 1 :
             /\ log[p].kind = "thread/settings/updated" \/ (log[p].kind = "model/rerouted" /\ log[p].turn = n)
                  => log[p].route \in u.models
             /\ log[p].kind = "item/started" /\ ~u.violated => \A r \in u.preEfforts : Said(r, p - 1)
      BY <1>17, <1>18
    <2>4. \A c \in u.commands :
             /\ c[1] < u.events
             /\ LET x == log[s + c[1] + 1]
                IN  x.kind = "item/completed" /\ x.type = "commandExecution" /\ (c[2] => x.ok)
      BY <1>14
    <2>5. \A a \in u.answers :
             /\ a < u.events
             /\ LET x == log[s + a + 1]
                IN  x.kind = "item/completed" /\ x.type = "agentMessage" /\ x.turn = n
      BY <1>15
    <2>6. EndsAt(s, e + 1, n, u, last)
      <3>1. PICK f, x : f = e + 1 /\ x = Turn!TurnCompleted(n, u.ok)
        OBVIOUS
      <3>2. n <= last => s < f /\ Begins(s, n, f - 1) /\ log[f] = x
        <4>1. f - 1 = e /\ f \in Nat /\ s \in Nat /\ s < f
          BY <1>1, <3>1, SMTT(20)
        <4> QED
          BY <1>1, <1>9, <1>10, <3>1, <4>1
      <3>3. \A p \in s + 1 .. f : log[p].kind = "turn/completed" /\ log[p].turn = n /\ Begins(s, n, p - 1)
             => p = f /\ n <= last
        BY <2>2, <3>1
      <3>4. EndsAt(s, f, n, u, last)
        BY <3>1, <3>2, <3>3 DEF EndsAt
      <3> QED
        BY <3>1, <3>4
    <2>7. ShowsOf(s, n, u)
      BY <2>4, <2>5 DEF ShowsOf
    <2>8. StatesOf(s, e + 1, n, u)
      BY <1>16, <2>3 DEF StatesOf
    <2> QED
      BY <1>12, <2>6, <2>7, <2>8 DEF HoldsOf
  <1>20. \A r \in d.effort : Said(r, e + 1)
    <2> TAKE r \in d.effort
    <2>1. r \in client.effort \/ r \in u.confirmed
      BY DEF MovedBy
    <2>2. r \in client.effort => Said(r, e)
      BY DEF UnderWay
    <2> QED
      BY <1>6, <1>16, <2>1, <2>2
  <1>21. TracksAs(s, e + 1, n, d)
    <2>1. d.turns[n] = u /\ (d.started <=> client.started \/ m = Turn!TurnStarted(n))
      BY <1>1 DEF MovedBy
    <2>2. d.started <=> Begins(s, n, e + 1)
      BY <1>1, <1>4, <2>1, OneMore, SMTT(20)
    <2>3. ASSUME ~u.violated
          PROVE  /\ \A i \in Turn!ItemIds, x \in ItemTypes :
                      <<i, x>> \in d.open <=> StartsAs(s, e + 1, i, x) /\ ~EndsItem(s, e + 1, i)
                 /\ \A i \in Turn!ItemIds : i \in d.done <=> EndsItem(s, e + 1, i)
                 /\ d.active <=> \E i \in Turn!ItemIds : StartsItem(s, e + 1, i)
      <3>0. ~t.violated
        BY <2>3 DEF TakenBy
      <3>1. /\ \A i \in Turn!ItemIds, x \in ItemTypes :
                 <<i, x>> \in client.open <=> StartsAs(s, e, i, x) /\ ~EndsItem(s, e, i)
            /\ \A i \in Turn!ItemIds : i \in client.done <=> EndsItem(s, e, i)
            /\ client.active <=> \E i \in Turn!ItemIds : StartsItem(s, e, i)
        BY <1>1, <3>0 DEF UnderWay, TracksAs
      <3>2. /\ \A i \in Turn!ItemIds, x \in ItemTypes :
                 <<i, x>> \in d.open <=>
                   \/ m.kind = "item/started" /\ m.item = i /\ m.type = x
                   \/ <<i, x>> \in client.open /\ ~(m.kind = "item/completed" /\ m.item = i /\ m.type = x)
            /\ \A i \in Turn!ItemIds : i \in d.done <=> i \in client.done \/ (m.kind = "item/completed" /\ m.item = i)
            /\ d.active <=> client.active \/ m.kind = "item/started"
        BY <2>3 DEF MovedBy
      <3>3. /\ \A i : StartsItem(s, e + 1, i) <=>
                 StartsItem(s, e, i) \/ (m.kind = "item/started" /\ m.item = i)
            /\ \A i, x : StartsAs(s, e + 1, i, x) <=>
                 StartsAs(s, e, i, x) \/ (m.kind = "item/started" /\ m.item = i /\ m.type = x)
            /\ \A i : EndsItem(s, e + 1, i) <=>
                 EndsItem(s, e, i) \/ (m.kind = "item/completed" /\ m.item = i)
        <4>0. s \in Nat /\ e \in Nat /\ s <= e
          BY <1>1
        <4>1. \A i : StartsItem(s, e + 1, i) <=>
                StartsItem(s, e, i) \/ (log[e + 1].kind = "item/started" /\ log[e + 1].item = i)
          BY <4>0, OneMore, Zenon
        <4>2. \A i, x : StartsAs(s, e + 1, i, x) <=>
                 \/ StartsAs(s, e, i, x)
                 \/ log[e + 1].kind = "item/started" /\ log[e + 1].item = i /\ log[e + 1].type = x
          BY <4>0, OneMore, Zenon
        <4>3. \A i : EndsItem(s, e + 1, i) <=>
                 EndsItem(s, e, i) \/ (log[e + 1].kind = "item/completed" /\ log[e + 1].item = i)
          BY <4>0, OneMore, Zenon
        <4> QED
          BY <4>1, <4>2, <4>3
      <3>4. m \in Incoming /\ Fine(s, n, e + 1)
        <4>1. m \in Incoming
          BY <1>5 DEF UnderWay
        <4> QED
          BY <1>5, <1>12, <2>3, <4>1
      <3>5. m.kind \in {"item/started", "item/completed"} => m.item \in Turn!ItemIds
        BY <3>4, IncomingForms
      <3>6. m.kind = "item/started" => ~EndsItem(s, e, m.item)
        <4> SUFFICES ASSUME m.kind = "item/started", EndsItem(s, e, m.item)
                     PROVE  FALSE
          OBVIOUS
        <4>1. m.item \in client.done
          BY <3>1, <3>5
        <4>2. Accepts(m)
          BY <3>0, <3>4, AcceptsFine
        <4> QED
          BY <4>1, <4>2 DEF Accepts, Turn!MayStart
      <3>7. m.kind = "item/completed" =>
              \A x \in ItemTypes : <<m.item, x>> \in client.open => x = m.type
        <4> SUFFICES ASSUME m.kind = "item/completed", NEW x \in ItemTypes, <<m.item, x>> \in client.open
                     PROVE  x = m.type
          OBVIOUS
        <4>1. Accepts(m)
          BY <3>0, <3>4, AcceptsFine
        <4>2. m.type \in Turn!OpenTypes(m.item)
          BY <4>1 DEF Accepts, Turn!MayComplete
        <4>3. client.open \subseteq Turn!ItemIds \X ItemTypes
          BY <1>1, DriverTyped DEF DriverFields
        <4>4. <<m.item, m.type>> \in client.open /\ m.type \in ItemTypes
          BY <4>2, <4>3 DEF Turn!OpenTypes
        <4>5. StartsAs(s, e, m.item, x) /\ StartsAs(s, e, m.item, m.type)
          BY <3>1, <3>5, <4>4
        <4>6. PICK p \in s + 1 .. e : log[p].kind = "item/started" /\ log[p].item = m.item /\ log[p].type = x
          BY <4>5 DEF StartsAs
        <4>7. PICK q \in s + 1 .. e : log[q].kind = "item/started" /\ log[q].item = m.item /\ log[q].type = m.type
          BY <4>5 DEF StartsAs
        <4>8. \A a, c \in s + 1 .. e :
                 log[a].kind = "item/started" /\ log[c].kind = "item/started" /\ log[a].item = log[c].item => ~(a < c)
          <5> SUFFICES ASSUME NEW a \in s + 1 .. e, NEW c \in s + 1 .. e, log[a].kind = "item/started",
                              log[c].kind = "item/started", log[a].item = log[c].item, a < c
                       PROVE  FALSE
            OBVIOUS
          <5>1. a \in s + 1 .. c - 1
            BY <1>1, SMTT(20)
          <5>2. StartsItem(s, c - 1, log[c].item)
            BY <5>1 DEF StartsItem
          <5>3. Fine(s, n, c)
            BY <1>2, <3>0
          <5> QED
            BY <5>2, <5>3 DEF Fine
        <4>9. ~(p < q) /\ ~(q < p)
          BY <4>6, <4>7, <4>8
        <4>10. p \in Int /\ q \in Int
          BY <1>1, SMTT(20)
        <4>11. p = q
          BY <4>9, <4>10
        <4> QED
          BY <4>6, <4>7, <4>11
      <3> QED
        BY <3>1, <3>2, <3>3, <3>5, <3>6, <3>7
    <2> QED
      BY <2>1, <2>2, <2>3 DEF TracksAs
  <1> QED
    BY <1>19, <1>20, <1>21

(* The transcript of the turn under way, replaced by u.                     *)
Replaced(u) == [client.turns EXCEPT ![client.turn] = u]

LEMMA Rewritten ==
    ASSUME NEW s, NEW e, NEW n, NEW t, UnderWay(s, e, n, t), NEW u \in Transcript,
           NEW q, q = Replaced(u)
    PROVE  /\ q \in Seq(Transcript) /\ Len(q) = Len(client.turns) /\ q[client.turn] = u
           /\ \A k \in 1 .. Len(client.turns) : k # client.turn => q[k] = client.turns[k]
  <1>1. client.turn = Len(client.turns) /\ client.turn \in Nat /\ client.turn >= 1
    BY DEF UnderWay
  <1>2. client.turns \in Seq(Transcript)
    BY DriverTyped DEF UnderWay, DriverFields
  <1>3. PICK w, k : w = client.turns /\ k = client.turn
    OBVIOUS
  <1>4. w \in Seq(Transcript) /\ k \in 1 .. Len(w) /\ q = [w EXCEPT ![k] = u]
    BY <1>1, <1>2, <1>3 DEF Replaced
  <1>5. /\ q \in Seq(Transcript) /\ Len(q) = Len(w) /\ q[k] = u
        /\ \A j \in 1 .. Len(w) : j # k => q[j] = w[j]
    <2>1. Len(w) \in Nat /\ DOMAIN w = 1 .. Len(w) /\ \A j \in 1 .. Len(w) : w[j] \in Transcript
      BY <1>4
    <2>2. q \in [1 .. Len(w) -> Transcript]
      BY <1>4, <2>1
    <2>3. q \in Seq(Transcript) /\ Len(q) = Len(w)
      <3>1. w \in Seq(Transcript) /\ k \in 1 .. Len(w)
        BY <1>4
      <3>2. [w EXCEPT ![k] = u] \in Seq(Transcript) /\ Len([w EXCEPT ![k] = u]) = Len(w)
        BY <3>1
      <3> QED
        BY <1>4, <3>2, Zenon
    <2> QED
      BY <1>4, <2>1, <2>3
  <1> QED
    BY <1>3, <1>5

SameEvidence(t, u) ==
    /\ u.commands = t.commands /\ u.answers = t.answers /\ u.preEfforts = t.preEfforts
    /\ u.confirmed = t.confirmed /\ u.models = t.models

LEMMA EventFields ==
    ASSUME NEW t \in Transcript
    PROVE  /\ Turn!Event(t) \in Transcript /\ Turn!Event(t).events = t.events + 1
           /\ SameEvidence(t, Turn!Event(t)) /\ Turn!Event(t).violated = t.violated
           /\ Turn!Violated(t) \in Transcript /\ Turn!Violated(t).events = t.events + 1
           /\ SameEvidence(t, Turn!Violated(t)) /\ Turn!Violated(t).violated
  <1>1. PICK w : w = t.events + 1
    OBVIOUS
  <1>2. w \in Nat /\ TRUE \in BOOLEAN
    BY <1>1, TranscriptTyped
  <1>3. PICK x : x = [t EXCEPT !.events = w]
    OBVIOUS
  <1>4. x = Turn!Event(t)
    BY <1>1, <1>3 DEF Turn!Event
  <1>5. x \in Transcript /\ x.events = w /\ SameEvidence(t, x) /\ x.violated = t.violated
    BY <1>2, <1>3 DEF Transcript, SameEvidence
  <1>6. PICK y, v : v = TRUE /\ y = [x EXCEPT !.violated = v]
    OBVIOUS
  <1>7. v \in BOOLEAN /\ v
    BY <1>6
  <1>8. y = Turn!Violated(t)
    BY <1>4, <1>6 DEF Turn!Violated
  <1>9. y \in Transcript /\ y.events = x.events /\ SameEvidence(x, y) /\ y.violated = v
    BY <1>5, <1>6, <1>7 DEF Transcript, SameEvidence
  <1>10. SameEvidence(t, y)
    BY <1>5, <1>9 DEF SameEvidence
  <1> QED
    BY <1>1, <1>4, <1>5, <1>7, <1>8, <1>9, <1>10

LEMMA UnderWayTyped ==
    ASSUME NEW s, NEW e, NEW n, NEW t, UnderWay(s, e, n, t), NEW m, m = log[e + 1]
    PROVE  /\ m \in Incoming /\ n = client.turn /\ t = Turn!T /\ t \in Transcript
           /\ DriverFields(client) /\ client \in Driver /\ client.pc = "collecting"
  BY DriverTyped DEF UnderWay, Turn!T

(* A message the driver blames, and one that only counts.                   *)
LEMMA Blames ==
    ASSUME NEW m, NEW t \in Transcript, ~Accepts(m) \/ t.violated, ~Routed(m)
    PROVE  TakenBy(m, t, Turn!Violated(t))
  BY EventFields DEF TakenBy, SameEvidence, Accepts, Routed

LEMMA OnlyCounts ==
    ASSUME NEW m, NEW t \in Transcript, Accepts(m), ~Routed(m)
    PROVE  TakenBy(m, t, Turn!Event(t))
  BY EventFields DEF TakenBy, SameEvidence

(* Messages of the turn, one kind at a time.                                *)
LEMMA ReadsTurnStarted ==
    ASSUME NEW s, NEW e, NEW n, NEW t, UnderWay(s, e, n, t), NEW m, m = log[e + 1],
           m.kind = "turn/started", Turn!ReadTurnStarted(m)
    PROVE  \E u : TakenBy(m, t, u) /\ MovedBy(m, u, client')
  <1>1. /\ m \in Incoming /\ n = client.turn /\ t = Turn!T /\ t \in Transcript
        /\ DriverFields(client) /\ client \in Driver /\ client.pc = "collecting"
    BY UnderWayTyped
  <1>2. m.turn \in Prompts /\ m = Turn!TurnStarted(m.turn)
    BY <1>1, IncomingForms
  <1>3. PICK v : v = (~client.started /\ m.turn = client.turn)
    OBVIOUS
  <1>4. PICK g \in BOOLEAN : g <=> client.started \/ m.turn = client.turn
    OBVIOUS
  <1>5. PICK u : u = IF ~client.started /\ m.turn = client.turn THEN Turn!Event(t) ELSE Turn!Violated(t)
    OBVIOUS
  <1>6. PICK q : q = Replaced(u)
    OBVIOUS
  <1>7. client' = [client EXCEPT !.started = g, !.turns = q]
    BY <1>1, <1>4, <1>5, <1>6 DEF Turn!ReadTurnStarted, Turn!MatchesTurn, DriverFields, Replaced
  <1>8. u \in Transcript
    BY <1>1, <1>5, EventFields
  <1>9. /\ q \in Seq(Transcript) /\ Len(q) = Len(client.turns) /\ q[client.turn] = u
        /\ \A k \in 1 .. Len(client.turns) : k # client.turn => q[k] = client.turns[k]
    BY <1>6, <1>8, Rewritten
  <1>10. /\ client' \in Driver /\ client'.turn = client.turn /\ client'.pc = "collecting" /\ client'.turns = q
         /\ client'.started = g /\ client'.effort = client.effort /\ client'.open = client.open
         /\ client'.done = client.done /\ client'.active = client.active
    BY <1>1, <1>7, <1>9 DEF Driver
  <1>11. TakenBy(m, t, u)
    BY <1>1, <1>5, Blames, OnlyCounts DEF Accepts, Routed
  <1>12. client'.started <=> client.started \/ m = Turn!TurnStarted(client.turn)
    BY <1>2, <1>4, <1>10 DEF Turn!TurnStarted
  <1>13. MovedBy(m, u, client')
    BY <1>9, <1>10, <1>12 DEF MovedBy, Ends
  <1> QED
    BY <1>11, <1>13

(* A driver of which only the transcript changes.                           *)
LEMMA OnlyRecords ==
    ASSUME NEW s, NEW e, NEW n, NEW t, UnderWay(s, e, n, t), NEW u \in Transcript,
           client' = [client EXCEPT !.turns[client.turn] = u]
    PROVE  /\ client' \in Driver /\ client'.turn = client.turn /\ client'.pc = "collecting"
           /\ Len(client'.turns) = Len(client.turns) /\ client'.turns[client.turn] = u
           /\ \A k \in 1 .. Len(client.turns) : k # client.turn => client'.turns[k] = client.turns[k]
           /\ client'.started = client.started /\ client'.effort = client.effort /\ client'.open = client.open
           /\ client'.done = client.done /\ client'.active = client.active
  <1>1. client \in Driver /\ client.pc = "collecting"
    BY DEF UnderWay
  <1>2. PICK q : q = Replaced(u)
    OBVIOUS
  <1>3. client' = [client EXCEPT !.turns = q]
    BY <1>1, <1>2 DEF Driver, Replaced
  <1>4. /\ q \in Seq(Transcript) /\ Len(q) = Len(client.turns) /\ q[client.turn] = u
        /\ \A k \in 1 .. Len(client.turns) : k # client.turn => q[k] = client.turns[k]
    BY <1>2, Rewritten
  <1>5. /\ client' \in Driver /\ client'.turn = client.turn /\ client'.pc = "collecting" /\ client'.turns = q
        /\ client'.started = client.started /\ client'.effort = client.effort /\ client'.open = client.open
        /\ client'.done = client.done /\ client'.active = client.active
    BY <1>1, <1>3, <1>4 DEF Driver
  <1> QED
    BY <1>4, <1>5

LEMMA StillCollects ==
    ASSUME NEW s, NEW e, NEW n, NEW t, UnderWay(s, e, n, t), NEW m, m \in Incoming, NEW u \in Transcript,
           client' = [client EXCEPT !.turns[client.turn] = u], ~Ends(m),
           m.kind = "turn/started" => client.started,
           m.kind \in {"item/started", "item/completed"} => u.violated
    PROVE  MovedBy(m, u, client')
  <1>1. /\ client' \in Driver /\ client'.turn = client.turn /\ client'.pc = "collecting"
        /\ Len(client'.turns) = Len(client.turns) /\ client'.turns[client.turn] = u
        /\ \A k \in 1 .. Len(client.turns) : k # client.turn => client'.turns[k] = client.turns[k]
        /\ client'.started = client.started /\ client'.effort = client.effort /\ client'.open = client.open
        /\ client'.done = client.done /\ client'.active = client.active
    BY OnlyRecords
  <1>2. m = Turn!TurnStarted(client.turn) => client.started
    BY DEF Turn!TurnStarted
  <1>3. client.started \in BOOLEAN /\ client.active \in BOOLEAN
    BY DriverTyped DEF UnderWay, DriverFields
  <1>4. client'.pc \in {"asking", "collecting"} /\ (client'.pc = "asking" <=> Ends(m))
    BY <1>1
  <1> QED
    BY <1>1, <1>2, <1>3, <1>4 DEF MovedBy

LEMMA ReadsItemStarted ==
    ASSUME NEW s, NEW e, NEW n, NEW t, UnderWay(s, e, n, t), NEW m, m = log[e + 1],
           m.kind = "item/started", Turn!ReadItemStarted(m)
    PROVE  \E u : TakenBy(m, t, u) /\ MovedBy(m, u, client')
  <1>1. /\ m \in Incoming /\ n = client.turn /\ t = Turn!T /\ t \in Transcript
        /\ DriverFields(client) /\ client \in Driver /\ client.pc = "collecting"
    BY UnderWayTyped
  <1>2. m.item \in Turn!ItemIds /\ m.type \in ItemTypes
    BY <1>1, IncomingForms
  <1>3. ~Routed(m) /\ ~Ends(m)
    BY DEF Routed, Ends
  <1>4. CASE ~Turn!MayStart(m)
    <2>1. client' = [client EXCEPT !.turns[client.turn] = Turn!Violated(t)]
      BY <1>1, <1>4 DEF Turn!ReadItemStarted
    <2>2. TakenBy(m, t, Turn!Violated(t))
      BY <1>1, <1>3, <1>4, Blames DEF Accepts
    <2>3. Turn!Violated(t) \in Transcript /\ Turn!Violated(t).violated
      BY <1>1, EventFields
    <2>4. MovedBy(m, Turn!Violated(t), client')
      BY <1>1, <1>3, <2>1, <2>3, StillCollects
    <2> QED
      BY <2>2, <2>4
  <1>5. CASE Turn!MayStart(m)
    <2>1. PICK u : u = IF m.type # "mcpToolCall" THEN Turn!Event(t) ELSE Turn!Violated(t)
      OBVIOUS
    <2>2. PICK q : q = Replaced(u)
      OBVIOUS
    <2>3. PICK o, g : o = client.open \cup {<<m.item, m.type>>} /\ g = TRUE
      OBVIOUS
    <2>4. m.type \in Turn!Informational \cup {"commandExecution"} <=> m.type # "mcpToolCall"
      BY <1>2 DEF Turn!Informational, ItemTypes
    <2>5. client' = [client EXCEPT !.open = o, !.active = g, !.turns = q]
      BY <1>1, <1>5, <2>1, <2>2, <2>3, <2>4 DEF Turn!ReadItemStarted, Driver, Replaced
    <2>6. u \in Transcript
      BY <1>1, <2>1, EventFields
    <2>7. /\ q \in Seq(Transcript) /\ Len(q) = Len(client.turns) /\ q[client.turn] = u
          /\ \A k \in 1 .. Len(client.turns) : k # client.turn => q[k] = client.turns[k]
      BY <2>2, <2>6, Rewritten
    <2>8. o \in SUBSET (Turn!ItemIds \X ItemTypes) /\ g \in BOOLEAN /\ g
      BY <1>1, <1>2, <2>3 DEF DriverFields
    <2>9. /\ client' \in Driver /\ client'.turn = client.turn /\ client'.pc = "collecting" /\ client'.turns = q
          /\ client'.started = client.started /\ client'.effort = client.effort /\ client'.open = o
          /\ client'.done = client.done /\ client'.active = g
      BY <1>1, <2>5, <2>7, <2>8 DEF Driver
    <2>10. TakenBy(m, t, u)
      BY <1>1, <1>3, <1>5, <2>1, Blames, OnlyCounts DEF Accepts
    <2>11. m # Turn!TurnStarted(client.turn)
      BY DEF Turn!TurnStarted
    <2>12. \A i \in Turn!ItemIds, x \in ItemTypes :
             <<i, x>> \in o <=> (m.item = i /\ m.type = x) \/ <<i, x>> \in client.open
      BY <2>3
    <2>13. MovedBy(m, u, client')
      BY <1>1, <1>3, <2>7, <2>8, <2>9, <2>11, <2>12 DEF MovedBy, DriverFields
    <2> QED
      BY <2>10, <2>13
  <1> QED
    BY <1>4, <1>5

(* What a completed item leaves in the transcript.                          *)
Leaves(m, t) ==
    CASE m.type = "commandExecution" -> [t EXCEPT !.commands = @ \cup {<<t.events, m.ok>>}]
      [] m.type = "agentMessage" -> [t EXCEPT !.answers = @ \cup {t.events}]
      [] OTHER -> [t EXCEPT !.violated = TRUE]

LEMMA LeavesFields ==
    ASSUME NEW m, m \in Incoming, m.kind = "item/completed", NEW t \in Transcript,
           m.turn = client.turn, m.type # "mcpToolCall" <=> Accepts(m)
    PROVE  Turn!Event(Leaves(m, t)) \in Transcript /\ TakenBy(m, t, Turn!Event(Leaves(m, t)))
  <1>0. m.type \in ItemTypes /\ m.ok \in BOOLEAN /\ ~Routed(m)
    BY IncomingForms DEF Routed
  <1>1. t.events \in Nat
    BY TranscriptTyped
  <1>2. CASE m.type = "commandExecution"
    <2>1. PICK cs : cs = t.commands \cup {<<t.events, m.ok>>}
      OBVIOUS
    <2>2. PICK k : k = [t EXCEPT !.commands = cs]
      OBVIOUS
    <2>3. k = Leaves(m, t)
      BY <1>2, <2>1, <2>2 DEF Leaves
    <2>4. cs \in SUBSET (Nat \X BOOLEAN)
      BY <1>0, <1>1, <2>1 DEF Transcript
    <2>5. /\ k \in Transcript /\ k.events = t.events /\ k.commands = cs /\ k.answers = t.answers
          /\ k.violated = t.violated /\ k.preEfforts = t.preEfforts /\ k.confirmed = t.confirmed /\ k.models = t.models
      BY <2>2, <2>4 DEF Transcript
    <2>6. Turn!Event(k) \in Transcript /\ Turn!Event(k).events = k.events + 1 /\ SameEvidence(k, Turn!Event(k))
          /\ Turn!Event(k).violated = k.violated
      BY <2>5, EventFields
    <2>7. \A c \in cs : c \in t.commands \/ (c[1] = t.events /\ c[2] = m.ok)
      BY <2>1
    <2>8. Accepts(m)
      BY <1>2
    <2>9. TakenBy(m, t, Turn!Event(k))
      BY <1>0, <1>2, <2>5, <2>6, <2>7, <2>8 DEF TakenBy, SameEvidence
    <2> QED
      BY <2>3, <2>6, <2>9
  <1>3. CASE m.type = "agentMessage"
    <2>1. PICK as : as = t.answers \cup {t.events}
      OBVIOUS
    <2>2. PICK k : k = [t EXCEPT !.answers = as]
      OBVIOUS
    <2>3. k = Leaves(m, t)
      BY <1>3, <2>1, <2>2 DEF Leaves
    <2>4. as \in SUBSET Nat
      BY <1>0, <1>1, <2>1 DEF Transcript
    <2>5. /\ k \in Transcript /\ k.events = t.events /\ k.commands = t.commands /\ k.answers = as
          /\ k.violated = t.violated /\ k.preEfforts = t.preEfforts /\ k.confirmed = t.confirmed /\ k.models = t.models
      BY <2>2, <2>4 DEF Transcript
    <2>6. Turn!Event(k) \in Transcript /\ Turn!Event(k).events = k.events + 1 /\ SameEvidence(k, Turn!Event(k))
          /\ Turn!Event(k).violated = k.violated
      BY <2>5, EventFields
    <2>8. Accepts(m)
      BY <1>3
    <2>9. TakenBy(m, t, Turn!Event(k))
      BY <1>0, <1>3, <2>1, <2>5, <2>6, <2>8 DEF TakenBy, SameEvidence
    <2> QED
      BY <2>3, <2>6, <2>9
  <1>4. CASE m.type = "mcpToolCall"
    <2>1. PICK v, k : v = TRUE /\ k = [t EXCEPT !.violated = v]
      OBVIOUS
    <2>2. v \in BOOLEAN /\ v
      BY <2>1
    <2>3. k = Leaves(m, t)
      BY <1>4, <2>1 DEF Leaves
    <2>5. k \in Transcript /\ k.events = t.events /\ SameEvidence(t, k) /\ k.violated = v
      BY <2>1, <2>2 DEF Transcript, SameEvidence
    <2>6. Turn!Event(k) \in Transcript /\ Turn!Event(k).events = k.events + 1 /\ SameEvidence(k, Turn!Event(k))
          /\ Turn!Event(k).violated = k.violated
      BY <2>5, EventFields
    <2>8. ~Accepts(m)
      BY <1>4
    <2>9. TakenBy(m, t, Turn!Event(k))
      BY <1>0, <2>2, <2>5, <2>6, <2>8 DEF TakenBy, SameEvidence
    <2> QED
      BY <2>3, <2>6, <2>9
  <1> QED
    BY <1>0, <1>2, <1>3, <1>4 DEF ItemTypes

LEMMA ReadsItemCompleted ==
    ASSUME NEW s, NEW e, NEW n, NEW t, UnderWay(s, e, n, t), NEW m, m = log[e + 1],
           m.kind = "item/completed", Turn!ReadItemCompleted(m)
    PROVE  \E u : TakenBy(m, t, u) /\ MovedBy(m, u, client')
  <1>1. /\ m \in Incoming /\ n = client.turn /\ t = Turn!T /\ t \in Transcript
        /\ DriverFields(client) /\ client \in Driver /\ client.pc = "collecting"
    BY UnderWayTyped
  <1>2. m.item \in Turn!ItemIds /\ m.type \in ItemTypes
    BY <1>1, IncomingForms
  <1>3. ~Routed(m) /\ ~Ends(m)
    BY DEF Routed, Ends
  <1>4. CASE ~Turn!MayComplete(m)
    <2>1. client' = [client EXCEPT !.turns[client.turn] = Turn!Violated(t)]
      BY <1>1, <1>4 DEF Turn!ReadItemCompleted
    <2>2. TakenBy(m, t, Turn!Violated(t))
      BY <1>1, <1>3, <1>4, Blames DEF Accepts
    <2>3. Turn!Violated(t) \in Transcript /\ Turn!Violated(t).violated
      BY <1>1, EventFields
    <2>4. MovedBy(m, Turn!Violated(t), client')
      BY <1>1, <1>3, <2>1, <2>3, StillCollects
    <2> QED
      BY <2>2, <2>4
  <1>5. CASE Turn!MayComplete(m)
    <2>1. PICK u, k : k = Leaves(m, t) /\ u = Turn!Event(k)
      OBVIOUS
    <2>2. PICK q : q = Replaced(u)
      OBVIOUS
    <2>3. PICK o, f : o = client.open \ {<<m.item, m.type>>} /\ f = client.done \cup {m.item}
      OBVIOUS
    <2>4. client' = [client EXCEPT !.open = o, !.done = f, !.turns[client.turn] = u]
      BY <1>1, <1>5, <2>1, <2>3 DEF Turn!ReadItemCompleted, Leaves
    <2>5. client' = [client EXCEPT !.open = o, !.done = f, !.turns = q]
      BY <1>1, <2>2, <2>4 DEF Driver, Replaced
    <2>6. u \in Transcript /\ TakenBy(m, t, u)
      <3>1. m.turn = client.turn /\ (m.type # "mcpToolCall" <=> Accepts(m))
        BY <1>5 DEF Accepts, Turn!MayComplete, Turn!MatchesTurn
      <3> QED
        BY <1>1, <2>1, <3>1, LeavesFields
    <2>7. /\ q \in Seq(Transcript) /\ Len(q) = Len(client.turns) /\ q[client.turn] = u
          /\ \A j \in 1 .. Len(client.turns) : j # client.turn => q[j] = client.turns[j]
      BY <2>2, <2>6, Rewritten
    <2>8. o \in SUBSET (Turn!ItemIds \X ItemTypes) /\ f \in SUBSET Turn!ItemIds
      BY <1>1, <1>2, <2>3 DEF DriverFields
    <2>9. /\ client' \in Driver /\ client'.turn = client.turn /\ client'.pc = "collecting" /\ client'.turns = q
          /\ client'.started = client.started /\ client'.effort = client.effort /\ client'.open = o
          /\ client'.done = f /\ client'.active = client.active
      BY <1>1, <2>5, <2>7, <2>8 DEF Driver
    <2>11. m # Turn!TurnStarted(client.turn)
      BY DEF Turn!TurnStarted
    <2>12. \A i \in Turn!ItemIds, x \in ItemTypes :
             <<i, x>> \in o <=> <<i, x>> \in client.open /\ ~(m.item = i /\ m.type = x)
      BY <2>3
    <2>13. \A i \in Turn!ItemIds : i \in f <=> i \in client.done \/ m.item = i
      BY <2>3
    <2>14. MovedBy(m, u, client')
      BY <1>1, <1>3, <2>7, <2>9, <2>11, <2>12, <2>13 DEF MovedBy, DriverFields
    <2> QED
      BY <2>6, <2>14
  <1> QED
    BY <1>4, <1>5

LEMMA ReadsSettings ==
    ASSUME NEW s, NEW e, NEW n, NEW t, UnderWay(s, e, n, t), NEW m, m = log[e + 1],
           m.kind = "thread/settings/updated", Turn!ReadSettings(m)
    PROVE  \E u : TakenBy(m, t, u) /\ MovedBy(m, u, client')
  <1>1. /\ m \in Incoming /\ n = client.turn /\ t = Turn!T /\ t \in Transcript
        /\ DriverFields(client) /\ client \in Driver /\ client.pc = "collecting"
    BY UnderWayTyped
  <1>2. m.route \in Names /\ m = Turn!SettingsUpdated(m.route)
    BY <1>1, IncomingForms DEF Names
  <1>3. PICK v : v = Turn!Event(t)
    OBVIOUS
  <1>4. v \in Transcript /\ v.events = t.events + 1 /\ SameEvidence(t, v) /\ v.violated = t.violated
    BY <1>1, <1>3, EventFields
  <1>5. PICK ms, es, pm, pe, cf : /\ ms = v.models \cup {m.route} /\ es = v.efforts \cup {m.route}
                                  /\ pm = Turn!BeforeActivity(v.preModels, m.route)
                                  /\ pe = Turn!BeforeActivity(v.preEfforts, m.route) /\ cf = {m.route}
    OBVIOUS
  <1>6. PICK u : u = [v EXCEPT !.model = m.route, !.models = ms, !.efforts = es, !.preModels = pm,
                               !.preEfforts = pe, !.confirmed = cf]
    OBVIOUS
  <1>7. client' = [client EXCEPT !.turns[client.turn] = u]
    BY <1>1, <1>3, <1>4, <1>5, <1>6 DEF Turn!ReadSettings, Turn!Record, Transcript
  <1>8. /\ ms \subseteq Names /\ es \subseteq Names /\ pm \subseteq Names /\ pe \subseteq Names /\ cf \subseteq Names
    BY <1>2, <1>4, <1>5 DEF Turn!BeforeActivity, Transcript
  <1>9. /\ u \in Transcript /\ u.events = v.events /\ u.violated = v.violated /\ u.commands = v.commands
        /\ u.answers = v.answers /\ u.models = ms /\ u.preEfforts = pe /\ u.confirmed = cf
    BY <1>2, <1>4, <1>6, <1>8 DEF Transcript
  <1>10. Accepts(m) /\ ~Ends(m)
    BY DEF Accepts, Ends
  <1>11. TakenBy(m, t, u)
    <2>1. pe \subseteq v.preEfforts \cup {m.route} /\ (client.active => pe = v.preEfforts)
      BY <1>5 DEF Turn!BeforeActivity
    <2> QED
      BY <1>2, <1>4, <1>5, <1>9, <1>10, <2>1 DEF TakenBy, SameEvidence
  <1>12. MovedBy(m, u, client')
    BY <1>1, <1>7, <1>9, <1>10, StillCollects
  <1> QED
    BY <1>11, <1>12

LEMMA ReadsRerouted ==
    ASSUME NEW s, NEW e, NEW n, NEW t, UnderWay(s, e, n, t), NEW m, m = log[e + 1],
           m.kind = "model/rerouted", Turn!ReadRerouted(m), client'.pc # "failed"
    PROVE  \E u : TakenBy(m, t, u) /\ MovedBy(m, u, client')
  <1>1. /\ m \in Incoming /\ n = client.turn /\ t = Turn!T /\ t \in Transcript
        /\ DriverFields(client) /\ client \in Driver /\ client.pc = "collecting"
    BY UnderWayTyped
  <1>2. m.route \in Names /\ ~Ends(m)
    BY <1>1, IncomingForms DEF Names, Ends
  <1>3. CASE m.turn # client.turn
    <2>1. client' = [client EXCEPT !.turns[client.turn] = Turn!Violated(t)]
      BY <1>1, <1>3 DEF Turn!ReadRerouted, Turn!MatchesTurn, Turn!Record
    <2>2. TakenBy(m, t, Turn!Violated(t))
      BY <1>1, <1>3, Blames DEF Accepts, Routed
    <2>3. Turn!Violated(t) \in Transcript /\ Turn!Violated(t).violated
      BY <1>1, EventFields
    <2>4. MovedBy(m, Turn!Violated(t), client')
      BY <1>1, <1>2, <2>1, <2>3, StillCollects
    <2> QED
      BY <2>2, <2>4
  <1>4. CASE m.turn = client.turn
    <2>1. ~Turn!Fail
      BY <1>1 DEF Turn!Fail, Driver
    <2>3. PICK v : v = Turn!Event(t)
      OBVIOUS
    <2>4. v \in Transcript /\ v.events = t.events + 1 /\ SameEvidence(t, v) /\ v.violated = t.violated
      BY <1>1, <2>3, EventFields
    <2>5. PICK ms, pm : ms = v.models \cup {m.route} /\ pm = Turn!BeforeActivity(v.preModels, m.route)
      OBVIOUS
    <2>6. PICK u : u = [v EXCEPT !.model = m.route, !.models = ms, !.preModels = pm]
      OBVIOUS
    <2>7. client' = [client EXCEPT !.turns[client.turn] = u]
      BY <1>1, <1>4, <2>1, <2>3, <2>4, <2>5, <2>6 DEF Turn!ReadRerouted, Turn!MatchesTurn, Turn!Record, Transcript
    <2>8. ms \subseteq Names /\ pm \subseteq Names
      BY <1>2, <2>4, <2>5 DEF Turn!BeforeActivity, Transcript
    <2>9. /\ u \in Transcript /\ u.events = v.events /\ u.violated = v.violated /\ u.commands = v.commands
          /\ u.answers = v.answers /\ u.models = ms /\ u.preEfforts = v.preEfforts /\ u.confirmed = v.confirmed
      BY <1>2, <2>4, <2>6, <2>8 DEF Transcript
    <2>10. Accepts(m)
      BY <1>4 DEF Accepts
    <2>11. TakenBy(m, t, u)
      BY <2>4, <2>5, <2>9, <2>10 DEF TakenBy, SameEvidence
    <2>12. MovedBy(m, u, client')
      BY <1>1, <1>2, <2>7, <2>9, StillCollects
    <2> QED
      BY <2>11, <2>12
  <1> QED
    BY <1>3, <1>4

LEMMA ReadsOther ==
    ASSUME NEW s, NEW e, NEW n, NEW t, UnderWay(s, e, n, t), NEW m, m = log[e + 1],
           Turn!ReadOther(m), client'.pc # "failed"
    PROVE  \E u : TakenBy(m, t, u) /\ MovedBy(m, u, client')
  <1>1. /\ m \in Incoming /\ n = client.turn /\ t = Turn!T /\ t \in Transcript
        /\ DriverFields(client) /\ client \in Driver /\ client.pc = "collecting"
    BY UnderWayTyped
  <1>2. ~Turn!Fail
    BY <1>1 DEF Turn!Fail, Driver
  <1>3. PICK u : u \in {Turn!Event(t), Turn!Violated(t)} /\ client' = [client EXCEPT !.turns[client.turn] = u]
                 /\ \/ u = Turn!Event(t) /\ m.kind = "account/rateLimits/updated"
                    \/ u = Turn!Violated(t) /\ m.kind \in {"request", "response", "unknown"}
    <2>1. CASE m.kind = "account/rateLimits/updated" /\ Turn!Record(Turn!Event(Turn!T))
      BY <1>1, <2>1 DEF Turn!Record
    <2>2. CASE m.kind \in {"request", "response", "unknown"} /\ Turn!Record(Turn!Violated(Turn!T))
      BY <1>1, <2>2 DEF Turn!Record
    <2> QED
      BY <1>2, <2>1, <2>2 DEF Turn!ReadOther
  <1>4. u \in Transcript
    BY <1>1, <1>3, EventFields
  <1>5. ~Ends(m) /\ ~Routed(m) /\ m.kind \notin {"turn/started", "item/started", "item/completed"}
    BY <1>3 DEF Ends, Routed
  <1>6. TakenBy(m, t, u)
    BY <1>1, <1>3, <1>5, Blames, OnlyCounts DEF Accepts
  <1>7. MovedBy(m, u, client')
    BY <1>1, <1>3, <1>4, <1>5, StillCollects
  <1> QED
    BY <1>6, <1>7

LEMMA ReadsTurnCompleted ==
    ASSUME NEW s, NEW e, NEW n, NEW t, UnderWay(s, e, n, t), NEW m, m = log[e + 1],
           m.kind = "turn/completed", Turn!ReadTurnCompleted(m)
    PROVE  \E u : TakenBy(m, t, u) /\ MovedBy(m, u, client')
  <1>1. /\ m \in Incoming /\ n = client.turn /\ t = Turn!T /\ t \in Transcript
        /\ DriverFields(client) /\ client \in Driver /\ client.pc = "collecting"
    BY UnderWayTyped
  <1>2. m.turn \in Prompts /\ m.ok \in BOOLEAN /\ ~Routed(m)
    BY <1>1, IncomingForms DEF Routed
  <1>3. CASE ~(client.started /\ m.turn = client.turn)
    <2>1. client' = [client EXCEPT !.turns[client.turn] = Turn!Violated(t)]
      BY <1>1, <1>3 DEF Turn!ReadTurnCompleted, Turn!MatchesTurn, Turn!Record
    <2>2. TakenBy(m, t, Turn!Violated(t))
      BY <1>1, <1>2, <1>3, Blames DEF Accepts
    <2>3. Turn!Violated(t) \in Transcript /\ Turn!Violated(t).violated
      BY <1>1, EventFields
    <2>4. MovedBy(m, Turn!Violated(t), client')
      BY <1>1, <1>3, <2>1, <2>3, StillCollects DEF Ends
    <2> QED
      BY <2>2, <2>4
  <1>4. CASE client.started /\ m.turn = client.turn
    <2>3. PICK v : v = Turn!Event(t)
      OBVIOUS
    <2>4. v \in Transcript /\ v.events = t.events + 1 /\ SameEvidence(t, v) /\ v.violated = t.violated
      BY <1>1, <2>3, EventFields
    <2>5. PICK g \in BOOLEAN : g <=> v.violated \/ client.open # {}
      OBVIOUS
    <2>6. PICK u : u = [v EXCEPT !.ok = m.ok, !.violated = g]
      OBVIOUS
    <2>7. PICK q, mo, ef : /\ q = Replaced(u)
                           /\ mo = IF t.confirmed = {} THEN client.model ELSE CHOOSE r \in t.confirmed : TRUE
                           /\ ef = IF t.confirmed = {} THEN client.effort ELSE t.confirmed
      OBVIOUS
    <2>8. u = [v EXCEPT !.ok = m.ok, !.violated = @ \/ client.open # {}]
      <3>1. g = (v.violated \/ client.open # {})
        BY <2>4, <2>5 DEF Transcript
      <3> QED
        BY <2>6, <3>1
    <2>9. client' = [client EXCEPT !.pc = "asking", !.turns[client.turn] = u, !.model = mo, !.effort = ef]
      BY <1>1, <1>4, <2>3, <2>7, <2>8 DEF Turn!ReadTurnCompleted, Turn!MatchesTurn
    <2>10. client' = [client EXCEPT !.pc = "asking", !.turns = q, !.model = mo, !.effort = ef]
      BY <1>1, <2>7, <2>9 DEF Driver, Replaced
    <2>11. /\ u \in Transcript /\ u.events = v.events /\ u.violated = g /\ u.commands = v.commands /\ u.ok = m.ok
           /\ u.answers = v.answers /\ u.models = v.models /\ u.preEfforts = v.preEfforts /\ u.confirmed = v.confirmed
      BY <1>2, <2>4, <2>5, <2>6 DEF Transcript
    <2>12. /\ q \in Seq(Transcript) /\ Len(q) = Len(client.turns) /\ q[client.turn] = u
           /\ \A j \in 1 .. Len(client.turns) : j # client.turn => q[j] = client.turns[j]
      BY <2>7, <2>11, Rewritten
    <2>13. mo \in Names /\ ef \in SUBSET Names
      <3>1. t.confirmed \subseteq Names /\ client.model \in Names /\ client.effort \subseteq Names
        BY <1>1 DEF DriverFields, Transcript
      <3>2. t.confirmed # {} => (CHOOSE r \in t.confirmed : TRUE) \in t.confirmed
        OBVIOUS
      <3> QED
        BY <2>7, <3>1, <3>2
    <2>14. /\ client' \in Driver /\ client'.turn = client.turn /\ client'.pc = "asking" /\ client'.turns = q
           /\ client'.started = client.started /\ client'.effort = ef /\ client'.open = client.open
           /\ client'.done = client.done /\ client'.active = client.active
      <3>1. "asking" \in Stages
        BY DEF Stages
      <3> QED
        BY <1>1, <2>10, <2>12, <2>13, <3>1 DEF Driver
    <2>15. Ends(m) /\ (Accepts(m) <=> client.open = {})
      BY <1>4 DEF Ends, Accepts
    <2>16. TakenBy(m, t, u)
      BY <1>2, <2>4, <2>5, <2>11, <2>15 DEF TakenBy, SameEvidence
    <2>17. ef \subseteq client.effort \cup u.confirmed
      BY <2>4, <2>7, <2>11 DEF SameEvidence
    <2>18. m # Turn!TurnStarted(client.turn)
      BY DEF Turn!TurnStarted
    <2>19. MovedBy(m, u, client')
      BY <1>1, <2>11, <2>12, <2>14, <2>15, <2>17, <2>18 DEF MovedBy, DriverFields
    <2> QED
      BY <2>16, <2>19
  <1> QED
    BY <1>3, <1>4

(* A message of the turn is read.                                           *)
LEMMA ReadsOne ==
    ASSUME NEW s, NEW e, NEW n, NEW t, UnderWay(s, e, n, t), Turn!ReadMessage, client'.pc # "failed",
           Head(queue) = log[e + 1]
    PROVE  \E u : TakenBy(log[e + 1], t, u) /\ MovedBy(log[e + 1], u, client')
  <1>1. PICK m : m = log[e + 1]
    OBVIOUS
  <1>2. \/ m.kind = "turn/started" /\ Turn!ReadTurnStarted(m)
        \/ m.kind = "item/started" /\ Turn!ReadItemStarted(m)
        \/ m.kind = "item/completed" /\ Turn!ReadItemCompleted(m)
        \/ m.kind = "thread/settings/updated" /\ Turn!ReadSettings(m)
        \/ m.kind = "model/rerouted" /\ Turn!ReadRerouted(m)
        \/ m.kind = "turn/completed" /\ Turn!ReadTurnCompleted(m)
        \/ Turn!ReadOther(m)
    BY <1>1 DEF Turn!ReadMessage
  <1>3. \E u : TakenBy(m, t, u) /\ MovedBy(m, u, client')
    BY <1>1, <1>2, ReadsTurnStarted, ReadsItemStarted, ReadsItemCompleted, ReadsSettings, ReadsRerouted,
       ReadsTurnCompleted, ReadsOther
  <1> QED
    BY <1>1, <1>3

LEMMA PriorBounds ==
    ASSUME NEW b, Divided(b), NEW n \in Nat, n = client.turn, n >= 1
    PROVE  Bounds(b, n - 1)
  <1>1. /\ b \in [Nat -> Nat] /\ b[1] = 0
        /\ \A j, k \in 1 .. n + 1 : j <= k => b[j] <= b[k]
        /\ \A p \in 1 .. b[n + 1] : \E k \in 1 .. n : p \in Part(b, k)
    BY DEF Divided
  <1>2. /\ n - 1 + 1 = n /\ n \in 1 .. n + 1 /\ n + 1 \in 1 .. n + 1 /\ n <= n + 1 /\ n \in Nat /\ n + 1 \in Nat
        /\ \A k \in 1 .. n : k \in 1 .. n + 1
        /\ \A k \in 1 .. n : k # n => k \in 1 .. n - 1
    OBVIOUS
  <1>3. b[n] \in Nat /\ b[n + 1] \in Nat /\ b[n] <= b[n + 1]
    BY <1>1, <1>2
  <1>4. \A j, k \in 1 .. n : j <= k => b[j] <= b[k]
    BY <1>1, <1>2
  <1>5. ASSUME NEW p \in 1 .. b[n]
        PROVE  \E k \in 1 .. n - 1 : p \in Part(b, k)
    <2>1. p \in 1 .. b[n + 1]
      BY <1>3
    <2>2. PICK k \in 1 .. n : p \in Part(b, k)
      BY <1>1, <2>1
    <2>3. p \notin Part(b, n)
      BY <1>3 DEF Part
    <2> QED
      BY <1>2, <2>2, <2>3
  <1> QED
    BY <1>1, <1>2, <1>4, <1>5 DEF Bounds

(* The message read joins the turn under way, and the rest stays.           *)
LEMMA TurnReads ==
    ASSUME NEW b, Collected(b), client \in Driver, Wired, client.pc = "collecting",
           Turn!ReadMessage, client'.pc # "failed"
    PROVE  client' \in Driver /\ Wired' /\ \E c : Collected(c)'
  <1>1. queue # << >> /\ log' = log /\ queue' = Tail(queue)
    BY DEF Turn!ReadMessage
  <1>2. PICK n, s, e, t : n = client.turn /\ s = b[client.turn] /\ e = Reads /\ t = client.turns[client.turn]
    OBVIOUS
  <1>3. UnderWay(s, e, n, t)
    BY <1>1, <1>2, TurnUnderWay
  <1>4. /\ Wired' /\ Reads' = e + 1 /\ Head(queue) = log[e + 1] /\ e + 1 <= Len(log) /\ Len(log) \in Nat
    BY <1>1, <1>2, WireTaken, ReadsCount
  <1>5. PICK m : m = log[e + 1]
    OBVIOUS
  <1>6. PICK u : TakenBy(m, t, u) /\ MovedBy(m, u, client')
    BY <1>3, <1>4, <1>5, ReadsOne
  <1>7. /\ client' \in Driver /\ client'.turn = n /\ client'.pc \in {"asking", "collecting"}
        /\ Len(client'.turns) = Len(client.turns) /\ client'.turns[n] = u
        /\ \A k \in 1 .. Len(client.turns) : k # n => client'.turns[k] = client.turns[k]
    BY <1>2, <1>6 DEF MovedBy
  <1>8. /\ s \in Nat /\ e \in Nat /\ s <= e /\ n \in Nat /\ n >= 1 /\ n = Len(client.turns)
        /\ e = s + t.events /\ t \in Transcript
    BY <1>3 DEF UnderWay
  <1>9. u.events = t.events + 1 /\ t.events \in Nat
    BY <1>6, <1>8, TranscriptTyped DEF TakenBy
  <1>10. Divided(b) /\ client.turn <= Turns
    BY DEF Collected, Divided
  <1>11. PICK l, w : l = n - 1 /\ w = e + 1
    OBVIOUS
  <1>12. PICK c : c = Moved(b, n, w)
    OBVIOUS
  <1>13. Bounds(c, n) /\ c[n] = s /\ c[n + 1] = w /\ \A k \in 1 .. l : c[k] = b[k] /\ c[k + 1] = b[k + 1]
    <2>1. Bounds(b, l)
      BY <1>2, <1>8, <1>10, <1>11, PriorBounds
    <2>2. l \in Nat /\ n \in Nat /\ n = l + 1 /\ w \in Nat /\ s <= w
      BY <1>8, <1>11
    <2>3. b[n] = s /\ b[n] <= w
      BY <1>2, <2>2
    <2> QED
      BY <1>12, <2>1, <2>2, <2>3, NewBound
  <1>14. \A k \in 1 .. n : k \in 1 .. l \/ k = n
    BY <1>8, <1>11
  <1>15. \A k \in 1 .. l : k \in 1 .. n /\ k # n /\ client'.turns[k] = client.turns[k]
    <2>1. \A k \in 1 .. l : k \in 1 .. n /\ k # n
      BY <1>8, <1>11
    <2> QED
      BY <1>7, <1>8, <2>1
  <1>16. Divided(c)'
    <2>1. ASSUME NEW k \in 1 .. n
          PROVE  c[k + 1] = c[k] + client'.turns[k].events
      <3>1. CASE k \in 1 .. l
        <4>1. b[k + 1] = b[k] + client.turns[k].events
          BY <1>2, <1>10, <1>15, <3>1 DEF Divided
        <4> QED
          BY <1>13, <1>15, <3>1, <4>1
      <3>2. CASE k = n
        <4>1. w = s + (t.events + 1)
          BY <1>8, <1>9, <1>11
        <4> QED
          BY <1>7, <1>9, <1>13, <3>2, <4>1
      <3> QED
        BY <1>14, <3>1, <3>2
    <2>2. /\ c \in [Nat -> Nat] /\ c[1] = 0
          /\ \A j, k \in 1 .. n + 1 : j <= k => c[j] <= c[k]
          /\ \A p \in 1 .. c[n + 1] : \E k \in 1 .. n : p \in Part(c, k)
      BY <1>13 DEF Bounds
    <2>3. Reads' = w /\ c[n + 1] = Reads' /\ w <= w /\ n <= Turns
      BY <1>2, <1>4, <1>8, <1>10, <1>11, <1>13
    <2>4. client'.pc \notin {"settling", "returned"}
      BY <1>7
    <2> QED
      BY <1>7, <1>8, <2>1, <2>2, <2>3, <2>4 DEF Divided, Part
  <1>17. EndedTurns = l /\ EndedTurns' = (IF client'.pc = "collecting" THEN n - 1 ELSE n) /\ EndedTurns' \in Int
    BY <1>2, <1>7, <1>8, <1>11 DEF EndedTurns
  <1>18. PICK last \in Int : last = EndedTurns'
    BY <1>17
  <1>19. /\ HoldsOf(s, w, n, u, last)
         /\ client'.pc = "collecting" => TracksAs(s, w, n, client')
         /\ \A r \in client'.effort : Said(r, w)
    BY <1>3, <1>5, <1>6, <1>11, <1>17, <1>18, Advances
  <1>20. ASSUME NEW k \in 1 .. n
         PROVE  HoldsOf(c[k], c[k + 1], k, client'.turns[k], last)
    <2>1. CASE k \in 1 .. l
      <3>1. HoldsOf(b[k], b[k + 1], k, client.turns[k], l)
        BY <1>2, <1>8, <1>17, ByTurns
      <3>2. k <= l /\ k <= last
        BY <1>8, <1>11, <1>17, <1>18, <2>1
      <3>3. EndsAt(b[k], b[k + 1], k, client.turns[k], last)
        BY <3>1, <3>2 DEF HoldsOf, EndsAt
      <3>4. HoldsOf(b[k], b[k + 1], k, client.turns[k], last)
        BY <3>1, <3>3 DEF HoldsOf
      <3> QED
        BY <1>13, <1>15, <2>1, <3>4
    <2>2. CASE k = n
      BY <1>7, <1>13, <1>19, <2>2
    <2> QED
      BY <1>14, <2>1, <2>2
  <1>21. Reads' = w
    BY <1>4, <1>11
  <1>22. Collected(c)'
    <2>1. \A k \in 1 .. client'.turn : HoldsOf(c[k], c[k + 1], k, client'.turns[k], EndedTurns')
      BY <1>7, <1>18, <1>20
    <2>2. \A r \in client'.effort : Said(r, Reads')
      BY <1>19, <1>21
    <2>3. client'.pc = "collecting" => TracksAs(c[client'.turn], Reads', client'.turn, client')
      BY <1>7, <1>13, <1>19, <1>21
    <2>4. client'.turn \in Nat /\ Divided(c)' /\ log' = log
      BY <1>1, <1>7, <1>8, <1>16
    <2> QED
      BY <2>1, <2>2, <2>3, <2>4, FromTurns
  <1> QED
    BY <1>4, <1>7, <1>22

(* What can happen to a conversation that has not failed.                   *)
Arrives == /\ \E m \in Incoming : log' = Append(log, m) /\ queue' = Append(queue, m)
           /\ client' = client /\ client.pc \in {"asking", "collecting", "settling"}
Rests == log' = log /\ queue' = queue /\ client' = client /\ client.pc \in {"asking", "collecting"}
Starts == /\ client.pc = "asking" /\ client.turn < Turns /\ log' = log /\ queue' = queue
          /\ client' = Turn!Collecting(client, client.turn + 1, client.model, client.effort)
Prepares == /\ client.pc = "asking" /\ log' = log /\ queue' = queue
            /\ \E x \in Names : client' = [client EXCEPT !.step = @ + 1, !.model = x]
Settles == /\ client.pc = "asking" /\ client.turn >= Turns /\ log' = log /\ queue' = queue
           /\ client' = [client EXCEPT !.pc = "settling"]
Drains == /\ client.pc = "settling" /\ queue # << >> /\ log' = log /\ queue' = Tail(queue) /\ client' = client
          /\ Head(queue).kind = "account/rateLimits/updated"
Returns == /\ client.pc = "settling" /\ queue = << >> /\ log' = log /\ queue' = queue
           /\ client' = [client EXCEPT !.pc = "returned"]
Happens ==
    Arrives \/ Rests \/ Starts \/ Prepares \/ Settles \/ Drains \/ Returns \/ (client.pc = "collecting" /\ Turn!ReadMessage)

Living == client.pc # "failed" /\ client \in Driver /\ server \in AppServer /\ Wired /\ \E b : Collected(b)

LEMMA AskedOf ==
    ASSUME client \in Driver
    PROVE  /\ Turn!Asked = "turn/start" => client.turn < Turns
           /\ Turn!Asked = "thread/read" => ~(client.turn < Turns)
  <1>1. client.step \in Nat \ {0} /\ DriverFields(client)
    BY DriverTyped DEF DriverFields
  <1>2. CASE client.step <= Len(Turn!Setup)
    <2>1. Len(Turn!Setup) = 7
      BY DEF Turn!Setup
    <2>2. client.step \in {1, 2, 3, 4, 5, 6, 7}
      BY <1>1, <1>2, <2>1
    <2>3. Turn!Setup[client.step] \notin {"turn/start", "thread/read"}
      BY <2>2 DEF Turn!Setup
    <2> QED
      BY <1>2, <2>3 DEF Turn!Asked
  <1>3. CASE ~(client.step <= Len(Turn!Setup))
    BY <1>3 DEF Turn!Asked
  <1> QED
    BY <1>2, <1>3

LEMMA FailsPlainly ==
    ASSUME client \in Driver, Turn!Fail
    PROVE  client'.pc = "failed"
  BY DEF Turn!Fail, Driver

LEMMA Sends ==
    ASSUME Living, NEW m \in Incoming, Turn!Send(m), client'.pc # "failed"
    PROVE  Arrives
  <1>1. ~Turn!Fail
    BY FailsPlainly DEF Living
  <1> QED
    BY <1>1 DEF Turn!Send, Arrives

LEMMA Emits ==
    ASSUME Living, NEW m \in Incoming, NEW x \in AppServer, Turn!Emit(m, x), client'.pc # "failed"
    PROVE  server' \in AppServer /\ (Arrives \/ Rests)
  BY Sends DEF Turn!Emit, Rests

LEMMA TurnOfLiving ==
    ASSUME Living
    PROVE  /\ client.turn \in Nat /\ client.turn <= Turns /\ DriverFields(client)
           /\ client.pc = "collecting" => client.turn \in Prompts
           /\ client.turn > 0 => client.turn \in Prompts
           /\ server.open \subseteq Turn!ItemIds /\ server.used \subseteq Turn!ItemIds
  <1>1. client \in Driver /\ server \in AppServer
    BY DEF Living
  <1>2. client.turn <= Turns /\ (client.pc = "collecting" => client.turn >= 1)
    BY DEF Living, Collected, Divided
  <1>3. client.turn \in Nat /\ DriverFields(client)
    BY <1>1, DriverTyped DEF DriverFields
  <1> QED
    BY <1>1, <1>2, <1>3 DEF Prompts, AppServer

LEMMA Responds ==
    ASSUME Living, NEW good \in BOOLEAN, NEW r \in Turn!Routes, Turn!Respond(good, r), client'.pc # "failed",
           Turns \in Nat
    PROVE  server' \in AppServer /\ (Starts \/ Prepares \/ Settles)
  <1>1. /\ client.pc = "asking" /\ log' = log /\ queue' = queue /\ client \in Driver /\ server \in AppServer
        /\ DriverFields(client) /\ client.turn \in Nat
    BY TurnOfLiving DEF Turn!Respond, Turn!PendingNotifications, Living
  <1>2. ~Turn!Fail
    BY <1>1, FailsPlainly
  <1>3. CASE /\ Turn!Asked = "turn/start"
             /\ client' = Turn!Collecting(client, client.turn + 1, client.model, client.effort)
             /\ server' = [server EXCEPT !.turn = client.turn + 1]
    <2>1. server' \in AppServer
      BY <1>1, <1>3 DEF AppServer
    <2> QED
      BY <1>1, <1>3, <2>1, AskedOf DEF Starts
  <1>4. CASE Turn!Asked = "thread/read" /\ client' = [client EXCEPT !.pc = "settling"] /\ UNCHANGED server
    <2>1. ~(client.turn < Turns)
      BY <1>1, <1>4, AskedOf
    <2>2. client.turn >= Turns
      BY <1>1, <2>1
    <2> QED
      BY <1>1, <1>4, <2>2 DEF Settles
  <1>5. CASE /\ client' = [client EXCEPT !.step = @ + 1, !.model = IF Turn!Asked = "thread/start" THEN r ELSE @]
             /\ UNCHANGED server
    <2>1. PICK x : x = IF Turn!Asked = "thread/start" THEN r ELSE client.model
      OBVIOUS
    <2>2. x \in Names
      BY <1>1, <2>1 DEF Names, DriverFields
    <2>3. client' = [client EXCEPT !.step = @ + 1, !.model = x]
      BY <1>1, <1>5, <2>1 DEF Driver
    <2> QED
      BY <1>1, <1>5, <2>2, <2>3 DEF Prepares
  <1> QED
    BY <1>2, <1>3, <1>4, <1>5 DEF Turn!Respond

ItemPair(n, i, t) == {Turn!ItemStarted(n, i, t), Turn!ItemCompleted(n, i, t, TRUE)}
ItemPairs == {ItemPair(n, i, t) : n \in 1 .. Turns, i \in Turn!ItemIds,
                                  t \in {"agentMessage", "commandExecution", "mcpToolCall"}}

LEMMA PairsArrive == \A n \in Prompts, i \in Turn!ItemIds, t \in ItemTypes : ItemPair(n, i, t) \subseteq Incoming
  <1> SUFFICES ASSUME NEW n \in Prompts, NEW i \in Turn!ItemIds, NEW t \in ItemTypes
               PROVE  ItemPair(n, i, t) \subseteq Incoming
    OBVIOUS
  <1>1. PICK ok \in BOOLEAN : ok = TRUE
    OBVIOUS
  <1>2. Turn!ItemStarted(n, i, t) \in Incoming /\ Turn!ItemCompleted(n, i, t, ok) \in Incoming
    BY DEF Incoming
  <1> QED
    BY <1>1, <1>2 DEF ItemPair

Begun == {Turn!TurnStarted(n) : n \in 1 .. Turns}
Ended == {Turn!TurnCompleted(n, ok) : n \in 1 .. Turns, ok \in BOOLEAN}
Settled == {Turn!SettingsUpdated(r) : r \in Turn!Routes}
Diverted == {Turn!Rerouted(n, r, s) : n \in 1 .. Turns, r \in Turn!Routes, s \in Turn!Routes}
Others == {Turn!Other(k) : k \in {"request", "response", "account/rateLimits/updated", "unknown", "error", "hook"}}

LEMMA MessagesArrive == \A m \in Turn!Messages : m \in Incoming
  <1>1. \A S \in ItemPairs : S \subseteq Incoming
    BY PairsArrive DEF ItemPairs, Prompts, ItemTypes
  <1>2. Turn!Messages = Begun \cup (UNION ItemPairs) \cup Ended \cup Settled \cup Diverted \cup Others
    BY DEF Turn!Messages, ItemPairs, ItemPair, Begun, Ended, Settled, Diverted, Others
  <1>3. UNION ItemPairs \subseteq Incoming
    BY <1>1
  <1>4. Begun \subseteq Incoming
    BY DEF Begun, Incoming, Prompts
  <1>5. Ended \subseteq Incoming
    BY DEF Ended, Incoming, Prompts
  <1>6. Settled \subseteq Incoming
    BY DEF Settled, Incoming
  <1>7. Diverted \subseteq Incoming
    BY DEF Diverted, Incoming, Prompts
  <1>8. Others \subseteq Incoming
    BY DEF Others, Incoming, OtherKinds
  <1> QED
    BY <1>2, <1>3, <1>4, <1>5, <1>6, <1>7, <1>8

(* The app server, with and without faults.                                 *)
LEMMA ServerActs ==
    ASSUME Living, client'.pc # "failed", Turns \in Nat,
           Turn!ServerStartsTurn \/ Turn!ServerWorks \/ Turn!ServerEndsTurn \/ Turn!ServerDeviates
    PROVE  server' \in AppServer /\ (Arrives \/ Rests)
  <1>1. /\ client \in Driver /\ server \in AppServer /\ client.turn \in Nat /\ client.turn <= Turns
        /\ client.pc = "collecting" => client.turn \in Prompts
        /\ client.turn > 0 => client.turn \in Prompts
        /\ server.open \subseteq Turn!ItemIds /\ server.used \subseteq Turn!ItemIds
    BY TurnOfLiving DEF Living
  <1>2. CASE Turn!ServerStartsTurn
    <2>1. PICK k : /\ k = IF client.pc = "asking" /\ Turn!Asked = "turn/start" THEN client.turn + 1 ELSE client.turn
                   /\ k > 0 /\ Turn!Emit(Turn!TurnStarted(k), [server EXCEPT !.running = TRUE, !.turn = k])
      BY <1>2 DEF Turn!ServerStartsTurn
    <2>2. k \in Prompts
      <3>1. CASE client.pc = "asking" /\ Turn!Asked = "turn/start"
        <4>1. client.turn < Turns
          BY <1>1, <3>1, AskedOf
        <4> QED
          BY <1>1, <2>1, <3>1, <4>1 DEF Prompts
      <3>2. CASE ~(client.pc = "asking" /\ Turn!Asked = "turn/start")
        BY <1>1, <2>1, <3>2
      <3> QED
        BY <3>1, <3>2
    <2>3. Turn!TurnStarted(k) \in Incoming
      BY <2>2 DEF Incoming
    <2>4. PICK x, v : v = TRUE /\ x = [server EXCEPT !.running = v, !.turn = k]
      OBVIOUS
    <2>5. x \in AppServer
      <3>1. v \in BOOLEAN /\ k \in Nat
        BY <2>2, <2>4 DEF Prompts
      <3> QED
        BY <1>1, <2>4, <3>1 DEF AppServer
    <2> QED
      BY <2>1, <2>3, <2>4, <2>5, Emits
  <1>3. CASE Turn!ServerWorks
    <2>1. client.pc = "collecting" /\ server.turn = client.turn /\ server.turn \in Prompts
      BY <1>1, <1>3 DEF Turn!ServerWorks
    <2>2. ASSUME NEW i \in Turn!ItemIds \ server.used,
                 Turn!Emit(Turn!ItemStarted(server.turn, i, Turn!ItemType(i)),
                           [server EXCEPT !.used = @ \cup {i}, !.open = @ \cup {i}])
          PROVE  server' \in AppServer /\ (Arrives \/ Rests)
      <3>1. Turn!ItemType(i) \in ItemTypes
        BY DEF Turn!ItemType, ItemTypes
      <3>2. Turn!ItemStarted(server.turn, i, Turn!ItemType(i)) \in Incoming
        BY <2>1, <3>1 DEF Incoming
      <3>3. [server EXCEPT !.used = @ \cup {i}, !.open = @ \cup {i}] \in AppServer
        BY <1>1 DEF AppServer
      <3> QED
        BY <2>2, <3>2, <3>3, Emits
    <2>3. ASSUME NEW i \in server.open, NEW ok \in BOOLEAN,
                 Turn!Emit(Turn!ItemCompleted(server.turn, i, Turn!ItemType(i), ok), [server EXCEPT !.open = @ \ {i}])
          PROVE  server' \in AppServer /\ (Arrives \/ Rests)
      <3>1. Turn!ItemType(i) \in ItemTypes /\ i \in Turn!ItemIds
        BY <1>1 DEF Turn!ItemType, ItemTypes
      <3>2. Turn!ItemCompleted(server.turn, i, Turn!ItemType(i), ok) \in Incoming
        BY <2>1, <3>1 DEF Incoming
      <3>3. [server EXCEPT !.open = @ \ {i}] \in AppServer
        BY <1>1 DEF AppServer
      <3> QED
        BY <2>3, <3>2, <3>3, Emits
    <2>4. ASSUME Turn!Emit(Turn!SettingsUpdated("asked"), [server EXCEPT !.settled = TRUE])
          PROVE  server' \in AppServer /\ (Arrives \/ Rests)
      <3>1. Turn!SettingsUpdated("asked") \in Incoming
        BY DEF Incoming, Turn!Routes
      <3>2. PICK x, v : v = TRUE /\ x = [server EXCEPT !.settled = v]
        OBVIOUS
      <3>3. v \in BOOLEAN
        BY <3>2
      <3>4. x \in AppServer
        BY <1>1, <3>2, <3>3 DEF AppServer
      <3> QED
        BY <2>4, <3>1, <3>2, <3>4, Emits
    <2>5. ASSUME NEW i \in server.open, \E ok \in IF i = "command" THEN BOOLEAN ELSE {TRUE} :
                   Turn!Emit(Turn!ItemCompleted(server.turn, i, Turn!ItemType(i), ok), [server EXCEPT !.open = @ \ {i}])
          PROVE  \E ok \in BOOLEAN :
                   Turn!Emit(Turn!ItemCompleted(server.turn, i, Turn!ItemType(i), ok), [server EXCEPT !.open = @ \ {i}])
      BY <2>5
    <2> QED
      BY <1>3, <2>2, <2>3, <2>4, <2>5 DEF Turn!ServerWorks
  <1>4. CASE Turn!ServerEndsTurn
    <2>1. server.turn \in Prompts
      BY <1>1, <1>4 DEF Turn!ServerEndsTurn
    <2>2. Turn!TurnCompleted(server.turn, TRUE) \in Incoming
      <3>1. PICK ok \in BOOLEAN : ok = TRUE
        OBVIOUS
      <3>2. Turn!TurnCompleted(server.turn, ok) \in Incoming
        BY <2>1 DEF Incoming
      <3> QED
        BY <3>1, <3>2
    <2>3. PICK x, v, us : v = FALSE /\ us = server.used \ {"answer"} /\ x = [server EXCEPT !.running = v, !.used = us]
      OBVIOUS
    <2>4. v \in BOOLEAN /\ us \in SUBSET Turn!ItemIds
      BY <1>1, <2>3
    <2>5. x \in AppServer
      BY <1>1, <2>3, <2>4 DEF AppServer
    <2>6. x = [server EXCEPT !.running = FALSE, !.used = @ \ {"answer"}]
      BY <1>1, <2>3 DEF AppServer
    <2>7. Turn!Emit(Turn!TurnCompleted(server.turn, TRUE), x)
      BY <1>4, <2>6 DEF Turn!ServerEndsTurn
    <2> QED
      BY <2>2, <2>5, <2>7, Emits
  <1>5. CASE Turn!ServerDeviates
    <2>1. server' = server /\ \E m \in Turn!Messages : Turn!Send(m)
      BY <1>5 DEF Turn!ServerDeviates
    <2> QED
      BY <1>1, <2>1, MessagesArrive, Sends
  <1> QED
    BY <1>2, <1>3, <1>4, <1>5

(* Every step of the conversation.                                          *)
LEMMA WhatHappens ==
    ASSUME Living, Turns \in Nat, Turn!TurnNext, client'.pc # "failed"
    PROVE  server' \in AppServer /\ Happens
  <1>1. client \in Driver /\ server \in AppServer
    BY DEF Living
  <1>2. ~Turn!Fail
    BY <1>1, FailsPlainly
  <1>3. CASE \E good \in BOOLEAN, r \in Turn!Routes : Turn!Respond(good, r)
    BY <1>3, Responds DEF Happens
  <1>4. CASE Turn!ReadMessage
    BY <1>1, <1>4 DEF Turn!ReadMessage, Happens
  <1>5. CASE Turn!DrainQuiet
    BY <1>1, <1>2, <1>5 DEF Turn!DrainQuiet, Happens, Drains
  <1>6. CASE Turn!ReturnTranscripts
    BY <1>1, <1>6 DEF Turn!ReturnTranscripts, Happens, Returns
  <1>7. CASE Turn!Deadline
    <2>1. client'.pc = "failed"
      BY <1>7 DEF Turn!Deadline, Turn!NoClient
    <2> QED
      BY <2>1
  <1>8. CASE Turn!ServerStartsTurn \/ Turn!ServerWorks \/ Turn!ServerEndsTurn \/ Turn!ServerDeviates
    BY <1>8, ServerActs DEF Happens
  <1> QED
    BY <1>3, <1>4, <1>5, <1>6, <1>7, <1>8 DEF Turn!TurnNext

(* A failed conversation is over.                                           *)
LEMMA FailedStays ==
    ASSUME client.pc = "failed", Turn!TurnNext
    PROVE  FALSE
  <1>1. \A m : ~Turn!Send(m)
    BY DEF Turn!Send
  <1>2. \A m, x : ~Turn!Emit(m, x)
    BY <1>1 DEF Turn!Emit
  <1> QED
    BY <1>1, <1>2, Zenon DEF Turn!TurnNext, Turn!Respond, Turn!ReadMessage, Turn!DrainQuiet, Turn!ReturnTranscripts,
       Turn!Deadline, Turn!ServerStartsTurn, Turn!ServerWorks, Turn!ServerEndsTurn, Turn!ServerDeviates

LEMMA BetweenTurnsKeeps ==
    ASSUME NEW b, Collected(b), client \in Driver, Wired, Wired', SameUpTo(Reads), Between, client' \in Driver,
           client'.turn = client.turn, client'.turns = client.turns, client'.effort = client.effort
    PROVE  client' \in Driver /\ Wired' /\ \E c : Collected(c)'
  BY BetweenKeeps

(* Whatever happens keeps what was collected.                               *)
LEMMA HappensKeeps ==
    ASSUME Living, Turns \in Nat, client'.pc # "failed", Happens
    PROVE  client' \in Driver /\ Wired' /\ \E c : Collected(c)'
  <1>1. client \in Driver /\ Wired /\ DriverFields(client)
    BY DriverTyped DEF Living
  <1>2. PICK b : Collected(b)
    BY DEF Living
  <1>3. CASE Arrives
    <2>1. Wired' /\ Reads' = Reads /\ SameUpTo(Reads)
      BY <1>1, <1>3, WireArrives DEF Arrives
    <2>2. client' = client /\ client.pc \in {"asking", "collecting", "settling"}
      BY <1>3 DEF Arrives
    <2>3. Between
      BY <2>1, <2>2 DEF Between
    <2> QED
      BY <1>1, <1>2, <2>1, <2>2, <2>3, BetweenTurnsKeeps
  <1>4. CASE Rests
    <2>1. Wired' /\ Reads' = Reads /\ SameUpTo(Reads)
      BY <1>1, <1>4, WireRests DEF Rests
    <2>2. client' = client /\ client.pc \in {"asking", "collecting", "settling"}
      BY <1>4 DEF Rests
    <2>3. Between
      BY <2>1, <2>2 DEF Between
    <2> QED
      BY <1>1, <1>2, <2>1, <2>2, <2>3, BetweenTurnsKeeps
  <1>5. CASE Starts
    <2>1. Wired'
      BY <1>1, <1>5, WireRests DEF Starts
    <2>2. client' \in Driver
      BY <1>1, <1>5, CollectingFields DEF Starts
    <2>3. \E c : Collected(c)'
      BY <1>1, <1>2, <1>5, TurnBegins DEF Starts
    <2> QED
      BY <2>1, <2>2, <2>3
  <1>6. CASE Prepares
    <2>1. Wired' /\ Reads' = Reads /\ SameUpTo(Reads)
      BY <1>1, <1>6, WireRests DEF Prepares
    <2>5. PICK x \in Names : client' = [client EXCEPT !.step = @ + 1, !.model = x]
      BY <1>6 DEF Prepares
    <2>6. PICK w : w = client.step + 1
      OBVIOUS
    <2>7. w \in Nat \ {0}
      <3>1. client.step \in Nat
        BY <1>1 DEF DriverFields
      <3> QED
        BY <2>6, <3>1
    <2>2. client' = [client EXCEPT !.step = w, !.model = x]
      BY <2>5, <2>6
    <2>3. /\ client' \in Driver /\ client'.pc = client.pc /\ client'.turn = client.turn
          /\ client'.turns = client.turns /\ client'.effort = client.effort
      BY <1>1, <2>2, <2>7 DEF Driver
    <2>4. Between
      BY <1>6, <2>1, <2>3 DEF Between, Prepares
    <2> QED
      BY <1>1, <1>2, <2>1, <2>3, <2>4, BetweenTurnsKeeps
  <1>7. CASE Settles
    <2>1. Wired' /\ Reads' = Reads /\ SameUpTo(Reads)
      BY <1>1, <1>7, WireRests DEF Settles
    <2>2. client' = [client EXCEPT !.pc = "settling"]
      BY <1>7 DEF Settles
    <2>3. /\ client' \in Driver /\ client'.pc = "settling" /\ client'.turn = client.turn
          /\ client'.turns = client.turns /\ client'.effort = client.effort
      BY <1>1, <2>2 DEF Driver, Stages
    <2>4. client.turn = Turns
      <3>1. client.turn \in Nat /\ client.turn <= Turns
        BY TurnOfLiving
      <3> QED
        BY <1>7, <3>1 DEF Settles
    <2>5. Between
      BY <1>7, <2>1, <2>3, <2>4 DEF Between, Settles
    <2> QED
      BY <1>1, <1>2, <2>1, <2>3, <2>5, BetweenTurnsKeeps
  <1>8. CASE Drains
    <2>1. /\ Wired' /\ Reads' = Reads + 1 /\ SameUpTo(Reads')
          /\ Head(queue) = log[Reads + 1]
      BY <1>1, <1>8, WireTaken DEF Drains
    <2>2. SameUpTo(Reads)
      BY <1>1, <2>1, ReadsCount DEF SameUpTo
    <2>3. client' = client /\ client.pc = "settling" /\ log' = log /\ Head(queue).kind = "account/rateLimits/updated"
      BY <1>8 DEF Drains
    <2>4. Between
      BY <2>1, <2>3 DEF Between
    <2> QED
      BY <1>1, <1>2, <2>1, <2>2, <2>3, <2>4, BetweenTurnsKeeps
  <1>9. CASE Returns
    <2>1. Wired' /\ Reads' = Reads /\ SameUpTo(Reads) /\ queue' = << >>
      BY <1>1, <1>9, WireRests DEF Returns
    <2>2. client' = [client EXCEPT !.pc = "returned"]
      BY <1>9 DEF Returns
    <2>3. /\ client' \in Driver /\ client'.pc = "returned" /\ client'.turn = client.turn
          /\ client'.turns = client.turns /\ client'.effort = client.effort
      BY <1>1, <2>2 DEF Driver, Stages
    <2>4. Between
      BY <1>9, <2>1, <2>3 DEF Between, Returns
    <2> QED
      BY <1>1, <1>2, <2>1, <2>3, <2>4, BetweenTurnsKeeps
  <1>10. CASE client.pc = "collecting" /\ Turn!ReadMessage
    BY <1>1, <1>2, <1>10, TurnReads
  <1> QED
    BY <1>3, <1>4, <1>5, <1>6, <1>7, <1>8, <1>9, <1>10 DEF Happens

(* Every step of the invariant.                                             *)
LEMMA TurnStep ==
    ASSUME EvalAssumption, TurnInv, [Turn!TurnNext]_(Turn!turnvars)
    PROVE  TurnInv'
  <1>0. Turns \in Nat
    BY DEF EvalAssumption
  <1>1. CASE client.pc = "failed" /\ Turn!TurnNext
    BY <1>1, FailedStays
  <1>2. CASE client.pc # "failed" /\ Turn!TurnNext
    <2>1. Living
      BY <1>2 DEF TurnInv, Living
    <2> SUFFICES ASSUME client'.pc # "failed"
                 PROVE  client' \in Driver /\ server' \in AppServer /\ Wired' /\ \E b : Collected(b)'
      BY DEF TurnInv, Driver, AppServer, Transcript, Names, Stages, ItemTypes, Turn!Routes, Turn!ItemIds
    <2>2. server' \in AppServer /\ Happens
      BY <1>0, <1>2, <2>1, WhatHappens
    <2> QED
      BY <1>0, <2>1, <2>2, HappensKeeps
  <1>3. CASE UNCHANGED Turn!turnvars
    <2>1. log' = log /\ queue' = queue /\ client' = client /\ server' = server
      BY <1>3 DEF Turn!turnvars
    <2> SUFFICES ASSUME client.pc # "failed"
                 PROVE  client' \in Driver /\ server' \in AppServer /\ Wired' /\ \E b : Collected(b)'
      BY <2>1 DEF TurnInv, Driver, AppServer, Transcript, Names, Stages, ItemTypes, Turn!Routes, Turn!ItemIds
    <2>2. PICK b : client \in Driver /\ server \in AppServer /\ Wired /\ Collected(b)
      BY DEF TurnInv
    <2>3. Wired' /\ Reads' = Reads /\ SameUpTo(Reads)
      BY <2>1, <2>2, WireRests
    <2>4. Divided(b)'
      BY <2>1, <2>2, <2>3 DEF Collected, Divided, Part
    <2>5. EndedTurns' = EndedTurns /\ EndedTurns \in Int /\ EndedTurns <= client.turn /\ client.turn \in Nat
      BY <2>1, <2>2, DriverTyped DEF EndedTurns, DriverFields
    <2>6. Reads \in Nat /\ Reads <= Reads'
      BY <2>2, <2>3, ReadsCount
    <2>7. Collected(b)'
      BY <2>1, <2>2, <2>3, <2>4, <2>5, <2>6, Carried
    <2> QED
      BY <2>1, <2>2, <2>3, <2>7
  <1> QED
    BY <1>1, <1>2, <1>3

=============================================================================
