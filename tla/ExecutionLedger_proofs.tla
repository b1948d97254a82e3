----------------------- MODULE ExecutionLedger_proofs -----------------------
(* Theorems about the operation ledger, for any number of processes, plans, *)
(* machines and rows and any lifetimes of nonces and windows, and that it   *)
(* implements PlanAttempts.                                                 *)
EXTENDS LedgerAttempts, TLAPS

\* _TRANSITIONS maps every state to a set of states.
LEMMA TransitionsType == Transitions \in [States -> SUBSET States]
  BY DEF Transitions, States, LiveStates, TerminalStates

\* expire_lapsed() only ever picks rows that are pending or authorized, and
\* leaves them complete rows.
LEMMA SweptRow ==
  ASSUME NEW r \in Row \cup {NoRow}, NEW t \in Time, Lapsed(r, t)
  PROVE  /\ r \in Row
         /\ r.state \in {"pending_confirmation", "authorized"}
         /\ [r EXCEPT !.state = "expired"] \in Row
  BY DEF Lapsed, Row, NoRow, States, LiveStates, TerminalStates

\* The UPDATE of expire_lapsed() keeps both tables well formed and creates or
\* deletes no row.
LEMMA SweptType ==
  ASSUME TypeOK, NEW t \in Time
  PROVE  /\ Swept(t) \in [Ids -> Row \cup {NoRow}]
         /\ SweptEvents(t) \in [Ids -> Seq(Event)]
         /\ \A i \in Ids : Swept(t)[i] = NoRow <=> op[i] = NoRow
  <1>1. \A i \in Ids : Lapsed(op[i], t) =>
            /\ op[i] \in Row /\ op[i] # NoRow
            /\ op[i].state \in {"pending_confirmation", "authorized"}
            /\ [op[i] EXCEPT !.state = "expired"] \in Row
            /\ [op[i] EXCEPT !.state = "expired"] # NoRow
    <2> SUFFICES ASSUME NEW i \in Ids, Lapsed(op[i], t)
                 PROVE  /\ op[i] \in Row /\ op[i] # NoRow
                        /\ op[i].state \in {"pending_confirmation", "authorized"}
                        /\ [op[i] EXCEPT !.state = "expired"] \in Row
                        /\ [op[i] EXCEPT !.state = "expired"] # NoRow
      OBVIOUS
    <2>1. op[i] \in Row \cup {NoRow}
      BY DEF TypeOK
    <2>2. /\ op[i] \in Row
          /\ op[i].state \in {"pending_confirmation", "authorized"}
          /\ [op[i] EXCEPT !.state = "expired"] \in Row
      BY <2>1, SweptRow
    <2>3. NoRow \notin Row
      BY DEF NoRow, Row, States, LiveStates, TerminalStates
    <2> QED
      BY <2>2, <2>3
  <1>2. \A i \in Ids : Lapsed(op[i], t) =>
            [from |-> FromState(i), to |-> "expired"] \in Event
    BY <1>1 DEF Event, FromState, States, LiveStates, TerminalStates
  <1>3. Swept(t) \in [Ids -> Row \cup {NoRow}]
    BY <1>1 DEF Swept, TypeOK
  <1>4. SweptEvents(t) \in [Ids -> Seq(Event)]
    BY <1>2 DEF SweptEvents, TypeOK
  <1>5. \A i \in Ids : Swept(t)[i] = NoRow <=> op[i] = NoRow
    BY <1>1 DEF Swept
  <1> QED
    BY <1>3, <1>4, <1>5

\* An identifier that request() has not given out reads as no row.
LEMMA NoRowIsNoRow == NoRow \notin Row /\ NoRow.state \notin States
  BY DEF NoRow, Row, States, LiveStates, TerminalStates

\* A row in one of the ledger's states is a row that request() inserted.
LEMMA RowExists ==
  ASSUME TypeOK, NEW i \in Ids
  PROVE  /\ op[i].state \in States => op[i] \in Row /\ i <= lastId
         /\ i <= lastId => op[i] \in Row /\ op[i].state \in States
         /\ i > lastId => op[i].state = "none"
  <1>1. op[i] \in Row \cup {NoRow} /\ (op[i] = NoRow <=> i > lastId)
    BY DEF TypeOK
  <1>2. op[i] \in Row => op[i].state \in States
    BY DEF Row
  <1> QED
    BY <1>1, <1>2, NoRowIsNoRow DEF NoRow, Ids, TypeOK

\* What confirm() writes is a complete row.
LEMMA GrantedType ==
  ASSUME NEW r \in Row, NEW c \in [at: {"confirm"}, time: Time, nonce: Ids,
                                   actor: Actors]
  PROVE  Granted(r, c) \in Row
  <1>1. Expiry(c.time, ExecutionWindow) \in Stamps
    BY BoundsAssumption DEF Expiry, Stamps, Time
  <1>2. 0 \in Stamps
    BY BoundsAssumption DEF Stamps
  <1> QED
    BY <1>1, <1>2 DEF Granted, Row, Null, States, LiveStates

\* What request() inserts is a complete row.
LEMMA NewRowType ==
  ASSUME NEW id \in Ids,
         NEW c \in [at: {"sweep", "swept", "request"}, time: Time, key: Keys,
                    machine: Machines]
  PROVE  NewRow(id, c) \in Row
  <1>1. Expiry(c.time, NonceTTL) \in Stamps
    BY BoundsAssumption DEF Expiry, Stamps, Time
  <1>2. 0 \in Stamps
    BY BoundsAssumption DEF Stamps
  <1> QED
    BY <1>1, <1>2 DEF NewRow, Row, Null, States, LiveStates

\* What a pending call of each kind has read.
LEMMA CallKinds ==
  ASSUME NEW c \in Call
  PROVE  /\ c.at \in {"sweep", "swept", "request"} =>
              c \in [at: {"sweep", "swept", "request"}, time: Time, key: Keys,
                     machine: Machines]
         /\ c.at = "confirm" =>
              c \in [at: {"confirm"}, time: Time, nonce: Ids, actor: Actors]
         /\ c.at = "expire" => c \in [at: {"expire"}, time: Time]
         /\ c.at = "transition" =>
              c \in [at: {"transition"}, id: Ids, current: States, to: States]
  BY DEF Call, Idle

-----------------------------------------------------------------------------

\* A migrated, empty ledger is well formed.
LEMMA TypeInit == Init => TypeOK
  BY BoundsAssumption DEF Init, TypeOK, NoRow, Call, Time, Ids

\* Every transaction of the ledger, and every read between two, keeps it well
\* formed.
LEMMA TypeStep == TypeOK /\ [Next]_vars => TypeOK'
  <1> SUFFICES ASSUME TypeOK, [Next]_vars PROVE TypeOK'
    OBVIOUS
  <1> USE DEF Finish
  <1>1. CASE Tick
    BY <1>1 DEF Tick, TypeOK
  <1>2. ASSUME NEW p \in Callers, CallerStep(p) PROVE TypeOK'
    <2>0. call[p] \in Call
      BY DEF TypeOK
    <2>1. CASE Abandon(p)
      BY <2>1 DEF Abandon, TypeOK, Call
    <2>2. CASE StartExpire(p)
      BY <2>2 DEF StartExpire, Begin, TypeOK, Call
    <2>3. CASE ExpireLapsed(p)
      <3>1. call[p].time \in Time
        BY <2>0, <2>3, CallKinds DEF ExpireLapsed
      <3> QED
        BY <2>3, <3>1, SweptType DEF ExpireLapsed, TypeOK, Call
    <2>4. CASE \E k \in Keys, m \in Machines : StartRequest(p, k, m)
      BY <2>4 DEF StartRequest, Begin, TypeOK, Call
    <2>5. CASE SweepForRequest(p)
      <3>1. call[p] \in [at: {"sweep", "swept", "request"}, time: Time, key: Keys,
                         machine: Machines]
        BY <2>0, <2>5, CallKinds DEF SweepForRequest
      <3>2. [call[p] EXCEPT !.at = "swept"] \in Call
        BY <3>1 DEF Call
      <3>3. call' \in [Callers -> Call]
        BY <2>5, <3>2 DEF SweepForRequest, TypeOK
      <3> QED
        BY <2>5, <3>1, <3>3, SweptType DEF SweepForRequest, TypeOK
    <2>6. CASE ReadRequestClock(p)
      <3>1. call[p] \in [at: {"sweep", "swept", "request"}, time: Time, key: Keys,
                         machine: Machines]
        BY <2>0, <2>6, CallKinds DEF ReadRequestClock
      <3>2. [call[p] EXCEPT !.at = "request", !.time = now] \in Call
        BY <3>1 DEF Call, TypeOK
      <3>3. call' \in [Callers -> Call]
        BY <2>6, <3>2 DEF ReadRequestClock, TypeOK
      <3> QED
        BY <2>6, <3>3 DEF ReadRequestClock, TypeOK
    <2>7. CASE InsertRequest(p)
      <3> DEFINE id == lastId + 1
      <3>1. /\ call[p] \in [at: {"sweep", "swept", "request"}, time: Time,
                            key: Keys, machine: Machines]
            /\ id \in Ids
        BY <2>0, <2>7, CallKinds, BoundsAssumption DEF InsertRequest, TypeOK, Ids
      <3>2. NewRow(id, call[p]) \in Row /\ NewRow(id, call[p]) # NoRow
        BY <3>1, NewRowType, NoRowIsNoRow
      <3>3. op' = [op EXCEPT ![id] = NewRow(id, call[p])]
        BY <2>7 DEF InsertRequest
      <3>4. op' \in [Ids -> Row \cup {NoRow}]
        BY <3>2, <3>3 DEF TypeOK
      <3>5. \A i \in Ids : op'[i] = NoRow <=> i > lastId'
        BY <2>7, <3>1, <3>2, <3>3 DEF InsertRequest, TypeOK, Ids
      <3>6. [from |-> "none", to |-> "pending_confirmation"] \in Event
        BY DEF Event, States, LiveStates
      <3>7. events' \in [Ids -> Seq(Event)]
        BY <2>7, <3>1, <3>6 DEF InsertRequest, TypeOK
      <3>8. call' \in [Callers -> Call]
        BY <2>7 DEF InsertRequest, TypeOK, Call
      <3>9. lastId' \in 0 .. MaxOps
        BY <2>7, <3>1 DEF InsertRequest, TypeOK, Ids
      <3> QED
        BY <2>7, <3>4, <3>5, <3>7, <3>8, <3>9 DEF InsertRequest, TypeOK
    <2>8. CASE RefuseRequest(p)
      BY <2>8 DEF RefuseRequest, TypeOK, Call
    <2>9. CASE \E n \in Ids, a \in Actors : StartConfirm(p, n, a)
      BY <2>9 DEF StartConfirm, Begin, TypeOK, Call
    <2>10. CASE Confirm(p)
      <3>1. call[p] \in [at: {"confirm"}, time: Time, nonce: Ids, actor: Actors]
        BY <2>0, <2>10, CallKinds DEF Confirm
      <3>2. PICK i \in Ids :
              /\ Confirmable(i, call[p])
              /\ op' = [op EXCEPT ![i] = Granted(@, call[p])]
              /\ events' = [events EXCEPT ![i] =
                              Append(@, [from |-> "pending_confirmation",
                                         to |-> "authorized"])]
        BY <2>10 DEF Confirm
      <3>3. op[i] \in Row /\ i <= lastId
        BY <3>2, RowExists DEF Confirmable, States, LiveStates
      <3>4. Granted(op[i], call[p]) \in Row /\ Granted(op[i], call[p]) # NoRow
        BY <3>1, <3>3, GrantedType, NoRowIsNoRow
      <3>5. op' \in [Ids -> Row \cup {NoRow}]
        BY <3>2, <3>4 DEF TypeOK
      <3>6. \A j \in Ids : op'[j] = NoRow <=> j > lastId
        BY <3>2, <3>3, <3>4, NoRowIsNoRow DEF TypeOK
      <3>7. [from |-> "pending_confirmation", to |-> "authorized"] \in Event
        BY DEF Event, States, LiveStates
      <3>8. events' \in [Ids -> Seq(Event)]
        BY <3>2, <3>7 DEF TypeOK
      <3>9. call' \in [Callers -> Call]
        BY <2>10 DEF Confirm, TypeOK, Call
      <3> QED
        BY <2>10, <3>5, <3>6, <3>8, <3>9 DEF Confirm, TypeOK
    <2>11. CASE RejectConfirm(p)
      BY <2>11 DEF RejectConfirm, TypeOK, Call
    <2>12. CASE \E i \in Ids, to \in States : StartTransition(p, i, to)
      <3>1. PICK i \in Ids, to \in States : StartTransition(p, i, to)
        BY <2>12
      <3>2. op[i].state \in States
        BY <3>1, RowExists DEF StartTransition
      <3> QED
        BY <3>1, <3>2 DEF StartTransition, Begin, TypeOK, Call
    <2>13. CASE Transition(p)
      <3> DEFINE c == call[p]
      <3>1. c \in [at: {"transition"}, id: Ids, current: States, to: States]
        BY <2>0, <2>13, CallKinds DEF Transition
      <3>2. op[c.id] \in Row /\ c.id <= lastId
        BY <2>13, <3>1, RowExists DEF Transition, StillCurrent
      <3>3. [op[c.id] EXCEPT !.state = c.to] \in Row
        BY <3>1, <3>2 DEF Row
      <3>4. op' = [op EXCEPT ![c.id] = [op[c.id] EXCEPT !.state = c.to]]
        BY <2>13 DEF Transition
      <3>5. op' \in [Ids -> Row \cup {NoRow}]
        BY <3>1, <3>3, <3>4 DEF TypeOK
      <3>6. \A j \in Ids : op'[j] = NoRow <=> j > lastId
        BY <3>1, <3>2, <3>3, <3>4, NoRowIsNoRow DEF TypeOK
      <3>7. [from |-> c.current, to |-> c.to] \in Event
        BY <3>1 DEF Event
      <3>8. events' \in [Ids -> Seq(Event)]
        BY <2>13, <3>1, <3>7 DEF Transition, TypeOK
      <3>9. call' \in [Callers -> Call]
        BY <2>13 DEF Transition, TypeOK, Call
      <3> QED
        BY <2>13, <3>5, <3>6, <3>8, <3>9 DEF Transition, TypeOK
    <2>14. CASE LoseTransition(p)
      BY <2>14 DEF LoseTransition, TypeOK, Call
    <2> QED
      BY <1>2, <2>1, <2>2, <2>3, <2>4, <2>5, <2>6, <2>7, <2>8, <2>9, <2>10,
         <2>11, <2>12, <2>13, <2>14 DEF CallerStep
  <1>3. CASE UNCHANGED vars
    BY <1>3 DEF vars, TypeOK
  <1> QED
    BY <1>1, <1>2, <1>3 DEF Next

\* The tables only ever hold complete rows: TypeOK is inductive.
THEOREM TypeCorrect == Spec => []TypeOK
  BY TypeInit, TypeStep, PTL DEF Spec

-----------------------------------------------------------------------------
(* The inductive invariant.  SingleActive and SingleAttempt are not         *)
(* inductive alone: a stale transition() must not revive a settled row, so  *)
(* what a pending call means to write is constrained too.                   *)

\* A transition() call in flight passed the table check on what it read.
CallsLegal ==
    \A p \in Callers :
        call[p].at = "transition" =>
            call[p].to \in Transitions[call[p].current] \ {"authorized", "expired"}

\* What the audit trail of a row says of its confirmation and its start.
Cleared(i) ==
    /\ op[i].actor # NoActor /\ op[i].nonce = Null /\ op[i].windowExpires # Null
    /\ EventsTo(i, {"authorized"}) # {}
    /\ AtMostOnce(i, {"authorized"})

RowHistory(i) ==
    /\ op[i].state \in {"pending_confirmation", "authorized", "expired"}
          => ~Started(i)
    /\ op[i].state = "pending_confirmation" => EventsTo(i, {"authorized"}) = {}
    /\ op[i].state = "authorized" => Cleared(i)
    /\ Started(i) =>
          /\ Cleared(i)
          /\ AtMostOnce(i, StartStates)
          /\ \A n \in EventsTo(i, {"authorized"}), m \in EventsTo(i, StartStates) :
                n < m

StartHistory == \A i \in Ids : op[i].state \in States => RowHistory(i)

LedgerInv ==
    /\ TypeOK /\ CallsLegal
    /\ SingleActive /\ SingleAttempt
    /\ AuditTrail /\ StartHistory

-----------------------------------------------------------------------------
(* What a step can do to the tables. *)

SweepStep == \E t \in Time : op' = Swept(t) /\ events' = SweptEvents(t)
                             /\ lastId' = lastId
InsertStep == \E p \in Callers : InsertRequest(p)
ConfirmStep == \E p \in Callers : Confirm(p)
TransitionStep == \E p \in Callers : Transition(p)

\* The two tables are only ever written by the sweep of expire_lapsed(), the
\* insert of request(), confirm() and transition().
LEMMA TableSteps ==
  ASSUME TypeOK, [Next]_vars
  PROVE  \/ UNCHANGED <<op, events, lastId>>
         \/ SweepStep \/ InsertStep \/ ConfirmStep \/ TransitionStep
  <1>1. CASE Tick
    BY <1>1 DEF Tick
  <1>2. CASE UNCHANGED vars
    BY <1>2 DEF vars
  <1>3. ASSUME NEW p \in Callers, CallerStep(p)
        PROVE  \/ UNCHANGED <<op, events, lastId>>
               \/ SweepStep \/ InsertStep \/ ConfirmStep \/ TransitionStep
    <2>0. call[p] \in Call
      BY DEF TypeOK
    <2>1. CASE ExpireLapsed(p)
      <3>1. call[p].time \in Time
        BY <2>0, <2>1, CallKinds DEF ExpireLapsed
      <3> QED
        BY <2>1, <3>1 DEF ExpireLapsed, SweepStep
    <2>2. CASE SweepForRequest(p)
      <3>1. call[p].time \in Time
        BY <2>0, <2>2, CallKinds DEF SweepForRequest
      <3> QED
        BY <2>2, <3>1 DEF SweepForRequest, SweepStep
    <2>3. CASE InsertRequest(p) \/ Confirm(p) \/ Transition(p)
      BY <2>3 DEF InsertStep, ConfirmStep, TransitionStep
    <2>4. CASE Abandon(p) \/ StartExpire(p) \/ ReadRequestClock(p)
               \/ RefuseRequest(p) \/ RejectConfirm(p) \/ LoseTransition(p)
      BY <2>4 DEF Abandon, StartExpire, Begin, ReadRequestClock, RefuseRequest,
                  RejectConfirm, LoseTransition
    <2>5. CASE \/ \E k \in Keys, m \in Machines : StartRequest(p, k, m)
               \/ \E n \in Ids, a \in Actors : StartConfirm(p, n, a)
               \/ \E i \in Ids, to \in States : StartTransition(p, i, to)
      BY <2>5 DEF StartRequest, StartConfirm, StartTransition, Begin
    <2> QED
      BY <1>3, <2>1, <2>2, <2>3, <2>4, <2>5 DEF CallerStep
  <1> QED
    BY <1>1, <1>2, <1>3 DEF Next

\* transition(): the row it writes exists, was in the state that was read,
\* and the table allows the step.
LEMMA TransitionEffect ==
  ASSUME TypeOK, CallsLegal, NEW p \in Callers, Transition(p)
  PROVE  \E i \in Ids : \E to \in States :
           /\ op[i] \in Row /\ i <= lastId
           /\ op[i].state \in LiveStates
           /\ to \in Transitions[op[i].state] \ {"authorized", "expired"}
           /\ op' = [op EXCEPT ![i] = [op[i] EXCEPT !.state = to]]
           /\ events' = [events EXCEPT ![i] =
                           Append(@, [from |-> op[i].state, to |-> to])]
           /\ lastId' = lastId
  <1> DEFINE c == call[p]
  <1>1. c \in [at: {"transition"}, id: Ids, current: States, to: States]
    BY CallKinds DEF Transition, TypeOK
  <1>2. /\ c.to \in Transitions[c.current] \ {"authorized", "expired"}
        /\ op[c.id].state = c.current
    BY DEF Transition, CallsLegal, StillCurrent
  <1>3. op[c.id] \in Row /\ c.id <= lastId
    BY <1>1, <1>2, RowExists
  <1>4. c.current \in LiveStates
    BY <1>1, <1>2 DEF Transitions, States, LiveStates, TerminalStates
  <1>5. /\ op' = [op EXCEPT ![c.id] = [op[c.id] EXCEPT !.state = c.to]]
        /\ events' = [events EXCEPT ![c.id] =
                        Append(@, [from |-> op[c.id].state, to |-> c.to])]
        /\ lastId' = lastId
    BY <1>2 DEF Transition
  <1> QED
    BY <1>1, <1>2, <1>3, <1>4, <1>5

\* request(): the new row is the only one of its machine that is live and the
\* only one of its key that has not expired.
LEMMA InsertEffect ==
  ASSUME TypeOK, NEW p \in Callers, InsertRequest(p)
  PROVE  \E k \in Keys, m \in Machines : \E r \in Row :
           /\ lastId + 1 \in Ids
           /\ r.state = "pending_confirmation" /\ r.key = k /\ r.machine = m
           /\ op' = [op EXCEPT ![lastId + 1] = r]
           /\ events' = [events EXCEPT ![lastId + 1] =
                           Append(@, [from |-> "none",
                                      to |-> "pending_confirmation"])]
           /\ lastId' = lastId + 1
           /\ \A i \in Ids : op[i].state \in LiveStates => op[i].machine # m
           /\ \A i \in Ids : op[i].state \in States \ {"expired"} => op[i].key # k
  <1>1. call[p] \in [at: {"sweep", "swept", "request"}, time: Time,
                     key: Keys, machine: Machines]
    BY CallKinds DEF InsertRequest, TypeOK
  <1>2. lastId + 1 \in Ids
    BY BoundsAssumption DEF InsertRequest, TypeOK, Ids
  <1>3. NewRow(lastId + 1, call[p]) \in Row
    BY <1>1, <1>2, NewRowType
  <1>4. /\ NewRow(lastId + 1, call[p]).state = "pending_confirmation"
        /\ NewRow(lastId + 1, call[p]).key = call[p].key
        /\ NewRow(lastId + 1, call[p]).machine = call[p].machine
    BY DEF NewRow
  <1>5. /\ op' = [op EXCEPT ![lastId + 1] = NewRow(lastId + 1, call[p])]
        /\ events' = [events EXCEPT ![lastId + 1] =
                        Append(@, [from |-> "none",
                                   to |-> "pending_confirmation"])]
        /\ lastId' = lastId + 1
    BY DEF InsertRequest
  <1>6. /\ \A i \in Ids : op[i].state \in LiveStates
                            => op[i].machine # call[p].machine
        /\ \A i \in Ids : op[i].state \in States \ {"expired"}
                            => op[i].key # call[p].key
    BY DEF InsertRequest, Duplicate, MachineBusy, IndexedStates
  <1>7. call[p].key \in Keys /\ call[p].machine \in Machines
    BY <1>1
  <1> QED
    BY <1>2, <1>3, <1>4, <1>5, <1>6, <1>7

\* confirm(): the one row whose nonce it was goes from pending to authorized.
LEMMA ConfirmEffect ==
  ASSUME TypeOK, NEW p \in Callers, Confirm(p)
  PROVE  \E i \in Ids : \E r \in Row :
           /\ op[i] \in Row /\ i <= lastId
           /\ op[i].state = "pending_confirmation"
           /\ r.state = "authorized" /\ r.nonce = Null /\ r.actor # NoActor
           /\ r.windowExpires # Null
           /\ r.key = op[i].key /\ r.machine = op[i].machine
           /\ op' = [op EXCEPT ![i] = r]
           /\ events' = [events EXCEPT ![i] =
                           Append(@, [from |-> "pending_confirmation",
                                      to |-> "authorized"])]
           /\ lastId' = lastId
  <1>1. call[p] \in [at: {"confirm"}, time: Time, nonce: Ids, actor: Actors]
    BY CallKinds DEF Confirm, TypeOK
  <1>2. PICK i \in Ids :
          /\ Confirmable(i, call[p])
          /\ op' = [op EXCEPT ![i] = Granted(@, call[p])]
          /\ events' = [events EXCEPT ![i] =
                          Append(@, [from |-> "pending_confirmation",
                                     to |-> "authorized"])]
    BY DEF Confirm
  <1>3. op[i] \in Row /\ i <= lastId /\ op[i].state = "pending_confirmation"
    BY <1>2, RowExists DEF Confirmable, States, LiveStates
  <1> DEFINE r == Granted(op[i], call[p])
  <1>4. r \in Row
    BY <1>1, <1>3, GrantedType
  <1>5. r.windowExpires = call[p].time + ExecutionWindow
    BY <1>3 DEF Granted, Expiry, Row
  <1>6. r.windowExpires # Null
    BY <1>1, <1>5, BoundsAssumption DEF Null, Time
  <1>7. /\ r.state = "authorized" /\ r.nonce = Null /\ r.actor = call[p].actor
        /\ r.key = op[i].key /\ r.machine = op[i].machine
    BY <1>3 DEF Granted, Row
  <1>8. r.actor # NoActor
    BY <1>1, <1>7, ActorAssumption
  <1>9. lastId' = lastId /\ op' = [op EXCEPT ![i] = r]
    BY <1>2 DEF Confirm
  <1> HIDE DEF r
  <1> QED
    BY <1>2, <1>3, <1>4, <1>6, <1>7, <1>8, <1>9

\* expire_lapsed() moves rows from pending or authorized to expired and
\* writes no other column.
LEMMA SweepEffect ==
  ASSUME TypeOK, SweepStep
  PROVE  \E S \in SUBSET Ids :
           /\ \A i \in S : /\ op[i] \in Row /\ i <= lastId
                           /\ op[i].state \in {"pending_confirmation", "authorized"}
           /\ op' = [i \in Ids |-> IF i \in S THEN [op[i] EXCEPT !.state = "expired"]
                                              ELSE op[i]]
           /\ events' = [i \in Ids |->
                IF i \in S
                THEN Append(events[i], [from |-> op[i].state, to |-> "expired"])
                ELSE events[i]]
           /\ lastId' = lastId
  <1>1. PICK t \in Time : /\ op' = Swept(t) /\ events' = SweptEvents(t)
                          /\ lastId' = lastId
    BY DEF SweepStep
  <1> DEFINE S == {i \in Ids : Lapsed(op[i], t)}
  <1>2. \A i \in S : op[i] \in Row
                     /\ op[i].state \in {"pending_confirmation", "authorized"}
    BY SweptRow DEF TypeOK
  <1>3. \A i \in S : i <= lastId
    BY <1>2, RowExists DEF States, LiveStates
  <1>4. /\ op' = [i \in Ids |-> IF i \in S THEN [op[i] EXCEPT !.state = "expired"]
                                           ELSE op[i]]
        /\ events' = [i \in Ids |->
             IF i \in S
             THEN Append(events[i], [from |-> op[i].state, to |-> "expired"])
             ELSE events[i]]
    BY <1>1 DEF Swept, SweptEvents, FromState
  <1>5. S \in SUBSET Ids
    OBVIOUS
  <1> HIDE DEF S
  <1> QED
    BY <1>1, <1>2, <1>3, <1>4, <1>5

-----------------------------------------------------------------------------
(* One operation at a time. *)

\* The indexes one_active_operation and one_operation_per_plan_key, as the
\* insert of request() and the sweep meet them, survive every transaction.
LEMMA SingleStep ==
  ASSUME LedgerInv, [Next]_vars
  PROVE  SingleActive' /\ SingleAttempt'
  <1> USE DEF LedgerInv
  <1>0. "expired" \notin LiveStates /\ "pending_confirmation" \in LiveStates
        /\ "authorized" \in LiveStates /\ LiveStates \subseteq States \ {"expired"}
    BY DEF LiveStates, States, TerminalStates
  <1>1. CASE UNCHANGED <<op, events, lastId>>
    BY <1>1 DEF SingleActive, SingleAttempt
  <1>2. CASE SweepStep
    <2>1. PICK S \in SUBSET Ids :
            /\ \A i \in S : op[i] \in Row
            /\ op' = [i \in Ids |-> IF i \in S THEN [op[i] EXCEPT !.state = "expired"]
                                               ELSE op[i]]
      BY <1>2, SweepEffect
    <2>2. \A i \in Ids : op'[i].state # "expired" => op'[i] = op[i]
      BY <2>1 DEF Row
    <2> QED
      BY <1>0, <2>2 DEF SingleActive, SingleAttempt
  <1>3. CASE InsertStep
    <2>1. PICK k \in Keys, m \in Machines, r \in Row :
            /\ lastId + 1 \in Ids
            /\ r.state = "pending_confirmation" /\ r.key = k /\ r.machine = m
            /\ op' = [op EXCEPT ![lastId + 1] = r]
            /\ \A i \in Ids : op[i].state \in LiveStates => op[i].machine # m
            /\ \A i \in Ids : op[i].state \in States \ {"expired"} => op[i].key # k
      BY <1>3, InsertEffect DEF InsertStep
    <2>2. \A i \in Ids : op'[i] = IF i = lastId + 1 THEN r ELSE op[i]
      BY <2>1 DEF TypeOK
    <2>3. SingleActive'
      BY <2>1, <2>2 DEF SingleActive
    <2>4. SingleAttempt'
      BY <2>1, <2>2 DEF SingleAttempt
    <2> QED
      BY <2>3, <2>4
  <1>4. CASE ConfirmStep
    <2>1. PICK i \in Ids, r \in Row :
            /\ op[i].state = "pending_confirmation"
            /\ r.key = op[i].key /\ r.machine = op[i].machine
            /\ op' = [op EXCEPT ![i] = r]
      BY <1>4, ConfirmEffect DEF ConfirmStep
    <2>2. \A j \in Ids : op'[j] = IF j = i THEN r ELSE op[j]
      BY <2>1 DEF TypeOK
    <2> QED
      BY <1>0, <2>1, <2>2 DEF SingleActive, SingleAttempt
  <1>5. CASE TransitionStep
    <2>1. PICK i \in Ids, to \in States :
            /\ op[i] \in Row /\ op[i].state \in LiveStates
            /\ op' = [op EXCEPT ![i] = [op[i] EXCEPT !.state = to]]
      BY <1>5, TransitionEffect DEF TransitionStep
    <2>2. \A j \in Ids : op'[j] = IF j = i THEN [op[i] EXCEPT !.state = to] ELSE op[j]
      BY <2>1 DEF TypeOK
    <2>3. \A j \in Ids : op'[j].key = op[j].key /\ op'[j].machine = op[j].machine
      BY <2>1, <2>2 DEF Row
    <2>4. \A j \in Ids : op'[j].state = IF j = i THEN to ELSE op[j].state
      BY <2>1, <2>2 DEF Row
    <2> QED
      BY <1>0, <2>1, <2>3, <2>4 DEF SingleActive, SingleAttempt
  <1> QED
    BY <1>1, <1>2, <1>3, <1>4, <1>5, TableSteps

\* What transition() read before its transaction is a step of _TRANSITIONS, and
\* stays one however long the call waits for the database.
LEMMA CallsStep ==
  ASSUME TypeOK, CallsLegal, [Next]_vars
  PROVE  CallsLegal'
  <1>1. CASE Tick
    BY <1>1 DEF Tick, CallsLegal
  <1>2. CASE UNCHANGED vars
    BY <1>2 DEF vars, CallsLegal
  <1>3. ASSUME NEW p \in Callers, CallerStep(p) PROVE CallsLegal'
    <2>1. CASE \E i \in Ids, to \in States : StartTransition(p, i, to)
      BY <2>1 DEF StartTransition, Begin, CallsLegal, TypeOK
    <2>2. CASE \/ \E k \in Keys, m \in Machines : StartRequest(p, k, m)
               \/ \E n \in Ids, a \in Actors : StartConfirm(p, n, a)
               \/ StartExpire(p)
      <3>1. PICK c : c.at # "transition" /\ call' = [call EXCEPT ![p] = c]
        BY <2>2 DEF StartRequest, StartConfirm, StartExpire, Begin
      <3> QED
        BY <3>1 DEF CallsLegal, TypeOK
    <2>3. CASE SweepForRequest(p) \/ ReadRequestClock(p)
      <3>1. call[p] \in [at: {"sweep", "swept", "request"}, time: Time, key: Keys,
                         machine: Machines]
        BY <2>3, CallKinds DEF TypeOK, SweepForRequest, ReadRequestClock
      <3>2. call'[p].at # "transition"
        BY <2>3, <3>1 DEF SweepForRequest, ReadRequestClock, TypeOK
      <3>3. \A q \in Callers \ {p} : call'[q] = call[q]
        BY <2>3 DEF SweepForRequest, ReadRequestClock, TypeOK
      <3> QED
        BY <3>2, <3>3 DEF CallsLegal
    <2>4. CASE \/ Abandon(p) \/ ExpireLapsed(p) \/ InsertRequest(p)
               \/ RefuseRequest(p) \/ Confirm(p) \/ RejectConfirm(p)
               \/ Transition(p) \/ LoseTransition(p)
      <3>1. call' = [call EXCEPT ![p] = Idle]
        BY <2>4 DEF Abandon, ExpireLapsed, InsertRequest, RefuseRequest, Confirm,
                    RejectConfirm, Transition, LoseTransition, Finish
      <3> QED
        BY <3>1 DEF CallsLegal, Idle, TypeOK
    <2> QED
      BY <1>3, <2>1, <2>2, <2>3, <2>4 DEF CallerStep
  <1> QED
    BY <1>1, <1>2, <1>3 DEF Next

-----------------------------------------------------------------------------
(* The audit trail. *)

\* An event that _event() appends from the state a trail ends in, along the
\* table, makes a longer trail.
LEMMA TrailAppend ==
  ASSUME NEW e \in Seq(Event), NEW s \in States, NEW to \in States,
         TrailTo(e, s), to \in Transitions[s]
  PROVE  TrailTo(Append(e, [from |-> s, to |-> to]), to)
  <1> DEFINE v == [from |-> s, to |-> to]
             f == Append(e, v)
  <1>1. v \in Event /\ v.from = s /\ v.to = to
    BY DEF Event
  <1>2. Len(e) \in Nat /\ Len(e) >= 1
    BY DEF TrailTo
  <1>3. /\ Len(f) = Len(e) + 1
        /\ f[Len(e) + 1] = v
        /\ \A n \in 1 .. Len(e) : f[n] = e[n]
    BY <1>1, <1>2
  <1>4. f # <<>> /\ f[1] = [from |-> "none", to |-> "pending_confirmation"]
    BY <1>2, <1>3 DEF TrailTo
  <1>5. f[Len(f)].to = to
    BY <1>1, <1>3
  <1>6. ASSUME NEW n \in 2 .. Len(f)
        PROVE  f[n].from = f[n - 1].to /\ f[n].to \in Transitions[f[n].from]
    <2>1. CASE n = Len(e) + 1
      <3>1. f[n] = v /\ f[n - 1] = e[Len(e)]
        BY <1>2, <1>3, <2>1
      <3> QED
        BY <1>1, <3>1 DEF TrailTo
    <2>2. CASE n # Len(e) + 1
      <3>1. n \in 2 .. Len(e) /\ f[n] = e[n] /\ f[n - 1] = e[n - 1]
        BY <1>2, <1>3, <2>2
      <3> QED
        BY <3>1 DEF TrailTo
    <2> QED
      BY <2>1, <2>2
  <1> HIDE DEF f
  <1>7. TrailTo(f, to)
    BY <1>4, <1>5, <1>6 DEF TrailTo
  <1> QED
    BY <1>7 DEF f

\* The expiry that expire_lapsed() writes without consulting the table is one
\* of the table's steps.
LEMMA ExpiryInTable ==
  ASSUME NEW s \in {"pending_confirmation", "authorized"}
  PROVE  s \in States /\ "expired" \in States /\ "expired" \in Transitions[s]
  BY DEF Transitions, States, LiveStates, TerminalStates

\* _transaction() commits a state change and its event together, so every
\* transaction keeps the trail.
LEMMA AuditStep ==
  ASSUME LedgerInv, [Next]_vars
  PROVE  AuditTrail'
  <1> USE DEF LedgerInv
  <1>0. lastId \in Int /\ Ids \subseteq Int
    BY DEF TypeOK, Ids
  <1>1. CASE UNCHANGED <<op, events, lastId>>
    BY <1>1 DEF AuditTrail
  <1>2. CASE SweepStep
    <2>1. PICK S \in SUBSET Ids :
            /\ \A i \in S : /\ op[i] \in Row /\ i <= lastId
                            /\ op[i].state \in {"pending_confirmation", "authorized"}
            /\ op' = [i \in Ids |-> IF i \in S THEN [op[i] EXCEPT !.state = "expired"]
                                               ELSE op[i]]
            /\ events' = [i \in Ids |->
                 IF i \in S
                 THEN Append(events[i], [from |-> op[i].state, to |-> "expired"])
                 ELSE events[i]]
            /\ lastId' = lastId
      BY <1>2, SweepEffect
    <2>2. ASSUME NEW i \in S PROVE TrailTo(events'[i], op'[i].state)
      <3>1. TrailTo(events[i], op[i].state)
        BY <1>0, <2>1 DEF AuditTrail
      <3>2. /\ op[i].state \in States /\ "expired" \in States
            /\ "expired" \in Transitions[op[i].state]
            /\ events[i] \in Seq(Event)
        BY <2>1, ExpiryInTable DEF TypeOK
      <3>3. TrailTo(Append(events[i], [from |-> op[i].state, to |-> "expired"]),
                    "expired")
        BY <3>1, <3>2, TrailAppend
      <3>4. op'[i].state = "expired"
        BY <2>1 DEF Row
      <3> QED
        BY <2>1, <3>3, <3>4
    <2>3. \A i \in Ids \ S : events'[i] = events[i] /\ op'[i] = op[i]
      BY <2>1
    <2>4. ASSUME NEW i \in Ids, i \notin S
          PROVE  IF i > lastId' THEN events'[i] = <<>>
                 ELSE TrailTo(events'[i], op'[i].state)
      <3>1. IF i > lastId THEN events[i] = <<>> ELSE TrailTo(events[i], op[i].state)
        BY DEF AuditTrail
      <3>2. events'[i] = events[i] /\ op'[i] = op[i] /\ lastId' = lastId
        BY <2>1, <2>3, <2>4
      <3> QED
        BY <3>1, <3>2
    <2>5. \A i \in S : ~(i > lastId')
      BY <1>0, <2>1
    <2> QED
      BY <2>2, <2>4, <2>5 DEF AuditTrail
  <1>3. CASE InsertStep
    <2>1. PICK r \in Row :
            /\ lastId + 1 \in Ids /\ r.state = "pending_confirmation"
            /\ op' = [op EXCEPT ![lastId + 1] = r]
            /\ events' = [events EXCEPT ![lastId + 1] =
                            Append(@, [from |-> "none",
                                       to |-> "pending_confirmation"])]
            /\ lastId' = lastId + 1
      BY <1>3, InsertEffect DEF InsertStep
    <2> DEFINE v == [from |-> "none", to |-> "pending_confirmation"]
    <2>2. events[lastId + 1] = <<>>
      BY <1>0, <2>1 DEF AuditTrail
    <2>3. events'[lastId + 1] = <<v>>
      BY <2>1, <2>2 DEF TypeOK
    <2>4. TrailTo(<<v>>, "pending_confirmation")
      BY DEF TrailTo
    <2>5. op'[lastId + 1].state = "pending_confirmation"
      BY <2>1 DEF TypeOK
    <2>6. \A i \in Ids \ {lastId + 1} : events'[i] = events[i] /\ op'[i] = op[i]
      BY <2>1 DEF TypeOK
    <2>7. ASSUME NEW i \in Ids
          PROVE  IF i > lastId' THEN events'[i] = <<>>
                 ELSE TrailTo(events'[i], op'[i].state)
      <3>1. CASE i = lastId + 1
        <4>1. ~(i > lastId')
          BY <1>0, <2>1, <3>1
        <4> QED
          BY <2>3, <2>4, <2>5, <3>1, <4>1
      <3>2. CASE i # lastId + 1
        <4>1. IF i > lastId THEN events[i] = <<>>
              ELSE TrailTo(events[i], op[i].state)
          BY DEF AuditTrail
        <4>2. i > lastId' <=> i > lastId
          BY <1>0, <2>1, <3>2
        <4> QED
          BY <2>6, <3>2, <4>1, <4>2
      <3> QED
        BY <3>1, <3>2
    <2> QED
      BY <2>7 DEF AuditTrail
  <1>4. CASE ConfirmStep
    <2>1. PICK i \in Ids, r \in Row :
            /\ op[i] \in Row /\ i <= lastId
            /\ op[i].state = "pending_confirmation" /\ r.state = "authorized"
            /\ op' = [op EXCEPT ![i] = r]
            /\ events' = [events EXCEPT ![i] =
                            Append(@, [from |-> "pending_confirmation",
                                       to |-> "authorized"])]
            /\ lastId' = lastId
      BY <1>4, ConfirmEffect DEF ConfirmStep
    <2>2. /\ "pending_confirmation" \in States /\ "authorized" \in States
          /\ "authorized" \in Transitions["pending_confirmation"]
      BY DEF Transitions, States, LiveStates, TerminalStates
    <2>3. TrailTo(events[i], "pending_confirmation")
      BY <1>0, <2>1 DEF AuditTrail
    <2>4. TrailTo(events'[i], op'[i].state)
      BY <2>1, <2>2, <2>3, TrailAppend DEF TypeOK
    <2>5. \A j \in Ids \ {i} : events'[j] = events[j] /\ op'[j] = op[j]
      BY <2>1 DEF TypeOK
    <2>6. ASSUME NEW j \in Ids
          PROVE  IF j > lastId' THEN events'[j] = <<>>
                 ELSE TrailTo(events'[j], op'[j].state)
      <3>1. CASE j = i
        <4>1. ~(i > lastId')
          BY <1>0, <2>1
        <4> QED
          BY <2>4, <3>1, <4>1
      <3>2. CASE j # i
        <4>1. IF j > lastId THEN events[j] = <<>>
              ELSE TrailTo(events[j], op[j].state)
          BY DEF AuditTrail
        <4>2. events'[j] = events[j] /\ op'[j] = op[j] /\ lastId' = lastId
          BY <2>1, <2>5, <3>2
        <4> QED
          BY <4>1, <4>2
      <3> QED
        BY <3>1, <3>2
    <2> QED
      BY <2>6 DEF AuditTrail
  <1>5. CASE TransitionStep
    <2>1. PICK i \in Ids, to \in States :
            /\ op[i] \in Row /\ i <= lastId
            /\ to \in Transitions[op[i].state] \ {"authorized", "expired"}
            /\ op' = [op EXCEPT ![i] = [op[i] EXCEPT !.state = to]]
            /\ events' = [events EXCEPT ![i] =
                            Append(@, [from |-> op[i].state, to |-> to])]
            /\ lastId' = lastId
      BY <1>5, TransitionEffect DEF TransitionStep
    <2>2. op[i].state \in States
      BY <2>1, RowExists
    <2>3. TrailTo(events[i], op[i].state)
      BY <1>0, <2>1 DEF AuditTrail
    <2>4. op'[i].state = to
      BY <2>1 DEF TypeOK, Row
    <2>5. TrailTo(events'[i], to)
      BY <2>1, <2>2, <2>3, TrailAppend DEF TypeOK
    <2>6. \A j \in Ids \ {i} : events'[j] = events[j] /\ op'[j] = op[j]
      BY <2>1 DEF TypeOK
    <2>7. ASSUME NEW j \in Ids
          PROVE  IF j > lastId' THEN events'[j] = <<>>
                 ELSE TrailTo(events'[j], op'[j].state)
      <3>1. CASE j = i
        <4>1. ~(i > lastId')
          BY <1>0, <2>1
        <4> QED
          BY <2>4, <2>5, <3>1, <4>1
      <3>2. CASE j # i
        <4>1. IF j > lastId THEN events[j] = <<>>
              ELSE TrailTo(events[j], op[j].state)
          BY DEF AuditTrail
        <4>2. events'[j] = events[j] /\ op'[j] = op[j] /\ lastId' = lastId
          BY <2>1, <2>6, <3>2
        <4> QED
          BY <4>1, <4>2
      <3> QED
        BY <3>1, <3>2
    <2> QED
      BY <2>7 DEF AuditTrail
  <1> QED
    BY <1>1, <1>2, <1>3, <1>4, <1>5, TableSteps

-----------------------------------------------------------------------------
(* Confirmed once, then started at most once. *)

\* _event() adds its event, as the last, to those into the state it names.
LEMMA AppendedEventsTo ==
  ASSUME TypeOK, NEW i \in Ids, NEW v \in Event, NEW S,
         events'[i] = Append(events[i], v)
  PROVE  /\ EventsTo(i, S)' = EventsTo(i, S) \cup
                (IF v.to \in S THEN {Len(events[i]) + 1} ELSE {})
         /\ \A n \in EventsTo(i, S) : n \in Nat /\ n < Len(events[i]) + 1
  <1>1. events[i] \in Seq(Event)
    BY DEF TypeOK
  <1>2. /\ Len(events'[i]) = Len(events[i]) + 1 /\ Len(events[i]) \in Nat
        /\ events'[i][Len(events[i]) + 1] = v
        /\ \A n \in 1 .. Len(events[i]) : events'[i][n] = events[i][n]
        /\ DOMAIN events'[i] = 1 .. (Len(events[i]) + 1)
        /\ DOMAIN events[i] = 1 .. Len(events[i])
    BY <1>1
  <1> QED
    BY <1>2 DEF EventsTo

\* _event() leaves the events into every other state alone.
LEMMA OtherEventsTo ==
  ASSUME TypeOK, NEW i \in Ids, NEW v \in Event, NEW S, v.to \notin S,
         events'[i] = Append(events[i], v)
  PROVE  EventsTo(i, S)' = EventsTo(i, S)
  <1> DEFINE more == IF v.to \in S THEN {Len(events[i]) + 1} ELSE {}
  <1>1. EventsTo(i, S)' = EventsTo(i, S) \cup more
    BY AppendedEventsTo
  <1>2. more = {}
    OBVIOUS
  <1> QED
    BY <1>1, <1>2

\* A transaction that writes neither a row nor its events keeps its history.
LEMMA SameRowHistory ==
  ASSUME NEW i \in Ids, op'[i] = op[i], events'[i] = events[i], RowHistory(i)
  PROVE  RowHistory(i)'
  BY DEF RowHistory, Started, Cleared, AtMostOnce, EventsTo

\* confirm() is the only way into authorized and _TRANSITIONS has no way back,
\* so every transaction keeps the confirmation before the start.
LEMMA StartStep ==
  ASSUME LedgerInv, [Next]_vars
  PROVE  StartHistory'
  <1> USE DEF LedgerInv
  <1>1. CASE UNCHANGED <<op, events, lastId>>
    BY <1>1, SameRowHistory DEF StartHistory
  <1>2. CASE SweepStep
    <2>1. PICK S \in SUBSET Ids :
            /\ \A i \in S : /\ op[i] \in Row /\ i <= lastId
                            /\ op[i].state \in {"pending_confirmation", "authorized"}
            /\ op' = [i \in Ids |-> IF i \in S THEN [op[i] EXCEPT !.state = "expired"]
                                               ELSE op[i]]
            /\ events' = [i \in Ids |->
                 IF i \in S
                 THEN Append(events[i], [from |-> op[i].state, to |-> "expired"])
                 ELSE events[i]]
      BY <1>2, SweepEffect
    <2>2. ASSUME NEW i \in S PROVE RowHistory(i)'
      <3> DEFINE v == [from |-> op[i].state, to |-> "expired"]
      <3>1. v \in Event /\ v.to \notin StartStates
        BY <2>1 DEF Event, States, LiveStates, TerminalStates, StartStates
      <3> HIDE DEF v
      <3>2. EventsTo(i, StartStates)' = EventsTo(i, StartStates)
        <4>1. events'[i] = Append(events[i], v)
          BY <2>1 DEF v
        <4> QED
          BY <3>1, <4>1, OtherEventsTo
      <3>3. op[i].state \in States
        BY <2>1, RowExists
      <3>4. ~Started(i)
        BY <2>1, <3>3 DEF StartHistory, RowHistory
      <3>5. op'[i].state = "expired"
        BY <2>1 DEF Row
      <3> QED
        BY <3>2, <3>4, <3>5 DEF RowHistory, Started
    <2>3. \A i \in Ids \ S : op'[i] = op[i] /\ events'[i] = events[i]
      BY <2>1
    <2> QED
      BY <2>2, <2>3, SameRowHistory DEF StartHistory
  <1>3. CASE InsertStep
    <2>1. PICK r \in Row :
            /\ lastId + 1 \in Ids /\ r.state = "pending_confirmation"
            /\ op' = [op EXCEPT ![lastId + 1] = r]
            /\ events' = [events EXCEPT ![lastId + 1] =
                            Append(@, [from |-> "none",
                                       to |-> "pending_confirmation"])]
            /\ lastId' = lastId + 1
      BY <1>3, InsertEffect DEF InsertStep
    <2>0. PICK i \in Ids : i = lastId + 1
      BY <2>1
    <2> DEFINE v == [from |-> "none", to |-> "pending_confirmation"]
    <2>2. i > lastId
      BY <2>0 DEF TypeOK
    <2>3. events[i] = <<>>
      BY <2>2 DEF AuditTrail
    <2>4. events'[i] = Append(events[i], v) /\ op'[i].state = "pending_confirmation"
      BY <2>0, <2>1 DEF TypeOK
    <2>5. v \in Event /\ v.to \notin StartStates /\ v.to \notin {"authorized"}
      BY DEF Event, States, LiveStates, StartStates
    <2>6. EventsTo(i, StartStates) = {} /\ EventsTo(i, {"authorized"}) = {}
      BY <2>3 DEF EventsTo
    <2>8. \A j \in Ids \ {i} : op'[j] = op[j] /\ events'[j] = events[j]
      BY <2>0, <2>1 DEF TypeOK
    <2> HIDE DEF v
    <2>9. EventsTo(i, StartStates)' = EventsTo(i, StartStates)
      BY <2>4, <2>5, OtherEventsTo
    <2>10. EventsTo(i, {"authorized"})' = EventsTo(i, {"authorized"})
      BY <2>4, <2>5, OtherEventsTo
    <2>11. RowHistory(i)'
      BY <2>4, <2>6, <2>9, <2>10 DEF RowHistory, Started
    <2>12. ASSUME NEW j \in Ids, op'[j].state \in States PROVE RowHistory(j)'
      <3>1. CASE j = i
        BY <2>11, <3>1
      <3>2. CASE j # i
        BY <2>8, <2>12, <3>2, SameRowHistory DEF StartHistory
      <3> QED
        BY <3>1, <3>2
    <2> QED
      BY <2>12 DEF StartHistory
  <1>4. CASE ConfirmStep
    <2>1. PICK i \in Ids, r \in Row :
            /\ op[i] \in Row /\ i <= lastId
            /\ op[i].state = "pending_confirmation"
            /\ r.state = "authorized" /\ r.nonce = Null /\ r.actor # NoActor
            /\ r.windowExpires # Null
            /\ op' = [op EXCEPT ![i] = r]
            /\ events' = [events EXCEPT ![i] =
                            Append(@, [from |-> "pending_confirmation",
                                       to |-> "authorized"])]
      BY <1>4, ConfirmEffect DEF ConfirmStep
    <2> DEFINE v == [from |-> "pending_confirmation", to |-> "authorized"]
    <2>2. /\ v \in Event /\ v.to \notin StartStates
          /\ v.to \in {"authorized"}
      BY DEF Event, States, LiveStates, StartStates
    <2>3. events'[i] = Append(events[i], v) /\ op'[i] = r
      BY <2>1 DEF TypeOK
    <2>4. ~Started(i) /\ EventsTo(i, {"authorized"}) = {}
      BY <2>1, RowExists DEF StartHistory, RowHistory
    <2> HIDE DEF v
    <2>5. EventsTo(i, {"authorized"})' = {Len(events[i]) + 1}
      BY <2>2, <2>3, <2>4, AppendedEventsTo
    <2>6. EventsTo(i, StartStates)' = EventsTo(i, StartStates)
      BY <2>2, <2>3, OtherEventsTo
    <2>7. RowHistory(i)'
      BY <2>1, <2>3, <2>4, <2>5, <2>6
      DEF RowHistory, Started, Cleared, AtMostOnce
    <2>8. \A j \in Ids \ {i} : op'[j] = op[j] /\ events'[j] = events[j]
      BY <2>1 DEF TypeOK
    <2> QED
      BY <2>7, <2>8, SameRowHistory DEF StartHistory
  <1>5. CASE TransitionStep
    <2>1. PICK i \in Ids, to \in States :
            /\ op[i] \in Row /\ i <= lastId
            /\ op[i].state \in LiveStates
            /\ to \in Transitions[op[i].state] \ {"authorized", "expired"}
            /\ op' = [op EXCEPT ![i] = [op[i] EXCEPT !.state = to]]
            /\ events' = [events EXCEPT ![i] =
                            Append(@, [from |-> op[i].state, to |-> to])]
      BY <1>5, TransitionEffect DEF TransitionStep
    <2> DEFINE v == [from |-> op[i].state, to |-> to]
    <2>2. /\ v \in Event /\ op[i].state \in States
          /\ v.to = to /\ v.to \notin {"authorized"}
      BY <2>1 DEF Event, States
    <2>3. events'[i] = Append(events[i], v) /\ op'[i] = [op[i] EXCEPT !.state = to]
      BY <2>1 DEF TypeOK
    <2>4. /\ op'[i].state = to /\ op'[i].actor = op[i].actor
          /\ op'[i].nonce = op[i].nonce
          /\ op'[i].windowExpires = op[i].windowExpires
      BY <2>1, <2>3 DEF Row
    <2>5. RowHistory(i)
      BY <2>2 DEF StartHistory
    <2> HIDE DEF v
    <2>6. EventsTo(i, {"authorized"})' = EventsTo(i, {"authorized"})
      BY <2>2, <2>3, OtherEventsTo
    <2>7. Cleared(i) => Cleared(i)'
      BY <2>4, <2>6 DEF Cleared, AtMostOnce
    <2>8. to \notin {"pending_confirmation", "authorized", "expired"}
      BY <2>1, <2>2 DEF Transitions
    <2>9. ASSUME to \in StartStates PROVE RowHistory(i)'
      <3>1. op[i].state = "authorized"
        BY <2>1, <2>2, <2>9 DEF Transitions, StartStates, LiveStates
      <3>2. ~Started(i) /\ Cleared(i)
        BY <2>5, <3>1 DEF RowHistory
      <3>3. EventsTo(i, StartStates)' = {Len(events[i]) + 1}
        BY <2>2, <2>3, <2>9, <3>2, AppendedEventsTo DEF Started
      <3>4. \A n \in EventsTo(i, {"authorized"}) : n < Len(events[i]) + 1
        BY <2>2, <2>3, AppendedEventsTo
      <3> QED
        BY <2>4, <2>6, <2>7, <2>8, <3>2, <3>3, <3>4
        DEF RowHistory, Started, AtMostOnce
    <2>10. ASSUME to \notin StartStates PROVE RowHistory(i)'
      <3>1. EventsTo(i, StartStates)' = EventsTo(i, StartStates)
        BY <2>2, <2>3, <2>10, OtherEventsTo
      <3> QED
        BY <2>4, <2>5, <2>6, <2>7, <2>8, <3>1 DEF RowHistory, Started, AtMostOnce
    <2>11. \A j \in Ids \ {i} : op'[j] = op[j] /\ events'[j] = events[j]
      BY <2>1 DEF TypeOK
    <2> QED
      BY <2>9, <2>10, <2>11, SameRowHistory DEF StartHistory
  <1> QED
    BY <1>1, <1>2, <1>3, <1>4, <1>5, TableSteps

-----------------------------------------------------------------------------
(* The theorems. *)

\* The invariant holds of the empty ledger.
LEMMA LedgerInvInit == Init => LedgerInv
  <1> SUFFICES ASSUME Init PROVE LedgerInv
    OBVIOUS
  <1>1. TypeOK
    BY TypeInit
  <1>2. CallsLegal
    BY DEF Init, CallsLegal, Idle
  <1>3. \A i \in Ids : op[i].state = "none" /\ events[i] = <<>> /\ i > lastId
    BY DEF Init, NoRow, Ids
  <1>4. "none" \notin LiveStates /\ "none" \notin States
    BY DEF States, LiveStates, TerminalStates
  <1> QED
    BY <1>1, <1>2, <1>3, <1>4
    DEF LedgerInv, SingleActive, SingleAttempt, AuditTrail, StartHistory

\* Every transaction of the ledger keeps the invariant.
LEMMA LedgerInvStep == LedgerInv /\ [Next]_vars => LedgerInv'
  BY TypeStep, CallsStep, SingleStep, AuditStep, StartStep DEF LedgerInv

\* The inductive invariant behind the theorems below: the types, the two unique
\* indexes of _migrate(), the stale reads of transition(), the audit trail and
\* the history of confirmations and starts hold together.
THEOREM LedgerInvariance == Spec => []LedgerInv
  BY LedgerInvInit, LedgerInvStep, PTL DEF Spec

\* A machine never has two live operations, and a key never two rows that
\* executed or still could, whatever the calls of however many processes do.
THEOREM OneOperationAtATime == Spec => [](SingleActive /\ SingleAttempt)
  <1>1. LedgerInv => SingleActive /\ SingleAttempt
    BY DEF LedgerInv
  <1> QED
    BY <1>1, LedgerInvariance, PTL

\* The events of every operation are a legal path to the state it is in.
THEOREM AuditTrailComplete == Spec => []AuditTrail
  <1>1. LedgerInv => AuditTrail
    BY DEF LedgerInv
  <1> QED
    BY <1>1, LedgerInvariance, PTL

\* The history that the invariant keeps of every row is what StartedWasConfirmed
\* and StartedOncePerKey say of the ledger.
LEMMA HistoryMeansStartedOnce ==
  LedgerInv => StartedWasConfirmed /\ StartedOncePerKey
  <1> SUFFICES ASSUME LedgerInv PROVE StartedWasConfirmed /\ StartedOncePerKey
    OBVIOUS
  <1>1. \A i \in Ids : Started(i) => op[i].state \in States
    <2> SUFFICES ASSUME NEW i \in Ids, Started(i) PROVE op[i].state \in States
      OBVIOUS
    <2>1. events[i] # <<>>
      BY DEF Started, EventsTo
    <2>2. i <= lastId
      BY <2>1 DEF LedgerInv, AuditTrail, TypeOK, Ids
    <2> QED
      BY <2>2, RowExists DEF LedgerInv
  <1>2. \A i \in Ids : Started(i) => RowHistory(i) /\ op[i].state # "expired"
    BY <1>1 DEF LedgerInv, StartHistory, RowHistory
  <1>3. StartedWasConfirmed
    BY <1>2 DEF StartedWasConfirmed, RowHistory, Cleared
  <1>4. StartedOncePerKey
    BY <1>1, <1>2 DEF StartedOncePerKey, RowHistory, LedgerInv, SingleAttempt
  <1> QED
    BY <1>3, <1>4

\* Side effects begin at most once for an idempotency key.
THEOREM StartedOnce == Spec => []StartedOncePerKey
  BY HistoryMeansStartedOnce, LedgerInvariance, PTL

\* They begin only after one recorded confirmation that consumed the nonce.
THEOREM ConfirmedBeforeStart == Spec => []StartedWasConfirmed
  BY HistoryMeansStartedOnce, LedgerInvariance, PTL

\* No transaction writes a row whose state is terminal: the table offers no way
\* out, and confirm() and the sweep only take pending or authorized rows.
LEMMA SettledRowStep ==
  ASSUME LedgerInv, [Next]_vars, NEW i \in Ids, op[i].state \in TerminalStates
  PROVE  op'[i] = op[i]
  <1> USE DEF LedgerInv
  <1>0. op[i].state \in States /\ op[i].state \notin LiveStates
    BY DEF States, LiveStates, TerminalStates
  <1>1. CASE UNCHANGED <<op, events, lastId>>
    BY <1>1
  <1>2. CASE SweepStep
    BY <1>0, <1>2, SweepEffect DEF LiveStates
  <1>3. CASE InsertStep
    <2>1. i <= lastId
      BY <1>0, RowExists
    <2>2. i # lastId + 1
      BY <2>1 DEF TypeOK, Ids
    <2>3. PICK r \in Row : op' = [op EXCEPT ![lastId + 1] = r]
      BY <1>3, InsertEffect DEF InsertStep
    <2> QED
      BY <2>2, <2>3 DEF TypeOK
  <1>4. CASE ConfirmStep
    BY <1>0, <1>4, ConfirmEffect DEF ConfirmStep, LiveStates, TypeOK
  <1>5. CASE TransitionStep
    BY <1>0, <1>5, TransitionEffect DEF TransitionStep, TypeOK
  <1> QED
    BY <1>1, <1>2, <1>3, <1>4, <1>5, TableSteps

\* A terminal row never changes again: it is a receipt.
THEOREM ReceiptsFinal == Spec => ReceiptsAreFinal
  <1>1. LedgerInv /\ [Next]_vars =>
          [\A i \in Ids : op[i].state \in TerminalStates => op'[i] = op[i]]_vars
    BY SettledRowStep
  <1> QED
    BY <1>1, LedgerInvariance, PTL DEF Spec, ReceiptsAreFinal

-----------------------------------------------------------------------------
(* The ledger implements PlanAttempts. *)

\* Row i is the attempt of key k: it executed or still could.
AttemptOf(i, k) == op[i].state \in States \ {"expired"} /\ op[i].key = k
Holds(i, m) == op[i].state \in LiveStates /\ op[i].machine = m

\* The refinement mapping read through one row: the two unique indexes leave
\* its CHOOSEs a single candidate.
PhaseReads ==
    \A k \in Keys :
        /\ \A i \in Ids : AttemptOf(i, k) => Phase[k] = PhaseOf(op[i].state)
        /\ (\A i \in Ids : ~AttemptOf(i, k)) => Phase[k] = "free"

HolderReads ==
    \A m \in Machines :
        /\ \A i \in Ids : Holds(i, m) => Holder[m] = op[i].key
        /\ (\A i \in Ids : ~Holds(i, m)) => Holder[m] = NoKey

Reads == PhaseReads /\ HolderReads

\* A row tells where its plan stands.
LEMMA MappingReads == LedgerInv => Reads
  <1> SUFFICES ASSUME LedgerInv PROVE Reads
    OBVIOUS
  <1> USE DEF LedgerInv
  <1>0. \A i : i \in Rows <=> i \in Ids /\ i <= lastId
    BY BoundsAssumption DEF Rows, Ids, TypeOK
  <1>1. \A i \in Rows : i \in Ids /\ op[i].state \in States
    BY <1>0, RowExists
  <1>2. \A i \in Ids : op[i].state \in States => i \in Rows
    BY <1>0, RowExists
  <1>3. LiveStates \subseteq States \ {"expired"}
    BY DEF States, LiveStates, TerminalStates
  <1>4. PhaseReads
    <2> SUFFICES ASSUME NEW k \in Keys
                 PROVE  /\ \A i \in Ids : AttemptOf(i, k) => Phase[k] = PhaseOf(op[i].state)
                        /\ (\A i \in Ids : ~AttemptOf(i, k)) => Phase[k] = "free"
      BY DEF PhaseReads
    <2> DEFINE Q(i) == op[i].key = k /\ op[i].state # "expired"
               c == CHOOSE i \in Rows : Q(i)
    <2>1. \A i : AttemptOf(i, k) /\ i \in Ids <=> i \in Rows /\ Q(i)
      BY <1>1, <1>2 DEF AttemptOf
    <2>2. Phase[k] = IF \E i \in Rows : Q(i) THEN PhaseOf(op[c].state) ELSE "free"
      BY DEF Phase
    <2>3. (\E i \in Rows : Q(i)) => c \in Rows /\ Q(c)
      OBVIOUS
    <2>4. \A i, j \in Ids : AttemptOf(i, k) /\ AttemptOf(j, k) => i = j
      BY DEF SingleAttempt, AttemptOf
    <2> HIDE DEF Q, c
    <2> QED
      BY <2>1, <2>2, <2>3, <2>4
  <1>5. HolderReads
    <2> SUFFICES ASSUME NEW m \in Machines
                 PROVE  /\ \A i \in Ids : Holds(i, m) => Holder[m] = op[i].key
                        /\ (\A i \in Ids : ~Holds(i, m)) => Holder[m] = NoKey
      BY DEF HolderReads
    <2> DEFINE Q(i) == Active(i) /\ op[i].machine = m
               c == CHOOSE i \in Rows : Q(i)
    <2>1. \A i : Holds(i, m) /\ i \in Ids <=> i \in Rows /\ Q(i)
      BY <1>1, <1>2, <1>3 DEF Holds, Active
    <2>2. Holder[m] = IF \E i \in Rows : Q(i) THEN op[c].key ELSE NoKey
      BY DEF Holder
    <2>3. (\E i \in Rows : Q(i)) => c \in Rows /\ Q(c)
      OBVIOUS
    <2>4. \A i, j \in Ids : Holds(i, m) /\ Holds(j, m) => i = j
      BY DEF SingleActive, Holds
    <2> HIDE DEF Q, c
    <2> QED
      BY <2>1, <2>2, <2>3, <2>4
  <1> QED
    BY <1>4, <1>5 DEF Reads

LEMMA MappingReadsNext == LedgerInv' => Reads'
  BY MappingReads, PTL

\* The phase each state of _TRANSITIONS stands for.
LEMMA PhaseTable ==
  /\ PhaseOf("pending_confirmation") = "asked"
  /\ PhaseOf("authorized") = "cleared"
  /\ \A s \in TerminalStates : PhaseOf(s) = "settled"
  /\ \A s \in LiveStates \ {"pending_confirmation", "authorized"} :
        PhaseOf(s) = "started"
  BY DEF PhaseOf, TerminalStates, LiveStates

\* The steps _TRANSITIONS offers transition() settle a live row, start an
\* authorized one, or move one that has started.
LEMMA PhaseSteps ==
  ASSUME NEW s \in LiveStates, NEW to \in Transitions[s] \ {"authorized", "expired"}
  PROVE  \/ to \in TerminalStates \ {"expired"}
         \/ /\ to \in LiveStates
            /\ s = "authorized" /\ PhaseOf(to) = "started"
         \/ /\ to \in LiveStates
            /\ PhaseOf(s) = "started" /\ PhaseOf(to) = "started"
  <1>1. s \in States
    BY DEF States
  <1>2. \/ to \in TerminalStates \ {"expired"}
        \/ /\ to \in LiveStates \ {"pending_confirmation", "authorized"}
           /\ s # "pending_confirmation"
    BY <1>1 DEF Transitions, States, LiveStates, TerminalStates
  <1> QED
    BY <1>2, PhaseTable

\* A transaction that writes no row of a plan leaves the plan where it stands,
\* one that writes no live row of a machine leaves it with its holder.
LEMMA ReadsKept ==
  ASSUME Reads, Reads'
  PROVE  /\ \A k \in Keys :
              (\A i \in Ids : /\ AttemptOf(i, k)' <=> AttemptOf(i, k)
                              /\ AttemptOf(i, k) => op'[i].state = op[i].state)
              => Phase'[k] = Phase[k]
         /\ \A m \in Machines :
              (\A i \in Ids : /\ Holds(i, m)' <=> Holds(i, m)
                              /\ Holds(i, m) => op'[i].key = op[i].key)
              => Holder'[m] = Holder[m]
  BY DEF Reads, PhaseReads, HolderReads

\* The mapping gives every plan a phase and every machine a holder.
LEMMA MappingShape ==
  /\ Phase = [k \in Keys |-> Phase[k]]
  /\ Phase' = [k \in Keys |-> Phase'[k]]
  /\ Holder = [m \in Machines |-> Holder[m]]
  /\ Holder' = [m \in Machines |-> Holder'[m]]
  BY DEF Phase, Holder

\* Time runs out: the sweep of expire_lapsed() is Lapse of the plans it swept.
LEMMA SweepLapses ==
  ASSUME LedgerInv, Reads, Reads', SweepStep
  PROVE  \E K \in SUBSET Keys : Attempts!Lapse(K)
  <1> USE DEF LedgerInv
  <1>1. PICK S \in SUBSET Ids :
          /\ \A i \in S : /\ op[i] \in Row /\ i <= lastId
                          /\ op[i].state \in {"pending_confirmation", "authorized"}
          /\ op' = [i \in Ids |-> IF i \in S THEN [op[i] EXCEPT !.state = "expired"]
                                             ELSE op[i]]
    BY SweepEffect
  <1> DEFINE K == {op[i].key : i \in S}
  <1>0. /\ "expired" \notin LiveStates
        /\ {"pending_confirmation", "authorized"} \subseteq LiveStates
        /\ LiveStates \subseteq States \ {"expired"}
    BY DEF States, LiveStates, TerminalStates
  <1>2. \A i \in S : op'[i].state = "expired"
    BY <1>1 DEF Row
  <1>3. \A i \in Ids \ S : op'[i] = op[i]
    BY <1>1
  <1>4. K \in SUBSET Keys
    BY <1>1 DEF Row
  <1>5. \A i, j \in Ids, k \in Keys : AttemptOf(i, k) /\ AttemptOf(j, k) => i = j
    BY DEF SingleAttempt, AttemptOf
  <1>6. \A i, j \in Ids, m \in Machines : Holds(i, m) /\ Holds(j, m) => i = j
    BY DEF SingleActive, Holds
  <1>7. \A i \in S : op[i].key \in Keys /\ AttemptOf(i, op[i].key)
    BY <1>0, <1>1 DEF AttemptOf, Row
  <1>8. ASSUME NEW k \in K
        PROVE  Phase[k] \in {"asked", "cleared"} /\ Phase'[k] = "free"
    <2>1. PICK i \in S : op[i].key = k
      OBVIOUS
    <2>2. k \in Keys /\ AttemptOf(i, k) /\ i \in Ids
      BY <1>7, <2>1
    <2>3. Phase[k] = PhaseOf(op[i].state)
      BY <2>2 DEF Reads, PhaseReads
    <2>4. \A j \in Ids : ~AttemptOf(j, k)'
      BY <1>2, <1>3, <1>5, <2>2 DEF AttemptOf
    <2>5. Phase'[k] = "free"
      BY <2>2, <2>4 DEF Reads, PhaseReads
    <2> QED
      BY <1>1, <2>3, <2>5, PhaseTable
  <1>9. ASSUME NEW k \in Keys \ K PROVE Phase'[k] = Phase[k]
    <2>1. \A i \in S : op[i].key # k /\ op'[i].key = op[i].key
      BY <1>1 DEF Row
    <2>2. \A i \in Ids : /\ AttemptOf(i, k)' <=> AttemptOf(i, k)
                         /\ AttemptOf(i, k) => op'[i].state = op[i].state
      BY <1>3, <2>1 DEF AttemptOf
    <2> QED
      BY <2>2, ReadsKept
  <1> HIDE DEF K
  <1>10. Phase' = [k \in Keys |-> IF k \in K THEN "free" ELSE Phase[k]]
    BY <1>8, <1>9, MappingShape
  <1>11. ASSUME NEW m \in Machines
         PROVE  Holder'[m] = IF Holder[m] \in K THEN NoKey ELSE Holder[m]
    <2>1. CASE \E i \in S : Holds(i, m)
      <3>1. PICK i \in S : Holds(i, m)
        BY <2>1
      <3>2. Holder[m] = op[i].key /\ Holder[m] \in K
        BY <3>1 DEF Reads, HolderReads, K
      <3>3. \A j \in Ids : ~Holds(j, m)'
        BY <1>0, <1>2, <1>3, <1>6, <3>1 DEF Holds
      <3>4. Holder'[m] = NoKey
        BY <3>3 DEF Reads, HolderReads
      <3> QED
        BY <3>2, <3>4
    <2>2. CASE \A i \in S : ~Holds(i, m)
      <3>1. \A i \in Ids : /\ Holds(i, m)' <=> Holds(i, m)
                           /\ Holds(i, m) => op'[i].key = op[i].key
        BY <1>0, <1>2, <1>3, <2>2 DEF Holds
      <3>2. Holder'[m] = Holder[m]
        BY <3>1, ReadsKept
      <3>3. ASSUME NEW i \in Ids, Holds(i, m) PROVE Holder[m] \notin K
        <4>1. Holder[m] = op[i].key /\ i \notin S
          BY <2>2, <3>3 DEF Reads, HolderReads
        <4>2. AttemptOf(i, op[i].key) /\ op[i] \in Row
          BY <1>0, <3>3, RowExists DEF AttemptOf, Holds
        <4>3. op[i].key \in Keys
          BY <4>2 DEF Row
        <4> QED
          BY <1>5, <1>7, <4>1, <4>2, <4>3 DEF K
      <3>4. CASE \A i \in Ids : ~Holds(i, m)
        <4>1. Holder[m] = NoKey
          BY <3>4 DEF Reads, HolderReads
        <4> QED
          BY <3>2, <4>1
      <3> QED
        BY <3>2, <3>3, <3>4
    <2> QED
      BY <2>1, <2>2
  <1>12. Holder' = [m \in Machines |-> IF Holder[m] \in K THEN NoKey ELSE Holder[m]]
    BY <1>11, MappingShape
  <1>13. Attempts!Lapse(K)
    BY <1>4, <1>8, <1>10, <1>12 DEF Attempts!Lapse, Attempts!Released
  <1> QED
    BY <1>4, <1>13

\* The insert of request() is Ask: nobody had the plan, nobody the machine.
LEMMA InsertAsks ==
  ASSUME LedgerInv, Reads, Reads', InsertStep
  PROVE  \E k \in Keys, m \in Machines : Attempts!Ask(k, m)
  <1> USE DEF LedgerInv
  <1>1. PICK k \in Keys, m \in Machines, r \in Row :
          /\ lastId + 1 \in Ids
          /\ r.state = "pending_confirmation" /\ r.key = k /\ r.machine = m
          /\ op' = [op EXCEPT ![lastId + 1] = r]
          /\ \A i \in Ids : op[i].state \in LiveStates => op[i].machine # m
          /\ \A i \in Ids : op[i].state \in States \ {"expired"} => op[i].key # k
    BY InsertEffect DEF InsertStep
  <1>2. PICK n \in Ids : n = lastId + 1
    BY <1>1
  <1>3. op'[n] = r /\ \A i \in Ids \ {n} : op'[i] = op[i]
    BY <1>1, <1>2 DEF TypeOK
  <1>4. n > lastId
    BY <1>2 DEF TypeOK
  <1>5. op[n].state = "none"
    BY <1>4, RowExists
  <1>6. "none" \notin States /\ "none" \notin LiveStates
        /\ "pending_confirmation" \in LiveStates
        /\ "pending_confirmation" \in States \ {"expired"}
    BY DEF States, LiveStates, TerminalStates
  <1>7. Phase[k] = "free" /\ Holder[m] = NoKey
    BY <1>1 DEF Reads, PhaseReads, HolderReads, AttemptOf, Holds
  <1>8. Phase'[k] = "asked" /\ Holder'[m] = k
    <2>1. AttemptOf(n, k)' /\ Holds(n, m)'
      BY <1>1, <1>3, <1>6 DEF AttemptOf, Holds
    <2>2. Phase'[k] = PhaseOf(op'[n].state) /\ Holder'[m] = op'[n].key
      BY <2>1 DEF Reads, PhaseReads, HolderReads
    <2> QED
      BY <1>1, <1>3, <2>2, PhaseTable
  <1>9. \A x \in Keys \ {k} : Phase'[x] = Phase[x]
    <2>1. \A x \in Keys \ {k}, i \in Ids :
             /\ AttemptOf(i, x)' <=> AttemptOf(i, x)
             /\ AttemptOf(i, x) => op'[i].state = op[i].state
      BY <1>1, <1>3, <1>5, <1>6 DEF AttemptOf
    <2> QED
      BY <2>1, ReadsKept
  <1>10. \A x \in Machines \ {m} : Holder'[x] = Holder[x]
    <2>1. \A x \in Machines \ {m}, i \in Ids :
             /\ Holds(i, x)' <=> Holds(i, x)
             /\ Holds(i, x) => op'[i].key = op[i].key
      BY <1>1, <1>3, <1>5, <1>6 DEF Holds
    <2> QED
      BY <2>1, ReadsKept
  <1>11. /\ Phase' = [Phase EXCEPT ![k] = "asked"]
         /\ Holder' = [Holder EXCEPT ![m] = k]
    BY <1>8, <1>9, <1>10, MappingShape
  <1> QED
    BY <1>7, <1>11 DEF Attempts!Ask

\* What a step on one row that stays the attempt of its plan does to the plan.
LEMMA RowMoves ==
  ASSUME LedgerInv, Reads, Reads', NEW i \in Ids, NEW r \in Row,
         op[i] \in Row, op[i].state \in LiveStates,
         op' = [op EXCEPT ![i] = r],
         r.key = op[i].key, r.machine = op[i].machine, r.state # "expired"
  PROVE  /\ op[i].key \in Keys
         /\ Phase[op[i].key] = PhaseOf(op[i].state)
         /\ Phase' = [Phase EXCEPT ![op[i].key] = PhaseOf(r.state)]
         /\ r.state \in LiveStates => Holder' = Holder
         /\ r.state \notin LiveStates => Holder' = Attempts!Released({op[i].key})
  <1> USE DEF LedgerInv
  <1>0. LiveStates \subseteq States \ {"expired"}
    BY DEF States, LiveStates, TerminalStates
  <1> DEFINE k == op[i].key
             m == op[i].machine
  <1>1. k \in Keys /\ m \in Machines /\ r.state \in States \ {"expired"}
    BY DEF Row
  <1>2. op'[i] = r /\ \A j \in Ids \ {i} : op'[j] = op[j]
    BY DEF TypeOK
  <1>3. AttemptOf(i, k) /\ AttemptOf(i, k)' /\ Holds(i, m)
    BY <1>0, <1>1, <1>2 DEF AttemptOf, Holds
  <1>4. Phase[k] = PhaseOf(op[i].state) /\ Holder[m] = k
    BY <1>1, <1>3 DEF Reads, PhaseReads, HolderReads
  <1>5. Phase'[k] = PhaseOf(r.state)
    <2>1. Phase'[k] = PhaseOf(op'[i].state)
      BY <1>1, <1>3 DEF Reads, PhaseReads
    <2> QED
      BY <1>2, <2>1
  <1>6. \A x \in Keys \ {k} : Phase'[x] = Phase[x]
    <2>1. \A x \in Keys \ {k}, j \in Ids :
             /\ AttemptOf(j, x)' <=> AttemptOf(j, x)
             /\ AttemptOf(j, x) => op'[j].state = op[j].state
      BY <1>2 DEF AttemptOf
    <2> QED
      BY <2>1, ReadsKept
  <1>7. \A x \in Machines \ {m} : Holder'[x] = Holder[x]
    <2>1. \A x \in Machines \ {m}, j \in Ids :
             /\ Holds(j, x)' <=> Holds(j, x)
             /\ Holds(j, x) => op'[j].key = op[j].key
      BY <1>2 DEF Holds
    <2> QED
      BY <2>1, ReadsKept
  <1>8. \A x \in Machines \ {m} : Holder[x] = k => k = NoKey
    <2> SUFFICES ASSUME NEW x \in Machines \ {m}, Holder[x] = k PROVE k = NoKey
      OBVIOUS
    <2>1. CASE \E j \in Ids : Holds(j, x)
      <3>1. PICK j \in Ids : Holds(j, x)
        BY <2>1
      <3>2. op[j].key = k /\ j # i
        BY <3>1 DEF Reads, HolderReads, Holds
      <3> QED
        BY <1>0, <1>3, <3>1, <3>2 DEF SingleAttempt, AttemptOf, Holds
    <2>2. CASE \A j \in Ids : ~Holds(j, x)
      BY <2>2 DEF Reads, HolderReads
    <2> QED
      BY <2>1, <2>2
  <1>9. ASSUME r.state \in LiveStates PROVE Holder' = Holder
    <2>1. Holds(i, m)'
      BY <1>2, <1>9 DEF Holds
    <2>2. Holder'[m] = op'[i].key
      BY <1>1, <2>1 DEF Reads, HolderReads
    <2> QED
      BY <1>2, <1>4, <1>7, <2>2, MappingShape
  <1>10. ASSUME r.state \notin LiveStates PROVE Holder' = Attempts!Released({k})
    <2>1. \A j \in Ids : ~Holds(j, m)'
      BY <1>2, <1>3, <1>10 DEF Holds, SingleActive
    <2>2. Holder'[m] = NoKey
      BY <1>1, <2>1 DEF Reads, HolderReads
    <2>3. \A x \in Machines :
             Holder'[x] = IF Holder[x] \in {k} THEN NoKey ELSE Holder[x]
      BY <1>4, <1>7, <1>8, <2>2
    <2> QED
      BY <2>3, MappingShape DEF Attempts!Released
  <1>11. Phase' = [Phase EXCEPT ![k] = PhaseOf(r.state)]
    BY <1>1, <1>5, <1>6, MappingShape
  <1> QED
    BY <1>1, <1>4, <1>9, <1>10, <1>11

\* The empty ledger: no plan asked for, no machine held.
LEMMA AttemptsInit == Init => Attempts!Init
  <1> SUFFICES ASSUME Init PROVE Attempts!Init
    OBVIOUS
  <1>1. LedgerInv
    BY LedgerInvInit
  <1>2. \A i \in Ids : op[i].state = "none"
    BY DEF Init, NoRow
  <1>3. "none" \notin States /\ "none" \notin LiveStates
    BY DEF States, LiveStates, TerminalStates
  <1>4. /\ \A k \in Keys : Phase[k] = "free"
        /\ \A m \in Machines : Holder[m] = NoKey
    BY <1>1, <1>2, <1>3, MappingReads
    DEF Reads, PhaseReads, HolderReads, AttemptOf, Holds
  <1> QED
    BY <1>4, MappingShape DEF Attempts!Init

\* Every committed transaction of the ledger is a step of PlanAttempts or none.
LEMMA AttemptsStep ==
  LedgerInv /\ LedgerInv' /\ [Next]_vars => [Attempts!Next]_(Attempts!avars)
  <1> SUFFICES ASSUME LedgerInv, LedgerInv', [Next]_vars
               PROVE  Attempts!Next \/ (Phase' = Phase /\ Holder' = Holder)
    BY DEF Attempts!avars
  <1>0. Reads /\ Reads'
    BY MappingReads, MappingReadsNext
  <1>1. CASE UNCHANGED <<op, events, lastId>>
    BY <1>1 DEF Phase, Holder, Rows, Active
  <1>2. CASE SweepStep
    BY <1>0, <1>2, SweepLapses DEF Attempts!Next
  <1>3. CASE InsertStep
    BY <1>0, <1>3, InsertAsks DEF Attempts!Next
  <1>4. CASE ConfirmStep
    <2>1. PICK i \in Ids, r \in Row :
            /\ op[i] \in Row
            /\ op[i].state = "pending_confirmation" /\ r.state = "authorized"
            /\ r.key = op[i].key /\ r.machine = op[i].machine
            /\ op' = [op EXCEPT ![i] = r]
      BY <1>4, ConfirmEffect DEF ConfirmStep, LedgerInv
    <2>2. /\ op[i].state \in LiveStates /\ r.state \in LiveStates
          /\ r.state # "expired"
      BY <2>1 DEF LiveStates
    <2>3. /\ op[i].key \in Keys /\ Phase[op[i].key] = PhaseOf(op[i].state)
          /\ Phase' = [Phase EXCEPT ![op[i].key] = PhaseOf(r.state)]
          /\ Holder' = Holder
      BY <1>0, <2>1, <2>2, RowMoves
    <2>4. Attempts!Clear(op[i].key)
      BY <2>1, <2>3, PhaseTable DEF Attempts!Clear
    <2> QED
      BY <2>3, <2>4 DEF Attempts!Next
  <1>5. CASE TransitionStep
    <2>1. PICK i \in Ids, to \in States :
            /\ op[i] \in Row /\ op[i].state \in LiveStates
            /\ to \in Transitions[op[i].state] \ {"authorized", "expired"}
            /\ op' = [op EXCEPT ![i] = [op[i] EXCEPT !.state = to]]
      BY <1>5, TransitionEffect DEF TransitionStep, LedgerInv
    <2> DEFINE r == [op[i] EXCEPT !.state = to]
               k == op[i].key
    <2>2. /\ r \in Row /\ r.key = k /\ r.machine = op[i].machine
          /\ r.state = to /\ to # "expired"
      BY <2>1 DEF Row
    <2>3. op' = [op EXCEPT ![i] = r]
      BY <2>1
    <2> HIDE DEF r
    <2>4. /\ k \in Keys /\ Phase[k] = PhaseOf(op[i].state)
          /\ Phase' = [Phase EXCEPT ![k] = PhaseOf(to)]
          /\ to \in LiveStates => Holder' = Holder
          /\ to \notin LiveStates => Holder' = Attempts!Released({k})
      BY <1>0, <2>1, <2>2, <2>3, RowMoves
    <2>5. CASE to \in TerminalStates \ {"expired"}
      <3>1. to \notin LiveStates /\ PhaseOf(to) = "settled"
        BY <2>5, PhaseTable DEF LiveStates, TerminalStates
      <3>2. Phase[k] \in {"asked", "cleared", "started"}
        BY <2>1, <2>4, PhaseTable
      <3>3. Attempts!Settle(k)
        BY <2>4, <3>1, <3>2 DEF Attempts!Settle
      <3> QED
        BY <2>4, <3>3 DEF Attempts!Next
    <2>6. CASE to \in LiveStates /\ op[i].state = "authorized"
               /\ PhaseOf(to) = "started"
      <3>1. Attempts!Start(k)
        BY <2>4, <2>6, PhaseTable DEF Attempts!Start
      <3> QED
        BY <2>4, <3>1 DEF Attempts!Next
    <2>7. CASE to \in LiveStates /\ PhaseOf(op[i].state) = "started"
               /\ PhaseOf(to) = "started"
      <3>1. Phase' = Phase
        BY <2>4, <2>7, MappingShape
      <3> QED
        BY <2>4, <2>7, <3>1
    <2> QED
      BY <2>1, <2>5, <2>6, <2>7, PhaseSteps
  <1> QED
    BY <1>1, <1>2, <1>3, <1>4, <1>5, TableSteps DEF LedgerInv

\* The ledger implements PlanAttempts: a plan that started or was settled stays
\* so, one that lapsed before it started may be asked for again, and a machine
\* has one holder, whatever the calls of however many processes do.
THEOREM ImplementsAttempts == Spec => ImplementsPlanAttempts
  <1>1. Spec => []LedgerInv
    BY LedgerInvariance
  <1> QED
    BY <1>1, AttemptsInit, AttemptsStep, PTL
    DEF Spec, ImplementsPlanAttempts, Attempts!Spec

=============================================================================
