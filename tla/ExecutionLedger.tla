--------------------------- MODULE ExecutionLedger ---------------------------
(***************************************************************************)
(* The durable operation ledger of the execution broker                    *)
(* (src/steam_agent/execution/ledger.py): one SQLite database that several *)
(* broker processes open at once.  A ledger method is one or two SQLite    *)
(* transactions; what it reads before a transaction (the wall clock, the   *)
(* row that transition() inspects) is held by the caller while the others  *)
(* go on, so each method is modelled as the reads that start the call      *)
(* followed by the transactions that finish it.                            *)
(*                                                                         *)
(* Abstracted: the plan document, appid, account and policy version of a   *)
(* row (never written after the insert); the schema/version refusal of     *)
(* _require_supported; the wording of details and errors.  A call that     *)
(* raises returns to "idle" and leaves the ledger as it was.               *)
(***************************************************************************)
EXTENDS OperationStates, Integers, Sequences

CONSTANTS
    Callers,          \* broker processes that hold a connection
    Keys,             \* idempotency (plan) keys
    Machines,         \* machine identities
    NoActor,          \* confirmation_actor IS NULL
    Actors,           \* who may confirm: "grant", "human", ...
    NonceTTL,         \* DEFAULT_NONCE_TTL_SECONDS, in clock ticks
    ExecutionWindow,  \* DEFAULT_EXECUTION_WINDOW_SECONDS, in clock ticks
    MaxOps,           \* bound: rows ever inserted
    MaxTime,          \* bound: readings of the clock
    MaxEvents         \* bound: events of a row (resume loops without end)

ASSUME BoundsAssumption ==
    /\ MaxOps \in Nat /\ MaxTime \in Nat /\ MaxEvents \in Nat
    /\ NonceTTL \in Nat \ {0} /\ ExecutionWindow \in Nat \ {0}

ASSUME ActorAssumption == NoActor \notin Actors

-----------------------------------------------------------------------------

VARIABLES
    op,      \* the operations table, by operation_id
    events,  \* the events table, by operation, in event_id order
    lastId,  \* the highest operation_id
    call,    \* the ledger call each process is in
    now      \* the wall clock

vars == <<op, events, lastId, call, now>>

Ids == 1 .. MaxOps
Time == 0 .. MaxTime
Stamps == 0 .. (MaxTime + NonceTTL + ExecutionWindow)

Null == 0   \* of a nonce or a time stamp that is SQL NULL

Row == [state: States, key: Keys, machine: Machines,
        nonce: Ids \cup {Null}, nonceExpires: Stamps,
        actor: Actors \cup {NoActor}, windowExpires: Stamps]

NoRow == [state |-> "none"]

Rows == 1 .. lastId
Active(i) == op[i].state \in LiveStates

Event == [from: States \cup {"none"}, to: States]

\* A process between two ledger calls, or what it has read before the
\* transaction that finishes the call it is in.
Idle == [at |-> "idle"]
Call ==
    {Idle}
    \cup [at: {"sweep", "swept", "request"}, time: Time, key: Keys,
          machine: Machines]
    \cup [at: {"confirm"}, time: Time, nonce: Ids, actor: Actors]
    \cup [at: {"expire"}, time: Time]
    \cup [at: {"transition"}, id: Ids, current: States, to: States]

Init ==
    /\ op = [i \in Ids |-> NoRow]
    /\ events = [i \in Ids |-> <<>>]
    /\ lastId = 0
    /\ call = [p \in Callers |-> Idle]
    /\ now = 0

\* The wall clock is not monotonic: it may also step back.
Tick ==
    /\ now' \in Time \ {now}
    /\ UNCHANGED <<op, events, lastId, call>>

Begin(p, c) ==
    /\ call[p] = Idle
    /\ call' = [call EXCEPT ![p] = c]
    /\ UNCHANGED <<op, events, lastId, now>>

Finish(p) == call' = [call EXCEPT ![p] = Idle]

\* A crash, or an error raised between two transactions: what the process
\* had read is lost, what it had committed stays.
Abandon(p) ==
    /\ call[p] # Idle
    /\ Finish(p)
    /\ UNCHANGED <<op, events, lastId, now>>

-----------------------------------------------------------------------------
(* expire_lapsed(): one transaction over every row, at a clock read before *)
(* it; request() runs it as a transaction of its own before the insert.    *)

Lapsed(r, t) ==
    \/ r.state = "pending_confirmation" /\ r.nonceExpires <= t
    \/ r.state = "authorized" /\ r.windowExpires <= t

Swept(t) ==
    [i \in Ids |-> IF Lapsed(op[i], t) THEN [op[i] EXCEPT !.state = "expired"]
                                       ELSE op[i]]

SweepEventFrom(i) == "pending_confirmation"   \* faulty: one from_state for both

FromState(i) == op[i].state

SweptEvents(t) ==
    [i \in Ids |->
       IF Lapsed(op[i], t)
       THEN Append(events[i], [from |-> FromState(i), to |-> "expired"])
       ELSE events[i]]

StartExpire(p) == Begin(p, [at |-> "expire", time |-> now])

ExpireLapsed(p) ==
    /\ call[p].at = "expire"
    /\ op' = Swept(call[p].time)
    /\ events' = SweptEvents(call[p].time)
    /\ Finish(p)
    /\ UNCHANGED <<lastId, now>>

-----------------------------------------------------------------------------
(* request(): sweep, read the clock again, insert. *)

StartRequest(p, k, m) ==
    Begin(p, [at |-> "sweep", time |-> now, key |-> k, machine |-> m])

SweepForRequest(p) ==
    /\ call[p].at = "sweep"
    /\ op' = Swept(call[p].time)
    /\ events' = SweptEvents(call[p].time)
    /\ call' = [call EXCEPT ![p].at = "swept"]
    /\ UNCHANGED <<lastId, now>>

ReadRequestClock(p) ==
    /\ call[p].at = "swept"
    /\ call' = [call EXCEPT ![p].at = "request", ![p].time = now]
    /\ UNCHANGED <<op, events, lastId, now>>

\* The SELECT for a duplicate and the index one_operation_per_plan_key share
\* this predicate.
DuplicateLiveKey(k) ==   \* faulty: a finished attempt no longer counts
    \E i \in Ids : op[i].state \in LiveStates /\ op[i].key = k

Duplicate(k) ==
    \E i \in Ids : op[i].state \in States \ {"expired"} /\ op[i].key = k

\* The index one_active_operation.
IndexedStatesCopied ==   \* faulty: a hand-written copy misses a state
    LiveStates \ {"interrupted"}

IndexedStates == LiveStates

MachineBusy(m) ==
    \E i \in Ids : op[i].state \in IndexedStates /\ op[i].machine = m

ExpiryInMinutes(t, ttl) == t + 60 * ttl   \* faulty: the unit of the TTL

Expiry(t, ttl) == t + ttl

NewRow(id, c) ==
    [state |-> "pending_confirmation", key |-> c.key, machine |-> c.machine,
     nonce |-> id, nonceExpires |-> Expiry(c.time, NonceTTL),
     actor |-> NoActor, windowExpires |-> Null]

\* Bound: at most MaxOps rows.  A nonce is unique (secrets.token_hex), so it
\* is named by the row it was minted for.
InsertRequest(p) ==
    LET c  == call[p]
        id == lastId + 1
    IN /\ c.at = "request"
       /\ ~Duplicate(c.key)
       /\ ~MachineBusy(c.machine)
       /\ lastId < MaxOps
       /\ op' = [op EXCEPT ![id] = NewRow(id, c)]
       /\ events' = [events EXCEPT ![id] =
                       Append(@, [from |-> "none", to |-> "pending_confirmation"])]
       /\ lastId' = id
       /\ Finish(p)
       /\ UNCHANGED now

\* LedgerError: the transaction rolls back.
RefuseRequest(p) ==
    /\ call[p].at = "request"
    /\ Duplicate(call[p].key) \/ MachineBusy(call[p].machine)
    /\ Finish(p)
    /\ UNCHANGED <<op, events, lastId, now>>

-----------------------------------------------------------------------------
(* confirm(): the clock is read, then one UPDATE ... RETURNING consumes the *)
(* nonce.                                                                  *)

StartConfirm(p, n, a) ==
    /\ n <= lastId
    /\ Begin(p, [at |-> "confirm", time |-> now, nonce |-> n, actor |-> a])

Confirmable(i, c) ==
    /\ op[i].state = "pending_confirmation"
    /\ op[i].nonce = c.nonce
    /\ op[i].nonceExpires > c.time

GrantedKeepingNonce(r, c) ==   \* faulty: the nonce is not consumed
    [r EXCEPT !.state = "authorized", !.actor = c.actor,
              !.windowExpires = Expiry(c.time, ExecutionWindow)]

Granted(r, c) ==
    [r EXCEPT !.state = "authorized", !.nonce = Null, !.nonceExpires = Null,
              !.actor = c.actor,
              !.windowExpires = Expiry(c.time, ExecutionWindow)]

Confirm(p) ==
    LET c == call[p]
    IN /\ c.at = "confirm"
       /\ \E i \in Ids :
            /\ Confirmable(i, c)
            /\ op' = [op EXCEPT ![i] = Granted(@, c)]
            /\ events' = [events EXCEPT ![i] =
                            Append(@, [from |-> "pending_confirmation",
                                       to |-> "authorized"])]
       /\ Finish(p)
       /\ UNCHANGED <<lastId, now>>

\* ConfirmationRejected
RejectConfirm(p) ==
    /\ call[p].at = "confirm"
    /\ ~ \E i \in Ids : Confirmable(i, call[p])
    /\ Finish(p)
    /\ UNCHANGED <<op, events, lastId, now>>

-----------------------------------------------------------------------------
(* transition(): get(), the expected_from and table checks, then a          *)
(* compare-and-set on the state it read.  No caller asks for "authorized"   *)
(* or "expired": those are confirm()'s and expire_lapsed()'s.               *)

StartTransition(p, i, to) ==
    /\ i <= lastId
    /\ to \in Transitions[op[i].state] \ {"authorized", "expired"}
    /\ Len(events[i]) < MaxEvents
    /\ Begin(p, [at |-> "transition", id |-> i, current |-> op[i].state,
                 to |-> to])

StillCurrentUnchecked(c) == TRUE   \* faulty: no "AND state=?" in the UPDATE

StillCurrent(c) == op[c.id].state = c.current

Transition(p) ==
    LET c == call[p]
    IN /\ c.at = "transition"
       /\ StillCurrent(c)
       /\ op' = [op EXCEPT ![c.id].state = c.to]
       /\ events' = [events EXCEPT ![c.id] =
                       Append(@, [from |-> c.current, to |-> c.to])]
       /\ Finish(p)
       /\ UNCHANGED <<lastId, now>>

\* InvalidTransition: operation state changed concurrently
LoseTransition(p) ==
    /\ call[p].at = "transition"
    /\ ~StillCurrent(call[p])
    /\ Finish(p)
    /\ UNCHANGED <<op, events, lastId, now>>

-----------------------------------------------------------------------------

CallerStep(p) ==
    \/ Abandon(p)
    \/ StartExpire(p) \/ ExpireLapsed(p)
    \/ \E k \in Keys, m \in Machines : StartRequest(p, k, m)
    \/ SweepForRequest(p) \/ ReadRequestClock(p)
    \/ InsertRequest(p) \/ RefuseRequest(p)
    \/ \E n \in Ids, a \in Actors : StartConfirm(p, n, a)
    \/ Confirm(p) \/ RejectConfirm(p)
    \/ \E i \in Ids, to \in States : StartTransition(p, i, to)
    \/ Transition(p) \/ LoseTransition(p)

Next == Tick \/ \E p \in Callers : CallerStep(p)

Spec == Init /\ [][Next]_vars

-----------------------------------------------------------------------------
(* Properties *)

\* The tables hold what the code can write: every row is complete, the row
\* of an identifier exists exactly when the identifier was given out.
TypeOK ==
    /\ op \in [Ids -> Row \cup {NoRow}]
    /\ events \in [Ids -> Seq(Event)]
    /\ lastId \in 0 .. MaxOps
    /\ call \in [Callers -> Call]
    /\ now \in Time
    /\ \A i \in Ids : op[i] = NoRow <=> i > lastId

\* request() and the index one_active_operation: whatever calls interleave,
\* a machine never has two operations that are not terminal.
SingleActive ==
    \A i, j \in Ids :
        /\ op[i].state \in LiveStates /\ op[j].state \in LiveStates
        /\ op[i].machine = op[j].machine
        => i = j

\* The index one_operation_per_plan_key: one idempotency key, one row that
\* has executed or still could.
SingleAttempt ==
    \A i, j \in Ids :
        /\ op[i].state \in States \ {"expired"}
        /\ op[j].state \in States \ {"expired"}
        /\ op[i].key = op[j].key
        => i = j

StartStates == {"lease_acquired", "dispatch_pending"}

EventsTo(i, S) == {n \in DOMAIN events[i] : events[i][n].to \in S}
AtMostOnce(i, S) == \A n, m \in EventsTo(i, S) : n = m
Started(i) == EventsTo(i, StartStates) # {}

\* "so a transport retry can never mint a second nonce for a plan that
\* already ran": the rows of a key that lapsed and were requested again
\* never started, so side effects begin at most once for a key.
StartedOncePerKey ==
    \A i, j \in Ids :
        Started(i) /\ Started(j) /\ op[i].key = op[j].key
        => i = j /\ AtMostOnce(i, StartStates)

\* An operation that started was confirmed exactly once, before it started,
\* by a recorded actor, and its nonce was consumed by that.
StartedWasConfirmed ==
    \A i \in Ids :
        Started(i) =>
            /\ op[i].actor # NoActor /\ op[i].nonce = Null
            /\ op[i].windowExpires # Null
            /\ EventsTo(i, {"authorized"}) # {}
            /\ AtMostOnce(i, {"authorized"})
            /\ \A n \in EventsTo(i, {"authorized"}), m \in EventsTo(i, StartStates) :
                   n < m

\* A chain of table steps from the creation of a row to state s.
TrailTo(e, s) ==
    /\ e # <<>>
    /\ e[1] = [from |-> "none", to |-> "pending_confirmation"]
    /\ e[Len(e)].to = s
    /\ \A n \in 2 .. Len(e) : /\ e[n].from = e[n - 1].to
                             /\ e[n].to \in Transitions[e[n].from]

\* "a crash can never advance durable state without its event":
\* the events of an operation lead, step by legal step, to its state.
AuditTrail ==
    \A i \in Ids :
        IF i > lastId THEN events[i] = <<>> ELSE TrailTo(events[i], op[i].state)

\* A terminal row is a receipt: no later call, however stale what it read,
\* changes any column of it.
ReceiptsAreFinal ==
    [][\A i \in Ids : op[i].state \in TerminalStates => op'[i] = op[i]]_vars

=============================================================================
