------------------------- MODULE BrokerIntake_proofs -------------------------
(***************************************************************************)
(* Which library an operation is taken in for, and that a request id stays *)
(* bound to its row, for any number of broker processes, libraries, plans  *)
(* and direct requests.                                                    *)
(*                                                                         *)
(* Both rest on the state lock: what a process read under it (the name of  *)
(* the library, that no row is live, that a request id is unknown) stays   *)
(* so until it lets go, since only Insert makes a row live and only        *)
(* WriteConfig renames the library, both under the lock.  What a run reads *)
(* under no lock is right while the row it is about is live (LoadedRight): *)
(* no row comes back to life.                                              *)
(***************************************************************************)
EXTENDS BrokerIntake, TLAPS

Steps ==
    {"idle", "init wait", "init check", "init write", "wait", "lookup", "policy", "insert",
     "grant", "auto", "components", "confirmed", "pick", "execute", "running"}
Held == {"init check", "init write", "lookup", "policy", "insert", "grant", "auto"}

RowRecords == [state: LiveStates \cup TerminalStates, open: BOOLEAN, request: Requests, to: Libraries]
Notes == [request: Requests \cup {"none"}, id: Ids \cup {0},
          lib: Libraries \cup {"none"}, bare: BOOLEAN]

IntakeTyped ==
    /\ lastId \in 0 .. MaxOps
    /\ op \in [Ids -> RowRecords \cup {NoRow}]
    /\ \A i \in Rows : op[i] \in RowRecords
    /\ library \in Libraries
    /\ pc \in [Procs -> Steps] /\ my \in [Procs -> Notes]

Alive(i) == op[i].state \in LiveStates

(* A live row is of the library that broker.json names.                     *)
LiveAtHome == \A i \in Rows : Alive(i) => op[i].to = library

(* What a process knows of the tables at each of its steps                  *)
HoldsLock(p) == pc[p] \in Held <=> stateLock = p
Asks(p) ==
    /\ pc[p] \in {"wait", "lookup", "policy", "insert", "grant", "auto"} => my[p].request \in Requests
    /\ pc[p] \in {"init wait", "init check", "init write"} => my[p].lib \in Libraries
KnowsLibrary(p) == pc[p] \in {"lookup", "policy", "insert"} => my[p].lib = library
KnowsNew(p) ==
    pc[p] \in {"policy", "insert"} /\ my[p].request \in DirectIds => Finds(my[p].request) = {}
KnowsIdle(p) == pc[p] = "init write" => ~Active
HasRow(p) ==
    pc[p] \in {"grant", "auto", "components", "confirmed", "execute", "running"} => my[p].id \in Rows
LoadedRight(p) ==
    pc[p] = "execute" /\ ~my[p].bare /\ Alive(my[p].id) => my[p].lib = op[my[p].id].to

PicksBare(p) == pc[p] = "pick" => my[p].bare

Knows(p) ==
    /\ HoldsLock(p) /\ Asks(p) /\ KnowsLibrary(p) /\ KnowsNew(p) /\ KnowsIdle(p)
    /\ HasRow(p) /\ LoadedRight(p) /\ PicksBare(p)

IntakeInv ==
    /\ IntakeTyped /\ LiveAtHome
    /\ \A p \in Procs : Knows(p)
    /\ RequestIdsBound /\ NamedRunsWhereTakenIn

-----------------------------------------------------------------------------
(* Facts about the shapes *)

LEMMA NothingNote == Nothing \in Notes /\ Nothing.bare = FALSE
  BY DEF Notes, Nothing

LEMMA NoteId ==
    ASSUME NEW n \in Notes, NEW i \in Ids
    PROVE  /\ [n EXCEPT !.id = i] \in Notes /\ [n EXCEPT !.id = i].id = i
           /\ [n EXCEPT !.id = i].request = n.request
           /\ [n EXCEPT !.id = i].bare = n.bare
  BY DEF Notes

LEMMA NoteLibrary ==
    ASSUME NEW n \in Notes, NEW l \in Libraries
    PROVE  /\ [n EXCEPT !.lib = l] \in Notes /\ [n EXCEPT !.lib = l].lib = l
           /\ [n EXCEPT !.lib = l].id = n.id
           /\ [n EXCEPT !.lib = l].request = n.request
  BY DEF Notes

LEMMA NoteRequest ==
    ASSUME NEW n \in Notes, NEW r \in Requests
    PROVE  [n EXCEPT !.request = r] \in Notes /\ [n EXCEPT !.request = r].request = r
  BY DEF Notes

LEMMA NoteBare ==
    ASSUME NEW n \in Notes, NEW l \in Libraries
    PROVE  /\ [n EXCEPT !.lib = l, !.bare = TRUE] \in Notes
           /\ [n EXCEPT !.lib = l, !.bare = TRUE].bare = TRUE
  BY DEF Notes

LEMMA RowsAreIds ==
    ASSUME IntakeTyped
    PROVE  /\ Rows \subseteq Ids /\ lastId \in Nat /\ MaxOps \in Nat
           /\ \A i \in Rows : i \in Nat /\ i <= lastId
           /\ \A i \in Ids : i <= lastId => i \in Rows
  BY IntakeAssumption, SMT DEF IntakeTyped, IntakeAssumption, Rows, Ids

(* A step of the rows that inserts none: the request and the library of a   *)
(* row stay, and none comes back to life.                                   *)
Settles ==
    /\ lastId' = lastId
    /\ op' \in [Ids -> RowRecords \cup {NoRow}]
    /\ \A i \in Rows : /\ op'[i] \in RowRecords
                       /\ op'[i].request = op[i].request /\ op'[i].to = op[i].to
                       /\ op'[i].state \in LiveStates => Alive(i)

LEMMA SameSettles ==
    ASSUME IntakeTyped, UNCHANGED <<op, lastId>>
    PROVE  Settles
  BY DEF IntakeTyped, Settles, Alive

LEMMA SweptSettles ==
    ASSUME IntakeTyped, op' = Swept(op), lastId' = lastId
    PROVE  Settles
  <1>1. ASSUME NEW i \in Ids, op[i] \in RowRecords
        PROVE  /\ op'[i] \in RowRecords
               /\ op'[i].request = op[i].request /\ op'[i].to = op[i].to
               /\ op'[i].state \in LiveStates => op[i].state \in LiveStates
    <2>1. op'[i] = IF op[i].state \in {"pending_confirmation", "authorized"} /\ ~op[i].open
                   THEN [op[i] EXCEPT !.state = "expired"] ELSE op[i]
      BY DEF Swept
    <2>2. /\ [op[i] EXCEPT !.state = "expired"] \in RowRecords
          /\ [op[i] EXCEPT !.state = "expired"].state = "expired"
          /\ [op[i] EXCEPT !.state = "expired"].request = op[i].request
          /\ [op[i] EXCEPT !.state = "expired"].to = op[i].to
      BY <1>1 DEF RowRecords, TerminalStates
    <2>3. "expired" \notin LiveStates
      BY DEF LiveStates
    <2> QED
      BY <1>1, <2>1, <2>2, <2>3
  <1>2. ASSUME NEW i \in Ids, op[i] = NoRow
        PROVE  op'[i] = NoRow
    <2>1. NoRow.state \notin {"pending_confirmation", "authorized"}
      BY DEF NoRow
    <2> QED
      BY <1>2, <2>1 DEF Swept
  <1>3. op' = [i \in Ids |-> op'[i]]
    BY DEF Swept
  <1>4. \A i \in Ids : op[i] \in RowRecords \cup {NoRow}
    BY DEF IntakeTyped
  <1>5. op' \in [Ids -> RowRecords \cup {NoRow}]
    BY <1>1, <1>2, <1>3, <1>4
  <1> QED
    BY <1>1, <1>5, RowsAreIds DEF Settles, IntakeTyped, Alive

LEMMA StateSettles ==
    ASSUME IntakeTyped, NEW i \in Rows, NEW s \in LiveStates \cup TerminalStates,
           s \in LiveStates => Alive(i),
           op' = [op EXCEPT ![i].state = s], lastId' = lastId
    PROVE  Settles
  <1>1. i \in Ids /\ op[i] \in RowRecords
    BY RowsAreIds DEF IntakeTyped
  <1> DEFINE new == [op[i] EXCEPT !.state = s]
  <1>2. new \in RowRecords /\ new.state = s /\ new.request = op[i].request /\ new.to = op[i].to
    BY <1>1 DEF RowRecords
  <1>3. op' = [op EXCEPT ![i] = new]
    OBVIOUS
  <1> HIDE DEF new
  <1>4. op' \in [Ids -> RowRecords \cup {NoRow}] /\ op'[i] = new
    BY <1>1, <1>2, <1>3 DEF IntakeTyped
  <1>5. \A j \in Rows : j # i => op'[j] = op[j]
    BY <1>3, RowsAreIds DEF IntakeTyped
  <1> QED
    BY <1>2, <1>4, <1>5 DEF Settles, IntakeTyped, Alive

LEMMA DenySettles ==
    ASSUME IntakeTyped, NEW i \in Rows, NEW from, Deny(i, from), lastId' = lastId
    PROVE  Settles
  <1>1. "aborted" \in TerminalStates /\ "aborted" \notin LiveStates
    BY DEF TerminalStates, LiveStates
  <1>2. CASE op[i].state = from
    BY <1>1, <1>2, StateSettles DEF Deny
  <1>3. CASE op[i].state # from
    BY <1>3, SameSettles DEF Deny
  <1> QED
    BY <1>2, <1>3

-----------------------------------------------------------------------------
(* A step of one process *)

(* The state lock stays, or is taken by p, or let go by p.                  *)
LockMoves(p) ==
    \/ stateLock' = stateLock
    \/ stateLock = NoProc /\ stateLock' = p
    \/ stateLock = p /\ stateLock' = NoProc

Moves(p) ==
    /\ pc' = [pc EXCEPT ![p] = pc'[p]] /\ pc'[p] \in Steps
    /\ my' = [my EXCEPT ![p] = my'[p]] /\ my'[p] \in Notes
    /\ LockMoves(p)

LEMMA GoMoves ==
    ASSUME IntakeTyped, NEW p \in Procs, NEW l \in Steps, NEW m \in Notes, Go(p, l, m), LockMoves(p)
    PROVE  Moves(p) /\ pc'[p] = l /\ my'[p] = m
  BY DEF IntakeTyped, Go, Moves

LEMMA UnlockMoves ==
    ASSUME NEW p \in Procs, Unlock(p)
    PROVE  LockMoves(p) /\ stateLock' # p
  BY IntakeAssumption DEF Unlock, LockMoves, IntakeAssumption

\* What the others know stays true.
LEMMA OthersKnow ==
    ASSUME IntakeInv, NEW p \in Procs, Moves(p), Settles, library' = library \/ pc[p] = "init write",
           NEW q \in Procs, q # p
    PROVE  Knows(q)'
  <1>1. pc'[q] = pc[q] /\ my'[q] = my[q]
    BY DEF Moves, IntakeInv, IntakeTyped
  <1>2. Knows(q) /\ Knows(p)
    BY DEF IntakeInv
  <1>3. HoldsLock(q)'
    BY <1>1, <1>2, IntakeAssumption DEF Knows, HoldsLock, Moves, LockMoves, IntakeAssumption
  <1>4. pc[q] \in {"lookup", "policy", "insert"} => library' = library
    BY <1>2 DEF Knows, HoldsLock, Held
  <1>5. Rows' = Rows /\ Finds(my[q].request)' = Finds(my[q].request)
    BY <1>1 DEF Settles, Rows, Finds
  <1>6. KnowsIdle(q)'
    BY <1>1, <1>2, <1>5 DEF Knows, KnowsIdle, Active, Settles, Alive
  <1>7. LoadedRight(q)'
    <2>1. pc[q] = "execute" => my[q].id \in Rows
      BY <1>2 DEF Knows, HasRow
    <2> QED
      BY <1>1, <1>2, <2>1 DEF Knows, LoadedRight, Alive, Settles
  <1>8. Asks(q)' /\ KnowsLibrary(q)' /\ KnowsNew(q)' /\ HasRow(q)' /\ PicksBare(q)'
    BY <1>1, <1>2, <1>4, <1>5 DEF Knows, Asks, KnowsLibrary, KnowsNew, HasRow, PicksBare
  <1> QED
    BY <1>3, <1>6, <1>7, <1>8 DEF Knows

LEMMA SettledStep ==
    ASSUME IntakeInv, NEW p \in Procs, Moves(p), Settles,
           library' = library \/ (pc[p] = "init write" /\ library' \in Libraries),
           Knows(p)', NamedRunsWhereTakenIn'
    PROVE  IntakeInv'
  <1>1. Rows' = Rows
    BY DEF Settles, Rows
  <1>2. IntakeTyped'
    BY <1>1 DEF IntakeInv, IntakeTyped, Settles, Moves
  <1>3. LiveAtHome'
    <2>1. CASE library' = library
      BY <1>1, <2>1 DEF IntakeInv, LiveAtHome, Settles, Alive
    <2>2. CASE pc[p] = "init write"
      BY <1>1, <2>2 DEF IntakeInv, Knows, KnowsIdle, Active, LiveAtHome, Settles, Alive
    <2> QED
      BY <2>1, <2>2
  <1>4. \A q \in Procs : Knows(q)'
    BY OthersKnow
  <1>5. RequestIdsBound'
    <2> SUFFICES ASSUME NEW i \in Rows, NEW j \in Rows, op'[i].request \in DirectIds,
                        op'[j].request = op'[i].request
                 PROVE  i = j
      BY <1>1 DEF RequestIdsBound
    <2>1. op'[i].request = op[i].request /\ op'[j].request = op[j].request
      BY DEF Settles
    <2> QED
      BY <2>1 DEF IntakeInv, RequestIdsBound
  <1> QED
    BY <1>2, <1>3, <1>4, <1>5 DEF IntakeInv

-----------------------------------------------------------------------------
(* The steps of init *)

LEMMA IntakeInitially == IntakeInit => IntakeInv
  <1> SUFFICES ASSUME IntakeInit PROVE IntakeInv
    OBVIOUS
  <1>1. Rows = {} /\ lastId \in 0 .. MaxOps
    BY IntakeAssumption, SMT DEF IntakeInit, Rows, IntakeAssumption
  <1>2. IntakeTyped
    BY <1>1 DEF IntakeInit, IntakeTyped, Notes, Nothing, Steps
  <1>3. \A p \in Procs : pc[p] = "idle" /\ stateLock # p
    BY IntakeAssumption DEF IntakeInit, IntakeAssumption
  <1>4. \A p \in Procs : Knows(p)
    BY <1>3 DEF Knows, HoldsLock, Held, Asks, KnowsLibrary, KnowsNew, KnowsIdle, HasRow, LoadedRight,
          PicksBare
  <1> QED
    BY <1>1, <1>2, <1>4 DEF IntakeInv, IntakeInit, LiveAtHome, RequestIdsBound, NamedRunsWhereTakenIn

\* A process that goes back to idle, having let go of the lock, knows nothing.
LEMMA LeavesKnows ==
    ASSUME IntakeInv, NEW p \in Procs, Leave(p), LockMoves(p), stateLock' # p
    PROVE  Moves(p) /\ Knows(p)'
  <1>1. Nothing \in Notes
    BY NothingNote DEF IntakeInv, IntakeTyped
  <1>2. Moves(p) /\ pc'[p] = "idle"
    BY <1>1, GoMoves DEF Leave, IntakeInv, Steps
  <1> QED
    BY <1>2 DEF Knows, HoldsLock, Held, Asks, KnowsLibrary, KnowsNew, KnowsIdle, HasRow, LoadedRight,
          PicksBare

LEMMA UnlockedLeave ==
    ASSUME IntakeInv, NEW p \in Procs, Leave(p), Unlock(p) \/ (stateLock' = stateLock /\ pc[p] \notin Held)
    PROVE  Moves(p) /\ Knows(p)'
  <1>1. CASE Unlock(p)
    BY <1>1, UnlockMoves, LeavesKnows
  <1>2. CASE stateLock' = stateLock /\ pc[p] \notin Held
    BY <1>2, LeavesKnows DEF IntakeInv, Knows, HoldsLock, LockMoves
  <1> QED
    BY <1>1, <1>2

LEMMA InitSteps ==
    ASSUME IntakeInv, NEW p \in Procs, BeginInit(p) \/ LockInit(p) \/ CheckInit(p) \/ WriteConfig(p)
    PROVE  IntakeInv'
  <1> USE DEF At, KeepRows, KeepFiles
  <1>1. my[p] \in Notes /\ IntakeTyped /\ Knows(p) /\ (strayed' = strayed => NamedRunsWhereTakenIn')
    BY DEF IntakeInv, IntakeTyped, NamedRunsWhereTakenIn
  <1> SUFFICES Moves(p) /\ Settles /\ Knows(p)'
    BY <1>1, SettledStep DEF BeginInit, LockInit, CheckInit, WriteConfig, Knows, Asks
  <1>2. CASE BeginInit(p)
    <2>1. PICK l \in Libraries : Go(p, "init wait", [Nothing EXCEPT !.lib = l])
      BY <1>2 DEF BeginInit
    <2>2. Nothing \in Notes
      BY <1>1, NothingNote
    <2>3. [Nothing EXCEPT !.lib = l] \in Notes /\ [Nothing EXCEPT !.lib = l].lib = l
      BY <2>2, NoteLibrary
    <2>4. Moves(p) /\ pc'[p] = "init wait" /\ my'[p].lib = l
      BY <1>1, <1>2, <2>1, <2>3, GoMoves DEF BeginInit, Steps, LockMoves
    <2>5. Knows(p)'
      BY <1>1, <1>2, <2>4
      DEF BeginInit, Knows, HoldsLock, Held, Asks, KnowsLibrary, KnowsNew, KnowsIdle, HasRow, LoadedRight,
          PicksBare
    <2> QED
      BY <1>1, <1>2, <2>4, <2>5, SameSettles DEF BeginInit
  <1>3. CASE LockInit(p)
    <2>1. Moves(p) /\ pc'[p] = "init check" /\ my'[p] = my[p] /\ stateLock' = p
      BY <1>1, <1>3, GoMoves DEF LockInit, Steps, LockMoves
    <2>2. Knows(p)'
      BY <1>1, <1>3, <2>1
      DEF LockInit, Knows, HoldsLock, Held, Asks, KnowsLibrary, KnowsNew, KnowsIdle, HasRow, LoadedRight,
          PicksBare
    <2> QED
      BY <1>1, <1>3, <2>1, <2>2, SameSettles DEF LockInit
  <1>4. CASE CheckInit(p)
    <2>1. Settles
      BY <1>1, <1>4, SweptSettles DEF CheckInit
    <2>2. CASE Leave(p) /\ Unlock(p)
      BY <2>1, <2>2, UnlockedLeave
    <2>3. CASE /\ ~(\E i \in Rows : op'[i].state \in LiveStates)
               /\ Go(p, "init write", my[p]) /\ UNCHANGED stateLock
      <3>1. Moves(p) /\ pc'[p] = "init write" /\ my'[p] = my[p]
        BY <1>1, <2>3, GoMoves DEF Steps, LockMoves
      <3>2. ~Active'
        BY <2>1, <2>3 DEF Active, Settles, Rows
      <3> QED
        BY <1>1, <1>4, <2>1, <2>3, <3>1, <3>2
        DEF CheckInit, Knows, HoldsLock, Held, Asks, KnowsLibrary, KnowsNew, KnowsIdle, HasRow, LoadedRight,
          PicksBare
    <2> QED
      BY <1>4, <2>2, <2>3 DEF CheckInit
  <1>5. CASE WriteConfig(p)
    BY <1>1, <1>5, UnlockedLeave, SameSettles DEF WriteConfig
  <1> QED
    BY <1>2, <1>3, <1>4, <1>5

-----------------------------------------------------------------------------
(* The steps of request, of the direct verbs and of confirm *)

LEMMA TakingSteps ==
    ASSUME IntakeInv, NEW p \in Procs, BeginIntake(p) \/ LockIntake(p) \/ Lookup(p) \/ ReadPolicy(p)
    PROVE  IntakeInv'
  <1> USE DEF At, KeepRows, KeepFiles
  <1>1. my[p] \in Notes /\ IntakeTyped /\ Knows(p) /\ (strayed' = strayed => NamedRunsWhereTakenIn')
    BY DEF IntakeInv, IntakeTyped, NamedRunsWhereTakenIn
  <1> SUFFICES Moves(p) /\ Settles /\ Knows(p)'
    BY <1>1, SettledStep DEF BeginIntake, LockIntake, Lookup, ReadPolicy
  <1>2. CASE BeginIntake(p)
    <2>1. PICK r \in Requests : Go(p, "wait", [Nothing EXCEPT !.request = r])
      BY <1>2 DEF BeginIntake
    <2>2. Nothing \in Notes
      BY <1>1, NothingNote
    <2>3. [Nothing EXCEPT !.request = r] \in Notes /\ [Nothing EXCEPT !.request = r].request = r
      BY <2>2, NoteRequest
    <2>4. Moves(p) /\ pc'[p] = "wait" /\ my'[p].request = r
      BY <1>1, <1>2, <2>1, <2>3, GoMoves DEF BeginIntake, Steps, LockMoves
    <2>5. Knows(p)'
      BY <1>1, <1>2, <2>4
      DEF BeginIntake, Knows, HoldsLock, Held, Asks, KnowsLibrary, KnowsNew, KnowsIdle, HasRow, LoadedRight,
          PicksBare
    <2> QED
      BY <1>1, <1>2, <2>4, <2>5, SameSettles DEF BeginIntake
  <1>3. CASE LockIntake(p)
    <2> DEFINE m == [my[p] EXCEPT !.lib = library]
               l == IF my[p].request \in Plans THEN "insert" ELSE "lookup"
    <2>1. library \in Libraries
      BY <1>1 DEF IntakeTyped
    <2>2. m \in Notes /\ m.lib = library /\ m.request = my[p].request
      BY <1>1, <2>1, NoteLibrary
    <2>3. l \in Steps /\ l \in {"insert", "lookup"} /\ (l = "insert" => my[p].request \in Plans)
      BY DEF Steps
    <2>4. Go(p, l, m) /\ LockMoves(p) /\ stateLock' = p
      BY <1>3 DEF LockIntake, LockMoves
    <2> HIDE DEF m, l
    <2>5. Moves(p) /\ pc'[p] = l /\ my'[p] = m
      BY <1>1, <2>2, <2>3, <2>4, GoMoves
    <2>6. my[p].request \in Requests /\ (l = "insert" => my[p].request \notin DirectIds)
      BY <1>1, <1>3, <2>3, IntakeAssumption DEF LockIntake, Knows, Asks, IntakeAssumption
    <2>7. Knows(p)'
      BY <1>3, <2>2, <2>3, <2>4, <2>5, <2>6
      DEF LockIntake, Knows, HoldsLock, Held, Asks, KnowsLibrary, KnowsNew, KnowsIdle, HasRow, LoadedRight,
          PicksBare
    <2> QED
      BY <1>1, <1>3, <2>5, <2>7, SameSettles DEF LockIntake
  <1>4. CASE Lookup(p)
    <2>1. Settles
      BY <1>1, <1>4, SweptSettles DEF Lookup
    <2>2. CASE Finds(my[p].request) = {} /\ Go(p, "policy", my[p]) /\ UNCHANGED stateLock
      <3>1. Moves(p) /\ pc'[p] = "policy" /\ my'[p] = my[p]
        BY <1>1, <2>2, GoMoves DEF Steps, LockMoves
      <3>2. Finds(my[p].request)' = Finds(my[p].request)
        BY <2>1, <3>1 DEF Finds, Settles, Rows
      <3> QED
        BY <1>1, <1>4, <2>1, <2>2, <3>1, <3>2
        DEF Lookup, Knows, HoldsLock, Held, Asks, KnowsLibrary, KnowsNew, KnowsIdle, HasRow, LoadedRight,
          PicksBare
    <2>3. ASSUME NEW i \in Rows, Go(p, "components", [my[p] EXCEPT !.id = i]), Unlock(p)
          PROVE  Moves(p) /\ Knows(p)'
      <3>1. i \in Ids /\ Rows' = Rows
        BY <1>1, <2>1, RowsAreIds DEF Settles, Rows
      <3>2. [my[p] EXCEPT !.id = i] \in Notes /\ [my[p] EXCEPT !.id = i].id = i
        BY <1>1, <3>1, NoteId
      <3>3. Moves(p) /\ pc'[p] = "components" /\ my'[p].id = i /\ stateLock' # p
        BY <1>1, <2>3, <3>2, GoMoves, UnlockMoves DEF Steps
      <3> QED
        BY <3>1, <3>3
        DEF Knows, HoldsLock, Held, Asks, KnowsLibrary, KnowsNew, KnowsIdle, HasRow, LoadedRight,
          PicksBare
    <2>4. CASE Leave(p) /\ Unlock(p)
      BY <2>1, <2>4, UnlockedLeave
    <2>5. \/ Finds(my[p].request) = {} /\ Go(p, "policy", my[p]) /\ UNCHANGED stateLock
          \/ Leave(p) /\ Unlock(p)
          \/ \E i \in Rows : Go(p, "components", [my[p] EXCEPT !.id = i]) /\ Unlock(p)
      <3>1. \A i \in Finds(my[p].request) : i \in Rows
        BY DEF Finds
      <3> QED
        BY <1>4, <3>1 DEF Lookup
    <2> QED
      BY <2>1, <2>2, <2>3, <2>4, <2>5
  <1>5. CASE ReadPolicy(p)
    <2>1. CASE Go(p, "insert", my[p]) /\ UNCHANGED stateLock
      <3>1. Moves(p) /\ pc'[p] = "insert" /\ my'[p] = my[p]
        BY <1>1, <2>1, GoMoves DEF Steps, LockMoves
      <3>2. Finds(my[p].request)' = Finds(my[p].request)
        BY <1>5, <3>1 DEF ReadPolicy, Finds, Rows
      <3> QED
        BY <1>1, <1>5, <2>1, <3>1, <3>2, SameSettles
        DEF ReadPolicy, Knows, HoldsLock, Held, Asks, KnowsLibrary, KnowsNew, KnowsIdle, HasRow, LoadedRight,
          PicksBare
    <2>2. CASE Leave(p) /\ Unlock(p)
      BY <1>1, <1>5, <2>2, UnlockedLeave, SameSettles DEF ReadPolicy
    <2> QED
      BY <1>5, <2>1, <2>2 DEF ReadPolicy
  <1> QED
    BY <1>2, <1>3, <1>4, <1>5

LEMMA GrantSteps ==
    ASSUME IntakeInv, NEW p \in Procs, Regrant(p) \/ AutoConfirm(p) \/ ConfirmVerb(p) \/ CheckConfirmed(p)
    PROVE  IntakeInv'
  <1> USE DEF At, KeepRows, KeepFiles
  <1>1. my[p] \in Notes /\ IntakeTyped /\ Knows(p) /\ (strayed' = strayed => NamedRunsWhereTakenIn')
    BY DEF IntakeInv, IntakeTyped, NamedRunsWhereTakenIn
  <1>2. "authorized" \in LiveStates
    BY DEF LiveStates
  <1>3. \A i \in Rows : Authorizable(i) => Alive(i)
    BY DEF Authorizable, Alive, LiveStates
  <1> SUFFICES Moves(p) /\ Settles /\ Knows(p)'
    BY <1>1, SettledStep DEF Regrant, AutoConfirm, ConfirmVerb, CheckConfirmed
  <1>4. CASE Regrant(p)
    <2>1. CASE Go(p, "auto", my[p]) /\ UNCHANGED stateLock
      <3>1. Moves(p) /\ pc'[p] = "auto" /\ my'[p] = my[p] /\ Rows' = Rows
        BY <1>1, <1>4, <2>1, GoMoves DEF Regrant, Steps, LockMoves, Rows
      <3> QED
        BY <1>1, <1>4, <2>1, <3>1, SameSettles
        DEF Regrant, Knows, HoldsLock, Held, Asks, KnowsLibrary, KnowsNew, KnowsIdle, HasRow, LoadedRight,
          PicksBare
    <2>2. CASE Leave(p) /\ Unlock(p)
      BY <1>1, <1>4, <2>2, UnlockedLeave, SameSettles DEF Regrant
    <2> QED
      BY <1>4, <2>1, <2>2 DEF Regrant
  <1>5. CASE AutoConfirm(p)
    <2>1. my[p].id \in Rows /\ Unlock(p) /\ lastId' = lastId
      BY <1>1, <1>5 DEF AutoConfirm, Knows, HasRow
    <2>2. Settles
      BY <1>1, <1>2, <1>3, <1>5, <2>1, StateSettles, SameSettles DEF AutoConfirm
    <2>3. CASE Leave(p)
      BY <2>1, <2>2, <2>3, UnlockedLeave
    <2>4. CASE Go(p, "components", my[p])
      <3>1. Moves(p) /\ pc'[p] = "components" /\ my'[p] = my[p] /\ Rows' = Rows /\ stateLock' # p
        BY <1>1, <2>1, <2>4, GoMoves, UnlockMoves DEF Steps, Rows
      <3> QED
        BY <2>1, <2>2, <3>1
        DEF Knows, HoldsLock, Held, Asks, KnowsLibrary, KnowsNew, KnowsIdle, HasRow, LoadedRight,
          PicksBare
    <2> QED
      BY <1>5, <2>3, <2>4 DEF AutoConfirm
  <1>6. CASE ConfirmVerb(p)
    <2>1. PICK i \in Rows : /\ Authorizable(i)
                            /\ op' = [op EXCEPT ![i].state = "authorized"]
                            /\ Go(p, "confirmed", [Nothing EXCEPT !.id = i])
      BY <1>6 DEF ConfirmVerb
    <2>2. Settles
      BY <1>1, <1>2, <1>3, <1>6, <2>1, StateSettles DEF ConfirmVerb
    <2>3. i \in Ids /\ Rows' = Rows /\ Nothing \in Notes
      BY <1>1, <2>2, RowsAreIds, NothingNote DEF Settles, Rows
    <2>4. [Nothing EXCEPT !.id = i] \in Notes /\ [Nothing EXCEPT !.id = i].id = i
      BY <2>3, NoteId
    <2>5. Moves(p) /\ pc'[p] = "confirmed" /\ my'[p].id = i
      BY <1>1, <1>6, <2>1, <2>4, GoMoves DEF ConfirmVerb, Steps, LockMoves
    <2> QED
      BY <1>1, <1>6, <2>2, <2>3, <2>5
      DEF ConfirmVerb, Knows, HoldsLock, Held, Asks, KnowsLibrary, KnowsNew, KnowsIdle, HasRow, LoadedRight,
          PicksBare
  <1>7. CASE CheckConfirmed(p)
    <2>1. my[p].id \in Rows /\ pc[p] \notin Held /\ stateLock' = stateLock /\ lastId' = lastId
      BY <1>1, <1>7 DEF CheckConfirmed, Knows, HasRow, Held
    <2>2. Settles
      BY <1>1, <1>7, <2>1, DenySettles, SameSettles DEF CheckConfirmed
    <2> QED
      BY <1>7, <2>1, <2>2, UnlockedLeave DEF CheckConfirmed
  <1> QED
    BY <1>4, <1>5, <1>6, <1>7

-----------------------------------------------------------------------------
(* The row a request inserts *)

LEMMA InsertStep ==
    ASSUME IntakeInv, NEW p \in Procs, Insert(p)
    PROVE  IntakeInv'
  <1> USE DEF At, KeepFiles
  <1>1. /\ my[p] \in Notes /\ IntakeTyped /\ Knows(p) /\ NamedRunsWhereTakenIn'
        /\ pc[p] = "insert" /\ stateLock = p /\ library' = library
    BY DEF IntakeInv, IntakeTyped, NamedRunsWhereTakenIn, Insert, Knows, HoldsLock, Held
  <1> DEFINE rows == Swept(op)
             id == lastId + 1
             refused == \E i \in Rows :
                          \/ rows[i].state \in LiveStates
                          \/ rows[i].request = my[p].request /\ rows[i].state # "expired"
             new == [state |-> "pending_confirmation", open |-> TRUE,
                     request |-> my[p].request, to |-> my[p].lib]
  <1>2. CASE op' = rows /\ UNCHANGED lastId /\ Leave(p) /\ Unlock(p)
    BY <1>1, <1>2, SweptSettles, UnlockedLeave, SettledStep
  <1>3. CASE /\ ~refused /\ lastId < MaxOps /\ op' = [rows EXCEPT ![id] = new] /\ lastId' = id
             /\ Go(p, "grant", [my[p] EXCEPT !.id = id]) /\ UNCHANGED stateLock
    <2>1. lastId \in Nat /\ MaxOps \in Nat /\ lastId < MaxOps /\ lastId' = lastId + 1
      BY <1>1, <1>3, RowsAreIds
    <2>2. id \in Ids /\ id \notin Rows /\ Rows' = Rows \cup {id} /\ Rows \subseteq Ids /\ lastId' \in 0 .. MaxOps
      BY <2>1, SMT DEF Ids, Rows
    <2>3. new \in RowRecords /\ new.request = my[p].request /\ new.to = my[p].lib
      <3>1. my[p].request \in Requests /\ my[p].lib = library /\ library \in Libraries
        BY <1>1 DEF Knows, Asks, KnowsLibrary, IntakeTyped
      <3> QED
        BY <3>1 DEF RowRecords, LiveStates
    \* The sweep before the insert settles the rows.
    <2>4. /\ rows \in [Ids -> RowRecords \cup {NoRow}]
          /\ \A i \in Rows : /\ rows[i] \in RowRecords
                             /\ rows[i].request = op[i].request /\ rows[i].to = op[i].to
                             /\ rows[i].state \in LiveStates => Alive(i)
      <3>1. ASSUME NEW i \in Ids, op[i] \in RowRecords
            PROVE  /\ rows[i] \in RowRecords
                   /\ rows[i].request = op[i].request /\ rows[i].to = op[i].to
                   /\ rows[i].state \in LiveStates => op[i].state \in LiveStates
        <4>1. /\ [op[i] EXCEPT !.state = "expired"] \in RowRecords
              /\ [op[i] EXCEPT !.state = "expired"].state = "expired"
              /\ [op[i] EXCEPT !.state = "expired"].request = op[i].request
              /\ [op[i] EXCEPT !.state = "expired"].to = op[i].to
          BY <3>1 DEF RowRecords, TerminalStates
        <4>2. "expired" \notin LiveStates
          BY DEF LiveStates
        <4> QED
          BY <3>1, <4>1, <4>2 DEF Swept
      <3>2. ASSUME NEW i \in Ids, op[i] = NoRow
            PROVE  rows[i] = NoRow
        <4>1. NoRow.state \notin {"pending_confirmation", "authorized"}
          BY DEF NoRow
        <4> QED
          BY <3>2, <4>1 DEF Swept
      <3>3. rows \in [Ids -> RowRecords \cup {NoRow}]
        BY <1>1, <3>1, <3>2 DEF Swept, IntakeTyped
      <3> QED
        BY <1>1, <2>2, <3>1, <3>3 DEF IntakeTyped, Alive
    <2> HIDE DEF rows, new, id
    <2>5. /\ op' \in [Ids -> RowRecords \cup {NoRow}] /\ op'[id] = new
          /\ \A i \in Rows : op'[i] = rows[i]
      BY <1>3, <2>2, <2>3, <2>4
    <2>6. [my[p] EXCEPT !.id = id] \in Notes /\ [my[p] EXCEPT !.id = id].id = id
          /\ [my[p] EXCEPT !.id = id].request = my[p].request
      <3>1. id \in Ids /\ my[p] \in Notes
        BY <1>1, <2>2
      <3> QED
        BY ONLY <3>1, NoteId
    <2>7. Moves(p) /\ pc'[p] = "grant" /\ my'[p].id = id /\ my'[p].request = my[p].request
      BY <1>1, <1>3, <2>6, GoMoves DEF Steps, LockMoves
    <2>8. IntakeTyped'
      BY <1>1, <2>2, <2>3, <2>4, <2>5, <2>7 DEF IntakeTyped, Moves
    \* No other row is live, so the new one may be; it is of the library read
    \* under the lock.
    <2>9. LiveAtHome'
      BY <1>1, <1>3, <2>2, <2>3, <2>4, <2>5 DEF LiveAtHome, Alive, Knows, KnowsLibrary
    <2>10. RequestIdsBound'
      <3> SUFFICES ASSUME NEW i \in Rows', NEW j \in Rows', op'[i].request \in DirectIds,
                          op'[j].request = op'[i].request
                   PROVE  i = j
        BY DEF RequestIdsBound
      <3>1. my[p].request \in DirectIds => \A k \in Rows : op[k].request # my[p].request
        BY <1>1 DEF Knows, KnowsNew, Finds
      <3>2. CASE i \in Rows /\ j \in Rows
        BY <2>4, <2>5, <3>2 DEF IntakeInv, RequestIdsBound
      <3>3. CASE i = id /\ j \in Rows
        BY <2>3, <2>4, <2>5, <3>1, <3>3
      <3>4. CASE j = id /\ i \in Rows
        BY <2>3, <2>4, <2>5, <3>1, <3>4
      <3> QED
        BY <2>2, <3>2, <3>3, <3>4
    <2>11. ASSUME NEW q \in Procs
           PROVE  Knows(q)'
      <3>1. CASE q = p
        BY <1>1, <1>3, <2>2, <2>7, <3>1
        DEF Knows, HoldsLock, Held, Asks, KnowsLibrary, KnowsNew, KnowsIdle, HasRow, LoadedRight,
          PicksBare
      <3>2. CASE q # p
        <4>1. pc'[q] = pc[q] /\ my'[q] = my[q] /\ stateLock' = stateLock /\ Knows(q)
          BY <1>3, <2>7, <3>2 DEF Moves, IntakeInv, IntakeTyped
        <4>2. pc[q] \notin Held
          BY <1>1, <3>2, <4>1 DEF Knows, HoldsLock
        <4>3. LoadedRight(q)'
          <5>1. pc[q] = "execute" => my[q].id \in Rows
            BY <4>1 DEF Knows, HasRow
          <5> QED
            BY <2>4, <2>5, <4>1, <5>1 DEF Knows, LoadedRight, Alive
        <4> QED
          BY <1>1, <2>2, <4>1, <4>2, <4>3
          DEF Knows, HoldsLock, Held, Asks, KnowsLibrary, KnowsNew, KnowsIdle, HasRow, PicksBare
      <3> QED
        BY <3>1, <3>2
    <2> QED
      BY <1>1, <2>8, <2>9, <2>10, <2>11 DEF IntakeInv
  <1> QED
    BY <1>2, <1>3 DEF Insert

-----------------------------------------------------------------------------
(* The steps of run, and those of nobody *)

LEMMA RunSteps ==
    ASSUME IntakeInv, NEW p \in Procs, BeginRun(p) \/ LoadComponents(p) \/ Pick(p)
    PROVE  IntakeInv'
  <1> USE DEF At, KeepRows, KeepFiles
  <1>1. my[p] \in Notes /\ Nothing \in Notes /\ library \in Libraries /\ IntakeTyped /\ Knows(p)
        /\ (strayed' = strayed => NamedRunsWhereTakenIn')
    BY NothingNote DEF IntakeInv, IntakeTyped, NamedRunsWhereTakenIn
  <1> SUFFICES Moves(p) /\ Settles /\ Knows(p)'
    BY <1>1, SettledStep DEF BeginRun, LoadComponents, Pick
  <1>2. CASE BeginRun(p)
    <2>1. Settles /\ pc[p] \notin Held /\ stateLock' = stateLock /\ stateLock # p /\ Rows' = Rows
      BY <1>1, <1>2, SameSettles DEF BeginRun, Held, Knows, HoldsLock, Rows
    <2>2. CASE Go(p, "pick", [Nothing EXCEPT !.lib = library, !.bare = TRUE])
      <3>1. /\ [Nothing EXCEPT !.lib = library, !.bare = TRUE] \in Notes
            /\ [Nothing EXCEPT !.lib = library, !.bare = TRUE].bare = TRUE
        BY ONLY <1>1, NoteBare
      <3>2. Moves(p) /\ pc'[p] = "pick" /\ my'[p].bare
        BY <1>1, <2>1, <2>2, <3>1, GoMoves DEF Steps, LockMoves
      <3> QED
        BY <2>1, <3>2
        DEF Knows, HoldsLock, Held, Asks, KnowsLibrary, KnowsNew, KnowsIdle, HasRow, LoadedRight,
          PicksBare
    <2>3. ASSUME NEW i \in Rows, Go(p, "execute", [Nothing EXCEPT !.lib = library, !.id = i])
          PROVE  Moves(p) /\ Knows(p)'
      <3> DEFINE m == [Nothing EXCEPT !.lib = library, !.id = i]
      <3>1. i \in Ids
        BY <1>1, RowsAreIds
      <3>2. m \in Notes /\ m.lib = library /\ m.id = i
        <4>1. /\ [Nothing EXCEPT !.lib = library, !.id = i] \in Notes
              /\ [Nothing EXCEPT !.lib = library, !.id = i].lib = library
              /\ [Nothing EXCEPT !.lib = library, !.id = i].id = i
          BY <1>1, <3>1 DEF Notes, Nothing
        <4> QED
          BY <4>1
      <3> HIDE DEF m
      <3>3. Moves(p) /\ pc'[p] = "execute" /\ my'[p] = m
        BY <1>1, <2>1, <2>3, <3>2, GoMoves DEF Steps, LockMoves, m
      <3>4. LoadedRight(p)'
        BY <1>2, <3>2, <3>3 DEF BeginRun, LoadedRight, IntakeInv, LiveAtHome, Alive
      <3> QED
        BY <2>1, <3>2, <3>3, <3>4
        DEF Knows, HoldsLock, Held, Asks, KnowsLibrary, KnowsNew, KnowsIdle, HasRow, PicksBare
    <2> QED
      BY <1>2, <2>1, <2>2, <2>3 DEF BeginRun
  <1>3. CASE LoadComponents(p)
    <2> DEFINE m == [my[p] EXCEPT !.lib = library]
    <2>1. Settles /\ stateLock' = stateLock /\ stateLock # p /\ Rows' = Rows /\ my[p].id \in Rows
      BY <1>1, <1>3, SameSettles DEF LoadComponents, Held, Knows, HoldsLock, HasRow, Rows
    <2>2. m \in Notes /\ m.lib = library /\ m.id = my[p].id
      BY ONLY <1>1, NoteLibrary DEF m
    <2> HIDE DEF m
    <2>3. Moves(p) /\ pc'[p] = "execute" /\ my'[p] = m
      BY <1>1, <1>3, <2>1, <2>2, GoMoves DEF LoadComponents, Steps, LockMoves, m
    <2>4. LoadedRight(p)'
      BY <1>3, <2>1, <2>2, <2>3 DEF LoadComponents, LoadedRight, IntakeInv, LiveAtHome, Alive
    <2> QED
      BY <2>1, <2>2, <2>3, <2>4
      DEF Knows, HoldsLock, Held, Asks, KnowsLibrary, KnowsNew, KnowsIdle, HasRow, PicksBare
  <1>4. CASE Pick(p)
    <2>1. Settles /\ stateLock' = stateLock /\ stateLock # p /\ pc[p] \notin Held /\ Rows' = Rows
      BY <1>1, <1>4, SweptSettles DEF Pick, Held, Knows, HoldsLock, Rows
    <2>2. ASSUME NEW i \in Rows, Go(p, "execute", [my[p] EXCEPT !.id = i]), my[p].bare
          PROVE  Moves(p) /\ Knows(p)'
      <3> DEFINE m == [my[p] EXCEPT !.id = i]
      <3>1. i \in Ids
        BY <1>1, RowsAreIds
      <3>2. m \in Notes /\ m.bare = my[p].bare /\ m.id = i
        BY ONLY <1>1, <3>1, NoteId DEF m
      <3> HIDE DEF m
      <3>3. Moves(p) /\ pc'[p] = "execute" /\ my'[p] = m
        BY <1>1, <2>1, <2>2, <3>2, GoMoves DEF Steps, LockMoves, m
      <3> QED
        BY <2>1, <2>2, <3>2, <3>3
        DEF Knows, HoldsLock, Held, Asks, KnowsLibrary, KnowsNew, KnowsIdle, HasRow, LoadedRight,
          PicksBare
    <2>3. my[p].bare
      BY <1>1, <1>4 DEF Pick, Knows, PicksBare
    <2> QED
      BY <1>4, <2>1, <2>2, <2>3, UnlockedLeave DEF Pick
  <1> QED
    BY <1>2, <1>3, <1>4

\* What was read of broker.json for a live row is still what it says.
LEMMA ExecuteStep ==
    ASSUME IntakeInv, NEW p \in Procs, Execute(p)
    PROVE  IntakeInv'
  <1> USE DEF At, KeepFiles
  <1>1. /\ my[p] \in Notes /\ IntakeTyped /\ Knows(p) /\ my[p].id \in Rows /\ lastId' = lastId
        /\ pc[p] = "execute" /\ stateLock' = stateLock /\ stateLock # p /\ library' = library
        /\ NamedRunsWhereTakenIn
    BY DEF IntakeInv, IntakeTyped, Execute, Held, Knows, HoldsLock, HasRow
  <1>2. CASE /\ op[my[p].id].state \in {"authorized", "interrupted"}
             /\ op' = [op EXCEPT ![my[p].id].state = "content_running"]
             /\ strayed' = strayed \cup (IF op[my[p].id].to = my[p].lib THEN {}
                                         ELSE {IF my[p].bare THEN "bare" ELSE "named"})
             /\ Go(p, "running", my[p])
    <2>1. Alive(my[p].id) /\ "content_running" \in LiveStates
      BY <1>2 DEF Alive, LiveStates
    <2>2. Settles
      BY <1>1, <1>2, <2>1, StateSettles
    <2>3. Rows' = Rows
      BY <1>1 DEF Rows
    <2>4. NamedRunsWhereTakenIn'
      <3>1. ~my[p].bare => op[my[p].id].to = my[p].lib
        BY <1>1, <2>1 DEF Knows, LoadedRight
      <3> QED
        BY <1>1, <1>2, <3>1 DEF NamedRunsWhereTakenIn
    <2>5. Moves(p) /\ pc'[p] = "running" /\ my'[p] = my[p]
      BY <1>1, <1>2, GoMoves DEF Steps, LockMoves
    <2>6. Knows(p)'
      BY <1>1, <2>3, <2>5
      DEF Knows, HoldsLock, Held, Asks, KnowsLibrary, KnowsNew, KnowsIdle, HasRow, LoadedRight,
          PicksBare
    <2> QED
      BY <1>1, <2>2, <2>4, <2>5, <2>6, SettledStep
  <1>3. CASE Deny(my[p].id, op[my[p].id].state) /\ Leave(p) /\ strayed' = strayed
    BY <1>1, <1>3, DenySettles, UnlockedLeave, SettledStep DEF NamedRunsWhereTakenIn, Held
  <1>4. CASE Leave(p) /\ UNCHANGED <<op, strayed>>
    BY <1>1, <1>4, SameSettles, UnlockedLeave, SettledStep DEF NamedRunsWhereTakenIn, Held
  <1> QED
    BY <1>2, <1>3, <1>4 DEF Execute

LEMMA EndingSteps ==
    ASSUME IntakeInv, NEW p \in Procs, Conclude(p) \/ Crash(p)
    PROVE  IntakeInv'
  <1> USE DEF At, KeepRows, KeepFiles
  <1>1. IntakeTyped /\ Knows(p) /\ NamedRunsWhereTakenIn' /\ library' = library /\ Leave(p)
    BY DEF IntakeInv, NamedRunsWhereTakenIn, Conclude, Crash
  <1>2. CASE Conclude(p)
    <2>1. my[p].id \in Rows /\ pc[p] \notin Held /\ stateLock' = stateLock /\ lastId' = lastId
      BY <1>1, <1>2 DEF Conclude, Knows, HasRow, Held
    <2>2. PICK to \in {"confirmed", "failed"} : op' = [op EXCEPT ![my[p].id].state = to]
      BY <1>2 DEF Conclude
    <2>3. to \in TerminalStates /\ to \notin LiveStates
      BY DEF TerminalStates, LiveStates
    <2>4. Settles
      BY <1>1, <2>1, <2>2, <2>3, StateSettles
    <2> QED
      BY <1>1, <2>1, <2>4, UnlockedLeave, SettledStep
  <1>3. CASE Crash(p)
    BY <1>1, <1>3, SameSettles, UnlockedLeave, SettledStep DEF Crash
  <1> QED
    BY <1>2, <1>3

LEMMA NobodyMoves ==
    ASSUME IntakeInv, Settles, UNCHANGED <<library, stateLock, pc, my, strayed>>
    PROVE  IntakeInv'
  <1>1. Rows' = Rows
    BY DEF Settles, Rows
  <1>2. IntakeTyped' /\ LiveAtHome' /\ NamedRunsWhereTakenIn'
    BY <1>1 DEF IntakeInv, IntakeTyped, LiveAtHome, NamedRunsWhereTakenIn, Settles, Alive
  <1>3. ASSUME NEW q \in Procs
        PROVE  Knows(q)'
    <2>1. Knows(q) /\ pc'[q] = pc[q] /\ my'[q] = my[q]
      BY DEF IntakeInv
    <2>2. Finds(my[q].request)' = Finds(my[q].request)
      BY <1>1 DEF Settles, Finds
    <2>3. KnowsIdle(q)'
      BY <1>1, <2>1 DEF Knows, KnowsIdle, Active, Settles, Alive
    <2>4. LoadedRight(q)'
      <3>1. pc[q] = "execute" => my[q].id \in Rows
        BY <2>1 DEF Knows, HasRow
      <3> QED
        BY <2>1, <3>1 DEF Knows, LoadedRight, Alive, Settles
    <2> QED
      BY <1>1, <2>1, <2>2, <2>3, <2>4
      DEF Knows, HoldsLock, Asks, KnowsLibrary, KnowsNew, HasRow, PicksBare
  <1>4. RequestIdsBound'
    <2> SUFFICES ASSUME NEW i \in Rows, NEW j \in Rows, op'[i].request \in DirectIds,
                        op'[j].request = op'[i].request
                 PROVE  i = j
      BY <1>1 DEF RequestIdsBound
    <2>1. op'[i].request = op[i].request /\ op'[j].request = op[j].request
      BY DEF Settles
    <2> QED
      BY <2>1 DEF IntakeInv, RequestIdsBound
  <1> QED
    BY <1>2, <1>3, <1>4 DEF IntakeInv

LEMMA NobodySteps ==
    ASSUME IntakeInv, EditPolicy \/ Lapse \/ (\E p \in Procs : Interrupt(p)) \/ UNCHANGED ivars
    PROVE  IntakeInv'
  <1> USE DEF KeepRows, KeepFiles
  <1>1. IntakeTyped
    BY DEF IntakeInv
  <1>2. CASE EditPolicy \/ UNCHANGED ivars
    BY <1>1, <1>2, SameSettles, NobodyMoves DEF EditPolicy, ivars
  <1>3. CASE Lapse
    <2>1. PICK i \in Rows : op' = [op EXCEPT ![i].open = FALSE]
      BY <1>3 DEF Lapse
    <2>2. i \in Ids /\ op[i] \in RowRecords
      BY <1>1, RowsAreIds DEF IntakeTyped
    <2> DEFINE new == [op[i] EXCEPT !.open = FALSE]
    <2>3. new \in RowRecords /\ new.state = op[i].state /\ new.request = op[i].request /\ new.to = op[i].to
      BY <2>2 DEF RowRecords
    <2>4. op' = [op EXCEPT ![i] = new]
      BY <2>1
    <2> HIDE DEF new
    <2>5. op' \in [Ids -> RowRecords \cup {NoRow}] /\ op'[i] = new
      BY <1>1, <2>2, <2>3, <2>4 DEF IntakeTyped
    <2>6. \A j \in Rows : j # i => op'[j] = op[j]
      BY <1>1, <2>4, RowsAreIds DEF IntakeTyped
    <2>7. Settles
      BY <1>1, <1>3, <2>3, <2>5, <2>6 DEF Lapse, Settles, IntakeTyped, Alive
    <2> QED
      BY <1>3, <2>7, NobodyMoves DEF Lapse
  <1>4. CASE \E p \in Procs : Interrupt(p)
    <2>1. PICK i \in Rows : /\ op[i].state \in {"content_running", "interrupted"}
                            /\ op' = [op EXCEPT ![i].state = IF op[i].open THEN "interrupted" ELSE "failed"]
      BY <1>4 DEF Interrupt
    <2>2. Alive(i) /\ "interrupted" \in LiveStates /\ "failed" \in TerminalStates
      BY <2>1 DEF Alive, LiveStates, TerminalStates
    <2>3. Settles
      BY <1>1, <1>4, <2>1, <2>2, StateSettles DEF Interrupt
    <2> QED
      BY <1>4, <2>3, NobodyMoves DEF Interrupt
  <1> QED
    BY <1>2, <1>3, <1>4

LEMMA IntakeStep == IntakeInv /\ [IntakeNext]_ivars => IntakeInv'
  BY InitSteps, TakingSteps, GrantSteps, InsertStep, RunSteps, ExecuteStep, EndingSteps, NobodySteps
  DEF IntakeNext

LEMMA IntakeAlways == IntakeSpec => []IntakeInv
  BY IntakeInitially, IntakeStep, PTL DEF IntakeSpec

-----------------------------------------------------------------------------
(* A run of a named operation, by the direct verbs or by hand, works on the *)
(* library the operation was taken in for (_components, _cmd_run).          *)
THEOREM NamedRunsStay == IntakeSpec => []NamedRunsWhereTakenIn
  <1>1. IntakeInv => NamedRunsWhereTakenIn
    BY DEF IntakeInv
  <1> QED
    BY <1>1, IntakeAlways, PTL

(* A direct request id has one row, whatever is retried, lapses or crashes  *)
(* (record_or_reuse).                                                       *)
THEOREM RequestIdsAreBound == IntakeSpec => []RequestIdsBound
  <1>1. IntakeInv => RequestIdsBound
    BY DEF IntakeInv
  <1> QED
    BY <1>1, IntakeAlways, PTL

(* broker.json never changes under a live row (init, under the state lock). *)
THEOREM ConfigIsHeld == IntakeSpec => ConfigHeldWhileActive
  <1>1. ASSUME IntakeInv, [IntakeNext]_ivars
        PROVE  [Active => library' = library]_ivars
    <2>1. ASSUME NEW p \in Procs, WriteConfig(p)
          PROVE  ~Active
      <3>1. pc[p] = "init write"
        BY <2>1 DEF WriteConfig, At
      <3>2. KnowsIdle(p)
        BY <1>1 DEF IntakeInv, Knows
      <3> QED
        BY <3>1, <3>2 DEF KnowsIdle
    <2>2. ASSUME NEW p \in Procs,
                 \/ BeginInit(p) \/ LockInit(p) \/ CheckInit(p) \/ BeginIntake(p) \/ LockIntake(p)
                 \/ Lookup(p) \/ ReadPolicy(p) \/ Insert(p) \/ Regrant(p) \/ AutoConfirm(p)
                 \/ ConfirmVerb(p) \/ CheckConfirmed(p) \/ BeginRun(p) \/ LoadComponents(p)
                 \/ Pick(p) \/ Execute(p) \/ Conclude(p) \/ Interrupt(p) \/ Crash(p)
          PROVE  library' = library
      BY <2>2 DEF BeginInit, LockInit, CheckInit, BeginIntake, LockIntake, Lookup, ReadPolicy, Insert,
          Regrant, AutoConfirm, ConfirmVerb, CheckConfirmed, BeginRun, LoadComponents, Pick, Execute,
          Conclude, Interrupt, Crash, KeepFiles
    <2>3. ASSUME EditPolicy \/ Lapse \/ UNCHANGED ivars
          PROVE  library' = library
      BY <2>3 DEF EditPolicy, Lapse, KeepFiles, ivars
    <2>4. \/ \E p \in Procs : WriteConfig(p)
          \/ library' = library
      BY <1>1, <2>2, <2>3 DEF IntakeNext
    <2> QED
      BY <2>1, <2>4
  <1> QED
    BY <1>1, IntakeAlways, PTL DEF IntakeSpec, ConfigHeldWhileActive

=============================================================================
