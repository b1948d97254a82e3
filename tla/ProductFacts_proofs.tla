------------------------- MODULE ProductFacts_proofs -------------------------
(***************************************************************************)
(* The facts of the product store that a provider answered for one title   *)
(* at a time (SubjectSync) and the catalogue's (CatalogSync), as           *)
(* ProductStore instantiates them: the inductive invariant of each over    *)
(* the actions of its module.  ProductStore_proofs carries both over to    *)
(* StoreSpec.                                                              *)
(***************************************************************************)
EXTENDS ProductStore, FiniteSetTheorems, TLAPS

(***************************************************************************)
(* Of numbers there is a least, and of bounded numbers a greatest.         *)
(***************************************************************************)
LEMMA LeastNatural ==
    ASSUME NEW T \in SUBSET Nat, T # {}
    PROVE  \E x \in T : \A y \in T : x <= y
  <1>1. PICK x \in T : \A y \in T : <<y, x>> \notin OpToRel(<, Nat)
    BY NatLessThanWellFounded, WFMin
  <1>2. \A y \in T : ~(y < x)
    BY <1>1, Zenon DEF OpToRel
  <1> QED
    BY <1>2

LEMMA GreatestNatural ==
    ASSUME NEW n \in Nat, NEW T \in SUBSET (0 .. n), T # {}
    PROVE  \E x \in T : \A y \in T : y <= x
  <1> DEFINE U == {n - x : x \in T}
  <1>1. U \in SUBSET Nat /\ U # {}
    <2>1. \A x \in T : n - x \in Nat
      OBVIOUS
    <2> QED
      BY <2>1
  <1>2. PICK u \in U : \A v \in U : u <= v
    BY <1>1, LeastNatural
  <1>3. PICK x \in T : u = n - x
    BY <1>2
  <1>4. \A y \in T : n - x <= n - y
    BY <1>2, <1>3
  <1>5. \A y \in T : y \in Int
    OBVIOUS
  <1> QED
    BY <1>3, <1>4, <1>5

-----------------------------------------------------------------------------
(***************************************************************************)
(* SubjectSync.  A transaction works on a copy of the four tables; what    *)
(* follows is stated of any such copy.                                     *)
(***************************************************************************)
Rows(db) ==
    /\ db = [runs |-> db.runs, by |-> db.by, demand |-> db.demand, fact |-> db.fact]
    /\ db.runs \in [Subject!RunIds -> Subject!RunRecords]
    /\ db.by \in [Subject!RunIds -> Subject!Holders]
    /\ db.demand \in [Subject!RunIds -> [Apps -> Subject!Demands]]
    /\ db.fact \in [Subject!Holders -> [Apps -> Subject!Facts]]

\* A run that is not there demands nothing, and one that ended awaits nothing.
DemandsOfRuns(db) ==
    \A r \in Subject!RunIds, a \in Apps :
        /\ db.runs[r].status = "absent" => db.demand[r][a].state = "none"
        /\ db.demand[r][a].state = "running" => db.runs[r].status = "running"

FactRests(db, h, a) ==
    LET f == db.fact[h][a] IN
    /\ f.run # 0 =>
        /\ f.known
        /\ db.runs[f.run].status # "absent" /\ Subject!Holder(db.by[f.run]) = h
        /\ db.demand[f.run][a].state = "ready" /\ db.demand[f.run][a].at = f.at
    /\ kind = "reviews" /\ f.known => f.run # 0
FactsRest(db) == \A h \in Subject!Holders, a \in Apps : FactRests(db, h, a)

Sound(db) == Rows(db) /\ DemandsOfRuns(db) /\ FactsRest(db)

Asks(db, r, a) == db.runs[r].status = "running" /\ db.demand[r][a].state = "running"
OneAsks(db) ==
    kind # "achievements" =>
        \A a \in Apps : \A q, r \in Subject!RunIds :
            Asks(db, q, a) /\ Asks(db, r, a) /\ (kind = "reviews" => db.by[q] = db.by[r]) => q = r

NotOpened(n) == \A r \in Subject!RunIds : r >= n => runs[r].status = "absent"

CommandOf(p) ==                \* a command's run is its account's, or gone
    proc[p].pc # "idle" =>
        /\ proc[p].run \in Subject!RunIds /\ proc[p].run < nextRun
        /\ runs[proc[p].run].status # "absent" => by[proc[p].run] = proc[p].acct

SubjectShapes ==
    /\ kind \in Subject!Kinds /\ nextRun \in Nat \ {0}
    /\ wishlist \in [Accounts -> SUBSET Apps] /\ accounts \subseteq Accounts
    /\ proc \in [Proc -> [pc: {"idle", "running"}, acct: Subject!Holders,
                          run: 0 .. SubjectRuns]]

SubjectInv ==
    /\ SubjectShapes
    /\ Sound(Subject!Tables) /\ OneAsks(Subject!Tables)
    /\ NotOpened(nextRun) /\ \A p \in Proc : CommandOf(p)

Nameless(f) == [f EXCEPT !.run = 0]
Fades(f, g) == g \in {f, Subject!NoFact, Nameless(f)}

\* What pruning, closing and deleting leave of the tables.
RunsLessen(d0, d1) ==
    \A r \in Subject!RunIds :
        /\ d1.runs[r].status # "absent" =>
            /\ d0.runs[r].status # "absent" /\ d1.runs[r].started = d0.runs[r].started
            /\ d1.by[r] = d0.by[r]
        /\ d1.runs[r].status = "running" => d0.runs[r].status = "running"
        /\ \A a \in Apps : d1.demand[r][a].state = "running" => d0.demand[r][a].state = "running"
FactsFade(d0, d1) == \A h \in Subject!Holders, a \in Apps : Fades(d0.fact[h][a], d1.fact[h][a])
Lessens(d0, d1) == RunsLessen(d0, d1) /\ FactsFade(d0, d1)

LEMMA LessensOnward ==
    ASSUME NEW d0, NEW d1, NEW d2, Lessens(d0, d1), Lessens(d1, d2)
    PROVE  Lessens(d0, d2)
  <1>1. \A r \in Subject!RunIds :
          /\ d2.runs[r].status # "absent" =>
              /\ d0.runs[r].status # "absent" /\ d2.runs[r].started = d0.runs[r].started
              /\ d2.by[r] = d0.by[r]
          /\ d2.runs[r].status = "running" => d0.runs[r].status = "running"
          /\ \A a \in Apps : d2.demand[r][a].state = "running" => d0.demand[r][a].state = "running"
    BY DEF Lessens, RunsLessen, FactsFade
  <1>2. ASSUME NEW h \in Subject!Holders, NEW a \in Apps
        PROVE  Fades(d0.fact[h][a], d2.fact[h][a])
    <2>1. Fades(d0.fact[h][a], d1.fact[h][a]) /\ Fades(d1.fact[h][a], d2.fact[h][a])
      BY DEF Lessens, RunsLessen, FactsFade
    <2>2. ASSUME NEW f, NEW g, NEW k, Fades(f, g), Fades(g, k)
          PROVE  Fades(f, k)
      <3>1. Nameless(Subject!NoFact) = Subject!NoFact
        BY DEF Subject!NoFact, Nameless
      <3>2. Nameless(Nameless(f)) = Nameless(f)
        BY DEF Nameless
      <3> QED
        BY <2>2, <3>1, <3>2 DEF Fades
    <2> QED
      BY <2>1, <2>2
  <1> QED
    BY <1>1, <1>2 DEF Lessens, RunsLessen, FactsFade

LEMMA SubjectTyped ==
    ASSUME Subject!SyncRunsAssumption
    PROVE  /\ 0 \in Subject!Times /\ Subject!Times \subseteq Int
           /\ SubjectRuns \in Nat /\ Subject!RunIds \subseteq Nat \ {0} /\ Subject!RunIds = 1 .. SubjectRuns
           /\ Subject!NoRun \in Subject!RunRecords /\ Subject!NoRun.status = "absent"
           /\ Subject!NoFact \in Subject!Facts /\ Subject!NoFact.run = 0 /\ ~Subject!NoFact.known
           /\ Subject!NoDemand \in Subject!Demands /\ Subject!NoDemand.state = "none"
  <1>1. 0 \in Subject!Times /\ Subject!Times \subseteq Int
    BY SMT DEF Subject!Times, Subject!SyncRunsAssumption
  <1>2. SubjectRuns \in Nat /\ Subject!RunIds = 1 .. SubjectRuns
    BY DEF Subject!SyncRunsAssumption, Subject!RunIds
  <1> QED
    BY <1>1, <1>2 DEF Subject!NoRun, Subject!RunRecords, Subject!Statuses, Subject!NoFact, Subject!Facts,
        Subject!NoDemand, Subject!Demands, Subject!States

LEMMA FactTyped ==
    ASSUME Subject!SyncRunsAssumption, NEW f \in Subject!Facts
    PROVE  /\ f.run # 0 => f.run \in Subject!RunIds
           /\ Nameless(f) \in Subject!Facts /\ Nameless(f).run = 0
  <1>1. f.run \in 0 .. SubjectRuns /\ f.known \in BOOLEAN /\ f.at \in Subject!Times
    BY DEF Subject!Facts
  <1>2. f = [known |-> f.known, run |-> f.run, at |-> f.at]
    BY DEF Subject!Facts
  <1>3. Nameless(f) = [known |-> f.known, run |-> 0, at |-> f.at]
    BY <1>2 DEF Nameless
  <1> QED
    BY <1>1, <1>3, SubjectTyped DEF Subject!Facts

\* Facts that go leave the rest as it was.
LEMMA FactsGone ==
    ASSUME NEW db, Rows(db), DemandsOfRuns(db), NEW F \in [Subject!Holders -> [Apps -> Subject!Facts]],
           Subject!SyncRunsAssumption,
           \A h \in Subject!Holders, a \in Apps :
              F[h][a] = Subject!NoFact \/ (F[h][a] = db.fact[h][a] /\ FactRests(db, h, a))
    PROVE  Sound([db EXCEPT !.fact = F]) /\ Lessens(db, [db EXCEPT !.fact = F])
  <1> DEFINE d1 == [db EXCEPT !.fact = F]
  <1>1. d1 = [runs |-> db.runs, by |-> db.by, demand |-> db.demand, fact |-> F]
    BY DEF Rows
  <1>2. d1.runs = db.runs /\ d1.by = db.by /\ d1.demand = db.demand /\ d1.fact = F
    BY <1>1
  <1> HIDE DEF d1
  <1>3. Rows(d1) /\ DemandsOfRuns(d1)
    BY <1>1, <1>2 DEF Rows, DemandsOfRuns
  <1>4. ASSUME NEW h \in Subject!Holders, NEW a \in Apps
        PROVE  FactRests(d1, h, a) /\ Fades(db.fact[h][a], d1.fact[h][a])
    <2>1. CASE F[h][a] = Subject!NoFact
      BY <1>2, <2>1, SubjectTyped DEF FactRests, Fades
    <2>2. CASE F[h][a] = db.fact[h][a] /\ FactRests(db, h, a)
      BY <1>2, <2>2 DEF FactRests, Fades
    <2> QED
      BY <2>1, <2>2
  <1>5. Sound(d1)
    BY <1>3, <1>4 DEF Sound, FactsRest
  <1>6. Lessens(db, d1)
    BY <1>2, <1>4 DEF Lessens, RunsLessen, FactsFade
  <1> QED
    BY <1>5, <1>6 DEF d1

\* Runs that go take their demand with them, and their name from the facts.
LEMMA RunsGone ==
    ASSUME Subject!SyncRunsAssumption, NEW db, Sound(db), NEW S
    PROVE  /\ Rows(Subject!DropRuns(db, S)) /\ DemandsOfRuns(Subject!DropRuns(db, S))
           /\ Lessens(db, Subject!DropRuns(db, S))
           /\ \A h \in Subject!Holders, a \in Apps :
                (kind = "reviews" => db.fact[h][a].run \notin S) =>
                    FactRests(Subject!DropRuns(db, S), h, a)
           /\ \A r \in Subject!RunIds : r \in S => Subject!DropRuns(db, S).runs[r].status = "absent"
  <1> DEFINE d1 == Subject!DropRuns(db, S)
  <1>1. d1 = [runs |-> d1.runs, by |-> d1.by, demand |-> d1.demand, fact |-> d1.fact]
    BY DEF Subject!DropRuns
  <1>2. /\ d1.runs = [r \in Subject!RunIds |-> IF r \in S THEN Subject!NoRun ELSE db.runs[r]]
        /\ d1.by = [r \in Subject!RunIds |-> IF r \in S THEN Everyone ELSE db.by[r]]
        /\ d1.demand = [r \in Subject!RunIds |-> IF r \in S THEN [a \in Apps |-> Subject!NoDemand]
                                                 ELSE db.demand[r]]
    BY DEF Subject!DropRuns, Subject!Without
  <1>3. d1.fact = [h \in Subject!Holders |-> [a \in Apps |->
                    IF db.fact[h][a].run \notin S THEN db.fact[h][a]
                    ELSE IF kind = "achievements" THEN Subject!NoFact
                    ELSE Nameless(db.fact[h][a])]]
    BY DEF Subject!DropRuns, Nameless
  <1>4. \A h \in Subject!Holders, a \in Apps :
          d1.fact[h][a] = IF db.fact[h][a].run \notin S THEN db.fact[h][a]
                          ELSE IF kind = "achievements" THEN Subject!NoFact
                          ELSE Nameless(db.fact[h][a])
    BY <1>3
  <1>5. \A h \in Subject!Holders, a \in Apps :
          /\ db.fact[h][a] \in Subject!Facts
          /\ Nameless(db.fact[h][a]) \in Subject!Facts /\ Nameless(db.fact[h][a]).run = 0
          /\ db.fact[h][a].run # 0 => db.fact[h][a].run \in Subject!RunIds
    BY FactTyped DEF Sound, Rows
  <1> HIDE DEF d1
  <1>6. Everyone \in Subject!Holders
    BY DEF Subject!Holders
  <1>7. d1.fact \in [Subject!Holders -> [Apps -> Subject!Facts]]
    <2>1. \A h \in Subject!Holders, a \in Apps : d1.fact[h][a] \in Subject!Facts
      BY <1>4, <1>5, SubjectTyped
    <2>2. d1.fact = [h \in Subject!Holders |-> [a \in Apps |-> d1.fact[h][a]]]
      BY <1>3
    <2> QED
      BY <2>1, <2>2
  <1>8. d1.runs \in [Subject!RunIds -> Subject!RunRecords] /\ d1.by \in [Subject!RunIds -> Subject!Holders]
    BY <1>2, <1>6, SubjectTyped DEF Sound, Rows
  <1>9. d1.demand \in [Subject!RunIds -> [Apps -> Subject!Demands]]
    BY <1>2, SubjectTyped DEF Sound, Rows
  <1>10. Rows(d1)
    BY <1>1, <1>7, <1>8, <1>9 DEF Rows
  <1>11. \A r \in Subject!RunIds :
           /\ d1.runs[r] = IF r \in S THEN Subject!NoRun ELSE db.runs[r]
           /\ r \notin S => d1.by[r] = db.by[r] /\ d1.demand[r] = db.demand[r]
           /\ r \in S => \A a \in Apps : d1.demand[r][a] = Subject!NoDemand
    BY <1>2
  <1>12. DemandsOfRuns(d1)
    BY <1>11, SubjectTyped DEF DemandsOfRuns, Sound
  <1>13. Lessens(db, d1)
    <2>1. \A h \in Subject!Holders, a \in Apps : Fades(db.fact[h][a], d1.fact[h][a])
      BY <1>4 DEF Fades
    <2> QED
      BY <1>11, <2>1, SubjectTyped DEF Lessens, RunsLessen, FactsFade
  <1>14. ASSUME NEW h \in Subject!Holders, NEW a \in Apps, kind = "reviews" => db.fact[h][a].run \notin S
         PROVE  FactRests(d1, h, a)
    <2>1. FactRests(db, h, a)
      BY DEF Sound, FactsRest
    <2>2. CASE db.fact[h][a].run \notin S
      <3>1. d1.fact[h][a] = db.fact[h][a]
        BY <1>4, <2>2
      <3>2. db.fact[h][a].run # 0 => db.fact[h][a].run \in Subject!RunIds
        BY <1>5
      <3> QED
        BY <1>11, <2>1, <2>2, <3>1, <3>2, SMTT(20) DEF FactRests
    <2>3. CASE db.fact[h][a].run \in S
      <3>1. d1.fact[h][a].run = 0 /\ kind # "reviews"
        BY <1>4, <1>5, <1>14, <2>3, SubjectTyped
      <3> QED
        BY <3>1 DEF FactRests
    <2> QED
      BY <2>2, <2>3
  <1>15. \A r \in Subject!RunIds : r \in S => d1.runs[r].status = "absent"
    BY <1>11, SubjectTyped
  <1> QED
    BY <1>10, <1>12, <1>13, <1>14, <1>15 DEF d1

\* The demand of a run given up is answered: nobody waits for it any more.
LEMMA UnansweredRow ==
    ASSUME NEW x \in Subject!Demands, NEW t \in Subject!Times
    PROVE  /\ Subject!Unanswered(x, t) \in Subject!Demands
           /\ Subject!Unanswered(x, t).state # "running"
           /\ x.state # "running" => Subject!Unanswered(x, t) = x
           /\ x.state = "running" => Subject!Unanswered(x, t).state = "unevaluated"
  <1>1. CASE x.state = "running"
    <2>1. Subject!Unanswered(x, t) =
            [state |-> "unevaluated", at |-> t, promoted |-> x.promoted, good |-> x.good]
      BY <1>1 DEF Subject!Unanswered, Subject!Demands
    <2> QED
      BY <1>1, <2>1 DEF Subject!Demands, Subject!States
  <1>2. CASE x.state # "running"
    BY <1>2 DEF Subject!Unanswered
  <1> QED
    BY <1>1, <1>2

\* Runs end and targets are answered; a ready answer is not touched.
LEMMA RunsEnd ==
    ASSUME Subject!SyncRunsAssumption, NEW db, Sound(db),
           NEW R \in [Subject!RunIds -> Subject!RunRecords],
           NEW D \in [Subject!RunIds -> [Apps -> Subject!Demands]],
           \A r \in Subject!RunIds :
               /\ R[r].status = "absent" <=> db.runs[r].status = "absent"
               /\ R[r].status = "running" => db.runs[r].status = "running"
               /\ R[r].started = db.runs[r].started,
           \A r \in Subject!RunIds, a \in Apps :
               /\ db.demand[r][a].state # "running" => D[r][a] = db.demand[r][a]
               /\ D[r][a].state = "running" => R[r].status = "running"
    PROVE  /\ Sound([runs |-> R, by |-> db.by, demand |-> D, fact |-> db.fact])
           /\ Lessens(db, [runs |-> R, by |-> db.by, demand |-> D, fact |-> db.fact])
  <1> DEFINE d1 == [runs |-> R, by |-> db.by, demand |-> D, fact |-> db.fact]
  <1>1. d1.runs = R /\ d1.by = db.by /\ d1.demand = D /\ d1.fact = db.fact
    OBVIOUS
  <1>2. Rows(d1)
    BY DEF Sound, Rows
  <1> HIDE DEF d1
  <1>3. DemandsOfRuns(d1)
    BY <1>1 DEF Sound, DemandsOfRuns
  <1>4. FactsRest(d1)
    <2> SUFFICES ASSUME NEW h \in Subject!Holders, NEW a \in Apps
                 PROVE  FactRests(d1, h, a)
      BY DEF FactsRest
    <2>1. FactRests(db, h, a) /\ db.fact[h][a] \in Subject!Facts
      BY DEF Sound, FactsRest, Rows
    <2>2. db.fact[h][a].run # 0 => db.fact[h][a].run \in Subject!RunIds
      BY <2>1, FactTyped
    <2> QED
      BY <1>1, <2>1, <2>2, SMTT(20) DEF FactRests
  <1>5. RunsLessen(db, d1) /\ FactsFade(db, d1)
    BY <1>1 DEF RunsLessen, FactsFade, Fades
  <1> QED
    BY <1>2, <1>3, <1>4, <1>5 DEF Sound, Lessens, d1

LEMMA AbandonedEnds ==
    ASSUME Subject!SyncRunsAssumption, NEW db, Sound(db), NEW t \in Subject!Times, NEW S,
           \A r \in S : db.runs[r].status = "running"
    PROVE  Sound(Subject!Interrupted(db, S, t)) /\ Lessens(db, Subject!Interrupted(db, S, t))
  <1> DEFINE R == [r \in Subject!RunIds |->
                     IF r \in S THEN [db.runs[r] EXCEPT !.status = "failed"] ELSE db.runs[r]]
             D == [r \in Subject!RunIds |-> [a \in Apps |->
                     IF r \in S THEN Subject!Unanswered(db.demand[r][a], t) ELSE db.demand[r][a]]]
             d1 == Subject!Interrupted(db, S, t)
  <1>1. d1 = [runs |-> R, by |-> db.by, demand |-> D, fact |-> db.fact]
    <2>1. db = [runs |-> db.runs, by |-> db.by, demand |-> db.demand, fact |-> db.fact]
      BY DEF Sound, Rows
    <2>2. d1 = [db EXCEPT !.runs = R, !.demand = D]
      BY DEF Subject!Interrupted
    <2> HIDE DEF d1, R, D
    <2> QED
      BY <2>1, <2>2
  <1>2. \A r \in Subject!RunIds :
          /\ r \notin S => R[r] = db.runs[r]
          /\ r \in S => R[r].status = "failed" /\ R[r].started = db.runs[r].started
          /\ R[r] \in Subject!RunRecords
    <2> SUFFICES ASSUME NEW r \in Subject!RunIds
                 PROVE  /\ r \notin S => R[r] = db.runs[r]
                        /\ r \in S => R[r].status = "failed" /\ R[r].started = db.runs[r].started
                        /\ R[r] \in Subject!RunRecords
      OBVIOUS
    <2>1. db.runs[r] \in Subject!RunRecords
      BY DEF Sound, Rows
    <2>2. [db.runs[r] EXCEPT !.status = "failed"] =
            [status |-> "failed", started |-> db.runs[r].started, completed |-> db.runs[r].completed,
             promoted |-> db.runs[r].promoted]
      BY <2>1 DEF Subject!RunRecords
    <2> QED
      BY <2>1, <2>2 DEF Subject!RunRecords, Subject!Statuses
  <1>3. \A r \in Subject!RunIds, a \in Apps :
          /\ D[r][a] \in Subject!Demands
          /\ db.demand[r][a].state # "running" => D[r][a] = db.demand[r][a]
          /\ D[r][a].state = "running" => r \notin S /\ db.runs[r].status = "running"
    <2> SUFFICES ASSUME NEW r \in Subject!RunIds, NEW a \in Apps
                 PROVE  /\ D[r][a] \in Subject!Demands
                        /\ db.demand[r][a].state # "running" => D[r][a] = db.demand[r][a]
                        /\ D[r][a].state = "running" => r \notin S /\ db.runs[r].status = "running"
      OBVIOUS
    <2>1. /\ db.demand[r][a] \in Subject!Demands
          /\ db.demand[r][a].state = "running" => db.runs[r].status = "running"
      BY DEF Sound, Rows, DemandsOfRuns
    <2> QED
      BY <2>1, UnansweredRow
  <1>4. R = [r \in Subject!RunIds |-> R[r]] /\ D = [r \in Subject!RunIds |-> [a \in Apps |-> D[r][a]]]
    OBVIOUS
  <1> HIDE DEF d1, R, D
  <1>5. R \in [Subject!RunIds -> Subject!RunRecords]
    BY <1>2, <1>4
  <1>6. D \in [Subject!RunIds -> [Apps -> Subject!Demands]]
    BY <1>3, <1>4
  <1>7. \A r \in Subject!RunIds :
          /\ R[r].status = "absent" <=> db.runs[r].status = "absent"
          /\ R[r].status = "running" => db.runs[r].status = "running"
          /\ R[r].started = db.runs[r].started
    BY <1>2
  <1>8. \A r \in Subject!RunIds, a \in Apps :
          /\ db.demand[r][a].state # "running" => D[r][a] = db.demand[r][a]
          /\ D[r][a].state = "running" => R[r].status = "running"
    BY <1>2, <1>3
  <1>9. Sound(d1) /\ Lessens(db, d1)
    BY <1>1, <1>5, <1>6, <1>7, <1>8, RunsEnd
  <1> QED
    BY <1>9 DEF d1

LEMMA PrunedKeeps ==
    ASSUME Subject!SyncRunsAssumption, NEW db, Sound(db), NEW acct, NEW t \in Subject!Times
    PROVE  Sound(Subject!Pruned(db, acct, t)) /\ Lessens(db, Subject!Pruned(db, acct, t))
  <1> DEFINE Gone(h, a) ==
               /\ db.fact[h][a].known
               /\ h \in {Everyone, acct}
               /\ \/ db.fact[h][a].at < t - History
                  \/ kind = "reviews" /\ a \notin Subject!Wished(wishlist)
             F == [h \in Subject!Holders |-> [a \in Apps |->
                     IF Gone(h, a) THEN Subject!NoFact ELSE db.fact[h][a]]]
             kept == [db EXCEPT !.fact = F]
             old == Subject!OldRuns(kept, acct, t)
  <1>1. Subject!Pruned(db, acct, t) = Subject!DropRuns(kept, old)
    BY DEF Subject!Pruned, Subject!DropFacts
  <1>2. \A h \in Subject!Holders, a \in Apps :
          /\ F[h][a] = Subject!NoFact \/ (F[h][a] = db.fact[h][a] /\ FactRests(db, h, a))
          /\ F[h][a] \in Subject!Facts
    BY SubjectTyped DEF Sound, FactsRest, Rows
  <1>3. F = [h \in Subject!Holders |-> [a \in Apps |-> F[h][a]]]
    OBVIOUS
  <1> HIDE DEF F
  <1>4. F \in [Subject!Holders -> [Apps -> Subject!Facts]]
    BY <1>2, <1>3
  <1>5. Sound(kept) /\ Lessens(db, kept)
    BY <1>2, <1>4, FactsGone DEF Sound
  <1> HIDE DEF kept
  <1>6. \A h \in Subject!Holders, a \in Apps : kind = "reviews" => kept.fact[h][a].run \notin old
    <2> SUFFICES ASSUME NEW h \in Subject!Holders, NEW a \in Apps, kind = "reviews",
                        kept.fact[h][a].run \in old
                 PROVE  FALSE
      OBVIOUS
    <2>1. kept.fact[h][a].run \in Subject!RunIds /\ kept.fact[Everyone][a].run # kept.fact[h][a].run
      BY DEF Subject!OldRuns
    <2>2. kept.fact[h][a].run # 0
      BY <2>1, SubjectTyped
    <2>3. Subject!Holder(kept.by[kept.fact[h][a].run]) = h
      BY <1>5, <2>2 DEF Sound, FactsRest, FactRests
    <2>4. h = Everyone
      BY <2>3 DEF Subject!Holder
    <2> QED
      BY <2>1, <2>4
  <1> HIDE DEF old
  <1>7. Sound(Subject!DropRuns(kept, old)) /\ Lessens(kept, Subject!DropRuns(kept, old))
    BY <1>5, <1>6, RunsGone DEF Sound, FactsRest
  <1> QED
    BY <1>1, <1>5, <1>7, LessensOnward

LEMMA QuarantinedKeeps ==
    ASSUME Subject!SyncRunsAssumption, NEW db, Sound(db), NEW asked, NEW t, NEW now,
           kind = "declared"
    PROVE  /\ Sound(Subject!Quarantined(db, asked, t, now))
           /\ Lessens(db, Subject!Quarantined(db, asked, t, now))
  <1> DEFINE Future(x) == x > t /\ x > now
             faulty == {a \in asked : db.fact[Everyone][a].known /\ Future(db.fact[Everyone][a].at)}
             Goes(r, a) == /\ a \in faulty /\ db.demand[r][a].state # "none"
                           /\ r = db.fact[Everyone][a].run \/ Future(db.demand[r][a].at)
             left == [r \in Subject!RunIds |-> [a \in Apps |->
                        IF Goes(r, a) THEN Subject!NoDemand ELSE db.demand[r][a]]]
             empty == {r \in Subject!RunIds : /\ \E a \in Apps : Goes(r, a)
                                              /\ \A a \in Apps : left[r][a].state = "none"}
             F == [h \in Subject!Holders |-> [a \in Apps |->
                     IF a \in faulty THEN Subject!NoFact ELSE db.fact[h][a]]]
             d0 == [db EXCEPT !.fact = F]
             d1 == [d0 EXCEPT !.demand = left]
  <1>1. Subject!Quarantined(db, asked, t, now) = Subject!DropRuns(d1, empty)
    BY DEF Subject!Quarantined, Subject!DropFacts
  <1>2. db = [runs |-> db.runs, by |-> db.by, demand |-> db.demand, fact |-> db.fact]
    BY DEF Sound, Rows
  <1>3. \A h \in Subject!Holders, a \in Apps :
          F[h][a] = IF a \in faulty THEN Subject!NoFact ELSE db.fact[h][a]
    OBVIOUS
  <1>4. \A r \in Subject!RunIds, a \in Apps :
          /\ left[r][a] = Subject!NoDemand \/ left[r][a] = db.demand[r][a]
          /\ a \notin faulty => left[r][a] = db.demand[r][a]
    OBVIOUS
  <1>5. F = [h \in Subject!Holders |-> [a \in Apps |-> F[h][a]]]
        /\ left = [r \in Subject!RunIds |-> [a \in Apps |-> left[r][a]]]
    OBVIOUS
  <1> HIDE DEF F, left, faulty, empty
  <1>6. d1 = [runs |-> db.runs, by |-> db.by, demand |-> left, fact |-> F]
    <2>1. d0 = [runs |-> db.runs, by |-> db.by, demand |-> db.demand, fact |-> F]
      BY <1>2
    <2> HIDE DEF d0
    <2> QED
      BY <2>1
  <1>7. d1.runs = db.runs /\ d1.by = db.by /\ d1.demand = left /\ d1.fact = F
    BY <1>6
  <1> HIDE DEF d1
  <1>8. Rows(d1)
    <2>1. left \in [Subject!RunIds -> [Apps -> Subject!Demands]]
      <3>1. \A r \in Subject!RunIds, a \in Apps : left[r][a] \in Subject!Demands
        BY <1>4, SubjectTyped DEF Sound, Rows
      <3> QED
        BY <1>5, <3>1
    <2>2. F \in [Subject!Holders -> [Apps -> Subject!Facts]]
      <3>1. \A h \in Subject!Holders, a \in Apps : F[h][a] \in Subject!Facts
        BY <1>3, SubjectTyped DEF Sound, Rows
      <3> QED
        BY <1>5, <3>1
    <2> QED
      BY <1>6, <1>7, <2>1, <2>2 DEF Sound, Rows
  <1>9. DemandsOfRuns(d1)
    BY <1>4, <1>7, SubjectTyped DEF Sound, DemandsOfRuns
  <1>10. FactsRest(d1)
    <2> SUFFICES ASSUME NEW h \in Subject!Holders, NEW a \in Apps
                 PROVE  FactRests(d1, h, a)
      BY DEF FactsRest
    <2>1. FactRests(db, h, a) /\ (db.fact[h][a].run # 0 => db.fact[h][a].run \in Subject!RunIds)
      BY FactTyped DEF Sound, FactsRest, Rows
    <2>2. CASE a \in faulty
      BY <1>3, <1>7, <2>2, SubjectTyped DEF FactRests
    <2>3. CASE a \notin faulty
      <3>1. d1.fact[h][a] = db.fact[h][a]
        BY <1>3, <1>7, <2>3
      <3>2. \A r \in Subject!RunIds : d1.demand[r][a] = db.demand[r][a]
        BY <1>4, <1>7, <2>3
      <3> QED
        BY <1>7, <2>1, <3>1, <3>2 DEF FactRests
    <2> QED
      BY <2>2, <2>3
  <1>11. Lessens(db, d1)
    <2>1. \A h \in Subject!Holders, a \in Apps : Fades(db.fact[h][a], d1.fact[h][a])
      BY <1>3, <1>7 DEF Fades
    <2>2. \A r \in Subject!RunIds, a \in Apps :
            d1.demand[r][a].state = "running" => db.demand[r][a].state = "running"
      BY <1>4, <1>7, SubjectTyped
    <2> QED
      BY <1>7, <2>1, <2>2 DEF Lessens, RunsLessen, FactsFade
  <1>12. Sound(d1)
    BY <1>8, <1>9, <1>10 DEF Sound
  <1>13. Sound(Subject!DropRuns(d1, empty)) /\ Lessens(d1, Subject!DropRuns(d1, empty))
    BY <1>12, RunsGone DEF Sound, FactsRest
  <1> QED
    BY <1>1, <1>11, <1>13, LessensOnward

\* Fewer questions are asked, so each title is still asked about once.
LEMMA FewerAsk ==
    ASSUME NEW d0, NEW d1, RunsLessen(d0, d1), OneAsks(d0)
    PROVE  OneAsks(d1)
  <1> SUFFICES ASSUME kind # "achievements", NEW a \in Apps, NEW q \in Subject!RunIds, NEW r \in Subject!RunIds,
                      Asks(d1, q, a), Asks(d1, r, a), kind = "reviews" => d1.by[q] = d1.by[r]
               PROVE  q = r
    BY DEF OneAsks
  <1>1. Asks(d0, q, a) /\ Asks(d0, r, a)
    BY DEF Asks, RunsLessen
  <1>2. d1.by[q] = d0.by[q] /\ d1.by[r] = d0.by[r]
    BY DEF Asks, RunsLessen
  <1> QED
    BY <1>1, <1>2 DEF OneAsks

LEMMA TablesNext ==
    ASSUME NEW db, Sound(db), Subject!Stored(db), kind' = kind
    PROVE  /\ Sound(Subject!Tables)'
           /\ OneAsks(db) => OneAsks(Subject!Tables)'
  <1>1. (Subject!Tables)' = db
    BY DEF Subject!Tables, Subject!Stored, Sound, Rows
  <1>2. /\ runs' = db.runs /\ by' = db.by /\ demand' = db.demand /\ fact' = db.fact
    BY DEF Subject!Stored
  <1>3. Rows(Subject!Tables)' /\ DemandsOfRuns(Subject!Tables)'
    BY <1>1 DEF Sound, Rows, DemandsOfRuns
  <1>4. FactsRest(Subject!Tables)'
    BY <1>1 DEF Sound, FactsRest, FactRests, Subject!Holder
  <1>5. OneAsks(db) => OneAsks(Subject!Tables)'
    BY <1>1 DEF OneAsks, Asks
  <1> QED
    BY <1>3, <1>4, <1>5 DEF Sound

ProcTyped == proc \in [Proc -> [pc: {"idle", "running"}, acct: Subject!Holders,
                                run: 0 .. SubjectRuns]]

\* A command goes on with its run, or ends.
GoesOn(p) ==
    \/ proc'[p].pc = "idle"
    \/ proc[p].pc # "idle" /\ proc'[p].run = proc[p].run /\ proc'[p].acct = proc[p].acct

\* A step that only takes away keeps all that is claimed of the tables.
LEMMA LessStep ==
    ASSUME Subject!SyncRunsAssumption, SubjectInv, NEW db, Sound(db), RunsLessen(Subject!Tables, db),
           Subject!Stored(db), kind' = kind, nextRun' = nextRun,
           wishlist' \in [Accounts -> SUBSET Apps], accounts' \subseteq Accounts,
           ProcTyped', \A p \in Proc : GoesOn(p)
    PROVE  SubjectInv'
  <1>1. /\ runs' = db.runs /\ by' = db.by
        /\ Subject!Tables.runs = runs /\ Subject!Tables.by = by
    BY DEF Subject!Stored, Subject!Tables
  <1>2. \A r \in Subject!RunIds :
          runs'[r].status # "absent" => runs[r].status # "absent" /\ by'[r] = by[r]
    BY <1>1 DEF RunsLessen
  <1>3. Sound(Subject!Tables)' /\ OneAsks(Subject!Tables)'
    BY FewerAsk, TablesNext DEF SubjectInv
  <1>4. SubjectShapes'
    BY DEF SubjectInv, SubjectShapes, ProcTyped
  <1>5. NotOpened(nextRun)'
    BY <1>2 DEF SubjectInv, NotOpened
  <1>6. \A p \in Proc : CommandOf(p)'
    <2> SUFFICES ASSUME NEW p \in Proc PROVE CommandOf(p)'
      OBVIOUS
    <2>1. CommandOf(p) /\ GoesOn(p)
      BY DEF SubjectInv
    <2> QED
      BY <1>2, <2>1 DEF CommandOf, GoesOn
  <1> QED
    BY <1>3, <1>4, <1>5, <1>6 DEF SubjectInv

LEMMA FadesRun ==
    ASSUME NEW f, NEW g, Fades(f, g)
    PROVE  g.run \in {0, f.run}
  <1>1. Subject!NoFact.run = 0
    BY DEF Subject!NoFact
  <1>2. Nameless(f).run \in {0, f.run}
    <2>1. CASE "run" \in DOMAIN f
      BY <2>1 DEF Nameless
    <2>2. CASE "run" \notin DOMAIN f
      BY <2>2 DEF Nameless
    <2> QED
      BY <2>1, <2>2
  <1> QED
    BY <1>1, <1>2 DEF Fades

LEMMA FadesForward ==
    ASSUME NEW db, FactsFade(Subject!Tables, db), fact' = db.fact
    PROVE  Subject!FactMovesForward
  <1>1. \A h \in Subject!Holders, a \in Apps : Fades(fact[h][a], fact'[h][a])
    BY DEF FactsFade, Subject!Tables
  <1> QED
    BY <1>1, FadesRun DEF Subject!FactMovesForward

\* What a run demands when it is opened
NewRow(asked, targeted, skipped, t, a) ==
    [Subject!NoDemand EXCEPT
        !.state = IF a \notin asked THEN "none"
                  ELSE IF a \in targeted THEN "running"
                  ELSE IF a \in skipped THEN "skipped" ELSE "left",
        !.at = IF kind = "declared" /\ a \in asked \ targeted THEN t ELSE 0]

LEMMA NewRowTyped ==
    ASSUME Subject!SyncRunsAssumption, NEW asked, NEW targeted, NEW skipped, NEW t \in Subject!Times, NEW a
    PROVE  /\ NewRow(asked, targeted, skipped, t, a) \in Subject!Demands
           /\ NewRow(asked, targeted, skipped, t, a).state \in {"none", "running", "skipped", "left"}
           /\ NewRow(asked, targeted, skipped, t, a).state = "running" => a \in targeted
  <1> DEFINE s == IF a \notin asked THEN "none"
                  ELSE IF a \in targeted THEN "running"
                  ELSE IF a \in skipped THEN "skipped" ELSE "left"
             u == IF kind = "declared" /\ a \in asked \ targeted THEN t ELSE 0
  <1>1. NewRow(asked, targeted, skipped, t, a) = [state |-> s, at |-> u, promoted |-> FALSE, good |-> FALSE]
    <2>1. NewRow(asked, targeted, skipped, t, a) = [Subject!NoDemand EXCEPT !.state = s, !.at = u]
      BY DEF NewRow
    <2> HIDE DEF s, u
    <2> QED
      BY <2>1 DEF Subject!NoDemand
  <1>2. s \in {"none", "running", "skipped", "left"} /\ (s = "running" => a \in targeted)
    OBVIOUS
  <1>3. u \in Subject!Times
    BY SubjectTyped
  <1> HIDE DEF s, u
  <1> QED
    BY <1>1, <1>2, <1>3 DEF Subject!Demands, Subject!States

Unasked(db, acct, targeted) ==
    \A a \in targeted, r \in Subject!RunIds :
        kind # "achievements" /\ Asks(db, r, a) => kind = "reviews" /\ db.by[r] # acct

Changed(db, R, B, D) == [db EXCEPT !.runs = R, !.by = B, !.demand = D]

LEMMA TablesChanged ==
    ASSUME NEW db, NEW x, NEW y, NEW z, NEW w, NEW R, NEW B, NEW D,
           db = [runs |-> x, by |-> y, demand |-> z, fact |-> w]
    PROVE  Changed(db, R, B, D) = [runs |-> R, by |-> B, demand |-> D, fact |-> w]
  <1> DEFINE e == [db EXCEPT !.runs = R]
             f == [e EXCEPT !.by = B]
             g == [f EXCEPT !.demand = D]
  <1>1. e = [runs |-> R, by |-> y, demand |-> z, fact |-> w]
    OBVIOUS
  <1>2. g = Changed(db, R, B, D)
    BY DEF Changed
  <1> HIDE DEF e
  <1>3. f = [runs |-> R, by |-> B, demand |-> z, fact |-> w]
    BY <1>1
  <1> HIDE DEF f
  <1>4. g = [runs |-> R, by |-> B, demand |-> D, fact |-> w]
    BY <1>3
  <1> HIDE DEF g
  <1> QED
    BY <1>2, <1>4

\* A run is opened over the tables as pruning and closing left them.
LEMMA OpeningStep ==
    ASSUME Subject!SyncRunsAssumption, SubjectInv, NEW p \in Proc, NEW acct \in Accounts,
           NEW db, Sound(db), Lessens(Subject!Tables, db),
           NEW asked, NEW targeted, NEW skipped, NEW t \in Subject!Times,
           Unasked(db, acct, targeted),
           Subject!MayOpen(p, acct), Subject!Opens(p, acct, db, asked, targeted, skipped, t)
    PROVE  SubjectInv' /\ Subject!FactMovesForward /\ Subject!DeletionSpares
  <1> DEFINE R == [db.runs EXCEPT ![nextRun] =
                     [status |-> "running", started |-> t, completed |-> 0, promoted |-> FALSE]]
             B == [db.by EXCEPT ![nextRun] = acct]
             D == [db.demand EXCEPT ![nextRun] = [a \in Apps |-> NewRow(asked, targeted, skipped, t, a)]]
             d1 == [runs |-> R, by |-> B, demand |-> D, fact |-> db.fact]
  <1>1. Subject!Stored(d1)
    <2>1. db = [runs |-> db.runs, by |-> db.by, demand |-> db.demand, fact |-> db.fact]
      BY DEF Sound, Rows
    <2>2. d1 = Changed(db, R, B, D)
      <3> HIDE DEF R, B, D
      <3> QED
        BY <2>1, TablesChanged
    <2>3. d1 = [db EXCEPT !.runs = Subject!Opened(db.runs, t), !.by[nextRun] = acct,
                          !.demand[nextRun] = [a \in Apps |-> NewRow(asked, targeted, skipped, t, a)]]
      BY <2>1, <2>2 DEF Subject!Opened, Changed
    <2> QED
      BY <2>3 DEF Subject!Opens, NewRow
  <1>2. /\ nextRun \in Subject!RunIds /\ nextRun' = nextRun + 1
        /\ kind' = kind /\ wishlist' = wishlist /\ accounts' = accounts
        /\ proc' = [proc EXCEPT ![p] = [pc |-> "running", acct |-> acct, run |-> nextRun]]
    BY DEF Subject!Opens, Subject!MayOpen, Subject!CanOpen
  <1>3. d1.runs = R /\ d1.by = B /\ d1.demand = D /\ d1.fact = db.fact
    OBVIOUS
  <1>4. acct \in Subject!Holders
    BY DEF Subject!Holders
  <1>5. /\ \A r \in Subject!RunIds : r # nextRun => R[r] = db.runs[r] /\ B[r] = db.by[r] /\ D[r] = db.demand[r]
        /\ R[nextRun].status = "running" /\ B[nextRun] = acct
        /\ \A a \in Apps : D[nextRun][a] = NewRow(asked, targeted, skipped, t, a)
    BY <1>2 DEF Sound, Rows
  <1>6. R \in [Subject!RunIds -> Subject!RunRecords] /\ B \in [Subject!RunIds -> Subject!Holders]
    BY <1>4, SubjectTyped DEF Sound, Rows, Subject!RunRecords, Subject!Statuses
  <1>7. D \in [Subject!RunIds -> [Apps -> Subject!Demands]]
    <2>1. [a \in Apps |-> NewRow(asked, targeted, skipped, t, a)] \in [Apps -> Subject!Demands]
      BY NewRowTyped
    <2> HIDE DEF D
    <2> QED
      BY <2>1 DEF Sound, Rows, D
  <1>8. \A r \in Subject!RunIds :
          db.runs[r].status # "absent" => /\ runs[r].status # "absent" /\ db.by[r] = by[r]
    BY DEF Lessens, RunsLessen, Subject!Tables
  <1>9. db.runs[nextRun].status = "absent"
    BY <1>2, <1>8, SubjectTyped DEF SubjectInv, NotOpened
  <1> HIDE DEF R, B, D
  <1>10. Rows(d1)
    BY <1>6, <1>7 DEF Sound, Rows
  <1> HIDE DEF d1
  <1>11. DemandsOfRuns(d1)
    BY <1>3, <1>5 DEF Sound, DemandsOfRuns
  <1>12. FactsRest(d1)
    <2> SUFFICES ASSUME NEW h \in Subject!Holders, NEW a \in Apps
                 PROVE  FactRests(d1, h, a)
      BY DEF FactsRest
    <2>1. FactRests(db, h, a) /\ db.fact[h][a] \in Subject!Facts
      BY DEF Sound, FactsRest, Rows
    <2>2. db.fact[h][a].run # 0 => db.fact[h][a].run \in Subject!RunIds /\ db.fact[h][a].run # nextRun
      BY <1>9, <2>1, FactTyped DEF FactRests
    <2> QED
      BY <1>3, <1>5, <2>1, <2>2, SMTT(20) DEF FactRests
  <1>13. OneAsks(d1)
    <2>1. OneAsks(db)
      BY FewerAsk DEF SubjectInv, Lessens
    <2> SUFFICES ASSUME kind # "achievements", NEW a \in Apps,
                        NEW q \in Subject!RunIds, NEW r \in Subject!RunIds,
                        Asks(d1, q, a), Asks(d1, r, a), kind = "reviews" => d1.by[q] = d1.by[r]
                 PROVE  q = r
      BY DEF OneAsks
    <2>2. Asks(d1, nextRun, a) => a \in targeted
      BY <1>3, <1>5, NewRowTyped DEF Asks
    <2>3. \A s \in Subject!RunIds : s # nextRun /\ Asks(d1, s, a) => Asks(db, s, a) /\ d1.by[s] = db.by[s]
      BY <1>3, <1>5 DEF Asks
    <2>4. d1.by[nextRun] = acct
      BY <1>3, <1>5
    <2>5. CASE q # nextRun /\ r # nextRun
      BY <2>1, <2>3, <2>5 DEF OneAsks
    <2>6. CASE q = nextRun /\ r # nextRun
      BY <2>2, <2>3, <2>4, <2>6 DEF Unasked
    <2>7. CASE q # nextRun /\ r = nextRun
      BY <2>2, <2>3, <2>4, <2>7 DEF Unasked
    <2> QED
      BY <2>5, <2>6, <2>7
  <1>14. Sound(Subject!Tables)' /\ OneAsks(Subject!Tables)'
    BY <1>1, <1>2, <1>10, <1>11, <1>12, <1>13, TablesNext DEF Sound
  <1>15. runs' = R /\ by' = B /\ fact' = db.fact
    BY <1>1, <1>3 DEF Subject!Stored
  <1>16. SubjectShapes' /\ NotOpened(nextRun)'
    <2>1. nextRun \in 0 .. SubjectRuns /\ nextRun + 1 \in Nat \ {0}
      BY <1>2, SubjectTyped
    <2>2. ProcTyped'
      BY <1>2, <1>4, <2>1 DEF SubjectInv, SubjectShapes, ProcTyped
    <2>3. \A r \in Subject!RunIds : r >= nextRun + 1 => r # nextRun /\ r >= nextRun
      BY <2>1, SubjectTyped
    <2>4. NotOpened(nextRun)'
      BY <1>2, <1>5, <1>8, <1>15, <2>3 DEF SubjectInv, NotOpened
    <2> QED
      BY <1>2, <2>1, <2>2, <2>4 DEF SubjectInv, SubjectShapes, ProcTyped
  <1>17. \A q \in Proc : CommandOf(q)'
    <2> SUFFICES ASSUME NEW q \in Proc PROVE CommandOf(q)'
      OBVIOUS
    <2>1. nextRun \in Nat /\ nextRun < nextRun + 1
      BY <1>2, SubjectTyped
    <2>2. CASE q = p
      <3>1. proc'[q].run = nextRun /\ proc'[q].acct = acct
        BY <1>2, <2>2 DEF SubjectInv, SubjectShapes
      <3> QED
        BY <1>2, <1>5, <1>15, <2>1, <3>1 DEF CommandOf
    <2>3. CASE q # p
      <3>1. proc'[q] = proc[q] /\ CommandOf(q)
        BY <1>2, <2>3 DEF SubjectInv, SubjectShapes
      <3>2. proc[q].run \in Subject!RunIds /\ proc[q].run < nextRun =>
              proc[q].run # nextRun /\ proc[q].run < nextRun + 1
        BY <2>1, SubjectTyped
      <3> QED
        BY <1>2, <1>5, <1>8, <1>15, <3>1, <3>2 DEF CommandOf
    <2> QED
      BY <2>2, <2>3
  <1>18. Subject!FactMovesForward
    BY <1>15, FadesForward DEF Lessens
  <1>19. Subject!DeletionSpares
    <2>1. proc' # proc
      BY <1>2 DEF Subject!MayOpen, SubjectInv, SubjectShapes
    <2> QED
      BY <2>1 DEF Subject!DeletionSpares
  <1> QED
    BY <1>14, <1>16, <1>17, <1>18, <1>19 DEF SubjectInv

LEMMA NotActive ==
    ASSUME NEW db, NEW acct, NEW targeted \in SUBSET Apps,
           targeted \cap Subject!Active(db, acct) = {}
    PROVE  Unasked(db, acct, targeted)
  BY DEF Unasked, Subject!Active, Asks

\* Pruned, then with the abandoned runs closed
LEMMA ClearedKeeps ==
    ASSUME Subject!SyncRunsAssumption, SubjectInv, NEW acct, NEW t \in Subject!Times
    PROVE  LET pruned == Subject!Pruned(Subject!Tables, acct, t)
               db == Subject!Interrupted(pruned, Subject!Abandoned(pruned, acct, t), t)
           IN /\ Sound(pruned) /\ Lessens(Subject!Tables, pruned)
              /\ Sound(db) /\ Lessens(Subject!Tables, db)
  <1> DEFINE pruned == Subject!Pruned(Subject!Tables, acct, t)
             gone == Subject!Abandoned(pruned, acct, t)
             db == Subject!Interrupted(pruned, gone, t)
  <1>1. Sound(pruned) /\ Lessens(Subject!Tables, pruned)
    BY PrunedKeeps DEF SubjectInv
  <1>2. \A r \in gone : pruned.runs[r].status = "running"
    BY DEF Subject!Abandoned
  <1> HIDE DEF pruned, gone
  <1>3. Sound(db) /\ Lessens(pruned, db)
    BY <1>1, <1>2, AbandonedEnds
  <1>4. Lessens(Subject!Tables, db)
    BY <1>1, <1>3, LessensOnward
  <1> QED
    BY <1>1, <1>3, <1>4 DEF pruned, gone

LEMMA BeginReviewsStep ==
    ASSUME Subject!SyncRunsAssumption, SubjectInv, NEW p \in Proc, NEW acct \in Accounts,
           NEW targeted \in SUBSET Apps, NEW skipFresh \in BOOLEAN, NEW t \in Subject!Times,
           Subject!BeginReviews(p, acct, targeted, skipFresh, t)
    PROVE  SubjectInv' /\ Subject!FactMovesForward /\ Subject!DeletionSpares
  <1> DEFINE pruned == Subject!Pruned(Subject!Tables, acct, t)
             db == Subject!Interrupted(pruned, Subject!Abandoned(pruned, acct, t), t)
             candidates == (wishlist[acct] \ Subject!Active(db, acct))
                             \ (IF skipFresh THEN Subject!Fresh(db, acct, t) ELSE {})
  <1>1. Sound(db) /\ Lessens(Subject!Tables, db)
    BY ClearedKeeps
  <1>2. /\ Subject!MayOpen(p, acct) /\ targeted \subseteq candidates
        /\ Subject!Opens(p, acct, db, candidates, targeted, {}, t)
    BY DEF Subject!BeginReviews
  <1> HIDE DEF db
  <1>3. Unasked(db, acct, targeted)
    BY <1>2, NotActive
  <1> HIDE DEF candidates
  <1> QED
    BY <1>1, <1>2, <1>3, OpeningStep

LEMMA BeginDeclaredStep ==
    ASSUME Subject!SyncRunsAssumption, SubjectInv, NEW p \in Proc, NEW acct \in Accounts,
           NEW asked \in SUBSET Apps, NEW targeted \in SUBSET Apps,
           NEW t \in Subject!Times, NEW now \in Subject!Times,
           Subject!BeginDeclared(p, acct, asked, targeted, t, now)
    PROVE  SubjectInv' /\ Subject!FactMovesForward /\ Subject!DeletionSpares
  <1> DEFINE pruned == Subject!Pruned(Subject!Tables, acct, t)
             closed == Subject!Interrupted(pruned, Subject!Abandoned(pruned, acct, t), t)
             db == Subject!Quarantined(closed, asked, t, now)
             skipped == asked \cap (Subject!Fresh(db, acct, t) \ Subject!Active(db, acct))
  <1>1. Sound(closed) /\ Lessens(Subject!Tables, closed)
    BY ClearedKeeps
  <1>2. /\ Subject!MayOpen(p, acct) /\ kind = "declared"
        /\ targeted \subseteq (asked \ skipped) \ Subject!Active(db, acct)
        /\ Subject!Opens(p, acct, db, asked, targeted, skipped, t)
    BY DEF Subject!BeginDeclared
  <1> HIDE DEF closed
  <1>3. Sound(db) /\ Lessens(closed, db)
    BY <1>1, <1>2, QuarantinedKeeps
  <1> HIDE DEF db
  <1>4. Lessens(Subject!Tables, db)
    BY <1>1, <1>3, LessensOnward
  <1>5. Unasked(db, acct, targeted)
    BY <1>2, NotActive
  <1> HIDE DEF skipped
  <1> QED
    BY <1>2, <1>3, <1>4, <1>5, OpeningStep

LEMMA BeginAchievementsStep ==
    ASSUME Subject!SyncRunsAssumption, SubjectInv, NEW p \in Proc, NEW acct \in Accounts,
           NEW asked \in SUBSET Apps, NEW targeted \in SUBSET Apps, NEW t \in Subject!Times,
           Subject!BeginAchievements(p, acct, asked, targeted, t)
    PROVE  SubjectInv' /\ Subject!FactMovesForward /\ Subject!DeletionSpares
  <1> DEFINE db == Subject!Pruned(Subject!Tables, acct, t)
  <1>1. Sound(db) /\ Lessens(Subject!Tables, db)
    BY PrunedKeeps DEF SubjectInv
  <1>2. /\ Subject!MayOpen(p, acct) /\ kind = "achievements"
        /\ Subject!Opens(p, acct, db, asked, targeted, {}, t)
    BY DEF Subject!BeginAchievements
  <1> HIDE DEF db
  <1>3. Unasked(db, acct, targeted)
    BY <1>2 DEF Unasked
  <1> QED
    BY <1>1, <1>2, <1>3, OpeningStep

\* The tables with some runs ended and some targets answered
LEMMA EndsAsTables ==
    ASSUME Subject!SyncRunsAssumption, SubjectInv,
           NEW R \in [Subject!RunIds -> Subject!RunRecords],
           NEW D \in [Subject!RunIds -> [Apps -> Subject!Demands]],
           \A r \in Subject!RunIds :
               /\ R[r].status = "absent" <=> runs[r].status = "absent"
               /\ R[r].status = "running" => runs[r].status = "running"
               /\ R[r].started = runs[r].started,
           \A r \in Subject!RunIds, a \in Apps :
               /\ demand[r][a].state # "running" => D[r][a] = demand[r][a]
               /\ D[r][a].state = "running" => R[r].status = "running"
    PROVE  /\ Sound([runs |-> R, by |-> by, demand |-> D, fact |-> fact])
           /\ Lessens(Subject!Tables, [runs |-> R, by |-> by, demand |-> D, fact |-> fact])
  <1> DEFINE db == Subject!Tables
  <1>1. db.runs = runs /\ db.by = by /\ db.demand = demand /\ db.fact = fact
    BY DEF Subject!Tables
  <1>2. Sound(db)
    BY DEF SubjectInv
  <1> HIDE DEF db
  <1> QED
    BY <1>1, <1>2, RunsEnd DEF db

LEMMA SameRuns ==
    ASSUME SubjectInv
    PROVE  /\ runs \in [Subject!RunIds -> Subject!RunRecords] /\ by \in [Subject!RunIds -> Subject!Holders]
           /\ demand \in [Subject!RunIds -> [Apps -> Subject!Demands]]
           /\ fact \in [Subject!Holders -> [Apps -> Subject!Facts]]
           /\ \A r \in Subject!RunIds, a \in Apps :
                demand[r][a].state = "running" => runs[r].status = "running"
  BY DEF SubjectInv, Sound, Rows, DemandsOfRuns, Subject!Tables

LEMMA RecordStep ==
    ASSUME Subject!SyncRunsAssumption, SubjectInv, NEW p \in Proc, NEW a \in Apps,
           NEW reply \in Subject!Answers, NEW t \in Subject!Times, Subject!Record(p, a, reply, t)
    PROVE  SubjectInv' /\ Subject!FactMovesForward /\ Subject!DeletionSpares
  <1> DEFINE r == proc[p].run
             h == Subject!Holder(proc[p].acct)
             promote == reply = "ready" /\ Subject!Newer(r, fact[h][a], t)
             new == [state |-> reply, at |-> t, promoted |-> promote /\ kind = "declared",
                     good |-> reply = "not_found" /\ fact[h][a].known]
             found == [known |-> TRUE, run |-> r, at |-> t]
             mid == [runs |-> runs, by |-> by, demand |-> demand', fact |-> fact]
  <1>1. /\ proc[p].pc = "running" /\ r # 0 /\ demand[r][a].state = "running"
        /\ demand' = [demand EXCEPT ![r][a] = new]
        /\ fact' = IF promote THEN [fact EXCEPT ![h][a] = found] ELSE fact
        /\ UNCHANGED <<runs, nextRun, kind, by, wishlist, accounts, agreed, proc>>
    BY DEF Subject!Record, Subject!Awaited
  <1>2. r \in Subject!RunIds /\ r < nextRun /\ (runs[r].status # "absent" => by[r] = proc[p].acct)
    BY <1>1 DEF SubjectInv, CommandOf
  <1>3. h \in Subject!Holders
    BY DEF SubjectInv, SubjectShapes, Subject!Holder, Subject!Holders
  <1>4. promote \in BOOLEAN /\ new.state = reply /\ new.at = t
    OBVIOUS
  <1>5. new \in Subject!Demands
    BY DEF Subject!Demands, Subject!States, Subject!Answers
  <1>6. found \in Subject!Facts /\ found.run = r /\ found.known /\ found.at = t
    BY <1>2, SubjectTyped DEF Subject!Facts
  <1> HIDE DEF new, found, promote, h, r
  <1>7. /\ demand' \in [Subject!RunIds -> [Apps -> Subject!Demands]]
        /\ demand'[r][a] = new
        /\ \A q \in Subject!RunIds, b \in Apps : q # r \/ b # a => demand'[q][b] = demand[q][b]
    BY <1>1, <1>2, <1>5, SameRuns
  <1>8. /\ runs \in [Subject!RunIds -> Subject!RunRecords]
        /\ \A q \in Subject!RunIds, b \in Apps :
             /\ demand[q][b].state # "running" => demand'[q][b] = demand[q][b]
             /\ demand'[q][b].state = "running" => runs[q].status = "running"
    <2>1. new.state # "running"
      BY <1>4 DEF Subject!Answers
    <2> QED
      BY <1>1, <1>7, <2>1, SameRuns
  <1>9. Sound(mid) /\ Lessens(Subject!Tables, mid)
    BY <1>7, <1>8, EndsAsTables
  <1>10. ProcTyped' /\ \A q \in Proc : GoesOn(q)
    BY <1>1 DEF SubjectInv, SubjectShapes, ProcTyped, GoesOn
  <1>11. /\ kind' = kind /\ nextRun' = nextRun /\ wishlist' \in [Accounts -> SUBSET Apps] /\ accounts' \subseteq Accounts
    BY <1>1 DEF SubjectInv, SubjectShapes
  <1>12. CASE ~promote
    <2>1. Subject!Stored(mid) /\ fact' = fact
      BY <1>1, <1>12 DEF Subject!Stored
    <2>2. SubjectInv'
      BY <1>9, <1>10, <1>11, <2>1, LessStep DEF Lessens
    <2>3. Subject!FactMovesForward
      BY <1>9, <2>1, FadesForward DEF Lessens
    <2>4. Subject!DeletionSpares
      BY <2>1 DEF Subject!DeletionSpares
    <2> QED
      BY <2>2, <2>3, <2>4
  <1>13. CASE promote
    <2> DEFINE F == [fact EXCEPT ![h][a] = found]
               db == [runs |-> runs, by |-> by, demand |-> demand', fact |-> F]
    <2>1. /\ F \in [Subject!Holders -> [Apps -> Subject!Facts]] /\ F[h][a] = found
          /\ \A g \in Subject!Holders, b \in Apps : g # h \/ b # a => F[g][b] = fact[g][b]
      BY <1>3, <1>6, SameRuns
    <2>2. fact' = F
      BY <1>1, <1>13
    <2> HIDE DEF F
    <2>3. Subject!Stored(db)
      BY <1>1, <2>2 DEF Subject!Stored
    <2>4. Rows(db) /\ DemandsOfRuns(db)
      BY <1>9, <2>1 DEF Sound, Rows, DemandsOfRuns
    <2>5. runs[r].status # "absent"
      BY <1>1, <1>2 DEF SubjectInv, Sound, DemandsOfRuns, Subject!Tables
    <2>6. FactsRest(db)
      <3> SUFFICES ASSUME NEW g \in Subject!Holders, NEW b \in Apps
                   PROVE  FactRests(db, g, b)
        BY DEF FactsRest
      <3>1. CASE g = h /\ b = a
        <4>1. db.fact[g][b] = found /\ db.demand[r][b] = new
          BY <1>7, <2>1, <3>1
        <4>2. Subject!Holder(by[r]) = h
          BY <1>2, <2>5 DEF h
        <4>3. r # 0 /\ reply = "ready"
          BY <1>1, <1>13 DEF promote
        <4> QED
          BY <1>4, <1>6, <2>5, <3>1, <4>1, <4>2, <4>3 DEF FactRests
      <3>2. CASE g # h \/ b # a
        <4>1. db.fact[g][b] = mid.fact[g][b] /\ db.runs = mid.runs /\ db.by = mid.by /\ db.demand = mid.demand
          BY <2>1, <3>2
        <4>2. FactRests(mid, g, b)
          BY <1>9 DEF Sound, FactsRest
        <4> HIDE DEF db, mid
        <4> QED
          BY <4>1, <4>2 DEF FactRests
      <3> QED
        BY <3>1, <3>2
    <2>7. Sound(db) /\ RunsLessen(Subject!Tables, db)
      BY <1>9, <2>4, <2>6 DEF Sound, Lessens, RunsLessen
    <2>8. SubjectInv'
      BY <1>10, <1>11, <2>3, <2>7, LessStep
    <2>9. Subject!FactMovesForward
      <3> SUFFICES ASSUME NEW g \in Subject!Holders, NEW b \in Apps,
                          fact'[g][b].run \notin {0, fact[g][b].run}, fact[g][b].run # 0
                   PROVE  /\ Subject!StartedLater(fact'[g][b].run, fact[g][b].run)
                          /\ kind = "achievements" \/ fact'[g][b].at >= fact[g][b].at
        BY DEF Subject!FactMovesForward
      <3>1. g = h /\ b = a /\ fact'[g][b] = found
        BY <2>1, <2>2
      <3>2. fact[h][a].known
        BY <1>3, <3>1 DEF SubjectInv, Sound, FactsRest, FactRests, Subject!Tables
      <3>3. Subject!Newer(r, fact[h][a], t)
        BY <1>13 DEF promote
      <3> QED
        BY <1>6, <3>1, <3>2, <3>3 DEF Subject!Newer
    <2>10. Subject!DeletionSpares
      <3>1. ASSUME NEW b \in Apps, fact[Everyone][b].known PROVE fact'[Everyone][b].known
        <4>1. Everyone \in Subject!Holders
          BY DEF Subject!Holders
        <4> QED
          BY <1>6, <2>1, <2>2, <3>1, <4>1
      <3>2. Subject!Wished(wishlist') \subseteq Apps
        BY <1>11 DEF Subject!Wished
      <3> QED
        BY <3>1, <3>2 DEF Subject!DeletionSpares
    <2> QED
      BY <2>8, <2>9, <2>10
  <1> QED
    BY <1>4, <1>12, <1>13

\* A step over tables that only lost something
LEMMA FadingStep ==
    ASSUME Subject!SyncRunsAssumption, SubjectInv, NEW db, Sound(db), Lessens(Subject!Tables, db),
           Subject!Stored(db), kind' = kind, nextRun' = nextRun,
           wishlist' \in [Accounts -> SUBSET Apps], accounts' \subseteq Accounts,
           ProcTyped', \A p \in Proc : GoesOn(p)
    PROVE  SubjectInv' /\ Subject!FactMovesForward
  <1>1. SubjectInv'
    BY LessStep DEF Lessens
  <1>2. fact' = db.fact
    BY DEF Subject!Stored
  <1> QED
    BY <1>1, <1>2, FadesForward DEF Lessens

LEMMA TablesAreSound ==
    ASSUME SubjectInv
    PROVE  /\ Sound(Subject!Tables) /\ Lessens(Subject!Tables, Subject!Tables)
           /\ Subject!Tables.runs = runs /\ Subject!Tables.by = by
           /\ Subject!Tables.demand = demand /\ Subject!Tables.fact = fact
  BY DEF SubjectInv, Lessens, RunsLessen, FactsFade, Fades, Subject!Tables

LEMMA IdleTyped ==
    ASSUME Subject!SyncRunsAssumption, SubjectInv, NEW p \in Proc, proc' = [proc EXCEPT ![p] = Subject!Idle]
    PROVE  ProcTyped' /\ \A q \in Proc : GoesOn(q)
  <1>1. 0 \in 0 .. SubjectRuns /\ Everyone \in Subject!Holders
    BY SubjectTyped DEF Subject!Holders
  <1> QED
    BY <1>1 DEF SubjectInv, SubjectShapes, ProcTyped, GoesOn, Subject!Idle

LEMMA StopEarlyStep ==
    ASSUME Subject!SyncRunsAssumption, SubjectInv, NEW p \in Proc, NEW t \in Subject!Times,
           Subject!StopEarly(p, t)
    PROVE  SubjectInv' /\ Subject!FactMovesForward /\ Subject!DeletionSpares
  <1> DEFINE r == proc[p].run
             ended == [a \in Apps |-> Subject!Unanswered(demand[r][a], t)]
             db == [runs |-> runs, by |-> by, demand |-> demand', fact |-> fact]
  <1>1. /\ proc[p].pc = "running" /\ demand' = [demand EXCEPT ![r] = ended]
        /\ UNCHANGED <<runs, nextRun, kind, by, fact, wishlist, accounts, agreed, proc>>
    BY DEF Subject!StopEarly
  <1>2. r \in Subject!RunIds
    BY <1>1 DEF SubjectInv, CommandOf
  <1>3. \A a \in Apps : demand[r][a] \in Subject!Demands
    BY <1>2, SameRuns
  <1>4. /\ ended \in [Apps -> Subject!Demands]
        /\ \A a \in Apps : demand[r][a].state # "running" => ended[a] = demand[r][a]
        /\ \A a \in Apps : ended[a].state # "running"
    BY <1>3, UnansweredRow
  <1> HIDE DEF ended, r
  <1>5. demand' \in [Subject!RunIds -> [Apps -> Subject!Demands]]
    BY <1>1, <1>4, SameRuns
  <1>6. /\ runs \in [Subject!RunIds -> Subject!RunRecords]
        /\ \A q \in Subject!RunIds, b \in Apps :
             /\ demand[q][b].state # "running" => demand'[q][b] = demand[q][b]
             /\ demand'[q][b].state = "running" => runs[q].status = "running"
    BY <1>1, <1>2, <1>4, SameRuns
  <1>7. Sound(db) /\ Lessens(Subject!Tables, db)
    BY <1>5, <1>6, EndsAsTables
  <1>8. Subject!Stored(db)
    BY <1>1 DEF Subject!Stored
  <1>9. ProcTyped' /\ \A q \in Proc : GoesOn(q)
    BY <1>1 DEF SubjectInv, SubjectShapes, ProcTyped, GoesOn
  <1>10. wishlist' \in [Accounts -> SUBSET Apps] /\ accounts' \subseteq Accounts
    BY <1>1 DEF SubjectInv, SubjectShapes
  <1> HIDE DEF db
  <1>11. SubjectInv' /\ Subject!FactMovesForward
    BY <1>1, <1>7, <1>8, <1>9, <1>10, FadingStep
  <1> QED
    BY <1>1, <1>11 DEF Subject!DeletionSpares

LEMMA FinishesStep ==
    ASSUME Subject!SyncRunsAssumption, SubjectInv, NEW p \in Proc, NEW t \in Subject!Times,
           NEW ended \in [Apps -> Subject!Demands], NEW promoted \in BOOLEAN,
           \A a \in Apps : /\ demand[proc[p].run][a].state # "running" => ended[a] = demand[proc[p].run][a]
                           /\ ended[a].state # "running",
           Subject!Finishes(p, ended, promoted, t)
    PROVE  SubjectInv' /\ Subject!FactMovesForward /\ Subject!DeletionSpares
  <1> DEFINE r == proc[p].run
             R == Subject!Closed(runs, r, Subject!Outcome(ended), 0, promoted)
             D == [demand EXCEPT ![r] = ended]
             mid == [runs |-> R, by |-> by, demand |-> D, fact |-> fact]
             db == Subject!Pruned(mid, proc[p].acct, t)
  <1>1. /\ proc[p].pc # "idle" /\ runs[r].status = "running"
        /\ proc' = [proc EXCEPT ![p] = Subject!Idle]
        /\ UNCHANGED <<nextRun, kind, wishlist, accounts, agreed>>
    BY DEF Subject!Finishes, Subject!Is
  <1>2. Subject!Stored(db)
    <2> DEFINE e == [Subject!Tables EXCEPT !.runs = R]
               g == [e EXCEPT !.demand[r] = ended]
    <2>1. g = [Subject!Tables EXCEPT !.runs = R, !.demand[r] = ended]
      OBVIOUS
    <2>2. Subject!Stored(Subject!Pruned(g, proc[p].acct, t))
      BY <2>1 DEF Subject!Finishes
    <2> HIDE DEF R
    <2>3. e = [runs |-> R, by |-> by, demand |-> demand, fact |-> fact]
      BY DEF Subject!Tables
    <2> HIDE DEF e
    <2>4. g = mid
      BY <2>3
    <2> HIDE DEF g, mid
    <2> QED
      BY <2>2, <2>4
  <1>3. r \in Subject!RunIds
    BY <1>1 DEF SubjectInv, CommandOf
  <1>4. R \in [Subject!RunIds -> Subject!RunRecords] /\ R[r].status \in {"complete", "partial", "failed"}
        /\ R[r].started = runs[r].started /\ \A q \in Subject!RunIds : q # r => R[q] = runs[q]
    <2>1. runs[r] \in Subject!RunRecords
      BY <1>3, SameRuns
    <2>2. Subject!Outcome(ended) \in {"complete", "partial", "failed"}
      BY DEF Subject!Outcome
    <2> DEFINE row1 == Subject!EndedRun(runs[r], Subject!Outcome(ended), 0, promoted)
    <2>3. row1 \in Subject!RunRecords /\ row1.status = Subject!Outcome(ended) /\ row1.started = runs[r].started
      BY <2>1, <2>2, SubjectTyped DEF Subject!EndedRun, Subject!RunRecords, Subject!Statuses
    <2>4. R = [runs EXCEPT ![r] = row1]
      BY DEF Subject!Closed
    <2> HIDE DEF row1, R
    <2> QED
      BY <1>3, <2>2, <2>3, <2>4, SameRuns
  <1>5. D \in [Subject!RunIds -> [Apps -> Subject!Demands]]
    BY <1>3, SameRuns
  <1>6. \A q \in Subject!RunIds, b \in Apps :
          /\ demand[q][b].state # "running" => D[q][b] = demand[q][b]
          /\ D[q][b].state = "running" => R[q].status = "running"
    <2> HIDE DEF R
    <2> QED
      BY <1>3, <1>4, SameRuns
  <1> HIDE DEF R, D
  <1>7. \A q \in Subject!RunIds :
          /\ R[q].status = "absent" <=> runs[q].status = "absent"
          /\ R[q].status = "running" => runs[q].status = "running"
          /\ R[q].started = runs[q].started
    BY <1>1, <1>4
  <1>8. Sound(mid) /\ Lessens(Subject!Tables, mid)
    BY <1>4, <1>5, <1>6, <1>7, EndsAsTables
  <1> HIDE DEF mid
  <1>9. Sound(db) /\ Lessens(mid, db)
    BY <1>8, PrunedKeeps
  <1> HIDE DEF db
  <1>10. Lessens(Subject!Tables, db)
    BY <1>8, <1>9, LessensOnward
  <1>11. ProcTyped' /\ \A q \in Proc : GoesOn(q)
    BY <1>1, IdleTyped
  <1>12. wishlist' \in [Accounts -> SUBSET Apps] /\ accounts' \subseteq Accounts
    BY <1>1 DEF SubjectInv, SubjectShapes
  <1>13. proc' # proc
    BY <1>1 DEF SubjectInv, SubjectShapes, Subject!Idle
  <1>14. SubjectInv' /\ Subject!FactMovesForward
    BY <1>1, <1>2, <1>9, <1>10, <1>11, <1>12, FadingStep
  <1> QED
    BY <1>13, <1>14 DEF Subject!DeletionSpares

\* Of any runs there is one that began last, the id deciding between equals.
LEMMA LatestRun ==
    ASSUME Subject!SyncRunsAssumption, runs \in [Subject!RunIds -> Subject!RunRecords],
           NEW S \in SUBSET Subject!RunIds, S # {}
    PROVE  \E r \in S : \A q \in S \ {r} : Subject!StartedLater(r, q)
  <1> DEFINE starts == {runs[r].started : r \in S}
  <1>1. \A r \in S : runs[r].started \in 0 .. SubjectTime /\ r \in 0 .. SubjectRuns
    BY SubjectTyped DEF Subject!RunRecords, Subject!Times
  <1>2. SubjectTime \in Nat /\ SubjectRuns \in Nat
    BY DEF Subject!SyncRunsAssumption
  <1>3. starts \in SUBSET (0 .. SubjectTime) /\ starts # {}
    BY <1>1
  <1>4. PICK top \in starts : \A s \in starts : s <= top
    BY <1>2, <1>3, GreatestNatural
  <1> DEFINE last == {r \in S : runs[r].started = top}
  <1>5. last \in SUBSET (0 .. SubjectRuns) /\ last # {}
    BY <1>1, <1>4
  <1>6. PICK r \in last : \A q \in last : q <= r
    BY <1>2, <1>5, GreatestNatural
  <1>7. ASSUME NEW q \in S \ {r} PROVE Subject!StartedLater(r, q)
    <2>1. runs[q].started <= top /\ runs[r].started = top /\ runs[q].started \in Int /\ top \in Int
      BY <1>1, <1>4, <1>6
    <2>2. runs[q].started = top => q <= r
      BY <1>6
    <2>3. q \in Int /\ r \in Int /\ q # r
      BY <1>1, <1>6
    <2> QED
      BY <2>1, <2>2, <2>3 DEF Subject!StartedLater
  <1> QED
    BY <1>6, <1>7

\* A review this account fetched goes over to a run of another account.
LEMMA RehomedFacts ==
    ASSUME Subject!SyncRunsAssumption, Subject!SubjectAssumption, SubjectInv, kind = "reviews",
           NEW acct \in Accounts, NEW now \in Subject!Times,
           NEW F, F = Subject!Rehomed(acct, now)
    PROVE  /\ F \in [Subject!Holders -> [Apps -> Subject!Facts]]
           /\ \A h \in Subject!Holders, a \in Apps :
                /\ FactRests([Subject!Tables EXCEPT !.fact = F], h, a)
                /\ F[h][a].run \notin Subject!RunsOf(acct)
                /\ \/ F[h][a] \in {fact[h][a], Subject!NoFact}
                   \/ fact[h][a].run # 0 => by[fact[h][a].run] = acct
           /\ \A a \in Apps :
                (/\ fact[Everyone][a].known
                 /\ F[Everyone][a] = fact[Everyone][a] \/ Subject!ReadyElsewhere(acct, a, now) # {})
                => F[Everyone][a].known
  <1> DEFINE db == [Subject!Tables EXCEPT !.fact = F]
             Other(a) == fact[Everyone][a].run # 0 /\ by[fact[Everyone][a].run] # acct
             sources(a) == Subject!ReadyElsewhere(acct, a, now)
             chosen(a) == CHOOSE r \in sources(a) : \A q \in sources(a) \ {r} : Subject!StartedLater(r, q)
             moved(a) == [known |-> TRUE, run |-> chosen(a), at |-> demand[chosen(a)][a].at]
             new(a) == IF ~fact[Everyone][a].known \/ Other(a) THEN fact[Everyone][a]
                       ELSE IF sources(a) = {} THEN Subject!NoFact ELSE moved(a)
  <1>1. Everyone \in Subject!Holders /\ Everyone # acct
    BY DEF Subject!Holders, Subject!SubjectAssumption
  <1>2. F = [fact EXCEPT ![Everyone] = [a \in Apps |-> new(a)]]
    BY DEF Subject!Rehomed
  <1>3. /\ db.fact = F /\ db.runs = runs /\ db.by = by /\ db.demand = demand
    BY DEF Subject!Tables
  <1>4. \A a \in Apps : sources(a) # {} =>
          /\ chosen(a) \in Subject!RunIds /\ runs[chosen(a)].status # "absent" /\ by[chosen(a)] # acct
          /\ demand[chosen(a)][a].state = "ready"
    <2> SUFFICES ASSUME NEW a \in Apps, sources(a) # {}
                 PROVE  chosen(a) \in sources(a)
      BY DEF Subject!ReadyElsewhere, Subject!Live, Subject!Is
    <2>1. sources(a) \in SUBSET Subject!RunIds
      BY DEF Subject!ReadyElsewhere
    <2> HIDE DEF sources
    <2> QED
      BY <2>1, LatestRun, SameRuns
  <1> HIDE DEF sources, chosen
  <1>5. \A a \in Apps : sources(a) # {} =>
          moved(a) \in Subject!Facts /\ moved(a).known /\ moved(a).run = chosen(a)
          /\ moved(a).at = demand[chosen(a)][a].at
    <2> SUFFICES ASSUME NEW a \in Apps, sources(a) # {} PROVE moved(a) \in Subject!Facts
      OBVIOUS
    <2>1. chosen(a) \in 0 .. SubjectRuns /\ demand[chosen(a)][a] \in Subject!Demands
      BY <1>4, SameRuns, SubjectTyped
    <2> QED
      BY <2>1 DEF Subject!Demands, Subject!Facts
  <1> HIDE DEF moved
  <1>6. \A a \in Apps : new(a) \in Subject!Facts
    BY <1>1, <1>5, SameRuns, SubjectTyped
  <1>7. F \in [Subject!Holders -> [Apps -> Subject!Facts]]
    <2>1. [a \in Apps |-> new(a)] \in [Apps -> Subject!Facts]
      BY <1>6
    <2> HIDE DEF new
    <2> QED
      BY <1>1, <1>2, <2>1, SameRuns
  <1>8. \A h \in Subject!Holders, a \in Apps : F[h][a] = IF h = Everyone THEN new(a) ELSE fact[h][a]
    <2> HIDE DEF new
    <2> QED
      BY <1>1, <1>2, SameRuns
  <1> HIDE DEF db
  <1>9. ASSUME NEW h \in Subject!Holders, NEW a \in Apps
        PROVE  /\ FactRests(db, h, a)
               /\ F[h][a].run \notin Subject!RunsOf(acct)
               /\ \/ F[h][a] \in {fact[h][a], Subject!NoFact}
                  \/ fact[h][a].run # 0 => by[fact[h][a].run] = acct
    <2>1. FactRests(Subject!Tables, h, a)
      BY DEF SubjectInv, Sound, FactsRest
    <2>2. /\ Subject!Tables.fact = fact /\ Subject!Tables.runs = runs
          /\ Subject!Tables.by = by /\ Subject!Tables.demand = demand
      BY DEF Subject!Tables
    <2>3. fact[h][a].run # 0 =>
            /\ fact[h][a].known /\ runs[fact[h][a].run].status # "absent"
            /\ Subject!Holder(by[fact[h][a].run]) = h
      BY <2>1, <2>2 DEF FactRests
    <2>4. 0 \notin Subject!RunsOf(acct) /\ Subject!NoFact.run = 0 /\ ~Subject!NoFact.known
      BY SubjectTyped DEF Subject!RunsOf, Subject!NoFact
    <2>5. CASE h # Everyone
      <3>1. F[h][a] = fact[h][a] /\ fact[h][a].run = 0
        BY <1>8, <2>3, <2>5 DEF Subject!Holder
      <3> QED
        BY <1>3, <2>1, <2>2, <2>4, <3>1 DEF FactRests
    <2>6. CASE h = Everyone /\ (~fact[Everyone][a].known \/ Other(a))
      <3>1. F[h][a] = fact[h][a]
        BY <1>8, <2>6
      <3>2. fact[h][a].run \notin Subject!RunsOf(acct)
        BY <2>3, <2>4, <2>6 DEF Subject!RunsOf
      <3> QED
        BY <1>3, <2>1, <2>2, <3>1, <3>2 DEF FactRests
    <2>7. CASE h = Everyone /\ fact[Everyone][a].known /\ ~Other(a) /\ sources(a) = {}
      <3>1. F[h][a] = Subject!NoFact
        BY <1>8, <2>7
      <3> QED
        BY <1>3, <2>4, <3>1 DEF FactRests
    <2>8. CASE h = Everyone /\ fact[Everyone][a].known /\ ~Other(a) /\ sources(a) # {}
      <3>1. F[h][a] = moved(a)
        BY <1>8, <2>8
      <3>2. chosen(a) \notin Subject!RunsOf(acct)
        BY <1>4, <2>8 DEF Subject!RunsOf
      <3>3. Subject!Holder(by[chosen(a)]) = h
        BY <2>8 DEF Subject!Holder
      <3>4. chosen(a) # 0
        BY <1>4, <2>8, SubjectTyped
      <3> QED
        BY <1>3, <1>4, <1>5, <2>8, <3>1, <3>2, <3>3, <3>4 DEF FactRests
    <2> QED
      BY <2>5, <2>6, <2>7, <2>8
  <1>10. ASSUME NEW a \in Apps, fact[Everyone][a].known,
                F[Everyone][a] = fact[Everyone][a] \/ sources(a) # {}
         PROVE  F[Everyone][a].known
    BY <1>1, <1>5, <1>8, <1>10
  <1> QED
    BY <1>7, <1>9, <1>10 DEF db, sources

\* Where a fact of this account's run goes elsewhere, that run goes with it.
MovesOn(acct, db) ==
    \A h \in Subject!Holders, a \in Apps :
        db.fact[h][a].run \in {0, fact[h][a].run}
        \/ (fact[h][a].run # 0 => /\ by[fact[h][a].run] = acct
                                  /\ db.runs[fact[h][a].run].status = "absent")

\* A review with another ready answer that has not expired is still there.
SparesIn(db, now) ==
    kind = "reviews" =>
        \A a \in Apps :
            /\ fact[Everyone][a].known
            /\ \E r \in Subject!RunIds : /\ db.runs[r].status # "absent"
                                         /\ db.demand[r][a].state = "ready"
                                         /\ db.demand[r][a].at >= now - History
            => db.fact[Everyone][a].known

LEMMA FadingMovesOn ==
    ASSUME NEW acct, NEW d0, NEW d1, FactsFade(d0, d1), MovesOn(acct, d0), RunsLessen(d0, d1),
           \A h \in Subject!Holders, a \in Apps : fact[h][a].run # 0 => fact[h][a].run \in Subject!RunIds
    PROVE  MovesOn(acct, d1)
  <1> SUFFICES ASSUME NEW h \in Subject!Holders, NEW a \in Apps
               PROVE  \/ d1.fact[h][a].run \in {0, fact[h][a].run}
                      \/ (fact[h][a].run # 0 => /\ by[fact[h][a].run] = acct
                                                /\ d1.runs[fact[h][a].run].status = "absent")
    BY DEF MovesOn
  <1>1. d1.fact[h][a].run \in {0, d0.fact[h][a].run}
    <2>1. Fades(d0.fact[h][a], d1.fact[h][a])
      BY DEF FactsFade
    <2> QED
      BY <2>1, FadesRun
  <1>2. \A r \in Subject!RunIds : d0.runs[r].status = "absent" => d1.runs[r].status = "absent"
    BY DEF RunsLessen
  <1> QED
    BY <1>1, <1>2 DEF MovesOn

LEMMA DetachedKeeps ==
    ASSUME Subject!SyncRunsAssumption, Subject!SubjectAssumption, SubjectInv,
           NEW acct \in Accounts, NEW now \in Subject!Times
    PROVE  LET db == Subject!Detached(acct, now) IN
           /\ Sound(db) /\ RunsLessen(Subject!Tables, db)
           /\ MovesOn(acct, db) /\ SparesIn(db, now)
  <1> DEFINE F == IF kind = "reviews" THEN Subject!Rehomed(acct, now) ELSE fact
             S == Subject!RunsOf(acct)
             mid == [Subject!Tables EXCEPT !.fact = F]
             db == Subject!Detached(acct, now)
  <1>1. db = Subject!DropRuns(mid, S)
    BY DEF Subject!Detached
  <1>2. mid = [runs |-> runs, by |-> by, demand |-> demand, fact |-> F]
    <2> HIDE DEF F
    <2> QED
      BY DEF Subject!Tables
  <1>3. /\ F \in [Subject!Holders -> [Apps -> Subject!Facts]]
        /\ \A h \in Subject!Holders, a \in Apps :
             /\ FactRests(mid, h, a)
             /\ kind = "reviews" => F[h][a].run \notin S
             /\ \/ F[h][a] \in {fact[h][a], Subject!NoFact}
                \/ kind = "reviews" /\ (fact[h][a].run # 0 => by[fact[h][a].run] = acct)
    <2>1. CASE kind = "reviews"
      <3> DEFINE G == Subject!Rehomed(acct, now)
      <3>1. F = G
        BY <2>1
      <3> HIDE DEF F, G
      <3>2. /\ G \in [Subject!Holders -> [Apps -> Subject!Facts]]
            /\ \A h \in Subject!Holders, a \in Apps :
                 /\ FactRests([Subject!Tables EXCEPT !.fact = G], h, a)
                 /\ G[h][a].run \notin S
                 /\ \/ G[h][a] \in {fact[h][a], Subject!NoFact}
                    \/ fact[h][a].run # 0 => by[fact[h][a].run] = acct
        BY <2>1, RehomedFacts DEF G
      <3> QED
        BY <2>1, <3>1, <3>2
    <2>2. CASE kind # "reviews"
      <3>1. F = fact
        BY <2>2
      <3>2. mid = Subject!Tables
        BY <1>2, <3>1 DEF Subject!Tables
      <3> QED
        BY <2>2, <3>1, <3>2, SameRuns DEF SubjectInv, Sound, FactsRest
    <2> QED
      BY <2>1, <2>2
  <1> HIDE DEF F, mid
  <1>4. mid.runs = runs /\ mid.by = by /\ mid.demand = demand /\ mid.fact = F
    BY <1>2
  <1>5. Sound(mid)
    <2>1. Rows(mid)
      BY <1>2, <1>3, <1>4, SameRuns DEF Rows
    <2>2. DemandsOfRuns(mid)
      BY <1>4 DEF SubjectInv, Sound, DemandsOfRuns, Subject!Tables
    <2> QED
      BY <1>3, <2>1, <2>2 DEF Sound, FactsRest
  <1> HIDE DEF db, S
  <1>6. /\ Rows(db) /\ DemandsOfRuns(db) /\ Lessens(mid, db)
        /\ \A h \in Subject!Holders, a \in Apps : FactRests(db, h, a)
        /\ \A r \in Subject!RunIds : r \in S => db.runs[r].status = "absent"
    BY <1>1, <1>3, <1>4, <1>5, RunsGone
  <1>7. Sound(db)
    BY <1>6 DEF Sound, FactsRest
  <1>8. RunsLessen(Subject!Tables, db)
    BY <1>4, <1>6 DEF Lessens, RunsLessen, Subject!Tables
  <1>9. \A h \in Subject!Holders, a \in Apps : fact[h][a].run # 0 =>
          fact[h][a].run \in Subject!RunIds /\ runs[fact[h][a].run].status # "absent"
    BY FactTyped, SameRuns DEF SubjectInv, Sound, FactsRest, FactRests, Subject!Tables
  <1>10. MovesOn(acct, db)
    <2> SUFFICES ASSUME NEW h \in Subject!Holders, NEW a \in Apps
                 PROVE  \/ db.fact[h][a].run \in {0, fact[h][a].run}
                        \/ (fact[h][a].run # 0 => /\ by[fact[h][a].run] = acct
                                                  /\ db.runs[fact[h][a].run].status = "absent")
      BY DEF MovesOn
    <2>1. Fades(F[h][a], db.fact[h][a])
      BY <1>4, <1>6 DEF Lessens, FactsFade
    <2>2. db.fact[h][a].run \in {0, F[h][a].run}
      BY <2>1, FadesRun
    <2>3. fact[h][a].run # 0 /\ by[fact[h][a].run] = acct => fact[h][a].run \in S
      BY <1>9 DEF S, Subject!RunsOf, Subject!Live, Subject!Is
    <2> QED
      BY <1>3, <1>6, <1>9, <2>2, <2>3, SubjectTyped
  <1>11. SparesIn(db, now)
    <2> SUFFICES ASSUME kind = "reviews", NEW a \in Apps, fact[Everyone][a].known,
                        NEW r \in Subject!RunIds, db.runs[r].status # "absent",
                        db.demand[r][a].state = "ready", db.demand[r][a].at >= now - History
                 PROVE  db.fact[Everyone][a].known
      BY DEF SparesIn
    <2>1. r \notin S
      BY <1>6
    <2>2. db.demand[r][a] = demand[r][a] /\ runs[r].status # "absent"
      BY <1>1, <1>4, <1>8, <2>1 DEF Subject!DropRuns, RunsLessen, Subject!Tables
    <2>3. r \in Subject!ReadyElsewhere(acct, a, now)
      BY <2>1, <2>2 DEF S, Subject!ReadyElsewhere, Subject!RunsOf, Subject!Live, Subject!Is
    <2>4. F[Everyone][a].known
      BY <2>3, RehomedFacts DEF F
    <2>5. Everyone \in Subject!Holders
      BY DEF Subject!Holders
    <2>6. Fades(F[Everyone][a], db.fact[Everyone][a]) /\ FactRests(db, Everyone, a)
      BY <1>4, <1>6, <2>5 DEF Lessens, FactsFade
    <2>7. db.fact[Everyone][a] = F[Everyone][a]
      <3>1. F[Everyone][a].run \notin S
        BY <1>3, <2>5
      <3> QED
        BY <1>1, <1>4, <2>5, <3>1 DEF Subject!DropRuns
    <2> QED
      BY <2>4, <2>7
  <1> QED
    BY <1>7, <1>8, <1>10, <1>11 DEF db

\* Reviews of titles on nobody's wishlist go.
LEMMA UnwishedGone ==
    ASSUME Subject!SyncRunsAssumption, NEW db, Sound(db), NEW lists
    PROVE  LET d1 == Subject!DropUnwished(db, lists) IN
           /\ Sound(d1) /\ Lessens(db, d1) /\ d1.runs = db.runs /\ d1.demand = db.demand
           /\ \A a \in Apps : a \in Subject!Wished(lists) => d1.fact[Everyone][a] = db.fact[Everyone][a]
  <1> DEFINE F == [h \in Subject!Holders |-> [a \in Apps |->
                     IF kind = "reviews" /\ a \notin Subject!Wished(lists)
                     THEN Subject!NoFact ELSE db.fact[h][a]]]
             d1 == [db EXCEPT !.fact = F]
  <1>1. Subject!DropUnwished(db, lists) = d1
    BY DEF Subject!DropUnwished, Subject!DropFacts
  <1>2. \A h \in Subject!Holders, a \in Apps :
          /\ F[h][a] = Subject!NoFact \/ (F[h][a] = db.fact[h][a] /\ FactRests(db, h, a))
          /\ F[h][a] \in Subject!Facts
          /\ a \in Subject!Wished(lists) => F[h][a] = db.fact[h][a]
    BY SubjectTyped DEF Sound, FactsRest, Rows
  <1>3. F = [h \in Subject!Holders |-> [a \in Apps |-> F[h][a]]]
    OBVIOUS
  <1> HIDE DEF F
  <1>4. F \in [Subject!Holders -> [Apps -> Subject!Facts]]
    BY <1>2, <1>3
  <1>5. Sound(d1) /\ Lessens(db, d1)
    BY <1>2, <1>4, FactsGone DEF Sound
  <1>6. d1.runs = db.runs /\ d1.demand = db.demand /\ d1.fact = F
    <2>1. db = [runs |-> db.runs, by |-> db.by, demand |-> db.demand, fact |-> db.fact]
      BY DEF Sound, Rows
    <2>2. d1 = [runs |-> db.runs, by |-> db.by, demand |-> db.demand, fact |-> F]
      BY <2>1
    <2> QED
      BY <2>2
  <1> HIDE DEF d1
  <1>7. Everyone \in Subject!Holders
    BY DEF Subject!Holders
  <1> QED
    BY <1>1, <1>2, <1>5, <1>6, <1>7

Settled == kind' = kind /\ nextRun' = nextRun /\ proc' = proc

LEMMA SettledStays ==
    ASSUME SubjectInv, Settled
    PROVE  ProcTyped' /\ \A p \in Proc : GoesOn(p)
  BY DEF SubjectInv, SubjectShapes, ProcTyped, GoesOn, Settled

\* Deleting what an account asked for
LEMMA DeletingStep ==
    ASSUME Subject!SyncRunsAssumption, Subject!SubjectAssumption, SubjectInv, Settled,
           NEW acct \in Accounts, NEW now \in Subject!Times, acct \in accounts,
           NEW lists \in [Accounts -> SUBSET Apps], wishlist' = lists, accounts' \subseteq Accounts,
           NEW db, Sound(db), Subject!Stored(db),
           Lessens(Subject!DropUnwished(Subject!Detached(acct, now), lists), db),
           db.runs = Subject!Detached(acct, now).runs, db.demand = Subject!Detached(acct, now).demand,
           \A a \in Apps : db.fact[Everyone][a] =
               Subject!DropUnwished(Subject!Detached(acct, now), lists).fact[Everyone][a]
    PROVE  SubjectInv' /\ Subject!FactMovesForward /\ Subject!DeletionSpares
  <1> DEFINE d0 == Subject!Detached(acct, now)
             d1 == Subject!DropUnwished(d0, lists)
  <1>1. Sound(d0) /\ RunsLessen(Subject!Tables, d0) /\ MovesOn(acct, d0) /\ SparesIn(d0, now)
    BY DetachedKeeps
  <1> HIDE DEF d0
  <1>2. /\ Sound(d1) /\ Lessens(d0, d1)
        /\ \A a \in Apps : a \in Subject!Wished(lists) => d1.fact[Everyone][a] = d0.fact[Everyone][a]
    BY <1>1, UnwishedGone
  <1>3. Lessens(d0, db)
    BY <1>2, LessensOnward DEF d0
  <1>4. RunsLessen(Subject!Tables, db)
    BY <1>1, <1>3 DEF Lessens, RunsLessen
  <1>5. SubjectInv'
    BY <1>4, LessStep, SettledStays DEF Settled
  <1>6. /\ runs' = db.runs /\ demand' = db.demand /\ fact' = db.fact
    BY DEF Subject!Stored
  <1>7. MovesOn(acct, db)
    <2>1. \A h \in Subject!Holders, a \in Apps : fact[h][a].run # 0 => fact[h][a].run \in Subject!RunIds
      BY FactTyped, SameRuns
    <2> QED
      BY <1>1, <1>3, <2>1, FadingMovesOn DEF Lessens
  <1>8. Subject!FactMovesForward
    BY <1>6, <1>7 DEF Subject!FactMovesForward, MovesOn
  <1>9. Subject!DeletionSpares
    <2> SUFFICES ASSUME kind = "reviews", NEW a \in Subject!Wished(wishlist'),
                        fact[Everyone][a].known, NEW r \in Subject!RunIds,
                        runs'[r].status # "absent", demand'[r][a].state = "ready",
                        demand'[r][a].at >= SubjectTime - History
                 PROVE  fact'[Everyone][a].known
      BY DEF Subject!DeletionSpares
    <2>1. a \in Apps
      BY DEF Subject!Wished
    <2>2. demand'[r][a].at >= now - History
      <3>1. demand'[r][a].at \in Int
        BY <1>6, <2>1, SubjectTyped DEF Sound, Rows, Subject!Demands
      <3>2. now \in Int /\ now <= SubjectTime /\ SubjectTime \in Int /\ History \in Int
        BY DEF Subject!Times, Subject!SyncRunsAssumption, Subject!SubjectAssumption
      <3> QED
        BY <3>1, <3>2
    <2>3. d0.fact[Everyone][a].known
      BY <1>1, <1>6, <2>1, <2>2 DEF SparesIn, d0
    <2> QED
      BY <1>2, <1>6, <2>1, <2>3 DEF d0
  <1> QED
    BY <1>5, <1>8, <1>9

LEMMA DeleteKindStep ==
    ASSUME Subject!SyncRunsAssumption, Subject!SubjectAssumption, SubjectInv,
           NEW acct \in Accounts, NEW now \in Subject!Times, Subject!DeleteKind(acct, now)
    PROVE  SubjectInv' /\ Subject!FactMovesForward /\ Subject!DeletionSpares
  <1> DEFINE d0 == Subject!Detached(acct, now)
             db == Subject!DropUnwished(d0, wishlist)
  <1>1. /\ acct \in accounts /\ Subject!Stored(db) /\ Settled
        /\ wishlist' = wishlist /\ accounts' = accounts
    BY DEF Subject!DeleteKind, Settled
  <1>2. wishlist \in [Accounts -> SUBSET Apps] /\ accounts' \subseteq Accounts
    BY <1>1 DEF SubjectInv, SubjectShapes
  <1>3. Sound(d0)
    BY DetachedKeeps
  <1> HIDE DEF d0
  <1>4. Sound(db) /\ db.runs = d0.runs /\ db.demand = d0.demand
    BY <1>3, UnwishedGone
  <1> HIDE DEF db
  <1>5. Lessens(db, db)
    BY DEF Lessens, RunsLessen, FactsFade, Fades
  <1> QED
    BY <1>1, <1>2, <1>4, <1>5, DeletingStep DEF d0, db

LEMMA DeleteAccountStep ==
    ASSUME Subject!SyncRunsAssumption, Subject!SubjectAssumption, SubjectInv,
           NEW acct \in Accounts, NEW now \in Subject!Times, Subject!DeleteAccount(acct, now)
    PROVE  SubjectInv' /\ Subject!FactMovesForward /\ Subject!DeletionSpares
  <1> DEFINE lists == [wishlist EXCEPT ![acct] = {}]
             d0 == Subject!Detached(acct, now)
             d1 == Subject!DropUnwished(d0, lists)
             F == [h \in Subject!Holders |-> [a \in Apps |->
                     IF h = acct THEN Subject!NoFact ELSE d1.fact[h][a]]]
             db == [d1 EXCEPT !.fact = F]
  <1>1. /\ acct \in accounts /\ Settled /\ wishlist' = lists /\ accounts' \subseteq accounts
        /\ Subject!Stored(db)
    BY DEF Subject!DeleteAccount, Settled, Subject!DropFacts
  <1>2. lists \in [Accounts -> SUBSET Apps] /\ accounts' \subseteq Accounts
    BY <1>1 DEF SubjectInv, SubjectShapes
  <1> HIDE DEF lists
  <1>3. Sound(d0)
    BY DetachedKeeps
  <1> HIDE DEF d0
  <1>4. Sound(d1) /\ d1.runs = d0.runs /\ d1.demand = d0.demand
    BY <1>3, UnwishedGone
  <1> HIDE DEF d1
  <1>5. \A h \in Subject!Holders, a \in Apps :
          /\ F[h][a] = Subject!NoFact \/ (F[h][a] = d1.fact[h][a] /\ FactRests(d1, h, a))
          /\ F[h][a] \in Subject!Facts
          /\ h # acct => F[h][a] = d1.fact[h][a]
    BY <1>4, SubjectTyped DEF Sound, FactsRest, Rows
  <1>6. F = [h \in Subject!Holders |-> [a \in Apps |-> F[h][a]]]
    OBVIOUS
  <1> HIDE DEF F
  <1>7. F \in [Subject!Holders -> [Apps -> Subject!Facts]]
    BY <1>5, <1>6
  <1>8. Sound(db) /\ Lessens(d1, db)
    BY <1>4, <1>5, <1>7, FactsGone DEF Sound
  <1>9. db.runs = d1.runs /\ db.demand = d1.demand /\ db.fact = F
    <2>1. d1 = [runs |-> d1.runs, by |-> d1.by, demand |-> d1.demand, fact |-> d1.fact]
      BY <1>4 DEF Sound, Rows
    <2>2. db = [runs |-> d1.runs, by |-> d1.by, demand |-> d1.demand, fact |-> F]
      BY <2>1
    <2> QED
      BY <2>2
  <1> HIDE DEF db
  <1>10. \A a \in Apps : db.fact[Everyone][a] = d1.fact[Everyone][a]
    BY <1>5, <1>9 DEF Subject!SubjectAssumption, Subject!Holders
  <1> QED
    BY <1>1, <1>2, <1>4, <1>8, <1>9, <1>10, DeletingStep DEF d0, d1

LEMMA WishlistStep ==
    ASSUME Subject!SyncRunsAssumption, SubjectInv, NEW acct \in Accounts, NEW apps \in SUBSET Apps,
           Subject!WishlistChanges(acct, apps)
    PROVE  SubjectInv' /\ Subject!FactMovesForward /\ Subject!DeletionSpares
  <1> DEFINE lists == [wishlist EXCEPT ![acct] = apps]
             db == Subject!DropUnwished(Subject!Tables, lists)
  <1>1. wishlist' = lists /\ Subject!Stored(db) /\ Settled /\ accounts' = accounts
    BY DEF Subject!WishlistChanges, Settled
  <1>2. lists \in [Accounts -> SUBSET Apps] /\ accounts' \subseteq Accounts
    BY <1>1 DEF SubjectInv, SubjectShapes
  <1> HIDE DEF lists
  <1>3. /\ Sound(db) /\ Lessens(Subject!Tables, db)
        /\ \A a \in Apps : a \in Subject!Wished(lists) => db.fact[Everyone][a] = fact[Everyone][a]
    BY TablesAreSound, UnwishedGone
  <1> HIDE DEF db
  <1>4. SubjectInv' /\ Subject!FactMovesForward
    BY <1>1, <1>2, <1>3, FadingStep, SettledStays DEF Settled
  <1>5. Subject!DeletionSpares
    <2>1. \A a \in Subject!Wished(wishlist') : fact'[Everyone][a] = fact[Everyone][a]
      BY <1>1, <1>2, <1>3 DEF Subject!Stored, Subject!Wished
    <2> QED
      BY <2>1 DEF Subject!DeletionSpares
  <1> QED
    BY <1>4, <1>5

\* Every run goes, and no review without its run.
LEMMA AllGoneStep ==
    ASSUME Subject!SyncRunsAssumption, SubjectInv, Settled,
           wishlist' \in [Accounts -> SUBSET Apps], accounts' \subseteq Accounts,
           NEW F, F = [h \in Subject!Holders |-> [a \in Apps |-> F[h][a]]],
           \A h \in Subject!Holders, a \in Apps :
               \/ F[h][a] = Subject!NoFact
               \/ kind # "reviews"
                  /\ F[h][a] = Subject!DropRuns(Subject!Tables, Subject!RunIds).fact[h][a],
           Subject!Stored([Subject!DropRuns(Subject!Tables, Subject!RunIds) EXCEPT !.fact = F])
    PROVE  SubjectInv' /\ Subject!FactMovesForward /\ Subject!DeletionSpares
  <1> DEFINE d1 == Subject!DropRuns(Subject!Tables, Subject!RunIds)
             db == [d1 EXCEPT !.fact = F]
  <1>1. /\ Rows(d1) /\ DemandsOfRuns(d1) /\ Lessens(Subject!Tables, d1)
        /\ \A h \in Subject!Holders, a \in Apps : kind # "reviews" => FactRests(d1, h, a)
        /\ \A r \in Subject!RunIds : d1.runs[r].status = "absent"
    BY RunsGone, TablesAreSound
  <1> HIDE DEF d1
  <1>2. \A h \in Subject!Holders, a \in Apps :
          /\ F[h][a] = Subject!NoFact \/ (F[h][a] = d1.fact[h][a] /\ FactRests(d1, h, a))
          /\ F[h][a] \in Subject!Facts
    BY <1>1, SubjectTyped DEF Rows, d1
  <1>3. F \in [Subject!Holders -> [Apps -> Subject!Facts]]
    BY <1>2
  <1>4. Sound(db) /\ Lessens(d1, db)
    BY <1>1, <1>2, <1>3, FactsGone
  <1>5. Subject!Stored(db)
    BY DEF d1
  <1>6. db.runs = d1.runs
    <2>1. d1 = [runs |-> d1.runs, by |-> d1.by, demand |-> d1.demand, fact |-> d1.fact]
      BY <1>1 DEF Rows
    <2>2. db = [runs |-> d1.runs, by |-> d1.by, demand |-> d1.demand, fact |-> F]
      BY <2>1
    <2> QED
      BY <2>2
  <1> HIDE DEF db
  <1>7. Lessens(Subject!Tables, db)
    BY <1>1, <1>4, LessensOnward
  <1>8. SubjectInv' /\ Subject!FactMovesForward
    BY <1>4, <1>5, <1>7, FadingStep, SettledStays DEF Settled
  <1>9. Subject!DeletionSpares
    BY <1>1, <1>5, <1>6 DEF Subject!DeletionSpares, Subject!Stored
  <1> QED
    BY <1>8, <1>9

LEMMA DeleteAllStep ==
    ASSUME Subject!SyncRunsAssumption, SubjectInv, Subject!DeleteAll
    PROVE  SubjectInv' /\ Subject!FactMovesForward /\ Subject!DeletionSpares
  <1> DEFINE d1 == Subject!DropRuns(Subject!Tables, Subject!RunIds)
             F == [h \in Subject!Holders |-> [a \in Apps |->
                     IF kind # "declared" THEN Subject!NoFact ELSE d1.fact[h][a]]]
  <1>1. /\ accounts' = {} /\ wishlist' = [c \in Accounts |-> {}] /\ Settled
        /\ Subject!Stored([d1 EXCEPT !.fact = F])
    BY DEF Subject!DeleteAll, Settled, Subject!DropFacts
  <1>2. wishlist' \in [Accounts -> SUBSET Apps] /\ accounts' \subseteq Accounts
    BY <1>1
  <1>3. F = [h \in Subject!Holders |-> [a \in Apps |-> F[h][a]]]
    OBVIOUS
  <1>4. \A h \in Subject!Holders, a \in Apps :
          F[h][a] = Subject!NoFact \/ (kind # "reviews" /\ F[h][a] = d1.fact[h][a])
    OBVIOUS
  <1> HIDE DEF F
  <1> QED
    BY <1>1, <1>2, <1>3, <1>4, AllGoneStep

LEMMA DeleteProviderStep ==
    ASSUME Subject!SyncRunsAssumption, SubjectInv, Subject!DeleteProvider
    PROVE  SubjectInv' /\ Subject!FactMovesForward /\ Subject!DeletionSpares
  <1> DEFINE d1 == Subject!DropRuns(Subject!Tables, Subject!RunIds)
             F == [h \in Subject!Holders |-> [a \in Apps |->
                     IF TRUE THEN Subject!NoFact ELSE d1.fact[h][a]]]
  <1>1. /\ accounts' = accounts /\ wishlist' = wishlist /\ Settled
        /\ Subject!Stored([d1 EXCEPT !.fact = F])
    BY DEF Subject!DeleteProvider, Settled, Subject!DropFacts
  <1>2. wishlist' \in [Accounts -> SUBSET Apps] /\ accounts' \subseteq Accounts
    BY <1>1 DEF SubjectInv, SubjectShapes
  <1>3. F = [h \in Subject!Holders |-> [a \in Apps |-> F[h][a]]]
    OBVIOUS
  <1>4. \A h \in Subject!Holders, a \in Apps : F[h][a] = Subject!NoFact
    OBVIOUS
  <1> HIDE DEF F
  <1> QED
    BY <1>1, <1>2, <1>3, <1>4, AllGoneStep

LEMMA FinishStep ==
    ASSUME Subject!SyncRunsAssumption, SubjectInv, NEW p \in Proc, NEW t \in Subject!Times,
           \/ Subject!FinishReviews(p, t) \/ Subject!FinishDeclared(p, t)
           \/ Subject!FinishAchievements(p, t)
    PROVE  SubjectInv' /\ Subject!FactMovesForward /\ Subject!DeletionSpares
  <1> DEFINE r == proc[p].run
             given == Subject!AllEnded(p, t)
             failed == [a \in Apps |-> IF Subject!Awaited(r, a)
                                       THEN [demand[r][a] EXCEPT !.state = "failed", !.at = t]
                                       ELSE demand[r][a]]
  <1>1. proc[p].pc # "idle"
    BY DEF Subject!FinishReviews, Subject!FinishDeclared, Subject!FinishAchievements, Subject!Finishes
  <1>2. r \in Subject!RunIds
    BY <1>1 DEF SubjectInv, CommandOf
  <1>3. \A a \in Apps : demand[r][a] \in Subject!Demands
    BY <1>2, SameRuns
  <1>4. /\ given \in [Apps -> Subject!Demands]
        /\ \A a \in Apps : /\ demand[r][a].state # "running" => given[a] = demand[r][a]
                           /\ given[a].state # "running"
    BY <1>3, UnansweredRow DEF Subject!AllEnded
  <1>5. /\ failed \in [Apps -> Subject!Demands]
        /\ \A a \in Apps : /\ demand[r][a].state # "running" => failed[a] = demand[r][a]
                           /\ failed[a].state # "running"
    <2>1. \A x \in Subject!Demands :
            /\ [x EXCEPT !.state = "failed", !.at = t] \in Subject!Demands
            /\ [x EXCEPT !.state = "failed", !.at = t].state = "failed"
      BY DEF Subject!Demands, Subject!States, Subject!Answers
    <2>2. r # 0
      BY <1>2, SubjectTyped
    <2> QED
      BY <1>3, <2>1, <2>2 DEF Subject!Awaited
  <1>6. \/ Subject!Finishes(p, given, TRUE, t)
        \/ Subject!Finishes(p, given, Subject!AnyPromoted(given), t)
        \/ Subject!Finishes(p, failed, TRUE, t)
    BY DEF Subject!FinishReviews, Subject!FinishDeclared, Subject!FinishAchievements
  <1>7. Subject!AnyPromoted(given) \in BOOLEAN
    BY DEF Subject!AnyPromoted
  <1> HIDE DEF given, failed
  <1> QED
    BY <1>4, <1>5, <1>6, <1>7, FinishesStep

LEMMA SubjectInitially ==
    ASSUME Subject!SyncRunsAssumption, Subject!SubjectInit
    PROVE  SubjectInv
  <1>1. /\ runs = [r \in Subject!RunIds |-> Subject!NoRun] /\ nextRun = 1
        /\ kind \in Subject!Kinds /\ by = [r \in Subject!RunIds |-> Everyone]
        /\ demand = [r \in Subject!RunIds |-> [a \in Apps |-> Subject!NoDemand]]
        /\ fact = [h \in Subject!Holders |-> [a \in Apps |-> Subject!NoFact]]
        /\ wishlist = [c \in Accounts |-> IF kind = "reviews" THEN Apps ELSE {}]
        /\ accounts = Accounts /\ proc = [p \in Proc |-> Subject!Idle]
    BY DEF Subject!SubjectInit, Subject!SyncRunsInit
  <1>2. Everyone \in Subject!Holders /\ 0 \in 0 .. SubjectRuns
    BY SubjectTyped DEF Subject!Holders
  <1>3. SubjectShapes
    BY <1>1, <1>2 DEF SubjectShapes, Subject!Idle
  <1>4. Sound(Subject!Tables)
    BY <1>1, <1>2, SubjectTyped DEF Sound, Rows, DemandsOfRuns, FactsRest, FactRests, Subject!Tables
  <1>5. OneAsks(Subject!Tables) /\ NotOpened(nextRun)
    BY <1>1, SubjectTyped DEF OneAsks, Asks, NotOpened, Subject!Tables
  <1>6. \A p \in Proc : CommandOf(p)
    BY <1>1 DEF CommandOf, Subject!Idle
  <1> QED
    BY <1>3, <1>4, <1>5, <1>6 DEF SubjectInv

LEMMA SubjectStays ==
    ASSUME Subject!SyncRunsAssumption, SubjectInv, UNCHANGED Subject!subjectvars
    PROVE  SubjectInv' /\ Subject!FactMovesForward /\ Subject!DeletionSpares
  <1>1. Subject!Stored(Subject!Tables) /\ Settled /\ wishlist' = wishlist /\ accounts' = accounts /\ fact' = fact
    BY DEF Subject!subjectvars, Subject!Stored, Subject!Tables, Settled
  <1>2. wishlist' \in [Accounts -> SUBSET Apps] /\ accounts' \subseteq Accounts
    BY <1>1 DEF SubjectInv, SubjectShapes
  <1>3. SubjectInv' /\ Subject!FactMovesForward
    BY <1>1, <1>2, TablesAreSound, FadingStep, SettledStays DEF Settled
  <1> QED
    BY <1>1, <1>3 DEF Subject!DeletionSpares

LEMMA DeletionTimesTyped ==
    ASSUME Subject!SyncRunsAssumption
    PROVE  Subject!DeletionTimes \subseteq Subject!Times
  <1>1. SubjectTime \in Subject!Times
    BY DEF Subject!SyncRunsAssumption, Subject!Times
  <1> QED
    BY <1>1 DEF Subject!DeletionTimes

LEMMA SubjectNextStep ==
    ASSUME Subject!SyncRunsAssumption, Subject!SubjectAssumption, SubjectInv,
           [Subject!SubjectNext]_(Subject!subjectvars)
    PROVE  SubjectInv' /\ Subject!FactMovesForward /\ Subject!DeletionSpares
  <1>1. CASE UNCHANGED Subject!subjectvars
    BY <1>1, SubjectStays
  <1>3. ASSUME NEW p \in Proc, NEW t \in Subject!Times,
               Subject!StopReviews(p, t) \/ Subject!StopDeclared(p, t) \/ Subject!StopAchievements(p, t)
        PROVE  SubjectInv' /\ Subject!FactMovesForward /\ Subject!DeletionSpares
    BY <1>3, StopEarlyStep DEF Subject!StopReviews, Subject!StopDeclared, Subject!StopAchievements
  <1>4. ASSUME NEW p \in Proc, NEW t \in Subject!Times,
               \/ Subject!FinishReviews(p, t) \/ Subject!FinishDeclared(p, t)
               \/ Subject!FinishAchievements(p, t)
        PROVE  SubjectInv' /\ Subject!FactMovesForward /\ Subject!DeletionSpares
    BY <1>4, FinishStep
  <1>5. ASSUME NEW p \in Proc, NEW t \in Subject!Times, NEW a \in Apps, NEW reply \in Subject!Answers,
               \/ Subject!RecordReview(p, a, reply, t) \/ Subject!RecordDeclared(p, a, reply, t)
               \/ Subject!RecordAchievement(p, a, reply, t)
        PROVE  SubjectInv' /\ Subject!FactMovesForward /\ Subject!DeletionSpares
    BY <1>5, RecordStep DEF Subject!RecordReview, Subject!RecordDeclared, Subject!RecordAchievement
  <1>6. ASSUME NEW p \in Proc, NEW t \in Subject!Times, NEW acct \in Accounts,
               NEW targeted \in SUBSET Apps, NEW asked \in SUBSET Apps, NEW now \in Subject!Times,
               NEW skipFresh \in BOOLEAN,
               \/ Subject!BeginReviews(p, acct, targeted, skipFresh, t)
               \/ Subject!BeginAchievements(p, acct, asked, targeted, t)
               \/ Subject!BeginDeclared(p, acct, asked, targeted, t, now)
        PROVE  SubjectInv' /\ Subject!FactMovesForward /\ Subject!DeletionSpares
    BY <1>6, BeginReviewsStep, BeginAchievementsStep, BeginDeclaredStep
  <1>7. CASE Subject!DeleteProvider \/ Subject!DeleteAll
    BY <1>7, DeleteProviderStep, DeleteAllStep
  <1>8. ASSUME NEW acct \in Accounts, NEW apps \in SUBSET Apps, Subject!WishlistChanges(acct, apps)
        PROVE  SubjectInv' /\ Subject!FactMovesForward /\ Subject!DeletionSpares
    BY <1>8, WishlistStep
  <1>9. ASSUME NEW acct \in Accounts, NEW now \in Subject!Times,
               \/ Subject!DeleteReviews(acct, now) \/ Subject!DeleteDeclared(acct, now)
               \/ Subject!DeleteAccount(acct, now)
        PROVE  SubjectInv' /\ Subject!FactMovesForward /\ Subject!DeletionSpares
    BY <1>9, DeleteKindStep, DeleteAccountStep DEF Subject!DeleteReviews, Subject!DeleteDeclared
  <1>10. CASE \E p \in Proc : Subject!SubjectStep(p)
    <2>1. PICK p \in Proc : Subject!SubjectStep(p)
      BY <1>10
    <2>2. 0 \in Subject!Times
      BY SubjectTyped
    <2> QED
      BY <1>3, <1>4, <1>5, <1>6, <2>1, <2>2 DEF Subject!SubjectStep
  <1> QED
    BY <1>1, <1>7, <1>8, <1>9, <1>10, DeletionTimesTyped DEF Subject!SubjectNext

LEMMA SubjectHolds ==
    ASSUME SubjectInv
    PROVE  Subject!OneAskerPerTitle /\ Subject!FactsRestOnAnswers
  <1>1. Subject!OneAskerPerTitle
    BY SameRuns DEF SubjectInv, OneAsks, Asks, Subject!OneAskerPerTitle, Subject!Tables
  <1>2. ASSUME NEW h \in Subject!Holders, NEW a \in Apps
        PROVE  /\ fact[h][a].run # 0 =>
                     /\ Subject!Live(fact[h][a].run) /\ Subject!Holder(by[fact[h][a].run]) = h
                     /\ demand[fact[h][a].run][a].state = "ready"
                     /\ demand[fact[h][a].run][a].at = fact[h][a].at
               /\ kind = "reviews" /\ fact[h][a].known => fact[h][a].run # 0
    <2>1. FactRests(Subject!Tables, h, a)
      BY DEF SubjectInv, Sound, FactsRest
    <2>2. fact[h][a].run # 0 => fact[h][a].run \in 0 .. SubjectRuns
      BY SameRuns DEF Subject!Facts
    <2>3. fact[h][a].run # 0 => fact[h][a].run \in Subject!RunIds
      BY <2>2 DEF Subject!RunIds
    <2> QED
      BY <2>1, <2>3 DEF FactRests, Subject!Live, Subject!Is, Subject!Tables
  <1> QED
    BY <1>1, <1>2 DEF Subject!FactsRestOnAnswers

-----------------------------------------------------------------------------
(***************************************************************************)
(* Achievements: the answer of a run is the fact shown, or a run of the    *)
(* account that began later has asked for the title too and hides it.      *)
(***************************************************************************)
AskedIn(db, c, a, r) ==
    db.runs[r].status # "absent" /\ db.by[r] = c /\ db.demand[r][a].state # "none"
AfterIn(db, q, r) ==
    \/ db.runs[q].started > db.runs[r].started
    \/ db.runs[q].started = db.runs[r].started /\ q > r
ReadyIn(db, a, r) == db.demand[r][a].state = "ready" /\ db.demand[r][a].at >= db.runs[r].started
HeldIn(db, c, a, r) == db.fact[c][a].known /\ db.fact[c][a].run = r
HiddenIn(db, c, a, r) == \E q \in Subject!RunIds : AskedIn(db, c, a, q) /\ AfterIn(db, q, r)

Stands(db, c, a, r) ==
    AskedIn(db, c, a, r) /\ ReadyIn(db, a, r) => HeldIn(db, c, a, r) \/ HiddenIn(db, c, a, r)
AllStand(db) ==
    kind = "achievements" =>
        \A c \in Accounts, a \in Apps, r \in Subject!RunIds : Stands(db, c, a, r)

\* No new answer, and what held or hid an old one still does
Carries(d0, d1, c, a, r) ==
    AskedIn(d1, c, a, r) /\ ReadyIn(d1, a, r) =>
        /\ AskedIn(d0, c, a, r) /\ ReadyIn(d0, a, r)
        /\ HeldIn(d0, c, a, r) => HeldIn(d1, c, a, r)
        /\ \A q \in Subject!RunIds :
             AskedIn(d0, c, a, q) /\ AfterIn(d0, q, r) => AskedIn(d1, c, a, q) /\ AfterIn(d1, q, r)

LEMMA CarriesOn ==
    ASSUME NEW d0, NEW d1, AllStand(d0),
           kind = "achievements" =>
               \A c \in Accounts, a \in Apps, r \in Subject!RunIds : Carries(d0, d1, c, a, r)
    PROVE  AllStand(d1)
  <1> SUFFICES ASSUME kind = "achievements", NEW c \in Accounts, NEW a \in Apps, NEW r \in Subject!RunIds,
                      AskedIn(d1, c, a, r), ReadyIn(d1, a, r)
               PROVE  HeldIn(d1, c, a, r) \/ HiddenIn(d1, c, a, r)
    BY DEF AllStand, Stands
  <1>1. Carries(d0, d1, c, a, r)
    OBVIOUS
  <1>2. Stands(d0, c, a, r)
    BY DEF AllStand
  <1> QED
    BY <1>1, <1>2 DEF Carries, Stands, HiddenIn

LEMMA StandsNext ==
    ASSUME NEW db, AllStand(db), Subject!Stored(db), kind' = kind
    PROVE  AllStand(Subject!Tables)'
  <1>1. /\ (Subject!Tables.runs)' = db.runs /\ (Subject!Tables.by)' = db.by
        /\ (Subject!Tables.demand)' = db.demand /\ (Subject!Tables.fact)' = db.fact
    BY DEF Subject!Tables, Subject!Stored
  <1> QED
    BY <1>1 DEF AllStand, Stands, AskedIn, AfterIn, ReadyIn, HeldIn, HiddenIn

\* Dropped runs leave the tables as they were for the others.
LEMMA DroppedRuns ==
    ASSUME Subject!SyncRunsAssumption, NEW db, NEW S
    PROVE  LET d1 == Subject!DropRuns(db, S) IN
           /\ \A r \in Subject!RunIds :
                /\ r \in S => d1.runs[r].status = "absent"
                /\ r \notin S => d1.runs[r] = db.runs[r] /\ d1.by[r] = db.by[r] /\ d1.demand[r] = db.demand[r]
           /\ \A h \in Subject!Holders, a \in Apps :
                db.fact[h][a].run \notin S => d1.fact[h][a] = db.fact[h][a]
  <1> DEFINE d1 == Subject!DropRuns(db, S)
  <1>1. /\ d1.runs = [r \in Subject!RunIds |-> IF r \in S THEN Subject!NoRun ELSE db.runs[r]]
        /\ d1.by = [r \in Subject!RunIds |-> IF r \in S THEN Everyone ELSE db.by[r]]
        /\ d1.demand = [r \in Subject!RunIds |-> IF r \in S THEN [a \in Apps |-> Subject!NoDemand]
                                                 ELSE db.demand[r]]
        /\ d1.fact = [h \in Subject!Holders |-> [a \in Apps |->
                       IF db.fact[h][a].run \notin S THEN db.fact[h][a]
                       ELSE IF kind = "achievements" THEN Subject!NoFact
                       ELSE [db.fact[h][a] EXCEPT !.run = 0]]]
    BY DEF Subject!DropRuns, Subject!Without
  <1> HIDE DEF d1
  <1>2. \A r \in Subject!RunIds :
          /\ r \in S => d1.runs[r].status = "absent"
          /\ r \notin S => d1.runs[r] = db.runs[r] /\ d1.by[r] = db.by[r] /\ d1.demand[r] = db.demand[r]
    BY <1>1, SubjectTyped
  <1>3. \A h \in Subject!Holders, a \in Apps :
          db.fact[h][a].run \notin S => d1.fact[h][a] = db.fact[h][a]
    BY <1>1
  <1> QED
    BY <1>2, <1>3 DEF d1

\* Runs that go with all that are older, of the same account
LEMMA DroppingCarries ==
    ASSUME Subject!SyncRunsAssumption, NEW db, NEW mid, NEW S,
           mid.runs = db.runs, mid.by = db.by, mid.demand = db.demand,
           \A q, r \in Subject!RunIds :
               q \in S /\ db.by[q] = db.by[r] /\ AfterIn(db, q, r) => r \in S \/ db.runs[r].status = "absent",
           NEW c \in Accounts, NEW a \in Apps, NEW r \in Subject!RunIds,
           r \notin S /\ AskedIn(db, c, a, r) /\ ReadyIn(db, a, r) /\ HeldIn(db, c, a, r) => HeldIn(mid, c, a, r)
    PROVE  Carries(db, Subject!DropRuns(mid, S), c, a, r)
  <1> DEFINE d1 == Subject!DropRuns(mid, S)
  <1>1. /\ \A q \in Subject!RunIds :
             /\ q \in S => d1.runs[q].status = "absent"
             /\ q \notin S => d1.runs[q] = db.runs[q] /\ d1.by[q] = db.by[q] /\ d1.demand[q] = db.demand[q]
        /\ c \in Subject!Holders => (mid.fact[c][a].run \notin S => d1.fact[c][a] = mid.fact[c][a])
    BY DroppedRuns
  <1>2. c \in Subject!Holders
    BY DEF Subject!Holders
  <1> HIDE DEF d1
  <1> SUFFICES ASSUME AskedIn(d1, c, a, r), ReadyIn(d1, a, r)
               PROVE  /\ AskedIn(db, c, a, r) /\ ReadyIn(db, a, r)
                      /\ HeldIn(db, c, a, r) => HeldIn(d1, c, a, r)
                      /\ \A q \in Subject!RunIds :
                           AskedIn(db, c, a, q) /\ AfterIn(db, q, r) => AskedIn(d1, c, a, q) /\ AfterIn(d1, q, r)
    BY DEF Carries, d1
  <1>3. r \notin S
    BY <1>1 DEF AskedIn
  <1>4. AskedIn(db, c, a, r) /\ ReadyIn(db, a, r)
    BY <1>1, <1>3 DEF AskedIn, ReadyIn
  <1>5. HeldIn(db, c, a, r) => HeldIn(d1, c, a, r)
    BY <1>1, <1>2, <1>3, <1>4 DEF HeldIn
  <1>6. ASSUME NEW q \in Subject!RunIds, AskedIn(db, c, a, q), AfterIn(db, q, r)
        PROVE  AskedIn(d1, c, a, q) /\ AfterIn(d1, q, r)
    <2>1. q \notin S
      BY <1>3, <1>4, <1>6 DEF AskedIn
    <2> QED
      BY <1>1, <1>3, <1>6, <2>1 DEF AskedIn, AfterIn
  <1> QED
    BY <1>4, <1>5, <1>6

LEMMA PrunedStands ==
    ASSUME Subject!SyncRunsAssumption, Subject!SubjectAssumption, NEW db, Sound(db), AllStand(db),
           NEW acct, NEW t \in Subject!Times
    PROVE  kind = "achievements" => AllStand(Subject!Pruned(db, acct, t))
  <1> SUFFICES ASSUME kind = "achievements" PROVE AllStand(Subject!Pruned(db, acct, t))
    OBVIOUS
  <1> DEFINE Gone(h, a) ==
               /\ db.fact[h][a].known
               /\ h \in {Everyone, acct}
               /\ \/ db.fact[h][a].at < t - History
                  \/ kind = "reviews" /\ a \notin Subject!Wished(wishlist)
             F == [h \in Subject!Holders |-> [a \in Apps |->
                     IF Gone(h, a) THEN Subject!NoFact ELSE db.fact[h][a]]]
             kept == [db EXCEPT !.fact = F]
             old == Subject!OldRuns(kept, acct, t)
  <1>1. Subject!Pruned(db, acct, t) = Subject!DropRuns(kept, old)
    BY DEF Subject!Pruned, Subject!DropFacts
  <1>2. \A h \in Subject!Holders, a \in Apps : F[h][a] = IF Gone(h, a) THEN Subject!NoFact ELSE db.fact[h][a]
    OBVIOUS
  <1> HIDE DEF F
  <1>3. kept.runs = db.runs /\ kept.by = db.by /\ kept.demand = db.demand /\ kept.fact = F
    <2>1. db = [runs |-> db.runs, by |-> db.by, demand |-> db.demand, fact |-> db.fact]
      BY DEF Sound, Rows
    <2>2. kept = [runs |-> db.runs, by |-> db.by, demand |-> db.demand, fact |-> F]
      BY <2>1
    <2> QED
      BY <2>2
  <1> HIDE DEF kept
  <1>4. \A r \in Subject!RunIds :
          r \in old <=> /\ db.runs[r].status # "absent" /\ db.runs[r].started < t - History
                        /\ db.by[r] = acct
    BY <1>3 DEF Subject!OldRuns
  <1>5. /\ \A r \in Subject!RunIds : db.runs[r].started \in Int
        /\ t \in Int /\ History \in Int
        /\ \A r \in Subject!RunIds, a \in Apps : db.demand[r][a].at \in Int
    <2>1. Subject!Times \subseteq Int
      BY SubjectTyped
    <2>2. \A r \in Subject!RunIds : db.runs[r] \in Subject!RunRecords
      BY DEF Sound, Rows
    <2>3. \A r \in Subject!RunIds, a \in Apps : db.demand[r][a] \in Subject!Demands
      BY DEF Sound, Rows
    <2> QED
      BY <2>1, <2>2, <2>3 DEF Subject!RunRecords, Subject!Demands, Subject!SubjectAssumption
  <1> HIDE DEF old
  <1>6. \A q, r \in Subject!RunIds :
          q \in old /\ db.by[q] = db.by[r] /\ AfterIn(db, q, r) => r \in old \/ db.runs[r].status = "absent"
    BY <1>4, <1>5 DEF AfterIn
  <1>7. ASSUME NEW c \in Accounts, NEW a \in Apps, NEW r \in Subject!RunIds
        PROVE  Carries(db, Subject!DropRuns(kept, old), c, a, r)
    <2>1. ASSUME r \notin old, AskedIn(db, c, a, r), ReadyIn(db, a, r), HeldIn(db, c, a, r)
          PROVE  HeldIn(kept, c, a, r)
      <3>1. c \in Subject!Holders /\ c # Everyone /\ r # 0
        BY SubjectTyped DEF Subject!Holders, Subject!SubjectAssumption
      <3>2. db.fact[c][a].at = db.demand[r][a].at
        BY <2>1, <3>1 DEF Sound, FactsRest, FactRests, HeldIn
      <3>3. ~Gone(c, a)
        BY <1>4, <1>5, <2>1, <3>1, <3>2 DEF AskedIn, ReadyIn
      <3>4. kept.fact[c][a] = db.fact[c][a]
        BY <1>2, <1>3, <3>1, <3>3
      <3> QED
        BY <2>1, <3>4 DEF HeldIn
    <2> QED
      BY <1>3, <1>6, <2>1, DroppingCarries
  <1> QED
    BY <1>1, <1>7, CarriesOn

\* A run that is opened hides what it asks for, and answers nothing yet.
LEMMA OpeningStands ==
    ASSUME Subject!SyncRunsAssumption, SubjectInv, NEW p, NEW acct \in Accounts,
           NEW db, Sound(db), Lessens(Subject!Tables, db), AllStand(db),
           NEW asked, NEW targeted, NEW skipped, NEW t \in Subject!Times,
           Subject!MayOpen(p, acct), Subject!Opens(p, acct, db, asked, targeted, skipped, t)
    PROVE  AllStand(Subject!Tables)'
  <1> DEFINE R == [db.runs EXCEPT ![nextRun] =
                     [status |-> "running", started |-> t, completed |-> 0, promoted |-> FALSE]]
             B == [db.by EXCEPT ![nextRun] = acct]
             D == [db.demand EXCEPT ![nextRun] = [a \in Apps |-> NewRow(asked, targeted, skipped, t, a)]]
             d1 == [runs |-> R, by |-> B, demand |-> D, fact |-> db.fact]
  <1>1. Subject!Stored(d1) /\ kind' = kind /\ nextRun \in Subject!RunIds
    <2>1. db = [runs |-> db.runs, by |-> db.by, demand |-> db.demand, fact |-> db.fact]
      BY DEF Sound, Rows
    <2>2. d1 = Changed(db, R, B, D)
      <3> HIDE DEF R, B, D
      <3> QED
        BY <2>1, TablesChanged
    <2>3. d1 = [db EXCEPT !.runs = Subject!Opened(db.runs, t), !.by[nextRun] = acct,
                          !.demand[nextRun] = [a \in Apps |-> NewRow(asked, targeted, skipped, t, a)]]
      BY <2>1, <2>2 DEF Subject!Opened, Changed
    <2> QED
      BY <2>3 DEF Subject!Opens, NewRow, Subject!MayOpen, Subject!CanOpen
  <1>2. d1.runs = R /\ d1.by = B /\ d1.demand = D /\ d1.fact = db.fact
    OBVIOUS
  <1>3. /\ \A r \in Subject!RunIds : r # nextRun => R[r] = db.runs[r] /\ B[r] = db.by[r] /\ D[r] = db.demand[r]
        /\ \A a \in Apps : D[nextRun][a] = NewRow(asked, targeted, skipped, t, a)
    BY <1>1 DEF Sound, Rows
  <1>4. db.runs[nextRun].status = "absent"
    BY <1>1, SubjectTyped DEF SubjectInv, NotOpened, Lessens, RunsLessen, Subject!Tables
  <1> HIDE DEF R, B, D, d1
  <1>5. ASSUME NEW c \in Accounts, NEW a \in Apps, NEW r \in Subject!RunIds
        PROVE  Carries(db, d1, c, a, r)
    <2>1. CASE r = nextRun
      <3>1. D[r][a].state # "ready"
        BY <1>3, <2>1, NewRowTyped
      <3> QED
        BY <1>2, <3>1 DEF Carries, ReadyIn
    <2>2. CASE r # nextRun
      <3>1. \A q \in Subject!RunIds : AskedIn(db, c, a, q) => q # nextRun
        BY <1>4 DEF AskedIn
      <3>2. \A q \in Subject!RunIds : q # nextRun =>
              d1.runs[q] = db.runs[q] /\ d1.by[q] = db.by[q] /\ d1.demand[q] = db.demand[q]
        BY <1>2, <1>3
      <3> QED
        BY <1>2, <2>2, <3>1, <3>2 DEF Carries, AskedIn, ReadyIn, HeldIn, AfterIn
    <2> QED
      BY <2>1, <2>2
  <1>6. AllStand(d1)
    BY <1>5, CarriesOn
  <1> QED
    BY <1>1, <1>6, StandsNext

\* Runs that end, and targets given up, answer nothing.
LEMMA EndingStands ==
    ASSUME AllStand(Subject!Tables), NEW d1, d1.by = by, d1.fact = fact,
           \A r \in Subject!RunIds :
               /\ d1.runs[r].status = "absent" <=> runs[r].status = "absent"
               /\ d1.runs[r].started = runs[r].started,
           \A r \in Subject!RunIds, a \in Apps :
               \/ d1.demand[r][a] = demand[r][a]
               \/ d1.demand[r][a].state \notin {"none", "ready"} /\ demand[r][a].state # "none"
    PROVE  AllStand(d1)
  <1> DEFINE d0 == Subject!Tables
  <1>1. d0.runs = runs /\ d0.by = by /\ d0.demand = demand /\ d0.fact = fact
    BY DEF Subject!Tables
  <1> HIDE DEF d0
  <1>2. ASSUME NEW c \in Accounts, NEW a \in Apps, NEW r \in Subject!RunIds
        PROVE  Carries(d0, d1, c, a, r)
    <2> SUFFICES ASSUME AskedIn(d1, c, a, r), ReadyIn(d1, a, r)
                 PROVE  /\ AskedIn(d0, c, a, r) /\ ReadyIn(d0, a, r)
                        /\ HeldIn(d0, c, a, r) => HeldIn(d1, c, a, r)
                        /\ \A q \in Subject!RunIds :
                             AskedIn(d0, c, a, q) /\ AfterIn(d0, q, r) => AskedIn(d1, c, a, q) /\ AfterIn(d1, q, r)
      BY DEF Carries
    <2>1. d1.demand[r][a] = demand[r][a]
      BY DEF ReadyIn
    <2>2. AskedIn(d0, c, a, r) /\ ReadyIn(d0, a, r)
      BY <1>1, <2>1 DEF AskedIn, ReadyIn
    <2>3. ASSUME NEW q \in Subject!RunIds, AskedIn(d0, c, a, q), AfterIn(d0, q, r)
          PROVE  AskedIn(d1, c, a, q) /\ AfterIn(d1, q, r)
      BY <1>1, <2>3 DEF AskedIn, AfterIn
    <2> QED
      BY <1>1, <2>2, <2>3 DEF HeldIn
  <1> QED
    BY <1>2, CarriesOn DEF d0

\* An answer is the fact, unless a later run has answered already.
LEMMA RecordStands ==
    ASSUME Subject!SyncRunsAssumption, Subject!SubjectAssumption, SubjectInv, AllStand(Subject!Tables),
           NEW p \in Proc, NEW a \in Apps,
           NEW reply \in Subject!Answers, NEW t \in Subject!Times, Subject!Record(p, a, reply, t)
    PROVE  AllStand(Subject!Tables)'
  <1> DEFINE r == proc[p].run
             c0 == proc[p].acct
             h == Subject!Holder(c0)
             promote == reply = "ready" /\ Subject!Newer(r, fact[h][a], t)
             new == [state |-> reply, at |-> t, promoted |-> promote /\ kind = "declared",
                     good |-> reply = "not_found" /\ fact[h][a].known]
             found == [known |-> TRUE, run |-> r, at |-> t]
             d0 == Subject!Tables
             d1 == [runs |-> runs, by |-> by, demand |-> demand', fact |-> fact']
  <1>1. /\ proc[p].pc = "running" /\ r # 0 /\ demand[r][a].state = "running"
        /\ demand' = [demand EXCEPT ![r][a] = new]
        /\ fact' = IF promote THEN [fact EXCEPT ![h][a] = found] ELSE fact
        /\ UNCHANGED <<runs, nextRun, kind, by, wishlist, accounts, agreed, proc>>
    BY DEF Subject!Record, Subject!Awaited
  <1>2. Subject!Stored(d1)
    BY <1>1 DEF Subject!Stored
  <1> SUFFICES ASSUME kind = "achievements" PROVE AllStand(d1)
    BY <1>1, <1>2, StandsNext DEF AllStand
  <1>3. r \in Subject!RunIds /\ runs[r].status # "absent" /\ by[r] = c0
    <2>1. r \in Subject!RunIds /\ (runs[r].status # "absent" => by[r] = c0)
      BY <1>1 DEF SubjectInv, CommandOf
    <2>2. runs[r].status # "absent"
      BY <1>1, <2>1 DEF SubjectInv, Sound, DemandsOfRuns, Subject!Tables
    <2> QED
      BY <2>1, <2>2
  <1>4. h = c0 /\ c0 \in Subject!Holders
    BY DEF SubjectInv, SubjectShapes, Subject!Holder
  <1>5. new.state = reply /\ found.known /\ found.run = r /\ reply # "none"
    BY DEF Subject!Answers
  <1>6. d0.runs = runs /\ d0.by = by /\ d0.demand = demand /\ d0.fact = fact
    BY DEF Subject!Tables
  <1>7. d1.runs = runs /\ d1.by = by /\ d1.demand = demand' /\ d1.fact = fact'
    OBVIOUS
  <1>8. promote <=> reply = "ready" /\ Subject!Newer(r, fact[c0][a], t)
    BY <1>4
  <1> HIDE DEF new, found, promote, h, r, d0, d1, c0
  <1>9. /\ demand'[r][a] = new
        /\ \A q \in Subject!RunIds, b \in Apps : q # r \/ b # a => demand'[q][b] = demand[q][b]
        /\ promote => fact'[c0][a] = found
        /\ \A g \in Subject!Holders, b \in Apps : ~promote \/ g # c0 \/ b # a => fact'[g][b] = fact[g][b]
    BY <1>1, <1>3, <1>4, SameRuns
  <1>10. \A c \in Accounts, b \in Apps, q \in Subject!RunIds :
            AskedIn(d0, c, b, q) => AskedIn(d1, c, b, q)
    BY <1>1, <1>5, <1>6, <1>7, <1>9 DEF AskedIn
  <1>11. \A q, s : AfterIn(d0, q, s) <=> AfterIn(d1, q, s)
    BY <1>6, <1>7 DEF AfterIn
  <1>12. \A q \in Subject!RunIds : runs[q].started \in Int /\ q \in Int
    BY SameRuns, SubjectTyped DEF Subject!RunRecords
  <1>13. \A c \in Accounts : c \in Subject!Holders /\ c # Everyone
    BY DEF Subject!Holders, Subject!SubjectAssumption
  <1> SUFFICES ASSUME NEW c \in Accounts, NEW b \in Apps, NEW s \in Subject!RunIds,
                      AskedIn(d1, c, b, s), ReadyIn(d1, b, s)
               PROVE  HeldIn(d1, c, b, s) \/ HiddenIn(d1, c, b, s)
    BY DEF AllStand, Stands
  <1>14. CASE s = r /\ b = a
    <2>1. c = c0 /\ reply = "ready"
      BY <1>3, <1>5, <1>7, <1>9, <1>14 DEF AskedIn, ReadyIn
    <2>2. CASE promote
      BY <1>5, <1>7, <1>9, <1>14, <2>1, <2>2 DEF HeldIn
    <2>3. CASE ~promote
      <3> DEFINE f == fact[c0][a]
      <3>1. f.known /\ f.run # 0 /\ ~Subject!StartedLater(r, f.run)
        BY <1>8, <2>1, <2>3 DEF Subject!Newer
      <3>2. f \in Subject!Facts
        BY <1>4, SameRuns
      <3>3. f.run \in Subject!RunIds
        BY <3>1, <3>2, FactTyped
      <3>4. FactRests(d0, c0, a)
        BY <1>4 DEF SubjectInv, Sound, FactsRest, d0
      <3>5. runs[f.run].status # "absent" /\ by[f.run] = c0 /\ demand[f.run][a].state = "ready"
        BY <1>6, <3>1, <3>4 DEF FactRests, Subject!Holder
      <3>6. f.run # r
        BY <1>1, <3>5
      <3>7. AfterIn(d1, f.run, r)
        BY <1>3, <1>7, <1>12, <3>1, <3>3, <3>6 DEF AfterIn, Subject!StartedLater
      <3>8. AskedIn(d0, c, a, f.run)
        BY <1>6, <2>1, <3>5 DEF AskedIn
      <3>9. AskedIn(d1, c, a, f.run)
        BY <1>10, <3>3, <3>8
      <3> HIDE DEF f
      <3> QED
        BY <1>14, <3>3, <3>7, <3>9 DEF HiddenIn
    <2> QED
      BY <2>2, <2>3
  <1>15. CASE s # r \/ b # a
    <2>1. AskedIn(d0, c, b, s) /\ ReadyIn(d0, b, s)
      BY <1>6, <1>7, <1>9, <1>15 DEF AskedIn, ReadyIn
    <2>2. HeldIn(d0, c, b, s) \/ HiddenIn(d0, c, b, s)
      BY <2>1 DEF AllStand, Stands, d0
    <2>3. HiddenIn(d0, c, b, s) => HiddenIn(d1, c, b, s)
      BY <1>10, <1>11 DEF HiddenIn
    <2>4. ASSUME HeldIn(d0, c, b, s) PROVE HeldIn(d1, c, b, s) \/ HiddenIn(d1, c, b, s)
      <3>1. CASE ~promote \/ c # c0 \/ b # a
        BY <1>6, <1>7, <1>9, <1>13, <2>4, <3>1 DEF HeldIn
      <3>2. CASE promote /\ c = c0 /\ b = a
        <4>1. fact[c0][a].known /\ fact[c0][a].run = s /\ s # 0
          BY <1>6, <2>4, <3>2, SubjectTyped DEF HeldIn
        <4>2. Subject!StartedLater(r, s)
          BY <1>8, <3>2, <4>1 DEF Subject!Newer
        <4>3. AfterIn(d1, r, s)
          BY <1>7, <4>2 DEF AfterIn, Subject!StartedLater
        <4>4. AskedIn(d1, c, b, r)
          BY <1>3, <1>5, <1>7, <1>9, <3>2 DEF AskedIn
        <4> QED
          BY <1>3, <4>3, <4>4 DEF HiddenIn
      <3> QED
        BY <3>1, <3>2
    <2> QED
      BY <2>2, <2>3, <2>4
  <1> QED
    BY <1>14, <1>15

LEMMA BeginStands ==
    ASSUME Subject!SyncRunsAssumption, Subject!SubjectAssumption, SubjectInv, AllStand(Subject!Tables),
           NEW p, NEW acct \in Accounts, NEW asked, NEW targeted, NEW t \in Subject!Times,
           Subject!BeginAchievements(p, acct, asked, targeted, t)
    PROVE  AllStand(Subject!Tables)'
  <1> DEFINE db == Subject!Pruned(Subject!Tables, acct, t)
  <1>1. /\ Subject!MayOpen(p, acct) /\ kind = "achievements"
        /\ Subject!Opens(p, acct, db, asked, targeted, {}, t)
    BY DEF Subject!BeginAchievements
  <1>2. Sound(db) /\ Lessens(Subject!Tables, db) /\ AllStand(db)
    BY <1>1, PrunedKeeps, PrunedStands, TablesAreSound
  <1> HIDE DEF db
  <1> QED
    BY <1>1, <1>2, OpeningStands

LEMMA StopStands ==
    ASSUME Subject!SyncRunsAssumption, SubjectInv, AllStand(Subject!Tables),
           NEW p \in Proc, NEW t \in Subject!Times, Subject!StopEarly(p, t)
    PROVE  AllStand(Subject!Tables)'
  <1> DEFINE r == proc[p].run
             ended == [a \in Apps |-> Subject!Unanswered(demand[r][a], t)]
             db == [runs |-> runs, by |-> by, demand |-> demand', fact |-> fact]
  <1>1. /\ proc[p].pc = "running" /\ demand' = [demand EXCEPT ![r] = ended]
        /\ UNCHANGED <<runs, kind, by, fact>>
    BY DEF Subject!StopEarly
  <1>2. r \in Subject!RunIds
    BY <1>1 DEF SubjectInv, CommandOf
  <1>3. \A a \in Apps : demand[r][a] \in Subject!Demands
    BY <1>2, SameRuns
  <1>4. \A a \in Apps : \/ ended[a] = demand[r][a]
                        \/ ended[a].state \notin {"none", "ready"} /\ demand[r][a].state # "none"
    BY <1>3, UnansweredRow
  <1> HIDE DEF ended, r
  <1>5. \A q \in Subject!RunIds, a \in Apps :
          \/ demand'[q][a] = demand[q][a]
          \/ demand'[q][a].state \notin {"none", "ready"} /\ demand[q][a].state # "none"
    BY <1>1, <1>2, <1>4, SameRuns
  <1>6. Subject!Stored(db) /\ db.runs = runs /\ db.by = by /\ db.demand = demand' /\ db.fact = fact
    BY <1>1 DEF Subject!Stored
  <1> HIDE DEF db
  <1>7. AllStand(db)
    BY <1>5, <1>6, EndingStands
  <1> QED
    BY <1>1, <1>6, <1>7, StandsNext

LEMMA FinishStands ==
    ASSUME Subject!SyncRunsAssumption, Subject!SubjectAssumption, SubjectInv, AllStand(Subject!Tables),
           NEW p \in Proc, NEW t \in Subject!Times, Subject!FinishAchievements(p, t)
    PROVE  AllStand(Subject!Tables)'
  <1> DEFINE r == proc[p].run
             ended == [a \in Apps |-> IF Subject!Awaited(r, a)
                                      THEN [demand[r][a] EXCEPT !.state = "failed", !.at = t]
                                      ELSE demand[r][a]]
             R == Subject!Closed(runs, r, Subject!Outcome(ended), 0, TRUE)
             D == [demand EXCEPT ![r] = ended]
             mid == [runs |-> R, by |-> by, demand |-> D, fact |-> fact]
             db == Subject!Pruned(mid, proc[p].acct, t)
  <1>1. /\ proc[p].pc # "idle" /\ runs[r].status = "running" /\ kind = "achievements" /\ kind' = kind
        /\ Subject!Finishes(p, ended, TRUE, t)
    BY DEF Subject!FinishAchievements, Subject!Finishes, Subject!Is
  <1>2. r \in Subject!RunIds
    BY <1>1 DEF SubjectInv, CommandOf
  <1>3. /\ ended \in [Apps -> Subject!Demands]
        /\ \A a \in Apps : demand[r][a].state # "running" => ended[a] = demand[r][a]
        /\ \A a \in Apps : \/ ended[a] = demand[r][a]
                           \/ ended[a].state \notin {"none", "ready"} /\ demand[r][a].state # "none"
        /\ \A a \in Apps : ended[a].state # "running"
    <2>1. \A x \in Subject!Demands :
            /\ [x EXCEPT !.state = "failed", !.at = t] \in Subject!Demands
            /\ [x EXCEPT !.state = "failed", !.at = t].state = "failed"
      BY DEF Subject!Demands, Subject!States, Subject!Answers
    <2>2. r # 0 /\ \A a \in Apps : demand[r][a] \in Subject!Demands
      BY <1>2, SameRuns, SubjectTyped
    <2> QED
      BY <2>1, <2>2 DEF Subject!Awaited
  <1> HIDE DEF ended
  <1>4. Subject!Stored(db)
    <2> DEFINE e == [Subject!Tables EXCEPT !.runs = R]
               g == [e EXCEPT !.demand[r] = ended]
    <2>1. g = [Subject!Tables EXCEPT !.runs = R, !.demand[r] = ended]
      OBVIOUS
    <2>2. Subject!Stored(Subject!Pruned(g, proc[p].acct, t))
      BY <1>1, <2>1 DEF Subject!Finishes
    <2> HIDE DEF R
    <2>3. e = [runs |-> R, by |-> by, demand |-> demand, fact |-> fact]
      BY DEF Subject!Tables
    <2> HIDE DEF e
    <2>4. g = mid
      BY <2>3
    <2> HIDE DEF g, mid
    <2> QED
      BY <2>2, <2>4
  <1>5. R \in [Subject!RunIds -> Subject!RunRecords] /\ R[r].status \in {"complete", "partial", "failed"}
        /\ R[r].started = runs[r].started /\ \A q \in Subject!RunIds : q # r => R[q] = runs[q]
    <2>1. runs[r] \in Subject!RunRecords
      BY <1>2, SameRuns
    <2>2. Subject!Outcome(ended) \in {"complete", "partial", "failed"}
      BY DEF Subject!Outcome
    <2> DEFINE row1 == Subject!EndedRun(runs[r], Subject!Outcome(ended), 0, TRUE)
    <2>3. row1 \in Subject!RunRecords /\ row1.status = Subject!Outcome(ended) /\ row1.started = runs[r].started
      BY <2>1, <2>2, SubjectTyped DEF Subject!EndedRun, Subject!RunRecords, Subject!Statuses
    <2>4. R = [runs EXCEPT ![r] = row1]
      BY DEF Subject!Closed
    <2> HIDE DEF row1, R
    <2> QED
      BY <1>2, <2>2, <2>3, <2>4, SameRuns
  <1>6. /\ D \in [Subject!RunIds -> [Apps -> Subject!Demands]]
        /\ \A q \in Subject!RunIds, b \in Apps :
             /\ demand[q][b].state # "running" => D[q][b] = demand[q][b]
             /\ D[q][b].state = "running" => R[q].status = "running"
             /\ \/ D[q][b] = demand[q][b]
                \/ D[q][b].state \notin {"none", "ready"} /\ demand[q][b].state # "none"
    <2> HIDE DEF R
    <2> QED
      BY <1>2, <1>3, <1>5, SameRuns
  <1> HIDE DEF R, D
  <1>7. \A q \in Subject!RunIds :
          /\ R[q].status = "absent" <=> runs[q].status = "absent"
          /\ R[q].status = "running" => runs[q].status = "running"
          /\ R[q].started = runs[q].started
    BY <1>1, <1>5
  <1>8. Sound(mid)
    BY <1>5, <1>6, <1>7, EndsAsTables
  <1>9. mid.runs = R /\ mid.by = by /\ mid.demand = D /\ mid.fact = fact
    OBVIOUS
  <1> HIDE DEF mid
  <1>10. AllStand(mid)
    BY <1>6, <1>7, <1>9, EndingStands
  <1>11. AllStand(db)
    BY <1>1, <1>8, <1>10, PrunedStands
  <1> HIDE DEF db
  <1> QED
    BY <1>1, <1>4, <1>11, StandsNext

\* The account's answers go with its runs; the others' stay.
LEMMA DeletionStands ==
    ASSUME Subject!SyncRunsAssumption, Subject!SubjectAssumption, SubjectInv, AllStand(Subject!Tables),
           NEW acct \in Accounts, NEW now \in Subject!Times, Subject!DeleteAccount(acct, now)
    PROVE  AllStand(Subject!Tables)'
  <1> DEFINE d0 == Subject!Detached(acct, now)
             lists == [wishlist EXCEPT ![acct] = {}]
             d1 == Subject!DropUnwished(d0, lists)
             d2 == [d1 EXCEPT !.fact = [h \in Subject!Holders |-> [a \in Apps |->
                       IF h = acct THEN Subject!NoFact ELSE d1.fact[h][a]]]]
  <1>1. Subject!Stored(d2) /\ kind' = kind
    BY DEF Subject!DeleteAccount, Subject!DropFacts
  <1> SUFFICES ASSUME kind = "achievements" PROVE AllStand(d2)
    BY <1>1, StandsNext DEF AllStand
  <1>2. d0 = Subject!DropRuns(Subject!Tables, Subject!RunsOf(acct))
    <2>1. [Subject!Tables EXCEPT !.fact = fact] = Subject!Tables
      BY DEF Subject!Tables
    <2> QED
      BY <2>1 DEF Subject!Detached
  <1>3. /\ d1.runs = d0.runs /\ d1.by = d0.by /\ d1.demand = d0.demand
        /\ \A h \in Subject!Holders, a \in Apps : d1.fact[h][a] = d0.fact[h][a]
        /\ d1 = [runs |-> d1.runs, by |-> d1.by, demand |-> d1.demand, fact |-> d1.fact]
    <2> DEFINE F == [h \in Subject!Holders |-> [a \in Apps |->
                       IF kind = "reviews" /\ a \notin Subject!Wished(lists) THEN Subject!NoFact ELSE d0.fact[h][a]]]
    <2>1. d1 = [d0 EXCEPT !.fact = F]
      BY DEF Subject!DropUnwished, Subject!DropFacts
    <2>2. d0 = [runs |-> d0.runs, by |-> d0.by, demand |-> d0.demand, fact |-> d0.fact]
      BY <1>2 DEF Subject!DropRuns
    <2>3. \A h \in Subject!Holders, a \in Apps : F[h][a] = d0.fact[h][a]
      OBVIOUS
    <2> HIDE DEF d0, d1, F
    <2>4. d1 = [runs |-> d0.runs, by |-> d0.by, demand |-> d0.demand, fact |-> F]
      BY <2>1, <2>2
    <2> QED
      BY <2>3, <2>4
  <1> HIDE DEF d1
  <1>4. /\ d2.runs = d0.runs /\ d2.by = d0.by /\ d2.demand = d0.demand
        /\ \A h \in Subject!Holders, a \in Apps : h # acct => d2.fact[h][a] = d0.fact[h][a]
    <2> DEFINE F == [h \in Subject!Holders |-> [a \in Apps |->
                       IF h = acct THEN Subject!NoFact ELSE d1.fact[h][a]]]
    <2>1. \A h \in Subject!Holders, a \in Apps : h # acct => F[h][a] = d1.fact[h][a]
      OBVIOUS
    <2>2. d2 = [d1 EXCEPT !.fact = F]
      OBVIOUS
    <2> HIDE DEF F, d2
    <2>3. d2 = [runs |-> d1.runs, by |-> d1.by, demand |-> d1.demand, fact |-> F]
      BY <1>3, <2>2
    <2> QED
      BY <1>3, <2>1, <2>3
  <1>5. \A r \in Subject!RunIds :
          /\ r \in Subject!RunsOf(acct) <=> runs[r].status # "absent" /\ by[r] = acct
          /\ r \in Subject!RunsOf(acct) => d0.runs[r].status = "absent"
    BY <1>2, DroppedRuns DEF Subject!RunsOf, Subject!Live, Subject!Is
  <1> HIDE DEF d0, d2
  <1>6. Subject!Tables.runs = runs /\ Subject!Tables.by = by /\ Subject!Tables.demand = demand /\ Subject!Tables.fact = fact
    BY DEF Subject!Tables
  <1>7. AllStand(d0)
    <2> DEFINE S == Subject!RunsOf(acct)
    <2>1. \A q, r \in Subject!RunIds :
            q \in S /\ by[q] = by[r] /\ AfterIn(Subject!Tables, q, r) => r \in S \/ runs[r].status = "absent"
      BY <1>5
    <2> HIDE DEF S
    <2>2. ASSUME NEW c \in Accounts, NEW a \in Apps, NEW r \in Subject!RunIds
          PROVE  Carries(Subject!Tables, Subject!DropRuns(Subject!Tables, S), c, a, r)
      BY <1>6, <2>1, DroppingCarries
    <2> QED
      BY <1>2, <2>2, CarriesOn DEF S
  <1>8. ASSUME NEW c \in Accounts, NEW a \in Apps, NEW r \in Subject!RunIds
        PROVE  Carries(d0, d2, c, a, r)
    <2>1. CASE c # acct
      <3>1. c \in Subject!Holders
        BY DEF Subject!Holders
      <3> QED
        BY <1>4, <2>1, <3>1 DEF Carries, AskedIn, ReadyIn, HeldIn, AfterIn
    <2>2. CASE c = acct
      <3>1. ~AskedIn(d0, acct, a, r)
        <4>1. CASE r \in Subject!RunsOf(acct)
          BY <1>5, <4>1 DEF AskedIn
        <4>2. CASE r \notin Subject!RunsOf(acct)
          BY <1>2, <1>5, <1>6, <4>2, DroppedRuns DEF AskedIn
        <4> QED
          BY <4>1, <4>2
      <3> QED
        BY <1>4, <2>2, <3>1 DEF Carries, AskedIn
    <2> QED
      BY <2>1, <2>2
  <1> QED
    BY <1>7, <1>8, CarriesOn

LEMMA DeleteAllStands ==
    ASSUME Subject!SyncRunsAssumption, Subject!DeleteAll
    PROVE  AllStand(Subject!Tables)'
  <1> DEFINE d1 == Subject!DropRuns(Subject!Tables, Subject!RunIds)
             db == [d1 EXCEPT !.fact = [h \in Subject!Holders |-> [a \in Apps |->
                       IF kind # "declared" THEN Subject!NoFact ELSE d1.fact[h][a]]]]
  <1>1. Subject!Stored(db) /\ kind' = kind
    BY DEF Subject!DeleteAll, Subject!DropFacts
  <1>2. db.runs = d1.runs
    BY DEF Subject!DropRuns
  <1>3. \A r \in Subject!RunIds : d1.runs[r].status = "absent"
    BY DroppedRuns
  <1> HIDE DEF db, d1
  <1>4. AllStand(db)
    BY <1>2, <1>3 DEF AllStand, Stands, AskedIn
  <1> QED
    BY <1>1, <1>4, StandsNext

LEMMA StandsStep ==
    ASSUME Subject!SyncRunsAssumption, Subject!SubjectAssumption, SubjectInv, AllStand(Subject!Tables),
           [Subject!SubjectNext]_(Subject!subjectvars)
    PROVE  AllStand(Subject!Tables)'
  <1>1. ASSUME UNCHANGED <<runs, kind, by, demand, fact>> PROVE AllStand(Subject!Tables)'
    BY <1>1, StandsNext DEF Subject!Stored, Subject!Tables
  <1>2. ASSUME kind' = kind, kind # "achievements" PROVE AllStand(Subject!Tables)'
    BY <1>2 DEF AllStand
  <1>3. CASE UNCHANGED Subject!subjectvars
    BY <1>1, <1>3 DEF Subject!subjectvars
  <1>4. CASE Subject!DeleteProvider \/ Subject!DeleteAll
    BY <1>2, <1>4, DeleteAllStands DEF Subject!DeleteProvider
  <1>5. ASSUME NEW acct \in Accounts, NEW apps, Subject!WishlistChanges(acct, apps)
        PROVE  AllStand(Subject!Tables)'
    BY <1>2, <1>5 DEF Subject!WishlistChanges
  <1>6. ASSUME NEW acct \in Accounts, NEW now \in Subject!Times,
               Subject!DeleteReviews(acct, now) \/ Subject!DeleteDeclared(acct, now)
        PROVE  AllStand(Subject!Tables)'
    BY <1>2, <1>6 DEF Subject!DeleteReviews, Subject!DeleteDeclared, Subject!DeleteKind
  <1>8. ASSUME NEW p \in Proc, NEW t \in Subject!Times,
               Subject!StopReviews(p, t) \/ Subject!StopDeclared(p, t) \/ Subject!StopAchievements(p, t)
        PROVE  AllStand(Subject!Tables)'
    BY <1>8, StopStands DEF Subject!StopReviews, Subject!StopDeclared, Subject!StopAchievements
  <1>9. ASSUME NEW p \in Proc, NEW t \in Subject!Times,
               \/ Subject!FinishReviews(p, t) \/ Subject!FinishDeclared(p, t)
               \/ Subject!FinishAchievements(p, t)
        PROVE  AllStand(Subject!Tables)'
    BY <1>2, <1>9, FinishStands DEF Subject!FinishReviews, Subject!FinishDeclared, Subject!Finishes
  <1>10. ASSUME NEW p \in Proc, NEW t \in Subject!Times, NEW a \in Apps, NEW reply \in Subject!Answers,
                \/ Subject!RecordReview(p, a, reply, t) \/ Subject!RecordDeclared(p, a, reply, t)
                \/ Subject!RecordAchievement(p, a, reply, t)
         PROVE  AllStand(Subject!Tables)'
    BY <1>10, RecordStands DEF Subject!RecordReview, Subject!RecordDeclared, Subject!RecordAchievement
  <1>11. ASSUME NEW p \in Proc, NEW t \in Subject!Times, NEW acct \in Accounts,
                NEW targeted \in SUBSET Apps, NEW asked \in SUBSET Apps, NEW now \in Subject!Times,
                NEW skipFresh \in BOOLEAN,
                \/ Subject!BeginReviews(p, acct, targeted, skipFresh, t)
                \/ Subject!BeginAchievements(p, acct, asked, targeted, t)
                \/ Subject!BeginDeclared(p, acct, asked, targeted, t, now)
         PROVE  AllStand(Subject!Tables)'
    BY <1>2, <1>11, BeginStands DEF Subject!BeginReviews, Subject!BeginDeclared, Subject!Opens
  <1>12. CASE \E p \in Proc : Subject!SubjectStep(p)
    <2>1. PICK p \in Proc : Subject!SubjectStep(p)
      BY <1>12
    <2>2. 0 \in Subject!Times
      BY SubjectTyped
    <2> QED
      BY <1>8, <1>9, <1>10, <1>11, <2>1, <2>2 DEF Subject!SubjectStep
  <1> QED
    BY <1>3, <1>4, <1>5, <1>6, <1>12, DeletionStands, DeletionTimesTyped DEF Subject!SubjectNext

LEMMA StandsInitially ==
    ASSUME Subject!SyncRunsAssumption, Subject!SubjectInit
    PROVE  AllStand(Subject!Tables)
  <1>1. \A r \in Subject!RunIds : runs[r].status = "absent"
    BY SubjectTyped DEF Subject!SubjectInit, Subject!SyncRunsInit
  <1> QED
    BY <1>1 DEF AllStand, Stands, AskedIn, Subject!Tables

\* The row shown is the newest run's, so no later run hides it.
LEMMA AchievementsHold ==
    ASSUME Subject!SyncRunsAssumption, SubjectInv, AllStand(Subject!Tables)
    PROVE  Subject!AchievementsMatch
  <1> SUFFICES ASSUME kind = "achievements", NEW c \in accounts, NEW a \in Apps, NEW now \in Subject!Times,
                      Subject!AskedOf(c, a) # {}, Subject!ShownState(c, a, now) = "ready",
                      demand[Subject!ShownRun(c, a)][a].at >= runs[Subject!ShownRun(c, a)].started
               PROVE  fact[c][a].known /\ fact[c][a].run = Subject!ShownRun(c, a)
    BY DEF Subject!AchievementsMatch
  <1> DEFINE s == Subject!ShownRun(c, a)
             T == Subject!AskedOf(c, a)
             db == Subject!Tables
  <1>1. c \in Accounts /\ db.runs = runs /\ db.by = by /\ db.demand = demand /\ db.fact = fact
    BY DEF SubjectInv, SubjectShapes, Subject!Tables
  <1>2. T \in SUBSET Subject!RunIds
    BY DEF Subject!AskedOf
  <1>3. s \in T /\ \A q \in T \ {s} : Subject!StartedLater(s, q)
    <2> DEFINE First(r) == r \in T /\ \A q \in T \ {r} : Subject!StartedLater(r, q)
    <2>1. \E r \in T : \A q \in T \ {r} : Subject!StartedLater(r, q)
      <3> HIDE DEF T
      <3> QED
        BY <1>2, LatestRun, SameRuns DEF T
    <2> QED
      BY <2>1 DEF Subject!ShownRun
  <1>4. demand[s][a].state = "ready"
    BY DEF Subject!ShownState
  <1> HIDE DEF s, db
  <1>5. \A q \in Subject!RunIds : q \in T <=> AskedIn(db, c, a, q)
    BY <1>1 DEF Subject!AskedOf, Subject!Live, Subject!Is, AskedIn
  <1>6. s \in Subject!RunIds /\ AskedIn(db, c, a, s) /\ ReadyIn(db, a, s)
    BY <1>1, <1>2, <1>3, <1>4, <1>5 DEF ReadyIn, s
  <1>7. HeldIn(db, c, a, s) \/ HiddenIn(db, c, a, s)
    BY <1>1, <1>6 DEF AllStand, Stands, db
  <1>8. ~HiddenIn(db, c, a, s)
    <2> SUFFICES ASSUME NEW q \in Subject!RunIds, AskedIn(db, c, a, q), AfterIn(db, q, s)
                 PROVE  FALSE
      BY DEF HiddenIn
    <2>1. runs[q].started \in Int /\ runs[s].started \in Int /\ q \in Int /\ s \in Int
      BY <1>6, SameRuns, SubjectTyped DEF Subject!RunRecords
    <2>2. q # s
      BY <1>1, <2>1 DEF AfterIn
    <2>3. Subject!StartedLater(s, q)
      BY <1>3, <1>5, <2>2
    <2> QED
      BY <1>1, <2>1, <2>3 DEF AfterIn, Subject!StartedLater
  <1> QED
    BY <1>1, <1>7, <1>8 DEF HeldIn, s

-----------------------------------------------------------------------------
(***************************************************************************)
(* CatalogSync.  A fact of an account rests on a run of that account which *)
(* asked for the title, and a shared one is at least as new.               *)
(***************************************************************************)
CatalogShapes ==
    /\ runs \in [Catalog!RunIds -> Catalog!RunRecords] /\ nextRun \in Nat \ {0}
    /\ subject \in [Catalog!RunIds -> Accounts \cup {Nobody}]
    /\ demand \in [Catalog!RunIds -> SUBSET Apps]
    /\ sourced \subseteq Catalog!RunIds
    /\ shared \in [Apps -> Nat] /\ own \in [Accounts -> [Apps -> Nat]]
    /\ owns \in [Accounts -> SUBSET Apps] /\ installed \subseteq Apps
    /\ accounts \subseteq Accounts /\ command \in Nat

Numbered ==                    \* ids that were not given out are nobody's
    \A r \in Catalog!RunIds : r >= nextRun => subject[r] = Nobody /\ r \notin sourced

OwnCommand ==                  \* under the lock the run and its account stay
    command # 0 =>
        /\ command \in Catalog!RunIds /\ command < nextRun
        /\ subject[command] \in accounts /\ runs[command].status = "running"

OwnFacts ==
    \A c \in Accounts, a \in Apps :
        /\ own[c][a] <= shared[a]
        /\ own[c][a] # 0 =>
            /\ c \in accounts /\ own[c][a] \in Catalog!RunIds
            /\ subject[own[c][a]] = c /\ a \in demand[own[c][a]]

WellSourced(r) ==
    /\ r \in Catalog!RunIds /\ r < nextRun
    /\ runs[r].status = "complete" /\ runs[r].promoted /\ r \in sourced

WellSourcedNext(r) ==          \* the same of the next state, for the runs of this one
    /\ r \in Catalog!RunIds /\ r < nextRun'
    /\ runs'[r].status = "complete" /\ runs'[r].promoted /\ r \in sourced'

AllSourced ==
    /\ \A a \in Apps : shared[a] # 0 => WellSourced(shared[a])
    /\ \A c \in Accounts, a \in Apps : own[c][a] # 0 => WellSourced(own[c][a])

CatalogInv == CatalogShapes /\ Numbered /\ OwnCommand /\ OwnFacts /\ AllSourced

LEMMA CatalogTyped ==
    ASSUME Catalog!SyncRunsAssumption
    PROVE  /\ CatalogRuns \in Nat /\ Catalog!RunIds = 1 .. CatalogRuns /\ Catalog!RunIds \subseteq Nat \ {0}
           /\ 0 \in Catalog!Times /\ Catalog!NoRun \in Catalog!RunRecords
  <1>1. CatalogRuns \in Nat /\ Catalog!RunIds = 1 .. CatalogRuns /\ 0 \in Catalog!Times
    BY DEF Catalog!SyncRunsAssumption, Catalog!RunIds, Catalog!Times
  <1> QED
    BY <1>1 DEF Catalog!NoRun, Catalog!RunRecords, Catalog!Statuses

LEMMA CatalogHolds ==
    ASSUME CatalogInv
    PROVE  Catalog!FactsKeepTheirSource
  <1>1. ASSUME NEW r \in Catalog!Named(shared, own) \ {0} PROVE WellSourced(r)
    BY DEF Catalog!Named, CatalogInv, AllSourced
  <1> QED
    BY <1>1 DEF Catalog!FactsKeepTheirSource, CatalogInv, OwnFacts, WellSourced, Catalog!Is

LEMMA SourcedNext ==
    ASSUME \A a \in Apps : shared'[a] # 0 => WellSourcedNext(shared'[a]),
           \A c \in Accounts, a \in Apps : own'[c][a] # 0 => WellSourcedNext(own'[c][a])
    PROVE  AllSourced'
  BY DEF AllSourced, WellSourced, WellSourcedNext

LEMMA CatalogInitially ==
    ASSUME Catalog!SyncRunsAssumption, Catalog!CatalogInit
    PROVE  CatalogInv
  <1>1. /\ runs = [r \in Catalog!RunIds |-> Catalog!NoRun] /\ nextRun = 1
        /\ subject = [r \in Catalog!RunIds |-> Nobody]
        /\ demand = [r \in Catalog!RunIds |-> {}] /\ sourced = {}
        /\ shared = [a \in Apps |-> 0] /\ own = [c \in Accounts |-> [a \in Apps |-> 0]]
        /\ owns = [c \in Accounts |-> {}] /\ installed = {}
        /\ accounts = Accounts /\ command = 0
    BY DEF Catalog!CatalogInit, Catalog!SyncRunsInit, Catalog!NoFacts
  <1>2. CatalogShapes
    BY <1>1, CatalogTyped DEF CatalogShapes
  <1>3. Numbered /\ OwnCommand /\ OwnFacts /\ AllSourced
    BY <1>1 DEF Numbered, OwnCommand, OwnFacts, AllSourced
  <1> QED
    BY <1>2, <1>3 DEF CatalogInv

LEMMA BeginCatalogStep ==
    ASSUME Catalog!SyncRunsAssumption, CatalogInv, NEW c \in Accounts, Catalog!BeginCatalog(c)
    PROVE  CatalogInv'
  <1> DEFINE new == [status |-> "running", started |-> 0, completed |-> 0, promoted |-> FALSE]
  <1>1. /\ command = 0 /\ nextRun \in Catalog!RunIds /\ c \in accounts
        /\ runs' = [runs EXCEPT ![nextRun] = new] /\ nextRun' = nextRun + 1
        /\ subject' = [subject EXCEPT ![nextRun] = c]
        /\ demand' = [demand EXCEPT ![nextRun] = owns[c] \cup installed]
        /\ command' = nextRun
        /\ UNCHANGED <<sourced, shared, own, owns, installed, accounts>>
    BY DEF Catalog!BeginCatalog, Catalog!CanOpen, Catalog!Opened
  <1>2. new \in Catalog!RunRecords /\ new.status = "running"
    BY CatalogTyped DEF Catalog!RunRecords, Catalog!Statuses
  <1> HIDE DEF new
  <1>3. CatalogShapes /\ Numbered /\ OwnFacts /\ AllSourced
    BY DEF CatalogInv
  <1>4. nextRun \in Nat /\ \A r \in Catalog!RunIds : r \in Nat
    BY <1>1, CatalogTyped
  <1>5. /\ \A r \in Catalog!RunIds : r # nextRun =>
             runs'[r] = runs[r] /\ subject'[r] = subject[r] /\ demand'[r] = demand[r]
        /\ subject'[nextRun] = c /\ runs'[nextRun] = new
    BY <1>1, <1>3 DEF CatalogShapes
  <1>6. CatalogShapes'
    <2>1. owns[c] \cup installed \in SUBSET Apps
      BY <1>3 DEF CatalogShapes
    <2>2. runs' \in [Catalog!RunIds -> Catalog!RunRecords]
      BY <1>1, <1>2, <1>3 DEF CatalogShapes
    <2>3. demand' \in [Catalog!RunIds -> SUBSET Apps]
      BY <1>1, <1>3, <2>1 DEF CatalogShapes
    <2>4. subject' \in [Catalog!RunIds -> Accounts \cup {Nobody}]
      BY <1>1, <1>3 DEF CatalogShapes
    <2> QED
      BY <1>1, <1>3, <1>4, <2>2, <2>3, <2>4 DEF CatalogShapes
  <1>7. Numbered'
    BY <1>1, <1>3, <1>4, <1>5 DEF Numbered
  <1>8. OwnCommand'
    BY <1>1, <1>2, <1>4, <1>5 DEF OwnCommand
  <1>9. \A r : WellSourced(r) => WellSourced(r)' /\ r # nextRun
    BY <1>1, <1>4, <1>5 DEF WellSourced
  <1>10. AllSourced'
    BY <1>1, <1>3, <1>9 DEF AllSourced
  <1>11. OwnFacts'
    BY <1>1, <1>3, <1>5, <1>9 DEF OwnFacts, AllSourced
  <1> QED
    BY <1>6, <1>7, <1>8, <1>10, <1>11 DEF CatalogInv

\* What stays when only the command's run changes
LEMMA SourcesStay ==
    ASSUME CatalogInv, NEW r, WellSourced(r)
    PROVE  command # 0 => r # command
  BY DEF CatalogInv, OwnCommand, WellSourced

LEMMA CompleteCatalogStep ==
    ASSUME Catalog!SyncRunsAssumption, CatalogInv, Catalog!CompleteCatalog
    PROVE  CatalogInv'
  <1> DEFINE r == command
             c0 == subject[r]
             Up(facts) == Catalog!Promoted(facts, r)
             ended == Catalog!EndedRun(runs[r], "complete", 0, demand[r] # {})
  <1>1. /\ command # 0 /\ command' = 0
        /\ shared' = Up(shared) /\ own' = [own EXCEPT ![c0] = Up(own[c0])]
        /\ runs' = [runs EXCEPT ![r] = ended]
        /\ sourced' = (sourced \cup {r}) \cap Catalog!Named(shared', own')
        /\ UNCHANGED <<nextRun, subject, demand, owns, installed, accounts>>
    BY DEF Catalog!CompleteCatalog, Catalog!Closed
  <1>2. CatalogShapes /\ Numbered /\ OwnCommand /\ OwnFacts /\ AllSourced
    BY DEF CatalogInv
  <1>3. r \in Catalog!RunIds /\ r < nextRun /\ c0 \in accounts /\ c0 \in Accounts /\ r \in Nat \ {0}
    BY <1>1, <1>2, CatalogTyped DEF OwnCommand, CatalogShapes
  <1>4. ended \in Catalog!RunRecords /\ ended.status = "complete" /\ (demand[r] # {} => ended.promoted)
    <2>1. runs[r] \in Catalog!RunRecords
      BY <1>2, <1>3 DEF CatalogShapes
    <2>2. (demand[r] # {}) \in BOOLEAN
      OBVIOUS
    <2> QED
      BY <2>1, <2>2, CatalogTyped DEF Catalog!EndedRun, Catalog!RunRecords, Catalog!Statuses
  <1>5. \A facts \in [Apps -> Nat] :
          /\ Up(facts) \in [Apps -> Nat]
          /\ \A a \in Apps : Up(facts)[a] = IF a \in demand[r] /\ facts[a] <= r THEN r ELSE facts[a]
    BY <1>3 DEF Catalog!Promoted
  <1> HIDE DEF ended, Up, c0, r
  <1>6. shared \in [Apps -> Nat] /\ \A c \in Accounts : own[c] \in [Apps -> Nat]
    BY <1>2 DEF CatalogShapes
  <1>7. /\ shared' \in [Apps -> Nat] /\ own' \in [Accounts -> [Apps -> Nat]]
        /\ \A a \in Apps : shared'[a] = IF a \in demand[r] /\ shared[a] <= r THEN r ELSE shared[a]
        /\ \A c \in Accounts, a \in Apps :
             own'[c][a] = IF c = c0 /\ a \in demand[r] /\ own[c][a] <= r THEN r ELSE own[c][a]
    <2>1. own' = [own EXCEPT ![c0] = Up(own[c0])] /\ own \in [Accounts -> [Apps -> Nat]]
      BY <1>1, <1>2 DEF CatalogShapes
    <2>2. \A c \in Accounts : own'[c] = IF c = c0 THEN Up(own[c]) ELSE own[c]
      BY <1>3, <2>1
    <2> QED
      BY <1>1, <1>3, <1>5, <1>6, <2>1, <2>2
  <1>8. /\ runs' \in [Catalog!RunIds -> Catalog!RunRecords] /\ runs'[r] = ended
        /\ \A q \in Catalog!RunIds : q # r => runs'[q] = runs[q]
    BY <1>1, <1>2, <1>3, <1>4 DEF CatalogShapes
  <1>9. CatalogShapes'
    BY <1>1, <1>2, <1>3, <1>7, <1>8 DEF CatalogShapes
  <1>10. Numbered' /\ OwnCommand'
    <2>1. \A x \in Catalog!RunIds : x >= nextRun => x # r
      BY <1>2, <1>3, CatalogTyped DEF CatalogShapes
    <2> QED
      BY <1>1, <1>2, <2>1 DEF Numbered, OwnCommand
  <1>11. ASSUME NEW x \in Catalog!Named(shared', own'), WellSourced(x) PROVE WellSourcedNext(x)
    <2>1. x # r
      BY <1>1, <1>11, SourcesStay DEF r
    <2> QED
      BY <1>1, <1>8, <1>11, <2>1 DEF WellSourced, WellSourcedNext
  <1>12. r \in Catalog!Named(shared', own') /\ demand[r] # {} => WellSourcedNext(r)
    BY <1>1, <1>3, <1>4, <1>8 DEF WellSourcedNext
  <1>13. AllSourced'
    <2>1. ASSUME NEW a \in Apps, shared'[a] # 0 PROVE WellSourcedNext(shared'[a])
      <3>1. shared'[a] \in Catalog!Named(shared', own')
        BY DEF Catalog!Named
      <3> QED
        BY <1>2, <1>7, <1>11, <1>12, <2>1, <3>1 DEF AllSourced
    <2>2. ASSUME NEW c \in Accounts, NEW a \in Apps, own'[c][a] # 0 PROVE WellSourcedNext(own'[c][a])
      <3>1. own'[c][a] \in Catalog!Named(shared', own')
        BY DEF Catalog!Named
      <3> QED
        BY <1>2, <1>7, <1>11, <1>12, <2>2, <3>1 DEF AllSourced
    <2> QED
      BY <2>1, <2>2, SourcedNext
  <1>14. OwnFacts'
    <2> SUFFICES ASSUME NEW c \in Accounts, NEW a \in Apps
                 PROVE  /\ own'[c][a] <= shared'[a]
                        /\ own'[c][a] # 0 =>
                            /\ c \in accounts /\ own'[c][a] \in Catalog!RunIds
                            /\ subject[own'[c][a]] = c /\ a \in demand[own'[c][a]]
      BY <1>1 DEF OwnFacts
    <2>1. own[c][a] <= shared[a] /\ own[c][a] \in Nat /\ shared[a] \in Nat
      BY <1>2, <1>6 DEF OwnFacts
    <2>2. own'[c][a] <= shared'[a]
      BY <1>3, <1>7, <2>1
    <2> QED
      BY <1>2, <1>3, <1>7, <2>2 DEF OwnFacts, c0
  <1> QED
    BY <1>9, <1>10, <1>13, <1>14 DEF CatalogInv

LEMMA FailCatalogStep ==
    ASSUME Catalog!SyncRunsAssumption, CatalogInv, NEW s \in {"partial", "failed"}, Catalog!FailCatalog(s)
    PROVE  CatalogInv'
  <1> DEFINE ended == Catalog!EndedRun(runs[command], s, 0, FALSE)
  <1>1. /\ command # 0 /\ command' = 0 /\ runs' = [runs EXCEPT ![command] = ended]
        /\ UNCHANGED <<nextRun, subject, demand, sourced, shared, own, owns, installed, accounts>>
    BY DEF Catalog!FailCatalog, Catalog!Closed
  <1>2. CatalogShapes /\ Numbered /\ OwnFacts /\ AllSourced /\ command \in Catalog!RunIds
    BY <1>1 DEF CatalogInv, OwnCommand
  <1>3. ended \in Catalog!RunRecords
    <2>1. runs[command] \in Catalog!RunRecords
      BY <1>2 DEF CatalogShapes
    <2> QED
      BY <2>1, CatalogTyped DEF Catalog!EndedRun, Catalog!RunRecords, Catalog!Statuses
  <1> HIDE DEF ended
  <1>4. /\ runs' \in [Catalog!RunIds -> Catalog!RunRecords]
        /\ \A q \in Catalog!RunIds : q # command => runs'[q] = runs[q]
    BY <1>1, <1>2, <1>3 DEF CatalogShapes
  <1>5. CatalogShapes' /\ Numbered' /\ OwnCommand' /\ OwnFacts'
    BY <1>1, <1>2, <1>4 DEF CatalogShapes, Numbered, OwnCommand, OwnFacts
  <1>6. ASSUME NEW x, WellSourced(x) PROVE WellSourced(x)'
    <2>1. x # command
      BY <1>1, <1>6, SourcesStay
    <2> QED
      BY <1>1, <1>4, <1>6, <2>1 DEF WellSourced
  <1>7. AllSourced'
    BY <1>1, <1>2, <1>6 DEF AllSourced
  <1> QED
    BY <1>5, <1>7 DEF CatalogInv

\* Steps that change neither the facts nor the runs
LEMMA OutsideStep ==
    ASSUME CatalogInv, UNCHANGED <<runs, nextRun, subject, demand, sourced, shared, own>>,
           owns' \in [Accounts -> SUBSET Apps], installed' \subseteq Apps,
           accounts \subseteq accounts', accounts' \subseteq Accounts, command' \in {0, command}
    PROVE  CatalogInv'
  <1>1. CatalogShapes /\ Numbered /\ OwnCommand /\ OwnFacts /\ AllSourced
    BY DEF CatalogInv
  <1>2. CatalogShapes' /\ Numbered' /\ OwnCommand' /\ OwnFacts'
    BY <1>1 DEF CatalogShapes, Numbered, OwnCommand, OwnFacts
  <1>3. AllSourced'
    BY <1>1 DEF AllSourced, WellSourced
  <1> QED
    BY <1>2, <1>3 DEF CatalogInv

LEMMA DeleteAllCatalogStep ==
    ASSUME Catalog!SyncRunsAssumption, CatalogInv, Catalog!DeleteAllCatalog
    PROVE  CatalogInv'
  <1>1. /\ command = 0 /\ runs' = [r \in Catalog!RunIds |-> Catalog!NoRun]
        /\ subject' = [r \in Catalog!RunIds |-> Nobody] /\ demand' = [r \in Catalog!RunIds |-> {}]
        /\ sourced' = {} /\ shared' = [a \in Apps |-> 0]
        /\ own' = [c \in Accounts |-> [a \in Apps |-> 0]]
        /\ owns' = [c \in Accounts |-> {}] /\ accounts' = {}
        /\ UNCHANGED <<nextRun, installed, command>>
    BY DEF Catalog!DeleteAllCatalog, Catalog!NoFacts
  <1>2. CatalogShapes'
    BY <1>1, CatalogTyped DEF CatalogInv, CatalogShapes
  <1>3. Numbered' /\ OwnCommand' /\ OwnFacts' /\ AllSourced'
    BY <1>1 DEF Numbered, OwnCommand, OwnFacts, AllSourced
  <1> QED
    BY <1>2, <1>3 DEF CatalogInv

LEMMA SameCardinality == \A S : Catalog!Cardinality(S) = Cardinality(S)
  BY DEF Cardinality, Catalog!Cardinality

\* The runs a deletion detaches get ids one after another, none used before.
LEMMA DetachedIds ==
    ASSUME Catalog!SyncRunsAssumption, CatalogInv, NEW c,
           NEW new, new = {Catalog!DetachedId(c, r) : r \in Catalog!Sources(c)}
    PROVE  /\ Catalog!Cardinality(new) \in Nat
           /\ \A r \in Catalog!Sources(c) :
                Catalog!DetachedId(c, r) \in nextRun .. nextRun + Catalog!Cardinality(new) - 1
  <1> DEFINE S == Catalog!Sources(c)
             Before(r) == {q \in S : q < r}
             Id(r) == nextRun + Cardinality(Before(r))
  <1>1. S \subseteq Catalog!RunIds /\ nextRun \in Nat
    BY DEF Catalog!Sources, Catalog!Of, CatalogInv, CatalogShapes
  <1>2. IsFiniteSet(S) /\ \A r \in S : r \in Nat
    <2>1. IsFiniteSet(1 .. CatalogRuns) /\ Catalog!RunIds = 1 .. CatalogRuns
      BY CatalogTyped, FS_Interval
    <2>2. S \in SUBSET Catalog!RunIds /\ \A r \in S : r \in Nat
      BY <1>1, CatalogTyped
    <2> HIDE DEF S
    <2> QED
      BY <2>1, <2>2, FS_Subset
  <1>3. \A r \in S : Catalog!DetachedId(c, r) = Id(r)
    BY SameCardinality DEF Catalog!DetachedId
  <1> HIDE DEF S
  <1>4. \A r \in S : IsFiniteSet(Before(r)) /\ Cardinality(Before(r)) \in Nat /\ Before(r) \subseteq S
    BY <1>2, FS_Subset, FS_CardinalityType
  <1>5. Cardinality(S) \in Nat
    BY <1>2, FS_CardinalityType
  <1>6. \A r \in S : Cardinality(Before(r)) < Cardinality(S)
    <2> SUFFICES ASSUME NEW r \in S PROVE Cardinality(Before(r)) < Cardinality(S)
      OBVIOUS
    <2>1. Before(r) # S
      BY <1>2
    <2>2. Cardinality(Before(r)) <= Cardinality(S) /\ Cardinality(Before(r)) # Cardinality(S)
      BY <1>2, <1>4, <2>1, FS_Subset
    <2> QED
      BY <1>4, <1>5, <2>2
  <1>7. \A q, r \in S : q < r => Id(q) < Id(r)
    <2> SUFFICES ASSUME NEW q \in S, NEW r \in S, q < r
                 PROVE  Id(q) < Id(r)
      OBVIOUS
    <2>1. Before(q) \subseteq Before(r) /\ q \in Before(r) /\ q \notin Before(q)
      BY <1>2
    <2>2. /\ Cardinality(Before(q)) <= Cardinality(Before(r))
          /\ Cardinality(Before(q)) # Cardinality(Before(r))
      BY <1>4, <2>1, FS_Subset
    <2>3. Cardinality(Before(q)) \in Nat /\ Cardinality(Before(r)) \in Nat
      BY <1>4
    <2> HIDE DEF Before
    <2> QED
      BY <1>1, <2>2, <2>3
  <1>8. \A r \in S : Id(r) \in Nat
    BY <1>1, <1>4
  <1> HIDE DEF Id
  <1>9. \A q, r \in S : Id(q) = Id(r) => q = r
    BY <1>2, <1>7, <1>8
  <1>10. new = {Id(r) : r \in S}
    BY <1>3 DEF S
  <1>11. Cardinality(new) = Cardinality(S)
    <2> DEFINE f == [r \in S |-> Id(r)]
    <2>1. f \in Bijection(S, new)
      BY <1>9, <1>10 DEF Bijection, Injection, Surjection, IsInjective
    <2> QED
      BY <1>2, <2>1, FS_Bijection DEF ExistsBijection
  <1>12. \A r \in S : Id(r) \in nextRun .. nextRun + Cardinality(S) - 1
    BY <1>1, <1>4, <1>5, <1>6 DEF Id
  <1> QED
    BY <1>3, <1>5, <1>11, <1>12, SameCardinality DEF S

LEMMA DeleteAccountCatalogStep ==
    ASSUME Catalog!SyncRunsAssumption, Catalog!CatalogAssumption, CatalogInv,
           NEW c \in Accounts, Catalog!DeleteAccountCatalog(c)
    PROVE  CatalogInv'
  <1> DEFINE S == Catalog!Sources(c)
             Id(r) == Catalog!DetachedId(c, r)
             new == {Id(r) : r \in S}
             n == Catalog!Cardinality(new)
             moved == [a \in Apps |-> IF a \notin Catalog!Needed(c) THEN 0
                                      ELSE IF shared[a] \in S THEN Id(shared[a]) ELSE shared[a]]
             each == [own EXCEPT ![c] = Catalog!NoFacts]
             named == Catalog!Named(moved, each)
             kept == (sourced \cup new) \cap (named \ Catalog!Of(c))
             gone == Catalog!Of(c) \cup {r \in Catalog!RunIds : subject[r] = Nobody /\ r \notin kept}
             fresh == Catalog!EndedRun(Catalog!NoRun, "complete", 0, TRUE)
  <1>1. /\ command = 0 /\ c \in accounts /\ new \subseteq Catalog!RunIds
        /\ accounts' = accounts \ {c} /\ owns' = [owns EXCEPT ![c] = {}]
        /\ shared' = moved /\ own' = each /\ sourced' = kept
        /\ runs' = [r \in Catalog!RunIds |->
                      IF r \in new THEN fresh ELSE IF r \in gone THEN Catalog!NoRun ELSE runs[r]]
        /\ nextRun' = nextRun + n
        /\ subject' = [r \in Catalog!RunIds |-> IF r \in gone THEN Nobody ELSE subject[r]]
        /\ demand' = [r \in Catalog!RunIds |-> IF r \in gone THEN {} ELSE demand[r]]
        /\ UNCHANGED <<installed, command>>
    BY DEF Catalog!DeleteAccountCatalog
  <1>2. CatalogShapes /\ Numbered /\ OwnFacts /\ AllSourced
    BY DEF CatalogInv
  <1>3. n \in Nat /\ \A r \in S : Id(r) \in nextRun .. nextRun + n - 1
    BY DetachedIds
  <1>4. fresh \in Catalog!RunRecords /\ fresh.status = "complete" /\ fresh.promoted
    BY CatalogTyped DEF Catalog!EndedRun, Catalog!NoRun, Catalog!RunRecords, Catalog!Statuses
  <1>5. /\ \A a \in Apps : moved[a] = IF a \notin Catalog!Needed(c) THEN 0
                                      ELSE IF shared[a] \in S THEN Id(shared[a]) ELSE shared[a]
        /\ \A r \in Catalog!RunIds :
             r \in Catalog!Of(c) /\ (\E a \in Catalog!Needed(c) : shared[a] = r) => r \in S
    BY DEF Catalog!Sources
  <1>6. \A r \in new : r >= nextRun /\ r < nextRun + n /\ r \in Nat
    <2>1. nextRun \in Nat
      BY <1>2 DEF CatalogShapes
    <2> HIDE DEF n, Id, S
    <2> QED
      BY <1>3, <2>1
  <1>7. \A r \in Catalog!RunIds : r \in Catalog!Of(c) <=> subject[r] = c
    BY DEF Catalog!Of
  <1>8. c # Nobody
    BY DEF Catalog!CatalogAssumption
  <1>9. \A d \in Accounts, a \in Apps : each[d][a] = IF d = c THEN 0 ELSE own[d][a]
    BY <1>2 DEF CatalogShapes, Catalog!NoFacts
  <1>10. /\ \A a \in Apps : moved[a] \in named
         /\ \A d \in Accounts, a \in Apps : each[d][a] \in named
    BY DEF Catalog!Named
  <1>11. \A r : r \in kept <=> r \in sourced \cup new /\ r \in named /\ r \notin Catalog!Of(c)
    OBVIOUS
  <1>12. \A r \in Catalog!RunIds : r \in gone <=> subject[r] = c \/ (subject[r] = Nobody /\ r \notin kept)
    BY <1>7
  <1>13. \A a \in Apps : moved[a] \in Nat
    BY <1>2, <1>3, <1>5 DEF CatalogShapes
  <1>14. moved = [a \in Apps |-> moved[a]] /\ each \in [Accounts -> [Apps -> Nat]]
    BY <1>2 DEF CatalogShapes, Catalog!NoFacts
  <1>15. \A d \in Accounts, a \in Apps : d # c /\ own[d][a] # 0 => a \in Catalog!Needed(c)
    BY <1>2 DEF OwnFacts, Catalog!Needed
  <1> HIDE DEF moved, each, named, kept, gone, n, fresh
  <1>16. ASSUME NEW r \in new, r \in named PROVE WellSourcedNext(r)
    <2>1. subject[r] # c
      BY <1>1, <1>2, <1>6, <1>8 DEF Numbered
    <2>2. r \in kept
      BY <1>1, <1>7, <1>11, <1>16, <2>1
    <2> QED
      BY <1>1, <1>4, <1>6, <1>16, <2>2 DEF WellSourcedNext
  <1>17. ASSUME NEW r, WellSourced(r), r \in named, subject[r] # c
         PROVE  WellSourcedNext(r) /\ subject'[r] = subject[r] /\ demand'[r] = demand[r]
    <2>1. r \in Catalog!RunIds /\ r < nextRun /\ r \in sourced
      BY <1>17 DEF WellSourced
    <2>2. r \in kept /\ r \notin gone
      BY <1>7, <1>11, <1>12, <1>17, <2>1
    <2>3. r \notin new /\ r < nextRun + n
      BY <1>2, <1>3, <1>6, <2>1, CatalogTyped DEF CatalogShapes
    <2>4. runs'[r] = runs[r] /\ subject'[r] = subject[r] /\ demand'[r] = demand[r]
      BY <1>1, <2>1, <2>2, <2>3
    <2> QED
      BY <1>1, <1>17, <2>1, <2>2, <2>3, <2>4 DEF WellSourced, WellSourcedNext
  <1>18. AllSourced'
    <2>1. ASSUME NEW a \in Apps, shared'[a] # 0 PROVE WellSourcedNext(shared'[a])
      <3>1. shared'[a] = moved[a] /\ moved[a] \in named /\ a \in Catalog!Needed(c)
        BY <1>1, <1>5, <1>10, <2>1
      <3>2. CASE shared[a] \in S
        BY <1>5, <1>16, <3>1, <3>2
      <3>3. CASE shared[a] \notin S
        <4>1. moved[a] = shared[a] /\ WellSourced(shared[a])
          BY <1>2, <1>5, <2>1, <3>1, <3>3 DEF AllSourced
        <4>2. subject[shared[a]] # c
          BY <1>5, <1>7, <3>1, <3>3, <4>1 DEF WellSourced
        <4> QED
          BY <1>17, <3>1, <4>1, <4>2
      <3> QED
        BY <3>2, <3>3
    <2>2. ASSUME NEW d \in Accounts, NEW a \in Apps, own'[d][a] # 0 PROVE WellSourcedNext(own'[d][a])
      <3>1. d # c /\ own'[d][a] = own[d][a] /\ own[d][a] \in named
        BY <1>1, <1>9, <1>10, <2>2
      <3>2. WellSourced(own[d][a]) /\ subject[own[d][a]] = d
        BY <1>2, <2>2, <3>1 DEF AllSourced, OwnFacts
      <3> QED
        BY <1>17, <3>1, <3>2
    <2> QED
      BY <2>1, <2>2, SourcedNext
  <1>19. OwnFacts'
    <2> SUFFICES ASSUME NEW d \in Accounts, NEW a \in Apps
                 PROVE  /\ own'[d][a] <= shared'[a]
                        /\ own'[d][a] # 0 =>
                            /\ d \in accounts' /\ own'[d][a] \in Catalog!RunIds
                            /\ subject'[own'[d][a]] = d /\ a \in demand'[own'[d][a]]
      BY DEF OwnFacts
    <2>1. shared'[a] = moved[a] /\ own'[d][a] = each[d][a] /\ moved[a] \in Nat
      BY <1>1, <1>13
    <2>2. CASE each[d][a] = 0
      BY <2>1, <2>2
    <2>3. CASE each[d][a] # 0
      <3>1. d # c /\ each[d][a] = own[d][a] /\ own[d][a] \in named
        BY <1>9, <1>10, <2>3
      <3>2. /\ d \in accounts /\ own[d][a] \in Catalog!RunIds /\ subject[own[d][a]] = d
            /\ a \in demand[own[d][a]] /\ own[d][a] <= shared[a] /\ WellSourced(own[d][a])
        BY <1>2, <2>3, <3>1 DEF OwnFacts, AllSourced
      <3>3. subject'[own[d][a]] = d /\ a \in demand'[own[d][a]]
        BY <1>17, <3>1, <3>2
      <3>4. a \in Catalog!Needed(c)
        BY <1>15, <2>3, <3>1
      <3>5. own[d][a] <= moved[a]
        <4>1. nextRun \in Nat /\ own[d][a] \in Nat /\ own[d][a] < nextRun
          BY <1>2, <3>2 DEF CatalogShapes, WellSourced
        <4>2. CASE shared[a] \in S
          <5>1. moved[a] >= nextRun
            BY <1>3, <1>5, <3>4, <4>1, <4>2
          <5> QED
            BY <2>1, <4>1, <5>1
        <4>3. CASE shared[a] \notin S
          BY <1>5, <3>2, <3>4, <4>3
        <4> QED
          BY <4>2, <4>3
      <3> QED
        BY <1>1, <2>1, <3>1, <3>2, <3>3, <3>5
    <2> QED
      BY <2>2, <2>3
  <1>20. Numbered'
    <2> SUFFICES ASSUME NEW r \in Catalog!RunIds, r >= nextRun + n
                 PROVE  subject'[r] = Nobody /\ r \notin kept
      BY <1>1 DEF Numbered
    <2>1. r >= nextRun /\ r \notin new
      BY <1>2, <1>3, <1>6, CatalogTyped DEF CatalogShapes
    <2> QED
      BY <1>1, <1>2, <1>11, <2>1 DEF Numbered
  <1>21. CatalogShapes'
    <2>1. runs' \in [Catalog!RunIds -> Catalog!RunRecords]
      BY <1>1, <1>2, <1>4, CatalogTyped DEF CatalogShapes
    <2>2. /\ subject' \in [Catalog!RunIds -> Accounts \cup {Nobody}]
          /\ demand' \in [Catalog!RunIds -> SUBSET Apps]
      BY <1>1, <1>2 DEF CatalogShapes
    <2>3. sourced' \subseteq Catalog!RunIds
      BY <1>1, <1>2, <1>11 DEF CatalogShapes
    <2>4. shared' \in [Apps -> Nat]
      BY <1>1, <1>13, <1>14
    <2>5. nextRun' \in Nat \ {0}
      BY <1>1, <1>2, <1>3 DEF CatalogShapes
    <2>6. owns' \in [Accounts -> SUBSET Apps]
      BY <1>1, <1>2 DEF CatalogShapes
    <2> QED
      BY <1>1, <1>2, <1>14, <2>1, <2>2, <2>3, <2>4, <2>5, <2>6 DEF CatalogShapes
  <1>22. OwnCommand'
    BY <1>1 DEF OwnCommand
  <1> QED
    BY <1>18, <1>19, <1>20, <1>21, <1>22 DEF CatalogInv

LEMMA CatalogNextStep ==
    ASSUME Catalog!SyncRunsAssumption, Catalog!CatalogAssumption, CatalogInv,
           [Catalog!CatalogNext]_(Catalog!catalogvars)
    PROVE  CatalogInv'
  <1>1. ASSUME NEW c \in Accounts, Catalog!BeginCatalog(c) \/ Catalog!DeleteAccountCatalog(c)
        PROVE  CatalogInv'
    BY <1>1, BeginCatalogStep, DeleteAccountCatalogStep
  <1>2. CASE Catalog!CompleteCatalog \/ Catalog!DeleteAllCatalog
    BY <1>2, CompleteCatalogStep, DeleteAllCatalogStep
  <1>3. ASSUME NEW s \in {"partial", "failed"}, Catalog!FailCatalog(s) PROVE CatalogInv'
    BY <1>3, FailCatalogStep
  <1>4. CatalogShapes
    BY DEF CatalogInv
  <1>5. CASE Catalog!CrashCatalog \/ UNCHANGED Catalog!catalogvars
    BY <1>4, <1>5, OutsideStep DEF CatalogShapes, Catalog!CrashCatalog, Catalog!catalogvars
  <1>6. ASSUME NEW c \in Accounts, Catalog!AccountReturns(c) PROVE CatalogInv'
    BY <1>4, <1>6, OutsideStep DEF CatalogShapes, Catalog!AccountReturns
  <1>7. ASSUME NEW apps \in SUBSET Apps, Catalog!Scans(apps) PROVE CatalogInv'
    BY <1>4, <1>7, OutsideStep DEF CatalogShapes, Catalog!Scans
  <1>8. ASSUME NEW apps \in SUBSET Apps, NEW c \in Accounts, Catalog!Buys(c, apps) PROVE CatalogInv'
    BY <1>4, <1>8, OutsideStep DEF CatalogShapes, Catalog!Buys
  <1> QED
    BY <1>1, <1>2, <1>3, <1>5, <1>6, <1>7, <1>8 DEF Catalog!CatalogNext

-----------------------------------------------------------------------------
(***************************************************************************)
(* What an account's completed run asked for, the account has from it or   *)
(* from a later one.                                                       *)
(***************************************************************************)
Answered(r) ==
    subject[r] # Nobody /\ runs[r].status = "complete" =>
        \A a \in demand[r] : own[subject[r]][a] >= r

AllAnswered == \A r \in Catalog!RunIds : Answered(r)

LEMMA AnsweredInitially ==
    ASSUME Catalog!SyncRunsAssumption, Catalog!CatalogInit
    PROVE  AllAnswered
  BY DEF Catalog!CatalogInit, AllAnswered, Answered

LEMMA CompletionAnswers ==
    ASSUME Catalog!SyncRunsAssumption, CatalogInv, AllAnswered, Catalog!CompleteCatalog
    PROVE  AllAnswered'
  <1> DEFINE r == command
             c0 == subject[r]
             Up(facts) == Catalog!Promoted(facts, r)
  <1>1. /\ command # 0 /\ own' = [own EXCEPT ![c0] = Up(own[c0])]
        /\ runs' = [runs EXCEPT ![r] = Catalog!EndedRun(@, "complete", 0, demand[r] # {})]
        /\ UNCHANGED <<subject, demand>>
    BY DEF Catalog!CompleteCatalog, Catalog!Closed
  <1>2. CatalogShapes /\ OwnCommand
    BY DEF CatalogInv
  <1>3. r \in Catalog!RunIds /\ r \in Nat /\ c0 \in Accounts
    BY <1>1, <1>2, CatalogTyped DEF OwnCommand, CatalogShapes
  <1>4. ASSUME NEW facts \in [Apps -> Nat], NEW a \in Apps
        PROVE  Up(facts)[a] >= facts[a] /\ (a \in demand[r] => Up(facts)[a] >= r)
    <2>1. Up(facts)[a] = IF a \in demand[r] /\ facts[a] <= r THEN r ELSE facts[a]
      BY DEF Catalog!Promoted
    <2> QED
      BY <1>3, <2>1
  <1>5. ASSUME NEW c \in Accounts, NEW a \in Apps
        PROVE  /\ own'[c][a] >= own[c][a] /\ own[c][a] \in Nat
               /\ Up(own[c])[a] \in Nat
               /\ c = c0 => own'[c][a] = Up(own[c])[a]
    <2>1. own[c] \in [Apps -> Nat] /\ own[c][a] \in Nat
      BY <1>2 DEF CatalogShapes
    <2>2. own'[c] = IF c = c0 THEN Up(own[c]) ELSE own[c]
      BY <1>1, <1>2 DEF CatalogShapes
    <2>3. Up(own[c])[a] \in Nat
      BY <1>3, <2>1 DEF Catalog!Promoted
    <2> QED
      BY <1>4, <2>1, <2>2, <2>3
  <1>6. \A q \in Catalog!RunIds : q # r => runs'[q] = runs[q]
    BY <1>1, <1>2 DEF CatalogShapes
  <1> SUFFICES ASSUME NEW q \in Catalog!RunIds, subject[q] # Nobody, runs'[q].status = "complete",
                      NEW a \in demand[q]
               PROVE  own'[subject[q]][a] >= q
    BY <1>1 DEF AllAnswered, Answered
  <1>7. subject[q] \in Accounts /\ a \in Apps /\ q \in Nat
    BY <1>2, CatalogTyped DEF CatalogShapes
  <1>8. own[subject[q]] \in [Apps -> Nat] /\ own'[subject[q]][a] \in Nat
    <2>1. own[subject[q]] \in [Apps -> Nat]
      BY <1>2, <1>7 DEF CatalogShapes
    <2>2. own'[subject[q]][a] = IF subject[q] = c0 THEN Up(own[subject[q]])[a] ELSE own[subject[q]][a]
      BY <1>1, <1>2, <1>7 DEF CatalogShapes
    <2> QED
      BY <1>5, <1>7, <2>1, <2>2
  <1> HIDE DEF Up
  <1>9. CASE q = r
    <2>1. own'[subject[q]][a] = Up(own[subject[q]])[a]
      BY <1>5, <1>7, <1>9
    <2>2. Up(own[subject[q]])[a] >= r
      BY <1>4, <1>7, <1>8, <1>9
    <2> QED
      BY <1>9, <2>1, <2>2
  <1>10. CASE q # r
    <2>1. own[subject[q]][a] >= q
      BY <1>6, <1>10 DEF AllAnswered, Answered
    <2>2. own'[subject[q]][a] >= own[subject[q]][a] /\ own[subject[q]][a] \in Nat
      BY <1>5, <1>7
    <2> QED
      BY <1>7, <1>8, <2>1, <2>2
  <1> QED
    BY <1>9, <1>10

LEMMA DeletionAnswers ==
    ASSUME Catalog!SyncRunsAssumption, Catalog!CatalogAssumption, CatalogInv, AllAnswered,
           NEW c \in Accounts, Catalog!DeleteAccountCatalog(c)
    PROVE  AllAnswered'
  <1> DEFINE Id(r) == Catalog!DetachedId(c, r)
             S == Catalog!Sources(c)
             new == {Id(r) : r \in S}
             n == Catalog!Cardinality(new)
  <1>1. /\ own' = [own EXCEPT ![c] = Catalog!NoFacts]
        /\ \A r \in Catalog!RunIds :
             /\ subject'[r] \in {subject[r], Nobody}
             /\ subject[r] = c => subject'[r] = Nobody
             /\ subject'[r] # Nobody /\ r \notin new => runs'[r] = runs[r] /\ demand'[r] = demand[r]
    <2> DEFINE moved == [a \in Apps |-> IF a \notin Catalog!Needed(c) THEN 0
                                        ELSE IF shared[a] \in S THEN Id(shared[a]) ELSE shared[a]]
               each == [own EXCEPT ![c] = Catalog!NoFacts]
               kept == (sourced \cup new) \cap (Catalog!Named(moved, each) \ Catalog!Of(c))
               gone == Catalog!Of(c) \cup {r \in Catalog!RunIds : subject[r] = Nobody /\ r \notin kept}
               fresh == Catalog!EndedRun(Catalog!NoRun, "complete", 0, TRUE)
    <2>1. /\ own' = each
          /\ runs' = [r \in Catalog!RunIds |->
                       IF r \in new THEN fresh ELSE IF r \in gone THEN Catalog!NoRun ELSE runs[r]]
          /\ subject' = [r \in Catalog!RunIds |-> IF r \in gone THEN Nobody ELSE subject[r]]
          /\ demand' = [r \in Catalog!RunIds |-> IF r \in gone THEN {} ELSE demand[r]]
      BY DEF Catalog!DeleteAccountCatalog
    <2>2. \A r \in Catalog!RunIds : subject[r] = c => r \in gone
      BY DEF Catalog!Of
    <2> HIDE DEF gone, new, fresh
    <2> QED
      BY <2>1, <2>2
  <1>2. \A r \in new : r >= nextRun
    <2>1. n \in Nat /\ \A r \in S : Id(r) \in nextRun .. nextRun + n - 1
      BY DetachedIds
    <2>2. nextRun \in Nat
      BY DEF CatalogInv, CatalogShapes
    <2> HIDE DEF n, Id, S
    <2> QED
      BY <2>1, <2>2
  <1> HIDE DEF new
  <1>3. CatalogShapes /\ Numbered
    BY DEF CatalogInv
  <1> SUFFICES ASSUME NEW r \in Catalog!RunIds, subject'[r] # Nobody, runs'[r].status = "complete",
                      NEW a \in demand'[r]
               PROVE  own'[subject'[r]][a] >= r
    BY DEF AllAnswered, Answered
  <1>4. subject'[r] = subject[r] /\ subject[r] # c /\ subject[r] \in Accounts
    BY <1>1, <1>3 DEF CatalogShapes
  <1>5. r \notin new
    BY <1>2, <1>3, <1>4 DEF Numbered
  <1>6. own'[subject[r]] = own[subject[r]]
    BY <1>1, <1>3, <1>4 DEF CatalogShapes
  <1> QED
    BY <1>1, <1>4, <1>5, <1>6 DEF AllAnswered, Answered

LEMMA AnsweredStep ==
    ASSUME Catalog!SyncRunsAssumption, Catalog!CatalogAssumption, CatalogInv, AllAnswered,
           [Catalog!CatalogNext]_(Catalog!catalogvars)
    PROVE  AllAnswered'
  <1>1. CatalogShapes
    BY DEF CatalogInv
  <1>2. ASSUME NEW c \in Accounts, Catalog!BeginCatalog(c) PROVE AllAnswered'
    <2>1. /\ UNCHANGED own
          /\ \A r \in Catalog!RunIds : r # nextRun =>
               runs'[r] = runs[r] /\ subject'[r] = subject[r] /\ demand'[r] = demand[r]
          /\ runs'[nextRun].status = "running"
      BY <1>1, <1>2 DEF Catalog!BeginCatalog, Catalog!CanOpen, Catalog!Opened, CatalogShapes
    <2> QED
      BY <2>1 DEF AllAnswered, Answered
  <1>3. ASSUME NEW s \in {"partial", "failed"}, Catalog!FailCatalog(s) PROVE AllAnswered'
    <2>1. /\ UNCHANGED <<own, subject, demand>>
          /\ \A r \in Catalog!RunIds : runs'[r] = runs[r] \/ runs'[r].status = s
      BY <1>1, <1>3 DEF Catalog!FailCatalog, Catalog!Closed, Catalog!EndedRun, CatalogShapes
    <2> QED
      BY <2>1 DEF AllAnswered, Answered
  <1>4. CASE Catalog!DeleteAllCatalog
    <2>1. \A r \in Catalog!RunIds : subject'[r] = Nobody
      BY <1>4 DEF Catalog!DeleteAllCatalog
    <2> QED
      BY <2>1 DEF AllAnswered, Answered
  <1>5. CASE UNCHANGED <<runs, subject, demand, own>>
    BY <1>5 DEF AllAnswered, Answered
  <1>6. CASE \/ Catalog!CrashCatalog \/ UNCHANGED Catalog!catalogvars
             \/ \E c \in Accounts : Catalog!AccountReturns(c)
             \/ \E apps \in SUBSET Apps : Catalog!Scans(apps) \/ \E c \in Accounts : Catalog!Buys(c, apps)
    BY <1>5, <1>6 DEF Catalog!CrashCatalog, Catalog!catalogvars, Catalog!AccountReturns, Catalog!Scans, Catalog!Buys
  <1> QED
    BY <1>2, <1>3, <1>4, <1>6, CompletionAnswers, DeletionAnswers DEF Catalog!CatalogNext

\* The newest attempt on a title there is one of, and what it can be
LEMMA NewestAttempt ==
    ASSUME Catalog!SyncRunsAssumption, CatalogInv, NEW c \in Accounts, NEW a \in Apps,
           Catalog!AskedBy(c, a) # {}
    PROVE  /\ Catalog!Attempt(c, a) \in Catalog!AskedBy(c, a)
           /\ \A q \in Catalog!AskedBy(c, a) : q <= Catalog!Attempt(c, a)
  <1> DEFINE T == Catalog!AskedBy(c, a)
  <1>1. T \in SUBSET (0 .. CatalogRuns) /\ CatalogRuns \in Nat
    BY CatalogTyped DEF Catalog!AskedBy
  <1>2. \E r \in T : \A q \in T : q <= r
    <2> HIDE DEF T
    <2> QED
      BY <1>1, GreatestNatural DEF T
  <1> QED
    BY <1>2 DEF Catalog!Attempt

LEMMA CatalogLabels ==
    ASSUME Catalog!SyncRunsAssumption, Catalog!CatalogAssumption, CatalogInv, AllAnswered
    PROVE  Catalog!CatalogLabelsMatch
  <1> SUFFICES ASSUME NEW c \in accounts, NEW o \in Catalog!Labels, NEW stale \in BOOLEAN, NEW abandoned \in BOOLEAN,
                      Catalog!LibraryQueryLabel(c, o, "complete", stale, abandoned) = "complete"
               PROVE  /\ o = "complete"
                      /\ \A a \in Catalog!Demanded(c) :
                           /\ own[c][a] \in Catalog!AskedBy(c, a)
                           /\ \/ own[c][a] = Catalog!Attempt(c, a)
                              \/ Catalog!Is(Catalog!Attempt(c, a), "running") /\ ~abandoned
    BY DEF Catalog!CatalogLabelsMatch
  <1> DEFINE all == Catalog!AttemptStatuses(c)
  <1>1. /\ o = "complete" /\ Catalog!Missing(c) = {} /\ Catalog!Unasked(c) = {}
        /\ Catalog!CatalogueLabel(c, stale, abandoned) # "partial"
    BY DEF Catalog!LibraryQueryLabel, Catalog!LibraryLabel, Catalog!Labels
  <1>2. /\ all \cap {"failed", "partial"} = {}
        /\ "running" \in all => ~abandoned
    BY <1>1 DEF Catalog!CatalogueLabel, Catalog!CatalogLabel
  <1>3. CatalogShapes /\ OwnFacts /\ AllSourced /\ c \in Accounts
    BY DEF CatalogInv, CatalogShapes
  <1> SUFFICES ASSUME NEW a \in Catalog!Demanded(c)
               PROVE  /\ own[c][a] \in Catalog!AskedBy(c, a)
                      /\ \/ own[c][a] = Catalog!Attempt(c, a)
                         \/ Catalog!Is(Catalog!Attempt(c, a), "running") /\ ~abandoned
    BY <1>1
  <1> DEFINE newest == Catalog!Attempt(c, a)
  <1>4. a \in Apps /\ own[c][a] # 0 /\ own[c][a] \in Nat
    BY <1>1, <1>3 DEF Catalog!Demanded, Catalog!Missing, CatalogShapes
  <1>5. own[c][a] \in Catalog!AskedBy(c, a)
    BY <1>3, <1>4 DEF OwnFacts, AllSourced, WellSourced, Catalog!AskedBy, Catalog!Live, Catalog!Is
  <1>6. newest \in Catalog!AskedBy(c, a) /\ own[c][a] <= newest
    BY <1>3, <1>4, <1>5, NewestAttempt
  <1>7. runs[newest].status \in all
    BY <1>1 DEF Catalog!AttemptStatuses
  <1> HIDE DEF newest
  <1>8. /\ newest \in Catalog!RunIds /\ newest \in Nat /\ subject[newest] = c /\ a \in demand[newest]
        /\ runs[newest].status \in {"running", "complete", "partial", "failed"}
    <2>1. newest \in Catalog!RunIds /\ subject[newest] = c /\ a \in demand[newest] /\ runs[newest].status # "absent"
      BY <1>6 DEF Catalog!AskedBy, Catalog!Live, Catalog!Is
    <2>2. runs[newest] \in Catalog!RunRecords
      BY <1>3, <2>1 DEF CatalogShapes
    <2> QED
      BY <2>1, <2>2, CatalogTyped DEF Catalog!RunRecords, Catalog!Statuses
  <1>9. CASE runs[newest].status = "complete"
    <2>1. c # Nobody
      BY <1>3 DEF Catalog!CatalogAssumption
    <2>2. own[c][a] >= newest
      BY <1>8, <1>9, <2>1 DEF AllAnswered, Answered
    <2> QED
      BY <1>4, <1>5, <1>6, <1>8, <2>2 DEF newest
  <1>10. CASE runs[newest].status = "running"
    BY <1>2, <1>5, <1>7, <1>10 DEF newest, Catalog!Is
  <1> QED
    BY <1>2, <1>7, <1>8, <1>9, <1>10

=============================================================================
