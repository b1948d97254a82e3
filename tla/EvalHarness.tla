---------------------------- MODULE EvalHarness ----------------------------
(***************************************************************************)
(* The evaluation harness, one side at a time: `side` names the one a      *)
(* behaviour follows.  A conversation is over before its cohort's report   *)
(* is written, the matrix is run to its end before its results are         *)
(* reviewed, and no later command of one changes what another left.        *)
(***************************************************************************)
EXTENDS Integers, FiniteSets

CONSTANTS
    Proc, Nobody, Items, MaxRuns, MaxEdits, MaxStarts,
    Cases, Judges, Verdicts, Unresolved, ReviewImports, ScreenImports,
    Turns, MaxFaults, MaxWork

ASSUME EvalAssumption ==
    /\ {Items, MaxRuns, MaxEdits, MaxStarts, Cases, ReviewImports, ScreenImports,
        Turns, MaxFaults, MaxWork} \subseteq Nat
    /\ Nobody \notin Proc      \* with the bounds: what EvalMatrix assumes
    /\ Unresolved \notin Verdicts
    /\ IsFiniteSet(Judges) /\ Judges # {}

VARIABLES
    side,
    tree, run, manifest, attempts, lock, cmd, starts, spoiled,
    campaign, legacy, package, canary, amendment, ops, agreed, judgments,
    adjudications, acceptance, bound, imports, torn,
    log, queue, client, server, faults,
    scenario, turns, over, touched

matrix == <<tree, run, manifest, attempts, lock, cmd, starts, spoiled>>
review == <<campaign, legacy, package, canary, amendment, ops, agreed, judgments,
            adjudications, acceptance, bound, imports, torn>>
turn == <<log, queue, client, server, faults>>
grade == <<scenario, turns, over, touched>>
evalvars == <<side, matrix, review, turn, grade>>

Matrix == INSTANCE EvalMatrix
Review == INSTANCE EvalReview
Turn == INSTANCE CodexTurn
Grade == INSTANCE ScenarioGrade

Unused == "unused"

NoMatrix ==
    /\ tree = Unused /\ run = Unused /\ manifest = Unused /\ attempts = Unused
    /\ lock = Unused /\ cmd = Unused /\ starts = Unused /\ spoiled = Unused
NoReview ==
    /\ campaign = Unused /\ legacy = Unused /\ package = Unused /\ canary = Unused
    /\ amendment = Unused /\ ops = Unused /\ agreed = Unused /\ judgments = Unused
    /\ adjudications = Unused /\ acceptance = Unused /\ bound = Unused
    /\ imports = Unused /\ torn = Unused

NoTurn ==
    log = Unused /\ queue = Unused /\ client = Unused /\ server = Unused /\ faults = Unused
NoGrade == scenario = Unused /\ turns = Unused /\ over = Unused /\ touched = Unused

EvalInit ==
    \/ side = "matrix" /\ Matrix!MatrixInit /\ NoReview /\ NoTurn /\ NoGrade
    \/ side = "review" /\ Review!ReviewInit /\ NoMatrix /\ NoTurn /\ NoGrade
    \/ side = "turn" /\ Turn!TurnInit /\ NoMatrix /\ NoReview /\ NoGrade
    \/ side = "grade" /\ Grade!GradeInit /\ NoMatrix /\ NoReview /\ NoTurn

EvalNext ==
    /\ side' = side
    /\ \/ side = "matrix" /\ Matrix!MatrixNext /\ UNCHANGED <<review, turn, grade>>
       \/ side = "review" /\ Review!ReviewNext /\ UNCHANGED <<matrix, turn, grade>>
       \/ side = "turn" /\ Turn!TurnNext /\ UNCHANGED <<matrix, review, grade>>
       \/ side = "grade" /\ Grade!GradeNext /\ UNCHANGED <<matrix, review, turn>>

EvalSpec == EvalInit /\ [][EvalNext]_evalvars

-----------------------------------------------------------------------------
(* EvalMatrix: what the manifest counts is the last attempt of its item,    *)
(* with a result and a fresh completed cohort of the campaign's source.     *)
ObservationsStand == side = "matrix" => Matrix!ObservationsStand

(* EvalReview: an agreement rests on the recorded verdict of every judge.   *)
AgreementsRest == side = "review" => Review!AgreementsRest

(* EvalReview: the records of a killed review command fit one another.      *)
ReviewResumable == side = "review" => Review!ReviewResumable

(* CodexTurn: a clean grade means a well ordered wire, a passing one means *)
(* answers given after their evidence, a confirmed route one that was kept. *)
(* ScenarioGrade: a scenario that does not fail touched only what it may,   *)
(* and said what its document says; nothing that leaks is kept of it.       *)
GradesAreEarned ==
    /\ side = "turn" => Turn!GradesAreEarned
    /\ side = "grade" => Grade!GradesAreSound

(* EvalRun, EvalReview: a cohort's verdict, once written, and the evidence  *)
(* of a screen, once decided on, stay as they are.                          *)
FinalStaysFinal ==
    [][/\ side = "matrix" => Matrix!VerdictKept
       /\ side = "review" => Review!DecisionKept]_evalvars

=============================================================================
