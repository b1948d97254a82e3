----------------------------- MODULE EvalReview -----------------------------
(***************************************************************************)
(* The qualitative side of the evaluation harness, over one completed      *)
(* matrix: the review package of a benchmark with its canary, measurement  *)
(* amendment, operations and agreements (evals/runner/review.py), the      *)
(* direct imports of judgments and adjudications (judge.py), and the       *)
(* finalization of a screen (acceptance.py).  Every command holds the      *)
(* review's and the matrix's lock from its first read to its last write,   *)
(* so commands do not interleave; each may be killed between its writes,   *)
(* which `reach` stands for.  A kill within a write leaves a file that the *)
(* layout checks of every later command refuse.                            *)
(***************************************************************************)
EXTENDS Integers, FiniteSets

CONSTANTS
    Cases,         \* how many work items are reviewed
    Judges,        \* the judges the campaign configures
    Verdicts,      \* what a judge may say
    Unresolved,    \* the outcome when judges differ
    ReviewImports, \* how many direct imports there are beside a review,
    ScreenImports  \* and how many on a screen

Case == 1..Cases
Slot == Case \X Judges
None == "none"
Other == "other"               \* a file name of no slot's or case's own

VARIABLES
    campaign,      \* benchmark or screen
    legacy,        \* a package of the older protocol awaits supersession
    package,       \* the registry, the tombstone and the published package
    canary,        \* the canary's terminal attestation
    amendment,     \* the matrix's measurement amendment
    ops,           \* of each slot: its judgment operation
    agreed,        \* of each case: its agreement operation
    judgments,     \* retained judgment files
    adjudications, \* retained adjudication files
    acceptance,    \* acceptance.json: the evidence it was decided on
    bound,         \* what the manifest binds
    imports,       \* direct imports so far
    torn           \* a write that a kill cut left its temporary file

reviewvars == <<campaign, legacy, package, canary, amendment, ops, agreed, judgments,
                adjudications, acceptance, bound, imports, torn>>

NoOp == [form |-> "none", verdict |-> None]
NoAgreement == [uses |-> {}, outcome |-> None]
NoAmendment == [slot |-> <<0, None>>, class |-> "none"]
NoDecision == [judgments |-> {}, adjudications |-> {}, taken |-> FALSE]

ReviewInit ==
    /\ campaign \in {"benchmark", "screen"}
    /\ legacy \in IF campaign = "benchmark" THEN BOOLEAN ELSE {FALSE}
    /\ package = [registry |-> "none", tombstone |-> FALSE, published |-> "none"]
    /\ canary = "none"
    /\ amendment = NoAmendment
    /\ ops = [s \in Slot |-> NoOp]
    /\ agreed = [i \in Case |-> NoAgreement]
    /\ judgments = {} /\ adjudications = {}
    /\ acceptance = NoDecision /\ bound = NoDecision
    /\ imports = 0
    /\ torn = FALSE

(* A judgment file: its target and judge, its verdict, its name and the     *)
(* command that made it (documents of different commands differ).           *)
Own(s) == [slot |-> s, verdict |-> ops[s].verdict, name |-> s, by |-> "review"]
FilesOf(s) == {f \in judgments : f.slot = s}
NameFree(s) == \A f \in judgments : f.name # s

OwnAgreement(i) ==
    [case |-> i, uses |-> agreed[i].uses, outcome |-> agreed[i].outcome,
     name |-> i, by |-> "review"]
AdjudicationsOf(i) == {a \in adjudications : a.case = i}
AdjudicationNameFree(n) == \A a \in adjudications : a.name # n

Agreement(files) ==
    IF \E v \in Verdicts : \A f \in files : f.verdict = v
    THEN CHOOSE v \in Verdicts : \A f \in files : f.verdict = v
    ELSE Unresolved

Targets(s) == amendment.slot = s

(* What an operation is worth beside the amendment.                         *)
Effective(s) ==
    CASE ops[s].form = "unavailable" -> Targets(s) /\ amendment.class = "interrupted"
      [] ops[s].form = "lost" -> ~Targets(s)
      [] ops[s].form = "measured" -> ~(Targets(s) /\ amendment.class = "interrupted")
      [] OTHER -> TRUE

LostOps == {s \in Slot : ops[s].form = "lost"}
NoOperations == ops = [s \in Slot |-> NoOp] /\ agreed = [i \in Case |-> NoAgreement]

AmendmentValid ==
    amendment # NoAmendment =>
        /\ canary = "passed"
        /\ amendment.class = "recorded" =>
            /\ ops[amendment.slot] # NoOp
            /\ FilesOf(amendment.slot) = {Own(amendment.slot)}
        /\ amendment.class = "interrupted" =>
            ~(ops[amendment.slot] = NoOp /\ FilesOf(amendment.slot) # {})

(* _validate_review_root: one operation that does not fit refuses every     *)
(* command of the review.                                                   *)
RootValid ==
    /\ package.published # "none"
    /\ canary # "passed" => NoOperations
    /\ AmendmentValid
    /\ Cardinality(LostOps) <= 1
    /\ \A s \in Slot : ops[s] # NoOp => Effective(s) /\ FilesOf(s) \subseteq {Own(s)}
    /\ \A i \in Case :
        agreed[i] # NoAgreement => AdjudicationsOf(i) \subseteq {OwnAgreement(i)}

Ready == RootValid /\ canary = "passed"

-----------------------------------------------------------------------------
(* prepare: the registry is reserved, then the package is staged and moved  *)
(* into place; a second call finishes what a killed one began.              *)
Unreviewed == campaign = "benchmark" /\ judgments = {} /\ adjudications = {}

Publish(id, tombstone, reach) ==
    /\ package' = [registry |-> id, tombstone |-> tombstone,
                   published |-> IF reach = "package" THEN id ELSE package.published]
    /\ UNCHANGED <<campaign, legacy, canary, amendment, ops, agreed, judgments,
                   adjudications, acceptance, bound, imports>>

Prepare ==
    /\ Unreviewed
    /\ package.registry \in {"none", "first"}
    /\ package.published = "none"
    /\ \E reach \in {"registry", "package"} : Publish("first", FALSE, reach)

(* A superseding package also leaves a tombstone in the old one.            *)
Supersede ==
    /\ Unreviewed /\ legacy
    /\ package.registry \in {"none", "superseding"}
    /\ package.published = "none"
    /\ \E reach \in {"registry", "tombstone", "package"} :
        Publish("superseding", package.tombstone \/ reach # "registry", reach)

(* The canary ends once, before the first operation.                        *)
RecordCanary ==
    /\ RootValid /\ canary = "none" /\ NoOperations
    /\ canary' \in {"passed", "failed"}
    /\ UNCHANGED <<campaign, legacy, package, amendment, ops, agreed, judgments,
                   adjudications, acceptance, bound, imports>>

(* The matrix's only amendment: of an attempt that was interrupted before   *)
(* it was recorded, or of a recorded duration.                              *)
InterruptibleUnlessImported(s) == FilesOf(s) = {}    \* a faulty look at the import only
Interruptible(s) == ops[s] = NoOp /\ FilesOf(s) = {}
Unreliable(s) == ops[s].form = "measured" /\ FilesOf(s) = {Own(s)}

RecordAmendment ==
    /\ Ready /\ amendment = NoAmendment
    /\ \E s \in Slot :
        \/ Interruptible(s) /\ amendment' = [slot |-> s, class |-> "interrupted"]
        \/ Unreliable(s) /\ amendment' = [slot |-> s, class |-> "recorded"]
    /\ UNCHANGED <<campaign, legacy, package, canary, ops, agreed, judgments,
                   adjudications, acceptance, bound, imports>>

(* A new judgment: the operation holds the verdict, the import follows.     *)
Record(s, form, v, reach) ==
    /\ ops' = [ops EXCEPT ![s] = [form |-> form, verdict |-> v]]
    /\ judgments' = IF reach = "import"
                    THEN judgments \cup {[slot |-> s, verdict |-> v, name |-> s,
                                          by |-> "review"]}
                    ELSE judgments
    /\ UNCHANGED <<campaign, legacy, package, canary, amendment, agreed, adjudications,
                   acceptance, bound, imports>>

Unfinalized == bound = NoDecision /\ acceptance = NoDecision

Vacant(s) == ops[s] = NoOp /\ FilesOf(s) = {} /\ NameFree(s)

AssembleJudgment ==
    /\ Unfinalized /\ Ready
    /\ \E s \in Slot, v \in Verdicts, reach \in {"operation", "import"} :
        /\ Vacant(s)
        /\ Record(s, IF Targets(s) THEN "unavailable" ELSE "measured", v, reach)

RecoverDurationLoss ==
    /\ Unfinalized /\ Ready
    /\ \E s \in Slot, v \in Verdicts, reach \in {"operation", "import"} :
        /\ Vacant(s) /\ ~Targets(s) /\ LostOps = {}
        /\ Record(s, "lost", v, reach)

(* Either command, given the recorded measurements, imports what a killed   *)
(* one recorded; the verdict it is given now is not read.                   *)
ResumeImport ==
    /\ Unfinalized /\ Ready
    /\ \E s \in Slot :
        /\ ops[s] # NoOp /\ FilesOf(s) = {} /\ NameFree(s)
        /\ judgments' = judgments \cup {Own(s)}
    /\ UNCHANGED <<campaign, legacy, package, canary, amendment, ops, agreed,
                   adjudications, acceptance, bound, imports>>

(* _bound_judgment_roster: each judge's only file, as its operation has it. *)
Roster(i) == {f \in judgments : f.slot[1] = i}

BoundByFiles(i) ==             \* a roster that does not look at the operations
    \A j \in Judges : Cardinality(FilesOf(<<i, j>>)) = 1

Bound(i) ==
    \A j \in Judges :
        /\ Cardinality(FilesOf(<<i, j>>)) = 1
        /\ ops[<<i, j>>] # NoOp /\ FilesOf(<<i, j>>) = {Own(<<i, j>>)}

(* A case is new, to be resumed, or already done; one that is none of these *)
(* stops the whole resolution before its first write.                       *)
Planned(i) ==
    \/ agreed[i] # NoAgreement /\ AdjudicationsOf(i) = {OwnAgreement(i)}
    \/ AdjudicationsOf(i) = {} /\ AdjudicationNameFree(i)

Resolution(i) ==
    IF agreed[i] # NoAgreement THEN agreed[i]
    ELSE [uses |-> Roster(i), outcome |-> Agreement(Roster(i))]

ResolveAgreement ==
    /\ Unfinalized /\ Ready
    /\ \A i \in Case : Bound(i) /\ Planned(i)
    /\ \E recorded \in Case, imported \in 0..Cases :
        /\ imported \in {recorded, recorded - 1}
        /\ agreed' = [i \in Case |-> IF i <= recorded THEN Resolution(i) ELSE agreed[i]]
        /\ adjudications' = adjudications \cup
              {[case |-> i, uses |-> Resolution(i).uses, outcome |-> Resolution(i).outcome,
                name |-> i, by |-> "review"] : i \in 1..imported}
    /\ UNCHANGED <<campaign, legacy, package, canary, amendment, ops, judgments,
                   acceptance, bound, imports>>

-----------------------------------------------------------------------------
(* _reject_finalized_screen: bound in the manifest, or only decided.        *)
AcceptsUnlessBound == bound = NoDecision            \* a faulty look at the manifest only
AcceptsImports == bound = NoDecision /\ acceptance = NoDecision

MaxImports == IF campaign = "screen" THEN ScreenImports ELSE ReviewImports

(* `adjudicate`: any valid document under a free name.                      *)
DirectJudgment ==
    /\ AcceptsImports /\ imports < MaxImports
    /\ \E s \in Slot, v \in Verdicts, n \in Slot \cup {<<0, Other>>} :
        /\ NameFree(n)
        /\ judgments' = judgments \cup {[slot |-> s, verdict |-> v, name |-> n,
                                         by |-> "direct"]}
    /\ imports' = imports + 1
    /\ UNCHANGED <<campaign, legacy, package, canary, amendment, ops, agreed,
                   adjudications, acceptance, bound>>

DirectAdjudication ==
    /\ AcceptsImports /\ imports < MaxImports
    /\ \E i \in Case, n \in Case \cup {0}, files \in SUBSET judgments :
        /\ files \subseteq Roster(i) /\ AdjudicationNameFree(n)
        /\ \A j \in Judges : Cardinality({f \in files : f.slot[2] = j}) = 1
        /\ adjudications' = adjudications \cup
              {[case |-> i, uses |-> files, outcome |-> Agreement(files), name |-> n,
                by |-> "direct"]}
    /\ imports' = imports + 1
    /\ UNCHANGED <<campaign, legacy, package, canary, amendment, ops, agreed, judgments,
                   acceptance, bound>>

(* finalize_screen: the decision is published, then bound in the manifest.  *)
Evidence == [judgments |-> judgments, adjudications |-> adjudications, taken |-> TRUE]

Unambiguous ==
    /\ \A i \in Case : Cardinality(AdjudicationsOf(i)) <= 1
    /\ judgments = UNION {a.uses : a \in adjudications}

Finalize ==
    /\ campaign = "screen" /\ Unambiguous
    /\ bound = NoDecision
    /\ acceptance \in {NoDecision, Evidence}
    /\ acceptance' = Evidence
    /\ bound' \in {bound, Evidence}
    /\ UNCHANGED <<campaign, legacy, package, canary, amendment, ops, agreed, judgments,
                   adjudications, imports>>

KilledInWrite ==
    /\ torn' = TRUE
    /\ UNCHANGED <<campaign, legacy, package, canary, amendment, ops, agreed, judgments,
                   adjudications, acceptance, bound, imports>>

ReviewNext ==
    /\ ~torn
    /\ \/ /\ \/ Prepare \/ Supersede \/ RecordCanary \/ RecordAmendment
             \/ AssembleJudgment \/ RecoverDurationLoss \/ ResumeImport
             \/ ResolveAgreement \/ DirectJudgment \/ DirectAdjudication \/ Finalize
          /\ UNCHANGED torn
       \/ KilledInWrite

ReviewSpec == ReviewInit /\ [][ReviewNext]_reviewvars

-----------------------------------------------------------------------------
(* Types of the retained files and the operations.                          *)
ReviewTypeOK ==
    /\ package.published \in {"none", package.registry}
    /\ canary \in {"none", "passed", "failed"}
    /\ ops \in [Slot -> [form : {"none", "measured", "unavailable", "lost"},
                         verdict : Verdicts \cup {None}]]
    /\ agreed \in [Case -> [uses : SUBSET judgments,
                            outcome : Verdicts \cup {Unresolved, None}]]
    /\ \A f \in judgments : f.slot \in Slot /\ f.verdict \in Verdicts

(* An agreement rests on one verdict of every judge, each the one its       *)
(* operation recorded and still retained: a verdict imported around the     *)
(* review, or asked for twice, never counts (resolve_agreement).            *)
AgreementsRest ==
    \A i \in Case : agreed[i] # NoAgreement =>
        /\ agreed[i].uses = {Own(<<i, j>>) : j \in Judges}
        /\ agreed[i].uses \subseteq judgments
        /\ agreed[i].outcome = Agreement(agreed[i].uses)

(* "An operation-first crash may resume": wherever a review command was     *)
(* killed between two writes, and as long as nothing was imported around    *)
(* the review, its records fit one another and the next command may go on.  *)
ReviewResumable ==
    imports = 0 =>
        /\ package.published # "none" => RootValid
        /\ \A s \in Slot : ops[s] # NoOp /\ FilesOf(s) = {} => NameFree(s)
        /\ \A i \in Case : agreed[i] # NoAgreement => Bound(i)

(* What a screen was accepted on is final, from the publication of the      *)
(* decision on: a qualification is bound to its digest.                     *)
DecisionKept ==
    acceptance # NoDecision =>
        /\ acceptance' = acceptance /\ Evidence' = Evidence
        /\ bound' \in {NoDecision, acceptance}

=============================================================================
