SPECIFICATION StoreSpec
CONSTANTS
    p1 = p1
    p2 = p2
    u1 = u1
    u2 = u2
    Proc = {p1, p2}
    Accounts = {u1, u2}
    Everyone = Everyone
    Nobody = Nobody
    Apps = {a1}
    SnapshotRuns = 3
    SnapshotTime = 1
    PriceRuns = 4
    PriceTime = 1
    SubjectRuns = 2
    SubjectTime = 2
    CatalogRuns = 3
    BudgetTime = 8
    Abandon = 0
    Serve = 0
    History = 1
    SnapshotHistory = 0
    MaxOwners = 2
    Interval = 2
    Window = 4
    Retry = {0, 3}
    MaxKeys = 2
    Names = {1, 2, 3}
    Steam = {1}
    Limits = {2, 3}
    MaxLent = 2
    Quotes <- MCQuotes
    MaxEvents = 3
SYMMETRY Symmetry
CHECK_DEADLOCK FALSE
INVARIANTS
    CurrentIsNewest
    OnlyOvertakenLinger
    OneAskerPerTitle
    FactsRestOnAnswers
    FailuresUndone
    AnswersStand
    AdviceStands
    LabelsMatch
PROPERTIES
    ShownMovesForward
    DeletionSparesOthers
    RequestsSpaced
