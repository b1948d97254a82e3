SPECIFICATION EvalSpec
CONSTANTS
    p1 = p1
    p2 = p2
    j1 = j1
    j2 = j2
    pass = pass
    fail = fail
    Proc = {p1, p2}
    Nobody = Nobody
    Items = 2
    MaxRuns = 3
    MaxEdits = 2
    MaxStarts = 2
    Cases = 2
    Judges = {j1, j2}
    Verdicts = {pass, fail}
    Unresolved = Unresolved
    ReviewImports = 1
    ScreenImports = 3
    Turns = 2
    MaxFaults = 1
    MaxWork = 3
SYMMETRY Symmetry
CHECK_DEADLOCK FALSE
INVARIANTS
    ObservationsStand
    AgreementsRest
    ReviewResumable
    GradesAreEarned
PROPERTIES
    FinalStaysFinal
