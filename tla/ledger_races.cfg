SPECIFICATION Spec
CONSTANTS
    p1 = p1
    p2 = p2
    k1 = k1
    k2 = k2
    m1 = m1
    m2 = m2
    human = human
    Callers = {p1, p2}
    Keys = {k1, k2}
    Machines = {m1}
    NoActor = NoActor
    NoKey = NoKey
    Actors = {human}
    NonceTTL = 1
    ExecutionWindow = 1
    MaxOps = 2
    MaxTime = 1
    MaxEvents = 4
SYMMETRY Symmetry
INVARIANTS
    TypeOK
    SingleActive
    StartedOncePerKey
    StartedWasConfirmed
    AuditTrail
PROPERTIES
    ReceiptsAreFinal
    ImplementsPlanAttempts
