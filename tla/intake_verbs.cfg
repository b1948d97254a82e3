SPECIFICATION IntakeSpec
CONSTANTS
    p1 = p1
    p2 = p2
    lib1 = lib1
    lib2 = lib2
    plan = plan
    direct = direct
    Procs = {p1, p2}
    NoProc = NoProc
    Libraries = {lib1, lib2}
    Plans = {plan}
    DirectIds = {direct}
    MaxOps = 2
SYMMETRY Symmetry
INVARIANTS
    NamedRunsWhereTakenIn
    RequestIdsBound
PROPERTIES
    ConfigHeldWhileActive
