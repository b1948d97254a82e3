SPECIFICATION BrokerSpec
CONSTANTS
    p1 = p1
    p2 = p2
    Procs = {p1, p2}
    NoProc = NoProc
    Kinds = {"content", "launch", "stop"}
    MaxOps = 1
SYMMETRY Symmetry
INVARIANTS
    NeverReplayed
    IntentDurable
    AdvancedRowsKept
