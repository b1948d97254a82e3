SPECIFICATION BrokerSpec
CONSTANTS
    p1 = p1
    p2 = p2
    Procs = {p1, p2}
    NoProc = NoProc
    Kinds = {"content"}
    MaxOps = 1
INVARIANTS
    StoppedClientHasRow
