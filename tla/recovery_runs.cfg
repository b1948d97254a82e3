SPECIFICATION RecoverySpec
CONSTANTS
    p1 = p1
    Procs = {p1}
    NoProc = NoProc
    Kinds = {"content", "launch", "stop"}
    MaxOps = 1
    MaxSetbacks = 2
PROPERTIES
    EveryOperationEnds
    ClientComesBack
