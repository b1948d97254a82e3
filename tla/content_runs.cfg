SPECIFICATION ContentSpec
CONSTANTS
    p1 = p1
    p2 = p2
    Procs = {p1, p2}
    NoProc = NoProc
    Kinds = {"content"}
    MaxOps = 2
SYMMETRY Symmetry
INVARIANTS
    SingleWriter
    WriterHasRow
    StoppedClientHasRow
    VerdictMatchesLibrary
    JournalCoversSwap
