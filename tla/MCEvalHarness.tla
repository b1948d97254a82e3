--------------------------- MODULE MCEvalHarness ---------------------------
EXTENDS EvalHarness, TLC
CONSTANTS p1, p2, j1, j2, pass, fail
Symmetry == Permutations({p1, p2}) \cup Permutations({j1, j2}) \cup Permutations({pass, fail})
=============================================================================
