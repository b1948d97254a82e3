SPECIFICATION AdoptionSpec
CONSTANTS
    MaxOps = 3
INVARIANTS
    SwapIsJournaled
    FailureIsFinal
    FailureRestores
    CompletionAdopts
