SPECIFICATION AdoptionSpec
CONSTANTS
    MaxOps = 2
INVARIANTS
    RetiredIsDurable
