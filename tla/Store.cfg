SPECIFICATION Spec
CONSTANTS
    Null = Null
    JobMaxAttempts = 2
    Tables0 <- MCTables0
    Inputs <- MCInputs
    Values = {0, 2}
    Conflicts <- MCConflicts
    Filters <- MCFilters
    MaxCalls = 2
    MaxSaves = 2
INVARIANTS
    StoreInv
PROPERTIES
    SaveDoesWhatItSays
    ImmutablesStay
