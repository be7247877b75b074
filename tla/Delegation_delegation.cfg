SPECIFICATION Spec
CONSTANTS
    Keys = {k1, k2}
    MaxRetained = 1
    MaxIterations = 2
    MaxBatch = 2
    RecentWindow = 2
    MaxGoals = 2
    MaxEntries = 1
    MaxDelegations = 2
    MaxFaults = 1
    MaxStops = 1
SYMMETRY Symmetry
INVARIANTS RowMatchesReport ChildConversationPaired FinalizeGate RestoreAccepted
CHECK_DEADLOCK FALSE
