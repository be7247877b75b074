SPECIFICATION Spec
CONSTANTS
    Request = {q1, q2}
    None = None
    MaxFaults = 2
    MaxRestarts = 1
    MaxRecoveries = 1
    MaxIterations = 1
SYMMETRY Symmetry
INVARIANTS SingleExecution DurableBeforeExecution
PROPERTIES OnlyOwnerReleases ImplementsRunSlot
CHECK_DEADLOCK FALSE
