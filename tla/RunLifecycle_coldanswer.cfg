SPECIFICATION Spec
CONSTANTS
    Request = {q1, q2}
    None = None
    MaxFaults = 0
    MaxRestarts = 1
    MaxRecoveries = 0
    MaxIterations = 1
SYMMETRY Symmetry
INVARIANTS ColdAnswerRestored
CHECK_DEADLOCK FALSE
