SPECIFICATION FairSpec
CONSTANTS
    Request = {q1, q2}
    None = None
    MaxFaults = 0
    MaxRestarts = 0
    MaxRecoveries = 1
    MaxIterations = 1

PROPERTIES RunSettles
CHECK_DEADLOCK FALSE
