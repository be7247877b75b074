SPECIFICATION JobsFairSpec
CONSTANTS
    Job = {j1, j2, j3}
    Tool = {sql}
    Unset = Unset
    MaxRetained = 1
    MaxRuns = 1
INVARIANTS OneExecution AnnouncedAtMostOnce
PROPERTIES JobSettles
CHECK_DEADLOCK FALSE
