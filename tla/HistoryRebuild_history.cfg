SPECIFICATION Spec
CONSTANTS
    MaxBatch = 2
    RecentWindow = 2
    MaxContents = 7
    MaxCompactions = 1
    MaxHydrations = 1
INVARIANTS RequestAccepted OpeningTaskSurvives RebuildIsExact LossIsTold
CHECK_DEADLOCK FALSE
