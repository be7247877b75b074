CONSTANTS
    BlockIds = {"b1", "b2"}
    ChartIds = {"c1", "c2"}
    ResultIds = {"r1"}
    Drafts <- MCDrafts
    ChartDrafts <- MCChartDrafts
    Layouts = {"styled"}
    Contexts <- MCContexts
    Starts <- MCStarts
    MaxRuns = 2
    MaxEdits = 2
    MaxFaults = 2
SPECIFICATION Spec
INVARIANTS ScopeHolds FinalizedIsSound FinalizedIsDelivered
CHECK_DEADLOCK FALSE
