SPECIFICATION FairSpec
CONSTANTS
    Observing = {"data_query"}
    Safe = {"mcp_search"}
    Replayable = {"mcp_upsert"}
    Acting = {"report_edit"}
    Gated = {"profile_confirm"}
    Asking = {"user_request_input"}
    Delivering = {"report_finalize"}
    Auths = {"a1"}
    NoAuth = "none"
    Fragile = {"report_edit"}
    MaxBatch = 2
    MaxRuns = 2
    MaxReceipts = 1
    MaxIterations = 2
    MaxParallel = 1
    Threshold = 1
    MaxAttempts = 2
    MaxMarkupRejects = 1
INVARIANTS RequestIsPaired ExclusiveIsAlone ActionsNeverReplayed ApprovalWorthOneCommit
PROPERTIES ActionsNeverAbandoned RunEnds
CHECK_DEADLOCK FALSE
