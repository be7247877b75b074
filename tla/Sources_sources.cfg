SPECIFICATION Spec
CONSTANTS
  Procs = {p1, p2}
  MaxOps = 3
  MaxFaults = 2
  Ops = {"upload", "import", "bind", "remove", "delete", "create", "update", "test", "confirm", "list", "query", "report"}
SYMMETRY Symmetry
INVARIANTS BoundIsUsable TableHasRow ReceiptOnce BoundReportDownloadable
CHECK_DEADLOCK FALSE
