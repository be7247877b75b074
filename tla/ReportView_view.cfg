SPECIFICATION FairSpec
CONSTANTS
    Block = {b1}
    Drainer = {d1, d2}
    None = None
    MaxEdits = 2
    MaxFinalize = 1
INVARIANTS CloseIsFinal
PROPERTIES ViewNeverGoesBack ViewCatchesUp
CHECK_DEADLOCK FALSE
