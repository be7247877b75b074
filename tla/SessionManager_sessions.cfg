SPECIFICATION ManagerSpec
CONSTANTS
    Handler = {q1, q2}
    Deleter = {d1}
    Cleaner = cleaner
    Object = {o1, o2}
    File = {f1}
    Nil = Nil
    MaxFaults = 1
SYMMETRY Symmetry
INVARIANTS CachedIsUsable NoStrayObject StoppedRunOver RowOutlivesFiles
CHECK_DEADLOCK FALSE
