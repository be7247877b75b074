SPECIFICATION FairSpec
CONSTANTS
    Producer = {p1, p2}
    Client = {c1}
    MaxEvents = 3
    QueueSize = 1
    BufferSize = 1
    WindowHead = 1
    WindowTail = 1
    MaxConnects = 2
    MaxFaults = 1
INVARIANTS DeliveredIsPersisted NoStrandedJob ConnectionComplete
PROPERTIES Answered
CHECK_DEADLOCK FALSE
