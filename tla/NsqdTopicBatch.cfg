\* A batch of two messages against Close or Delete; the disk works.
SPECIFICATION Spec
CHECK_DEADLOCK FALSE
CONSTANTS
    Msgs = {m1, m2}
    Deferred = {}
    Names = {n1}
    MaxGen = 2
    Publishers = {p1}
    Callers = {}
    MemQueueSize = 1
    DiskFaults = FALSE
    Ephemeral = FALSE
    NoMsg = NoMsg
    NoChan = NoChan
PROPERTY FailedQueuesNothing
