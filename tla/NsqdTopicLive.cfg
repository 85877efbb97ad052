\* An ephemeral topic, one message, one caller.
SPECIFICATION FairSpec
CHECK_DEADLOCK FALSE
CONSTANTS
    Msgs = {m1}
    Deferred = {m1}
    Names = {n1}
    MaxGen = 2
    Publishers = {p1}
    Callers = {k1}
    MemQueueSize = 1
    DiskFaults = TRUE
    Ephemeral = TRUE
    NoMsg = NoMsg
    NoChan = NoChan
PROPERTIES
    CallersReturn
    QueueMoves
    ExitCompletes
