\* Two messages, the second may spill to disk; a channel created, deleted and
\* created again by one caller; disk writes may fail.
SPECIFICATION Spec
SYMMETRY Symmetry
CHECK_DEADLOCK FALSE
CONSTANTS
    Msgs = {m1, m2}
    Deferred = {}
    Names = {n1}
    MaxGen = 2
    Publishers = {p1}
    Callers = {k1}
    MemQueueSize = 1
    DiskFaults = TRUE
    Ephemeral = FALSE
    NoMsg = NoMsg
    NoChan = NoChan
INVARIANTS
    TypeOK
    NotTwice
    OwedReached
    PauseHolds
    CleanClose
