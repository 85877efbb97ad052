\* One message that always spills to disk, one failing write, one Empty.
SPECIFICATION Spec
SYMMETRY Symmetry
CHECK_DEADLOCK FALSE
CONSTANTS
    Msgs = {m1}
    Clients = {c1, c2}
    NoClient = NoClient
    MemQueueSize = 0
    MaxAttempts = 2
    MaxEmpty = 1
    MaxFaults = 1
    Ephemeral = FALSE
    Sampling = {c1, c2}
    MaxChannelConsumers = 0
INVARIANTS
    TypeOK
    UniquePlace
    Accounted
    FinishedIsFinal
PROPERTY
    ImplementsContract
