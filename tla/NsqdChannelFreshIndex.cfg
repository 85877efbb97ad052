\* Two messages, one of which is read back from disk.
SPECIFICATION Spec
CHECK_DEADLOCK FALSE
CONSTRAINT NoRequeue
CONSTANTS
    Msgs = {m1, m2}
    Clients = {c1}
    NoClient = NoClient
    MemQueueSize = 1
    MaxAttempts = 2
    MaxEmpty = 0
    MaxFaults = 0
    Ephemeral = FALSE
    Sampling = {}
    MaxChannelConsumers = 0
INVARIANTS
    InFlightCovered
