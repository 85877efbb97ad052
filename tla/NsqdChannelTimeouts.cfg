\* One message that stays in memory, two consumers, redelivery.
SPECIFICATION FairSpec
CHECK_DEADLOCK FALSE
CONSTANTS
    Msgs = {m1}
    Clients = {c1, c2}
    NoClient = NoClient
    MemQueueSize = 1
    MaxAttempts = 2
    MaxEmpty = 0
    MaxFaults = 0
    Ephemeral = FALSE
    Sampling = {}
    MaxChannelConsumers = 2
INVARIANTS
    InFlightCovered
    DeferredCovered
    CountExact
PROPERTIES
    OrphanRequeued
    DeferredRequeued
