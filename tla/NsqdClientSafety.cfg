\* One consumer, RDY 0 or 1, two messages, one fault, one Empty.
SPECIFICATION Spec
CONSTANTS
    MaxRdyCount = 1
    MaxMsgs = 2
    MaxEmpty = 1
    MaxFaults = 1
    Pausers = {p1}
    Sampled = TRUE
INVARIANTS
    TypeOK
    NoLostWakeup
    AtMostOneLate
    RdyRespected
