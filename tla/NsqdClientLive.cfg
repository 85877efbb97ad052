\* RDY 0 or 1, two messages, one caller that pauses; fairness as in FairSpec.
SPECIFICATION FairSpec
CONSTANTS
    MaxRdyCount = 1
    MaxMsgs = 2
    MaxEmpty = 0
    MaxFaults = 0
    Pausers = {p1}
    Sampled = FALSE
PROPERTIES
    ReadyConsumerServed
    BufferFlushed
