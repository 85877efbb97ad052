\* Two requests to delete the same topic at once.
SPECIFICATION Spec
CHECK_DEADLOCK FALSE
CONSTANTS
    Callers = {p, q}
    Deleters = {p, q}
    MaxTopics = 2
    MaxChannels = 2
    MaxRequests = 4
    MaxFaults = 0
INVARIANT LiveIsMapped
