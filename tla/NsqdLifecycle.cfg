\* One caller may delete. The name may begin with a topic and a channel from the
\* metadata file, so that two requests delete either and create it again.
SPECIFICATION Spec
CHECK_DEADLOCK FALSE
CONSTANTS
    Callers = {p, q}
    Deleters = {p}
    MaxTopics = 2
    MaxChannels = 2
    MaxRequests = 2
    MaxFaults = 1
INVARIANTS
    TypeOK
    LiveIsMapped
    FileCovers
    RegisteredAtRest
    ExitGoesOn
