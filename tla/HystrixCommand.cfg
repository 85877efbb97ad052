\* Two commands of one circuit, one called by Do with a fallback, one by GoC with
\* a context that may end.
SPECIFICATION Spec
CHECK_DEADLOCK FALSE
CONSTANTS
    Commands = {c1, c2}
    Fallbacks = {c1}
    Sync = {c1}
    Contexts = {c2}
    MaxConcurrentRequests = 1
    VolumeThreshold = 1
    ErrorPercentThreshold = 50
    SleepWindow = 0
    Window = 1
    UpdatesCap = 1
    MaxTime = 1
    MaxToggles = 1
INVARIANTS
    TypeOK
    TicketsConserved
    TicketBeforeAnswer
    OneVerdict
    OneTestPerWindow
    EndsWell
