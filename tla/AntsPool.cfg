\* Three calls of Submit, a pool of one or two workers or without a limit, one Tune.
SPECIFICATION Spec
SYMMETRY Symmetry
CHECK_DEADLOCK FALSE
CONSTANTS
    Submitters = {s1, s2, s3}
    Workers = {w1, w2, w3}
    NoWorker = NoWorker
    Sizes = {0, 1, 2}
    Tunes = {0, 1, 2}
    MaxTunes = 1
    OptionSet <- MCOptions
INVARIANTS
    TypeOK
    OneOwner
    AcceptedRuns
    WaitersServed
    WorkersEnd
