CONSTANTS
    p = p
    Path = {p}
    Requests <- SearchRequests
    InteractiveCapacity = 1
    BackgroundCapacity = 1
    MaxRequests = 2
    MaxCancels = 1
    MaxInstalls = 2
SPECIFICATION FairSpec
INVARIANT InstallIsAlone
PROPERTIES RequestsAnswered SessionEnds
CHECK_DEADLOCK FALSE
