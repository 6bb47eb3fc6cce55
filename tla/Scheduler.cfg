CONSTANTS
    p = p
    Path = {p}
    Requests <- WriteRequests
    InteractiveCapacity = 1
    BackgroundCapacity = 1
    MaxRequests = 3
    MaxCancels = 1
    MaxInstalls = 1
SPECIFICATION Spec
INVARIANTS TypeOK HazardsBalance LengthsExact ReadsFollowWrites InteractiveFirst AnsweredOnce CancelHitsItsTarget
CHECK_DEADLOCK FALSE
