CONSTANTS
    Agent = {a1}
    Path = {p, q}
    small = small
    large = large
    Content = {small, large}
    NoHash = NoHash
    Torn = Torn
    Size <- SmallAndLarge
    MaxActiveUploads = 2
    MaxActiveSize = 3
    MaxIds = 2
    Exits = 0
    Foreign = 1
SPECIFICATION Spec
INVARIANTS TypeOK LocksAreExact LimitsHold ContentIsWhole OnlyForeignRaces
CHECK_DEADLOCK FALSE
