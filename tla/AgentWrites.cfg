CONSTANTS
    Agent = {a1, a2}
    Path = {p, q}
    small = small
    large = large
    Content = {small}
    NoHash = NoHash
    Torn = Torn
    Size <- SmallAndLarge
    MaxActiveUploads = 1
    MaxActiveSize = 2
    MaxIds = 3
    Exits = 1
    Foreign = 0
SPECIFICATION AgentSpec
INVARIANT TempsAreOwned
PROPERTY CasIsAtomic
CHECK_DEADLOCK FALSE
