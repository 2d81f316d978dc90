SPECIFICATION Spec
CONSTANTS
    MaxKeyLength = 40
    MaxUnderscores = 3
    W = 5
INVARIANTS
    KeysAreCut
    PoolIsAsAsked
    MapsAreJoined
CHECK_DEADLOCK FALSE
