CONSTANTS
    v1 = v1
    v2 = v2
    Values <- MCValues
    Initial = v1
    Empty = Empty
    Nothing = Nothing
    Faults = FALSE
    MaxWrites = 2
    MaxLifetimes = 2
    MaxExternal = 1
SPECIFICATION FairSpec
CHECK_DEADLOCK FALSE
INVARIANT QuietMirrorAgrees
PROPERTY Converges
