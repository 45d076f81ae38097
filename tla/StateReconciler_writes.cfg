CONSTANTS
    v1 = v1
    v2 = v2
    Values <- MCValues
    Initial = v1
    Empty = Empty
    Nothing = Nothing
    Faults = TRUE
    MaxWrites = 3
    MaxLifetimes = 2
    MaxExternal = 0
SPECIFICATION Spec
CHECK_DEADLOCK FALSE
INVARIANT PendingWriteIsShown
INVARIANT BackendEndsOnLatest
