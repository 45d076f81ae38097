CONSTANTS
    Reconnects = TRUE
    Protected = TRUE
    MaxRetries = 1
    MaxSessions = 3
    MaxCloses = 2
    MaxStable = 1
    MaxFrames = 1
SPECIFICATION FairSpec
CHECK_DEADLOCK FALSE
INVARIANT TypeOK
INVARIANT OneLiveSession
INVARIANT StatusIsTrue
INVARIANT NothingLeaks
INVARIANT NoStrayInvalidation
PROPERTY OpensOrCloses
PROPERTY EveryEndIsComplete
