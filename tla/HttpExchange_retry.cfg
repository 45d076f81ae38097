CONSTANTS
    c1 = c1
    c2 = c2
    Calls = {c1, c2}
    MaxAttempts = 2
    Budget = 4
    AttemptTime = 2
    Waits = {0, 2}
    MaxEpochs = 2
SPECIFICATION FairSpec
CHECK_DEADLOCK FALSE
INVARIANT LeasesReturn
PROPERTY NoStaleSuccess
PROPERTY SparesNewerSession
PROPERTY CallEnds
