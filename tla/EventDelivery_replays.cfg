CONSTANTS
    Capacity = 1
    Overflows = {"drop-oldest", "reject"}
    Sinks = 2
    Seed = 0
    MaxEvents = 3
    MaxDrops = 1
    MaxFaults = 1
    MaxCloses = 1
SPECIFICATION FairSpec
CHECK_DEADLOCK FALSE
INVARIANT TypeOK
INVARIANT CursorSkipsNothing
INVARIANT AppliedOncePerGeneration
INVARIANT ReplaysKeepLogOrder
PROPERTY EverythingSettles
