CONSTANTS
    Capacity = 3
    Overflows = {"drop-oldest"}
    Sinks = 2
    Seed = 1
    MaxEvents = 3
    MaxDrops = 0
    MaxFaults = 0
    MaxCloses = 1
SPECIFICATION Spec
CHECK_DEADLOCK FALSE
INVARIANT SinksSeeLogOrder
