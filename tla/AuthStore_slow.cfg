CONSTANTS
    QueueBound = 2
    MaxCalls = 1
    MaxChecks = 2
    MaxOutages = 1
    MaxBad = 0
    MaxEnds = 0
    MaxReconnects = 1
SPECIFICATION Spec
CHECK_DEADLOCK FALSE
PROPERTY KeepsTheUser
