CONSTANTS
    QueueBound = 2
    MaxCalls = 3
    MaxChecks = 1
    MaxOutages = 1
    MaxBad = 1
    MaxEnds = 1
    MaxReconnects = 1
SPECIFICATION FairSpec
CHECK_DEADLOCK FALSE
PROPERTY QueueDrains
PROPERTY EndsWithTheServer
