CONSTANTS
    QueueBound = 2
    MaxCalls = 3
    MaxChecks = 2
    MaxOutages = 1
    MaxBad = 0
    MaxEnds = 1
    MaxReconnects = 0
SPECIFICATION Spec
CHECK_DEADLOCK FALSE
INVARIANT SignedOutStaysOut
INVARIANT QuietAgreement
INVARIANT LeasesFollowSession
INVARIANT ConfirmedMeansGone
PROPERTY LastLoginLands
