CONSTANTS
    MaxRequests = 5
    MaxInterrupts = 1
    MaxExpired = 1
SPECIFICATION Spec
CHECK_DEADLOCK FALSE
INVARIANT CustodyIsKnown
INVARIANT RevokedIsOwed
PROPERTY NoTokensAfterLogout
PROPERTY ImplementsFamilies
