CONSTANTS
    h1 = h1
    h2 = h2
    Handles = {h1, h2}
    MaxEntries = 1
    MaxInFlight = 1
    MaxExchanges = 2
    MaxCalls = 2
    MaxLogouts = 1
    MaxFaults = 1
SPECIFICATION Spec
CHECK_DEADLOCK FALSE
INVARIANT CustodyFollowsProvider
INVARIANT DenialHasACause
INVARIANT LogoutIsFinal
INVARIANT FailedLoginHoldsNothing
INVARIANT SlotsAreHeld
