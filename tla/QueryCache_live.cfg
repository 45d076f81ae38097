CONSTANTS
    m1 = m1
    m2 = m2
    Mutations = {m1, m2}
    Evictors = {m1}
    Nobody = Nobody
    MaxRefetches = 2
    MaxChanges = 1
SPECIFICATION FairSpec
CHECK_DEADLOCK FALSE
INVARIANT FreshIsCurrent
INVARIANT GuessesAreResynced
PROPERTY RollbackIsOwn
PROPERTY RecoveryEnds
