SPECIFICATION Spec
CONSTANTS
    object = object
    edge = edge
    Key <- MCKey
    ObjectKey <- MCObjectKey
    Txn = {t1, t2}
    ContextSize = 0
    DurableEvery = 1
    MaxWrites = 1
    MaxCommits = 3
    MaxSchemas = 2
    MaxLost = 1
    MaxCrashes = 1
INVARIANTS AccurateUnlessRaced CachesMatchSnapshot PlansCurrentUnlessStraddled FlushedUnlessLost
CHECK_DEADLOCK FALSE
SYMMETRY Interchangeable
