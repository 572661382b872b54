SPECIFICATION LiveSpec
CONSTANTS
    Endpoints <- Both
    Prefetch = 2
    MaxRequests = 3
    Messages <- LongFirst
INVARIANTS
    WorkersExpected
    CommitHonoured
    QueueServed
    ReleasedOnce
PROPERTIES
    Ends
CHECK_DEADLOCK FALSE
