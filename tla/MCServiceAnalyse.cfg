SPECIFICATION Spec
CONSTANTS
    Endpoints <- Http
    Prefetch = 2
    MaxRequests = 3
    Messages <- LongFirst
INVARIANTS
    CommitKeepsWrites
CHECK_DEADLOCK FALSE
