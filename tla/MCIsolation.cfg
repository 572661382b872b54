SPECIFICATION Spec
CONSTANTS
    Txn = {t1, t2, t3}
    k = k
    v = v
    Key <- MCKey
    Val <- MCVal
    Ops <- LockOps
    First = 2
    MaxSeq = 4
    WindowSize = 1
    Durable = TRUE
    OpenAtSeqs <- OldSeqs
    Faults = TRUE
SYMMETRY TxnSymmetry
INVARIANTS
    WatermarkSettled
    NoStrandedSlot
    ReadersExact
    ConflictFree
    KeyspacesFollowDecisions
    ExternallyConsistent
\* after an error a slot may never be settled, and opens wait for it
CHECK_DEADLOCK FALSE
