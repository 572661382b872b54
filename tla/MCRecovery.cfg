SPECIFICATION RecoverySpec
CONSTANTS
    Txn = {t1, t2, t3}
    k1 = k1
    k2 = k2
    v = v
    Key <- TwoKeys
    Val <- MCVal
    Ops <- MoveOrRequire
    First = 1
    MaxSeq = 3
    MaxCrashes = 2
    MaxCrashedAgain = 2
    MaxCheckpointed = 1
SYMMETRY TxnSymmetry
INVARIANTS
    WholeCommits
    PromisesKept
    NoOrphanSlot
\* a database that cannot be loaded stays down
CHECK_DEADLOCK FALSE
