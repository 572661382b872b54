SPECIFICATION RecoverySpec
CONSTANTS
    Txn = {t1, t2, t3}
    k1 = k1
    k2 = k2
    v = v
    Key <- OneKey
    Val <- MCVal
    Ops <- PutOps
    First = 2
    MaxSeq = 4
    MaxCrashes = 1
    MaxCrashedAgain = 4
    MaxCheckpointed = 4
SYMMETRY TxnSymmetry
INVARIANTS
    PutSurvives
CHECK_DEADLOCK FALSE
