SPECIFICATION Spec
CONSTANTS
    Txn = {t1, t2, t3}
    k = k
    v = v
    Key <- MCKey
    Val <- MCVal
    Ops <- MixedOps
    First = 1
    MaxSeq = 3
    WindowSize = 1
    Durable = TRUE
    OpenAtSeqs <- NoSeqs
    Faults = FALSE
SYMMETRY TxnSymmetry
INVARIANTS
    PutLeavesKey
PROPERTIES
    SnapshotStable
    ImplementsProtocol
