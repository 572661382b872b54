SPECIFICATION LiveSpec
CONSTANTS
    Txn = {t1, t2, t3}
    k = k
    v = v
    Key <- MCKey
    Val <- MCVal
    Ops <- PutOnly
    First = 1
    MaxSeq = 3
    WindowSize = 1
    Durable = TRUE
    OpenAtSeqs <- NoSeqs
    Faults = FALSE
PROPERTIES
    CommitReturnsUnlessPanicked
    OpenReturnsUnlessPanicked
\* a thread that waits for ever is what the properties exclude
CHECK_DEADLOCK FALSE
