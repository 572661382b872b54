SPECIFICATION LiveSpec
CONSTANTS
    Txn = {t1, t2, t3, t4}
    NoTxn = NoTxn
INVARIANTS
    SchemaExcludesOthers
    CountersExact
    NoStrandedRequest
PROPERTIES
    NoOvertaking
    RequestServed
