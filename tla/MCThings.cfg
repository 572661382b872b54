SPECIFICATION Spec
CONSTANTS
    e1 = e1  e2 = e2  r1 = r1  r2 = r2  a1 = a1  a2 = a2  a3 = a3  roleA = roleA  roleB = roleB
    Entity <- MCEntity
    Relation <- MCRelation
    Attribute <- MCAttribute
    Role <- MCRole
    Owner <- MCObject
    Player <- MCObject
    OwnsCard <- OneOrTwo
    PlaysCard <- ZeroOrOne
    RelatesCard <- MCRelatesCard
    UniqueOwner <- MCEntity
    Independent = FALSE
    Start <- MCStart
    Txn = {t1, t2}
    MaxOps = 4
    MaxCommits = 2
INVARIANTS NoDanglingEdges CardinalityUnlessCleaned UniqueUnlessRaced IndexUnlessRaced OwnedUnlessRaced
CONSTRAINT OneAtATime
SYMMETRY Interchangeable
CHECK_DEADLOCK FALSE
