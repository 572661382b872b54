SPECIFICATION Spec
CONSTANTS
    c1 = c1
    c2 = c2
    c3 = c3
    a = a
    b = b
    Client = {c1, c2, c3}
    Nobody = Nobody
    Name = {a, b}
    MaxFaults = 2
    MaxCrashes = 2
INVARIANTS
    OutcomesLast
    HandlesLive
    ReleasedUnlessRaced
SYMMETRY ClientSymmetry
CHECK_DEADLOCK FALSE
