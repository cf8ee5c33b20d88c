SPECIFICATION Spec
CONSTANTS
    a = a
    b = b
    c1 = c1
    c2 = c2
    n1 = n1
    Accounts = {a, b}
    Owners = {a, b}
    Names = {n1}
    Keys = {k1, k2}
    Admins = {d1, d2}
    Clients = {c1, c2}
    Instances = {i1, i2}
    Retention = 1
    SweepDelay = 1
    MaxIds = 2
    MaxKids = 3
    MaxSecond = 1
    Plans <- MCPlans
INVARIANTS
    HeartbeatMissesOnlyRemoved
    SharedKeyUnlessCrossed
PROPERTIES
    RevokedFallSilent
CHECK_DEADLOCK FALSE
