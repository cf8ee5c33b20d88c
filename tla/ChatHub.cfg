SPECIFICATION Spec
CONSTANTS
    i1 = i1
    i2 = i2
    m1 = m1
    m2 = m2
    c1 = c1
    c2 = c2
    Instances = {i1, i2}
    Members = {m1, m2}
    Conns = {c1, c2}
    Places <- MCPlaces
    MaxFrames <- MCMaxFrames
    Leavers <- MCLeavers
    Cap = 1
    InFlight = 2
    Modes = {"memory", "redis"}
INVARIANTS
    NeverSendsOnClosed
    OnceInOneOrder
    PresenceTrueUnlessCrossed
PROPERTIES
    DeadConnectionsEnd
CHECK_DEADLOCK FALSE
