SPECIFICATION Spec
CONSTANTS
    p1 = p1
    p2 = p2
    v = v
    t1 = t1
    Admins = {d1, d2}
    SettingsChoices <- MCSettings
    Handlers = {h1, h2}
    ProjectNames = {p1, p2}
    ClientIds = {v, w, z}
    Texts = {t1, t2}
    Members = {m1, m2}
    SessionIds = {i1}
    Putters = {q1, q2}
    MaxIds = 6
    Plans <- MCPlans
SYMMETRY Symmetry
INVARIANTS
    SettingsTrueUnlessCrossed
    RowsWholeUnlessMixed
    CapOvershootBounded
    SessionsAreTheirOwners
CHECK_DEADLOCK FALSE
