SPECIFICATION MemberSpec
CONSTANTS
    MemberIds = {m1, m2, m3}
    Usernames = {seed, x, y}
    SeedName = seed
    Procs = {p, q}
    NoMemberId = NoMemberId
    NoName = NoName
SYMMETRY Symmetry
INVARIANTS
    MemberTypeOK
    UsernamesUnique
    AtMostOneSuperAdmin
PROPERTIES
    SuperAdminsUntouched
    OnlySuperAdminsRaise
    DeletedStayDeleted
