SPECIFICATION Spec
CONSTANTS
    Ids = {x1, x2, x3}
    luna = luna
    ollama = ollama
    Names = {luna, ollama}
    Defaults <- TwoDefaults
    Keys = {k}
    Instances = {i}
    Procs = {p, q}
    NoId = NoId
    NoName = NoName
    NoKey = NoKey
    NoInstance = NoInstance
SYMMETRY Symmetry
INVARIANTS
    AtMostOneActive
    CacheStaleOnlyIfLate
PROPERTIES
    UpdatesKeepActivation
    SeedsOnlyMissing
