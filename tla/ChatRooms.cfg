SPECIFICATION Spec
CONSTANTS
    Members = {a, b, e}
    RoomIds = {1, 2, 3}
    Procs = {p, q}
    CacheMax = 1
    NoMember = NoMember
    NoRoomId = NoRoomId
SYMMETRY Symmetry
CONSTRAINT Focus
INVARIANTS
    DirectRoomsKeepTheirPair
    OneDirectRoomPerPair
    CreateDirectAnswersStoredRoom
    EventsReachOnlyMembers
    TypingEntryStaleOnlyIfLate
PROPERTIES
    CreatorStaysUntilHeLeaves
