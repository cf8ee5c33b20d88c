SPECIFICATION Spec
CONSTANTS
    Accounts = {a, b}
    Msgs = {m1, m2}
    Texts = {t, u}
    Procs = {p, q}
    MaxTime = 2
    PageSize = 1
    NoText = NoText
    Untold = Untold
    Unsure = Unsure
    NoMsg = NoMsg
    NoAccount = NoAccount
SYMMETRY Symmetry
CONSTRAINTS PagingWithSenders OneReader
INVARIANTS
    TypeOK
    LastEventTrue
    PagesMissOnlyTies
PROPERTIES
    ReadPositionsForward
    MailboxSpec
