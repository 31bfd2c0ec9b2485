SPECIFICATION FairSpec
CONSTANTS
    a = a
    b = b
    NoId = NoId
    NoSlot = NoSlot
    Ids = {a, b}
    Slots = {s1, s2}
    Callers = {c1, c2}
    Kind <- MCKind
    Ops = {"send", "cancel"}
    RestEnabled = FALSE
    Crashes = TRUE
    MaxTime = 1
    MaxLives = 2
    MaxErrors = 0
INVARIANTS
    AtMostOncePerLife
    CancelIsDurable
    NoStrandedRow
PROPERTIES
    NeverEarly
    PendingSettles
