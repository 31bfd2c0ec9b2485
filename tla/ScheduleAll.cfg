SPECIFICATION Spec
CONSTANTS
    a = a
    b = b
    NoId = NoId
    NoSlot = NoSlot
    Ids = {a}
    Slots = {s1, s2}
    Callers = {c1, c2}
    Kind <- MCKind
    Ops = {"send", "cancel", "update"}
    RestEnabled = TRUE
    Crashes = TRUE
    MaxTime = 2
    MaxLives = 2
    MaxErrors = 1
SYMMETRY Symmetry
INVARIANTS
    ClosedStoreUntouched
