SPECIFICATION Spec
CONSTANTS
    Callers = {c1, c2}
    MaxRows = 4
    MaxSecond = 1
    MaxLogFaults = 1
    MaxLogLives = 2
    h1 = h1
    h2 = h2
    a = a
    b = b
    Handlers <- MCHandlers
    Jids <- MCJids
    Actions = {send}
    None = None
    Broken = Broken
    Inodes = {i1, i2, i3, i4, i5}
    MaxCalls = 2
    MaxTrouble = 1
    MaxAllowLives = 1
    Ids = {d1, d2}
    Clients = {k1, k2}
    ExpiryWindow = 1
    MaxClock = 3
SYMMETRY MCSymmetry
INVARIANTS
    VerifyTells
    AckedIsKept
    Agrees
PROPERTIES
    ImplementsReview
CHECK_DEADLOCK FALSE
