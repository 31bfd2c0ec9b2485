SPECIFICATION Spec
CONSTANTS
    s1 = s1
    s2 = s2
    c1 = c1
    c2 = c2
    c3 = c3
    Slots <- MCSlots
    Chats <- MCChats
    MaxPins = 1
    Cap <- MCCap
    LastDay = 1
    MostAdded = 2
    MostUsed = 3
SYMMETRY MCSymmetry
INVARIANTS
    ScopeBounds
    GatedUnlessListed
    OkIsLogged
    ErrorMeansUndone
    QuotaHolds
    PinBound
