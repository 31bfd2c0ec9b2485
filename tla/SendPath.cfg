SPECIFICATION Spec
CONSTANTS
    old = old
    new = new
    group = group
    Callers = {c1, c2}
    JIDs = {old, new, group}
    Allowed = {old, new, group}
    Users = {old, new}
    Answers <- MCAnswers
    NoJID = NoJID
    Keys = {k}
    NoKey = NoKey
    SecondBurst = 2
    SecondRefill = 1
    MinuteBurst = 2
    MinuteRefill = 0
    TTL = 1
    MaxTime = 1
    MaxCalls = 3
    MaxTroubles = 1
INVARIANTS
    SentWasCleared
    RateHolds
    RetrySendsOnce
    SentIsAudited
SYMMETRY MCSymmetry
