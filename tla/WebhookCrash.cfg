SPECIFICATION FairSpec
CONSTANTS
    x = x
    y = y
    msg = msg
    other = other
    NoId = NoId
    Endpoints = {x}
    Ids = {d1, d2}
    Types = {msg}
    Topics <- MCTopics
    Backoff <- TwoAttempts
    Crashes = TRUE
    DeadStreak = 2
    Limit = 1
    BufSize = 1
    MaxLate = 0
    MaxReplays = 0
    MaxLives = 2
    MaxErrors = 1
INVARIANTS
    DeliveredWasAccepted
PROPERTIES
    PendingDrains
