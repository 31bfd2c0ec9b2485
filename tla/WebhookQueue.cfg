SPECIFICATION Spec
CONSTANTS
    x = x
    y = y
    msg = msg
    other = other
    NoId = NoId
    Endpoints = {x, y}
    Ids = {d1, d2}
    Types = {msg, other}
    Topics <- MCTopics
    Backoff <- TwoAttempts
    Crashes = FALSE
    DeadStreak = 2
    Limit = 2
    BufSize = 1
    MaxLate = 1
    MaxReplays = 1
    MaxLives = 1
    MaxErrors = 0
SYMMETRY Symmetry
INVARIANTS
    DeliveredOncePerReplay
    DeadAfterAllAttempts
PROPERTIES
    DisabledAfterStreak
