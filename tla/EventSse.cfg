SPECIFICATION FairSpec
CONSTANTS
    msg = msg
    other = other
    NoKind = NoKind
    Emitters = {run}
    Kinds = {msg}
    Subs = {}
    Filter <- MessagesOnly
    Tails = {t1}
    OutCap = 1
    PumpCap = 1
    RingCap = 2
    MailCap = 1
    Batch = 1
    Crashes = TRUE
    Failing = {"oldest", "stats"}
    MaxSeq = 3
    MaxResumes = 2
    MaxErrors = 1
    MaxLives = 2
INVARIANTS
    SseNoSilentLoss
    NumbersAboveRing
PROPERTIES
    RingReachesTail
CHECK_DEADLOCK FALSE
