SPECIFICATION Spec
CONSTANTS
    msg = msg
    other = other
    NoKind = NoKind
    Emitters = {run}
    Kinds = {msg, other}
    Subs = {s1}
    Filter <- MessagesOnly
    Tails = {}
    OutCap = 1
    PumpCap = 2
    RingCap = 1
    MailCap = 2
    Batch = 1
    Crashes = TRUE
    Failing = {"append", "oldest", "range"}
    MaxSeq = 3
    MaxResumes = 2
    MaxErrors = 1
    MaxLives = 2
INVARIANTS
    NoSilentLoss
CHECK_DEADLOCK FALSE
