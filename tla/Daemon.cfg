SPECIFICATION Spec
CONSTANTS
    m1 = m1
    m2 = m2
    r1 = r1
    r2 = r2
    Msgs <- MCMsgs
    NoMsg = NoMsg
    EventCap = 1
    MaxBlobs = 1
    MaxMishaps = 1
    Repairers <- MCRepairers
    MaxVersion = 2
    MaxRepairs = 3
    ThresholdSec = 3
    TickCap = 60
    ShiftMax = 3
    Cooldown = 4
    CapRequests <- MCCapRequests
    CapDefault = 8
    CapMax = 14
    MaxHelpers = 1
    KeptBackups = 5
    MaxOpens = 3
INVARIANTS
    NoUseAfterClose
    ReportedIsStored
    StampsStay
    UpgradeIsSafe
    RepairsAreAlone
    HealsInTime
PROPERTIES
    Exits
CHECK_DEADLOCK FALSE
