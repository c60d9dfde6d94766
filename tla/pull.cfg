\* PULL: two messages share one slot; one crash or expiry may come at any point.
SPECIFICATION Spec
CONSTANTS
    Pattern = "PULL"
    Messages = {m1, m2}
    Passes = {p1, p2}
    Handlers = {}
    Cancels = {}
    NoMsg = NoMsg
    NoPass = NoPass
    MaxRetries = 1
    MaxInFlight = 1
    MaxSends = 3
    MaxFaults = 1
    MayExpire = TRUE
SYMMETRY Symmetry
INVARIANTS
    TypeOK
    StageIsDerivable
    DurableNotify
    HeldSendKeepsStage
    RetryBudget
    CapRespected
    SlotsReturned
PROPERTIES
    GoneStaysGone
\* The system is at rest once every message is resolved.
CHECK_DEADLOCK FALSE
