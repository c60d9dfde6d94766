\* PULL liveness: two messages wait for one slot, one may be cancelled.
SPECIFICATION FairSpec
CONSTANTS
    Pattern = "PULL"
    Messages = {m1, m2}
    Passes = {p1}
    Handlers = {}
    Cancels = {c1}
    NoMsg = NoMsg
    NoPass = NoPass
    MaxRetries = 0
    MaxInFlight = 1
    MaxSends = 1
    MaxFaults = 0
    MayExpire = FALSE
PROPERTIES
    EventuallyResolved
\* The system is at rest once every message is resolved.
CHECK_DEADLOCK FALSE
