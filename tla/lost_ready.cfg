\* PULL: one crash may fall between the requeue and its work-list entry.
SPECIFICATION FairSpec
CONSTANTS
    Pattern = "PULL"
    Messages = {m1}
    Passes = {p1}
    Handlers = {}
    Cancels = {}
    NoMsg = NoMsg
    NoPass = NoPass
    MaxRetries = 1
    MaxInFlight = 1
    MaxSends = 2
    MaxFaults = 1
    MayExpire = FALSE
PROPERTIES
    EventuallyResolved
\* The system is at rest once every message is resolved.
CHECK_DEADLOCK FALSE
