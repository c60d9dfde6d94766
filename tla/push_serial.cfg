\* PUSH, fair: two vendor events, two passes and a cancel, not overlapping inside their round trips.
SPECIFICATION SerialFairSpec
CONSTANTS
    Pattern = "PUSH"
    Messages = {m1}
    Passes = {p1, p2}
    Handlers = {h1, h2}
    Cancels = {c1}
    NoMsg = NoMsg
    NoPass = NoPass
    MaxRetries = 2
    MaxInFlight = 0
    MaxSends = 4
    MaxFaults = 0
    MayExpire = FALSE
INVARIANTS
    OneVerdict
    ReferencesCurrent
PROPERTIES
    EventuallyResolved
\* The system is at rest once every message is resolved.
CHECK_DEADLOCK FALSE
