\* PUSH: a deadline or nack enters retry while an ack purges.
SPECIFICATION Spec
CONSTANTS
    Pattern = "PUSH"
    Messages = {m1}
    Passes = {p1}
    Handlers = {h1}
    Cancels = {}
    NoMsg = NoMsg
    NoPass = NoPass
    MaxRetries = 1
    MaxInFlight = 0
    MaxSends = 2
    MaxFaults = 0
    MayExpire = FALSE
SYMMETRY Symmetry
PROPERTIES
    GoneStaysGone
\* The system is at rest once every message is resolved.
CHECK_DEADLOCK FALSE
