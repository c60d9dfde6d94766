\* PUSH: two vendor events, the runner, a send and a cancel interleave freely.
SPECIFICATION Spec
CONSTANTS
    Pattern = "PUSH"
    Messages = {m1}
    Passes = {p1}
    Handlers = {h1, h2}
    Cancels = {c1}
    NoMsg = NoMsg
    NoPass = NoPass
    MaxRetries = 1
    MaxInFlight = 0
    MaxSends = 3
    MaxFaults = 0
    MayExpire = FALSE
SYMMETRY Symmetry
INVARIANTS
    SentBeforeVerdict
    ReadyIsListed
\* The system is at rest once every message is resolved.
CHECK_DEADLOCK FALSE
