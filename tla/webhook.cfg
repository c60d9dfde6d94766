\* Two events, overlapping kicks, a batch smaller than the backlog, one fault.
SPECIFICATION FairSpec
CONSTANTS
    Events = {e1, e2}
    Drains = {d1, d2}
    NoEvent = NoEvent
    MaxAttempts = 2
    BatchSize = 1
    MaxFaults = 1
INVARIANTS
    TypeOK
    NothingLost
    OnePostAtATime
    PostsBounded
    DeadLetterEarned
PROPERTIES
    ImplementsOutbox
    EventuallySettled
