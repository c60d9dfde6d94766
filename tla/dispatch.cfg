\* Two queues, an id with two phases, a cancel, and one orderly or sudden end of the process.
SPECIFICATION FairSpec
CONSTANTS
    a = a
    b = b
    c = c
    k = k
    Messages = {a, b, c}
    Queues = {"network1", "network2"}
    Requests = {k}
    MaxTicks = 2
    MaxPasses = 2
    queueKey <- MCqueueKey
    priority <- MCpriority
    correlation <- MCcorrelation
    phase <- MCphase
    asks <- MCasks
    CallSets <- MCCallSets
    NoMsg = NoMsg
    minIntervalMs = 1
    MaxRetries = 1
    MaxClock = 2
    MaxFaults = 1
INVARIANTS
    TypeOK
    PicksWithinRate
    CancelAnswersHold
    QuietShutdown
PROPERTIES
    EveryQueueServed
\* At rest once the commands are done and the clock has reached its bound.
CHECK_DEADLOCK FALSE
