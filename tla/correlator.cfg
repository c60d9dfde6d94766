\* Two uplinks, each half posted up to twice, collections and a restart in between.
SPECIFICATION Spec
CONSTANTS
    Uplinks = {u1, u2}
    Items = {i1, i2}
    NoItem = NoItem
    TTL = 1
    GcInterval = 3
    MaxPosts = 2
    MaxTime = 6
    MaxRestarts = 1
SYMMETRY Symmetry
INVARIANTS
    TypeOK
    PairedByUplink
    JoinsUseBothHalves
    PromptHalvesJoin
    HalvesCollected
\* The clock and the posts are bounded.
CHECK_DEADLOCK FALSE
