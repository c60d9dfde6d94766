SPECIFICATION Spec
CONSTANTS
    Creates <- MCCreates
    Mints <- MCMints
    Readings <- MCReadings
    Dates <- MCDates
    Reports <- MCReports
    Noise <- MCNoise
    MaxPolls = 1
INVARIANTS
    TypeOK
    CommandAsAsked
    ReportTruthful
    RefusalIsFinal
CHECK_DEADLOCK FALSE
