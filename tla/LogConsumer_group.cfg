SPECIFICATION FairSpec
CONSTANTS
    Workers = {w1, w2}
    M = 4
    Unparsable = {2}
    ReadCount = 2
    BulkSize = 2
    Faults <- OrderlyOrAny
    MaxLives = 3
INVARIANTS TypeOK AckedStored DuplicatesOnlyAtShutdown
PROPERTIES EventuallyStored
CHECK_DEADLOCK FALSE
