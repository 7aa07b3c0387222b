SPECIFICATION FairSpec
CONSTANTS
    Workers = {w1}
    M = 2
    Unparsable = {}
    ReadCount = 2
    BulkSize = 2
    Faults <- Crashes
    MaxLives = 2
PROPERTIES Durable
CHECK_DEADLOCK FALSE
