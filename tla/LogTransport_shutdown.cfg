SPECIFICATION FairSpec
CONSTANTS
    M = 2
    QueueMax = 2
    FlushSize = 2
    MaxBatch = 2
    MaxFaults = 0
    ConsumerEnds = {"cancelled"}
PROPERTY ShutdownCompletes
CHECK_DEADLOCK FALSE
