SPECIFICATION FairSpec
CONSTANTS
    M = 6
    QueueMax = 3
    FlushSize = 2
    MaxBatch = 3
    MaxFaults = 3
    ConsumerEnds = {"cancelled", "raised"}
INVARIANTS TypeOK BatchBounded FirstSeenInOrder LostOnlyByTrimming DrainedAtShutdown
PROPERTIES EventuallyPublished
CHECK_DEADLOCK FALSE
