SPECIFICATION FairSpec
CONSTANTS
    Workers = {w1, w2}
    Admins = {a1, a2}
    Clients = {c1}
    NoTask = NoTask
    MayFail = TRUE
    MaxBoots = 1
INVARIANTS TypeOK OwnWriteVisible
PROPERTIES MonotoneView BuildsEnd
CHECK_DEADLOCK FALSE
