SPECIFICATION FairSpec
CONSTANTS
    Workers = {w1, w2}
    Admins = {a1}
    Clients = {c1}
    NoTask = NoTask
    MayFail = FALSE
    MaxBoots = 0
PROPERTIES ChangesReachEveryWorker
CHECK_DEADLOCK FALSE
