SPECIFICATION Spec
CONSTANTS
    Requests = {r1, r2, r3}
    Rpms = {0, 2}
    Window = 2
    CacheTTL = 1
    MaxDelay = 1
    MaxClock = 5
SYMMETRY RequestSymmetry
INVARIANTS TypeOK WindowLimit DenialJustified LimitFresh
CHECK_DEADLOCK FALSE
