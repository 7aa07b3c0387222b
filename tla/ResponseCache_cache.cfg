SPECIFICATION Spec
CONSTANTS
    k1 = k1
    k2 = k2
    big = big
    Requests = {r1, r2}
    Keys = {k1, k2, big}
    Large = {big}
    Questions <- MixedQuestions
    Models = {m1}
    Invalidations = {i1, i2}
    None = None
    Parts = 2
    TTL = 2
    MaxChunks = 1
    MaxClock = 3
SYMMETRY Symmetry
INVARIANTS TypeOK IndexCovers InvalidationEffective
PROPERTIES ImplementsAnswers
CHECK_DEADLOCK FALSE
