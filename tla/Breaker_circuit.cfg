SPECIFICATION FairSpec
CONSTANTS
    N = 2
    BalancerCalls = {b1, b2, b3}
    EngineCalls = {e1}
    MaxFails = 3
    MaxRetries = 2
    Faults = {TRUE, FALSE}
INVARIANTS TypeOK CounterDrains ThresholdOpens NoSpuriousOpening
PROPERTIES EligibleAgain
CHECK_DEADLOCK FALSE
