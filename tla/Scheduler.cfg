SPECIFICATION FairSpec
CONSTANTS
    SchedEvent = {e1, e2}
    Ticker = {c1, c2}
    MaxAttempts = 2
    MaxFaults = 1
    NoClaimant = NoClaimant
    Gone = Gone
CHECK_DEADLOCK FALSE
INVARIANTS OutcomesCorrect
PROPERTIES ImplementsClaimedWork EveryEventEnds
