SPECIFICATION FairSpec
CONSTANTS
    SchedEvent = {e1}
    Ticker = {c1}
    MaxAttempts = 2
    MaxFaults = 1
    NoClaimant = NoClaimant
    Gone = Gone
CHECK_DEADLOCK FALSE
PROPERTIES DueIsClaimed
