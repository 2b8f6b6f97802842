SPECIFICATION FairSpec
CONSTANTS
    Effect = {f1, f2}
    Publisher = {p1, p2}
    MaxAttempts = 2
    BatchSize = 2
    MaxFaults = 2
    NoClaimant = NoClaimant
    Gone = Gone
CHECK_DEADLOCK FALSE
INVARIANTS OutcomesCorrect
PROPERTIES ImplementsClaimedWork EveryEffectSettles
