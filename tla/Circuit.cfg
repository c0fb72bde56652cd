SPECIFICATION FairSpec
CONSTANTS
    Reqs = {r1, r2}
    MaxFailsOpts = {1, 2}
    TimeoutOpts = {1}
    ProbesOpts = {0, 1, 2}
    MaxEpoch = 4
    MaxTime = 4
INVARIANTS CircuitInv SlotsAreHeld
PROPERTIES TripNeedsEvidence RecoveryNeedsProof CooldownHolds HalfOpenEnds
