SPECIFICATION FairSpec
CONSTANTS
    r1 = r1
    r2 = r2
    r3 = r3
    v1 = v1
    v2 = v2
    Reqs = {r1, r2, r3}
    Base = base
    Variants = {v1, v2}
    Want <- Wants
    Private = {r3}
    None = None
    MaxChanges = 1
INVARIANTS CallsOwned StoredIsFindable OneOriginRequest
PROPERTY AllAnswered
CHECK_DEADLOCK FALSE
