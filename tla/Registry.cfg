SPECIFICATION FairSpec
CONSTANTS
    s = s
    e = e
    a = a
    b = b
    Keys = {s, e}
    Kind <- Kinds
    Configs <- Moves
    Targets = {a, b}
    None = None
    Answers <- Replies
    MaxBuilds = 3
    MaxRuns = 1
INVARIANTS RefreshersOwned FenceHolds ServingAsConfigured
PROPERTIES KeepsLastGood FencedEnds
CHECK_DEADLOCK FALSE
