SPECIFICATION Spec
CONSTANTS
    hot = hot
    cold1 = cold1
    cold2 = cold2
    ext = ext
    Candidates <- MCCandidates
    Edits <- MCEdits
    Rebind <- MCRebind
    Initial = Initial
    None = None
    MaxOps = 2
    MaxEdits = 1
    MaxFaults = 0
    MaxCrashes = 0
PROPERTY DriftRefused
CHECK_DEADLOCK FALSE
