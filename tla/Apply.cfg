SPECIFICATION FairSpec
CONSTANTS
    hot = hot
    cold1 = cold1
    cold2 = cold2
    ext = ext
    Candidates <- MCCandidates
    Edits <- MCEdits
    Rebind <- MCRebind
    Initial = Initial
    None = None
    MaxOps = 2
    MaxEdits = 2
    MaxFaults = 2
    MaxCrashes = 1
INVARIANTS BasisIsSound DriftIsReported CrashRecovers
PROPERTIES KeepsEdits GateReopens
CHECK_DEADLOCK FALSE
