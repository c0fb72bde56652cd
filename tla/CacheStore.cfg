SPECIFICATION Spec
CONSTANTS
    Tasks = {t1, t2, t3}
    None = None
    MaxFences = 1
    MaxCrashes = 1
SYMMETRY Sym
CONSTRAINT CrashAfterACall
CHECK_DEADLOCK FALSE
INVARIANTS CatalogExact PurgeHolds DeleteHolds TiersAgree
PROPERTY PurgeSparesNewer
