SPECIFICATION Spec
CONSTANTS
    Tasks = {t1, t2, t3}
    None = None
    MaxFences = 1
    MaxCrashes = 1
SYMMETRY Sym
CHECK_DEADLOCK FALSE
INVARIANT PurgeFinal
