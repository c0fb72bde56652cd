SPECIFICATION Spec
CONSTANTS
  Callers = {c1, c2}
  Percents = {0, 100}
  LastEpoch = 2
  MaxPrimaries = 1
SYMMETRY Sym
INVARIANTS WindowsInOrder NoFreshBurst
PROPERTY GrantsWithinAllowance
