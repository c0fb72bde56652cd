SPECIFICATION RetrySpec
CONSTANTS
  Requests = {r1, r2}
  Backends = {b1, b2}
  MaxAttempts = {0, 1, 2}
  NoBackend = NoBackend
  PerBackend = 1
SYMMETRY Sym
INVARIANTS NothingLeaks AttemptsBounded RetriesEarned
