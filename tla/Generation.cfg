SPECIFICATION FairSpec
CONSTANTS
  Slots = {s1, s2}
  LastGen = 2
INVARIANTS InflightCounts TakenOnlyOnSignal DrainNotLost QuietIsQuiet
PROPERTIES EntersOpen ShutdownCompletes
CHECK_DEADLOCK FALSE
