SPECIFICATION LockFairSpec
CONSTANTS
  Run = {r1, r2}
  Agent = {a1}
  Threshold = 1
  Outages = TRUE
INVARIANTS
  KeysSound
PROPERTIES
  BreakerHolds
  TracesSettle
