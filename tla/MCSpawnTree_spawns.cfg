SPECIFICATION MCFairSpec
CONSTANTS
  Root = root
  Run = {root, c1, c2, c3}
  Key = {k1, k2}
  MaxDepth = 2
  MaxBatch = 2
  Permits = 1
  AutoBudget = 0
  ToolTimeouts = TRUE
INVARIANTS
  DepthBounded
  ClaimsSound
PROPERTIES
  SpawnsEnd
CHECK_DEADLOCK FALSE
