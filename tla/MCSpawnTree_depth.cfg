SPECIFICATION Spec
CONSTANTS
  Root = root
  Run = {root, c1, c2, c3}
  Key = {k1, k2}
  MaxDepth = 2
  MaxBatch = 2
  Permits = 3
  AutoBudget = 0
  ToolTimeouts = TRUE
INVARIANTS
  LevelsLimited
CHECK_DEADLOCK FALSE
SYMMETRY Symmetry
