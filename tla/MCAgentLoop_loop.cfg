SPECIFICATION LoopFairSpec
CONSTANTS
  Tools = {write, todo}
  ReadOnly = {todo}
  Todo = todo
  Configs <- MCConfigs
  MaxCalls = 2
  Grace = 1
  NoteAfter = 2
  AbortErrors = 3
  MaxHelpers = 1
  Interval = 2
CHECK_DEADLOCK FALSE
INVARIANTS
  ConversationSound
  LimitsBind
  PlanReadsOnly
  EndsRecorded
PROPERTIES
  RunEnds
