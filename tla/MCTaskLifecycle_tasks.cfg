SPECIFICATION Spec
CONSTANTS
  Task = {t1, t2}
  Call = {c1, c2, c3}
  Agent = {a1, owner}
  Owner = {owner}
  Assignee = {a1, nobody}
  Nobody = nobody
  NoTask = NoTask
  Initial = {"IN_PROGRESS"}
INVARIANTS
  TrailTells
  ResolvedWasDone
  DuplicatesAccounted
PROPERTIES
  OnlyStaleCallsBreak
CHECK_DEADLOCK FALSE
SYMMETRY Symmetry
