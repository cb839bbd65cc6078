SPECIFICATION Spec
CONSTANTS
  Kinds <- MCKinds
  Followed = {1}
  MaxTasks = 3
  MaxLive = 2
  MaxEvents = 1
INVARIANTS
  RemovalsStick
  ExecutesApproved
PROPERTIES
  AbortReaches
  PendingPlanKept
CHECK_DEADLOCK FALSE
