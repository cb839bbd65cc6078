SPECIFICATION FairSpec
CONSTANTS
  a1 = a1
  a2 = a2
  t1 = t1
  Event = {e1, e2}
  Type = {t1}
  NoType = NoType
  Agent = {a1, a2}
  Triggers <- MCTriggers
  Downstream <- MCDownstream
  MaxRetries = 1
  BatchSize = 2
  Crashes = TRUE
  RedisFails = TRUE
INVARIANTS
  RetriesEnd
  NoEntryLost
  EventAccounted
PROPERTIES
  EveryEventSettles
