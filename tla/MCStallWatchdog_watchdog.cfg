SPECIFICATION WatchFairSpec
CONSTANTS
  Run = {r1, r2}
  None = None
  Limit = 2
  Hard = 4
  Cap = 3
INVARIANTS
  NoStrayWatchdog
PROPERTIES
  LatestKilledOnlyIfIdle
  RunsEnd
