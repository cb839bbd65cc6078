SPECIFICATION FairSpec
CONSTANTS
  Runs = {r1, r2}
  a1 = a1
  pipe = pipe
  loop = loop
  Workflows = {pipe, loop, gone}
  Agents = {a1}
  Def <- MCDef
  Nobody = Nobody
  Outages = TRUE
INVARIANTS
  LocksSound
  OneStory
PROPERTIES
  AbortStops
  RunsProgress
  KeepsPromise
