SPECIFICATION Spec
CONSTANTS
  Claims <- MCClaims
  Topic <- MCTopic
  Given <- MCGiven
  Decisions = {1}
  Ingest = {p1}
  d1 = d1
  Claim <- MCClaim
  Dream = {d1, d2}
  Kinds <- MCKinds
  Threshold <- MCThreshold
  MaxPruned = 1
  MaxLapsed = 1
  Nobody = Nobody
CHECK_DEADLOCK FALSE
INVARIANTS
  KnowledgeKept
  BeliefsExplained
  LocksHold
