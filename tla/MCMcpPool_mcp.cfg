SPECIFICATION FairSpec
CONSTANTS
  Calls = {c1, c2, c3}
  MaxSessions = 2
  MaxNotes = 1
CHECK_DEADLOCK FALSE
INVARIANTS
  AnswersInStep
  ProcessesPooled
PROPERTIES
  CallsEnd
