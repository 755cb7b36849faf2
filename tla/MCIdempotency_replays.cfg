SPECIFICATION FairSpec
CONSTANTS
  Request = {r1, r2, r3}
  Key = {k1}
  Payload = {h1, h2}
  None = None
  Retention = 1
  MaxTime = 4
INVARIANTS
  AnswersAreReal
  RerunNeedsDeletion
PROPERTIES
  ResponsesKeptForRetention
  StuckKeyIsFreed
CHECK_DEADLOCK FALSE
