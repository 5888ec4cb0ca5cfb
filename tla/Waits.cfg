CONSTANTS
  w1 = w1
  w2 = w2
  w3 = w3
  Waits = {w1, w2, w3}
  Kind <- Kinds
  Requesting = {w2, w3}
  Timed = {w1, w3}
  Parts = {1, 2}
  Nobody = Nobody
  MaxPending = 1
  PoolSize = 1
SPECIFICATION Spec
CHECK_DEADLOCK FALSE
INVARIANTS
  ResumedOnce
  HandlesInUse
  TimeoutPending
  ForeignAnswers
PROPERTIES
  Ends
