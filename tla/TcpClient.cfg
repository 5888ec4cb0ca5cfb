CONSTANTS
  Sockets = {s1, s2}
  MaxRetryCounts = {0, 1}
  Hurry <- MCHurry
  NoSocket = NoSocket
SPECIFICATION Spec
CHECK_DEADLOCK FALSE
INVARIANTS
  NoOrphan
  NoDeadSession
PROPERTIES
  AttemptsEnd
  
