CONSTANTS
  Sockets = {s1, s2, s3}
  MaxRetryCounts = {1}
  Hurry <- MCCalm
  NoSocket = NoSocket
SPECIFICATION Spec
CHECK_DEADLOCK FALSE
PROPERTY
  FailureDeclared
