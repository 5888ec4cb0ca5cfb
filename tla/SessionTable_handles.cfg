CONSTANTS
  Sessions = {s1, s2, s3}
  Handshaking = {}
  Resetting = {}
  Sending = {s1}
  Closable = {}
  NoSession = NoSession
  PoolSize = 1
SPECIFICATION Spec
INVARIANTS
  HandlesUnique
CHECK_DEADLOCK FALSE
