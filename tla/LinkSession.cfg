CONSTANTS
  Threads = {t1, t2, t3}
  Events = {e1, e2, e3, e4}
SPECIFICATION Spec
CHECK_DEADLOCK FALSE
INVARIANTS
  OneTransmitter
  InOrder
PROPERTIES
  Transmitted
