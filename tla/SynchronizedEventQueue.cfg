CONSTANTS
  Consumers = {c1, c2, c3}
  Pollers = {p1}
  Events = {e1, e2, e3}
  Finals = {f1}
SPECIFICATION Spec
CHECK_DEADLOCK FALSE
INVARIANTS
  NoLostWakeup
PROPERTIES
  Drains
  CloseReleases
  ImplementsContract
