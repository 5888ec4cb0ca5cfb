CONSTANTS
  w1 = w1
  w2 = w2
  Workers = {w1, w2}
  Crews <- MCCrews
  NumCases = 2
  QueueKinds = {"synchronized", "concurrent"}
  Events = {e1}
  FlowStarts = {s1, s2}
  FlowStops = {f1, f2}
SPECIFICATION Spec
CHECK_DEADLOCK FALSE
INVARIANTS
  CallsOnlyLiveCases
  StoppedBeforeTeardown
PROPERTIES
  FlowStopLast
  StopReturns
  Delivered
