CONSTANTS
  t1 = t1
  t2 = t2
  sinkA = sinkA
  sinkB = sinkB
  k1 = k1
  k2 = k2
  k3 = k3
  k4 = k4
  x = x
  y = y
  NoSink = NoSink
  Threads = {t1, t2}
  Sinks = {sinkA, sinkB}
  Tokens = {k1, k2, k3, k4}
  Slots = {x, y}
  SinkOf <- MCSinkOf
  SlotOf <- MCSlotOf
  Touches <- OwnTouches
  Disposes <- OwnDisposes
SPECIFICATION Spec
INVARIANTS
  FilterCounts
  DisposeUnbindsAll
PROPERTIES
  CallsReturn
