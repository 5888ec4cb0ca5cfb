CONSTANTS
  Sessions = {s1, s2}
  Handshaking = {s2}
  Resetting = {s1}
  Sending = {s2}
  Closable = {s1}
  NoSession = NoSession
  PoolSize = 1
SPECIFICATION Spec
CHECK_DEADLOCK FALSE
INVARIANTS
  NoDeadEntries
  NoHandleLeak
  OnlyDoubleRelease
PROPERTIES
  Announced
  LinkCloses
