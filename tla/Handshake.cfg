CONSTANTS
  Peers = {client, server}
  Faulty = {client, server}
  MaxEvents = 2
SPECIFICATION Spec
CHECK_DEADLOCK FALSE
INVARIANTS
  ReadyBeforeTransformed
  Decodable
  AppTransformed
PROPERTIES
  Told
