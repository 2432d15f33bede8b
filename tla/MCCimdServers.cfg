CONSTANTS
  q1 = q1
  q2 = q2
  q3 = q3
  Requests = {q1, q2, q3}
  Ports = {1, 2, 3}
  Asks <- MCAsks
SPECIFICATION ServersSpec
INVARIANTS
  NoServerIsLost
  RegisteredServersAreLive
  AloneIsServed
PROPERTIES
  AllServersClose
CHECK_DEADLOCK FALSE
