SPECIFICATION Spec
CONSTANTS
  MaxCalls = 4
  MaxAttach = 1
  Clients = {c1}
  Periods = {20}
  Throwing = {"starting", "started", "stopping", "stopped"}
  ListenMayFail = TRUE
INVARIANTS
  OneRetryInterval
  RunningPublishes
  AllOrNothing
  SessionsReachable
PROPERTIES
  CallsEnd
CHECK_DEADLOCK FALSE
