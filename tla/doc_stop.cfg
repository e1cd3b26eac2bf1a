SPECIFICATION Spec
CONSTANTS
  MaxCalls = 3
  MaxAttach = 1
  Clients = {c1}
  Periods = {20}
  Throwing = {}
  ListenMayFail = FALSE
INVARIANTS
  StoppedIsDown
CHECK_DEADLOCK FALSE
