SPECIFICATION Spec
CONSTANTS
  Clients = {c1}
  Topics = {t1}
  MaxMessages = 5
  Sizes = {1}
  IoFaults = {"write", "read"}
  CanUnsubscribe = FALSE
  Policies <- SpillPolicies
INVARIANTS
  TypeOK
  InFlightBound
  QueueBound
  NoLostWakeup
  NoWedgedLane
  NothingLost
  OnePlace
  SpillCountExact
  SpillCleared
PROPERTIES
  RetryBudget
  GoneStaysIdle
  ImplementsContract
CHECK_DEADLOCK FALSE
