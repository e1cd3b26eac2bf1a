SPECIFICATION Spec
CONSTANTS
  Clients = {c1}
  Topics = {t1, t2}
  MaxMessages = 2
  Sizes = {1}
  IoFaults = {}
  Policies <- TrackerPolicies
  AckTimeout <- Timeouts
  MaxTime = 2
  MaxHandles = 4
INVARIANTS
  HeapOrdered
  HandlePerRegistration
PROPERTIES
  DecidesTheExpired
  ImplementsPendingAcks
CHECK_DEADLOCK FALSE
