SPECIFICATION Spec
CONSTANTS
  Clients = {c1}
  Topics = {t1}
  MaxMessages = 5
  Sizes = {1}
  IoFaults = {}
  CanUnsubscribe = TRUE
  Policies <- OneSlot
INVARIANTS
  InFlightIsTracked
CHECK_DEADLOCK FALSE
