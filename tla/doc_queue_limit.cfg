SPECIFICATION Spec
CONSTANTS
  Clients = {c1}
  Topics = {t1}
  MaxMessages = 5
  Sizes = {1}
  IoFaults = {}
  CanUnsubscribe = FALSE
  Policies <- OneSlot
INVARIANTS
  WithinQueueLimit
CHECK_DEADLOCK FALSE
