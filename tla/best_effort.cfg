SPECIFICATION Spec
CONSTANTS
  Clients = {c1}
  Topics = {t1}
  MaxMessages = 5
  Sizes = {1, 2, 4}
  IoFaults = {"write", "read"}
  CanUnsubscribe = FALSE
  Policies <- BestEffortPolicies
INVARIANTS
  BytesAccounted
  NewestKept
  NoBacklog
PROPERTIES
  InMemoryOrder
  ImplementsContract
CHECK_DEADLOCK FALSE
