SPECIFICATION Spec
CONSTANTS
  Clients = {c1, c2}
  Topics = {t1}
  MaxMessages = 3
  Sizes = {1}
  IoFaults = {}
  CanUnsubscribe = TRUE
  Policies <- RejectPolicies
SYMMETRY ClientSymmetry
INVARIANTS
  AckStateAgrees
  NoLostWakeup
PROPERTIES
  InMemoryOrder
CHECK_DEADLOCK FALSE
