SPECIFICATION FairSpec
CONSTANTS
  Clients = {c1}
  Topics = {t1}
  MaxMessages = 4
  Sizes = {1}
  IoFaults = {"write"}
  CanUnsubscribe = FALSE
  Policies <- LivePolicies
PROPERTIES
  EventuallySent
  AcksSettle
  GoneIsForgotten
CHECK_DEADLOCK FALSE
