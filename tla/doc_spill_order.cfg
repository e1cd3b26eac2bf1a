SPECIFICATION Spec
CONSTANTS
  Clients = {c1}
  Topics = {t1}
  MaxMessages = 5
  Sizes = {1}
  IoFaults = {}
  CanUnsubscribe = FALSE
  Policies <- OneSlot
PROPERTIES
  PublicationOrder
CHECK_DEADLOCK FALSE
