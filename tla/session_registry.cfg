SPECIFICATION Spec
CONSTANTS
  Clients = {c1, c2, c3}
  Specs <- AllSpecs
  Requests <- Names
INVARIANTS
  SessionsAreConnected
  IndexAgrees
  ReachesItsOwn
SYMMETRY ClientSymmetry
CHECK_DEADLOCK FALSE
