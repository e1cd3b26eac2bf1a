SPECIFICATION Spec
CONSTANTS
  Clients = {c1}
  Topics = {t1}
  MaxMessages = 3
  Sizes = {1}
  IoFaults = {"write", "read", "unlink", "readdir"}
  Policies <- TwoAtATime
  MaxCrashes = 1
  MaxReads = 2
  MaxStrays = 1
INVARIANTS
  CountsFiles
  ReadOnce
  NothingRemains
PROPERTIES
  FilesAreKept
  ImplementsSpillQueue
CHECK_DEADLOCK FALSE
