\* The memory model alone.
SPECIFICATION Spec
CONSTANTS
  MaxMessages = 2
  MaxWrites = 5
  LockedRMW = FALSE
INVARIANTS WaitsIfEmpty
CHECK_DEADLOCK FALSE
