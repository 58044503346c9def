\* x86: two values and a drop, and two polls for no reason.
SPECIFICATION Spec
CONSTANTS
  MaxMessages = 2
  MaxWrites = 5
  LockedRMW = TRUE
INVARIANTS WaitsIfEmpty NoneMeansDrained
CHECK_DEADLOCK FALSE
