\* Three wakers: one of a cancelled future, one of a previous poll, one of the last.
SPECIFICATION Spec
CONSTANTS
  Wakers = {w1, w2, w3}
  NoWaker = NoWaker
INVARIANTS TypeOK Covered
PROPERTIES ImplementsPermit
CHECK_DEADLOCK FALSE
