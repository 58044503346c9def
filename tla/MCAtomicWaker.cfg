\* Four threads, one of which calls take() for itself, and two wakers.  No
\* symmetry, as liveness is checked.
SPECIFICATION FairSpec
CONSTANTS
  Threads = {t1, t2, t3, t4}
  TakeOnly = {t4}
  Wakers = {w1, w2}
  NoWaker = NoWaker
INVARIANTS TypeOK CellExclusive LockOwned WakerCarried
PROPERTIES ImplementsSlot Delivered LockReleased
CHECK_DEADLOCK FALSE
