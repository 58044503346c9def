SPECIFICATION Spec
CONSTANTS
  Storages = {"generic"}
  Reused = {}
  Tasks = {w1}
  Parker = parker
  NoWaker = NoWaker
INVARIANTS NoLeak
CHECK_DEADLOCK FALSE
