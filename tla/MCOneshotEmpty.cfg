SPECIFICATION Spec
CONSTANTS
  Storages = {"generic"}
  Reused = {"generic"}
  Tasks = {w1}
  Parker = parker
  NoWaker = NoWaker
PROPERTIES EmptyMeansPending
CHECK_DEADLOCK FALSE
