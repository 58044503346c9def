SPECIFICATION Spec
CONSTANTS
  Storages = {"generic"}
  Reused = {}
  Tasks = {w1}
  Parker = parker
  NoWaker = NoWaker
INVARIANTS CloseStopsSend
CHECK_DEADLOCK FALSE
