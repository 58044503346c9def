SPECIFICATION Spec
CONSTANTS
  Capacities = {2}
  MaxMessages = 2
  MaxSlice = 2
INVARIANTS ZeroMeansDrained
CHECK_DEADLOCK FALSE
