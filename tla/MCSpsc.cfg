\* Any program: a ring of two slots, which is empty, partly filled and
\* full; three values; slices longer than the ring.  The tests: their own rings.
SPECIFICATION TestSpec
CONSTANTS
  Capacities = {1, 2, 4, 8, 16}
  AnyCapacities = {2}
  MaxMessages = 3
  MaxSlice = 3
INVARIANTS TypeOK InOrder SendAccounted ClosedMeansDrained ReceiverNotStuck SenderNotStuck
           AssertionsHold
PROPERTIES RecvReturns SendReturns TestsComplete ImplementsChannel AnswersKept
CHECK_DEADLOCK FALSE
