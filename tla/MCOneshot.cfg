\* Any program over the generic storage, whose receiver is not used again once
\* it has answered, and over the lite storage of CustomState, whose receiver is;
\* its tasks wake by two different wakers.  And every test.
SPECIFICATION TestSpec
CONSTANTS
  Storages = {"generic", "unit", "TestCompletion", "CustomState"}
  Reused = {"unit", "TestCompletion", "CustomState"}
  AnyStorages = {"generic", "CustomState"}
  Tasks = {w1, w2}
  Parker = parker
  NoWaker = NoWaker
INVARIANTS TypeOK ReadsInitialised ClosedHonestly RefusedHonestly ReceivedIsSent
           NoLostWakeup CloseStopsLiteSend AssertionsHold
PROPERTIES ReceiveReturns EmptyMeansPending ImplementsOnce TestsComplete
CHECK_DEADLOCK FALSE
