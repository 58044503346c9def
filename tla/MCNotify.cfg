\* Three notifying threads, so that two can be inside the AtomicWaker while a
\* third notifies, and two wakers, so that a re-poll can change the waker.
SPECIFICATION FairSpec
CONSTANTS
  Waiter = rx
  Notifiers = {n1, n2, n3}
  Wakers = {w1, w2}
  NoWaker = NoWaker
INVARIANTS TypeOK NoLostWakeup RegistrationKept
PROPERTIES ImplementsPermit
CHECK_DEADLOCK FALSE
