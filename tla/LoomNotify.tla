------------------------------ MODULE LoomNotify ------------------------------
(***************************************************************************)
(* shim.rs, module notify under cfg(feature = "loom"): the stand-in for    *)
(* SingleWaiterNotify on which the loom tests of the SPSC channel run.  A  *)
(* mutex makes each operation one step.  What those tests show carries     *)
(* over to the real one only if both keep the same promise, Permit.        *)
(***************************************************************************)
CONSTANTS Wakers, NoWaker

ASSUME WakersAssumption == NoWaker \notin Wakers

VARIABLES notified,  \* State.notified
          waker,     \* State.waker
          future,    \* the Notified future: "none", "new" (never polled),
                     \* "pending" or "ready"
          cx,        \* the waker of the last poll
          woken      \* the wakers that were woken and whose task has not run

vars == <<notified, waker, future, cx, woken>>

TypeOK == /\ notified \in BOOLEAN
          /\ waker \in Wakers \union {NoWaker}
          /\ future \in {"none", "new", "pending", "ready"}
          /\ cx \in Wakers \union {NoWaker}
          /\ woken \in SUBSET Wakers

Init == /\ notified = FALSE
        /\ waker = NoWaker
        /\ future = "none"
        /\ cx = NoWaker
        /\ woken = {}

\* Mutant: the waker is woken without looking whether there is one.
NotifyOneUnchecked ==
  /\ notified' = TRUE
  /\ waker' = NoWaker
  /\ woken' = woken \union {waker}
  /\ UNCHANGED <<future, cx>>

NotifyOne == /\ notified' = TRUE
             /\ waker' = NoWaker
             /\ woken' = woken \union ({waker} \ {NoWaker})
             /\ UNCHANGED <<future, cx>>

\* notified()
NewFuture == /\ future = "none"
             /\ future' = "new"
             /\ UNCHANGED <<notified, waker, cx, woken>>

\* Mutant: the waker of the first poll is kept.
PollKeepsWaker(w) ==
  /\ future \in {"new", "pending"}
  /\ cx' = w
  /\ woken' = woken \ {w}
  /\ notified' = FALSE
  /\ IF notified THEN future' = "ready" /\ UNCHANGED waker
                 ELSE /\ future' = "pending"
                      /\ waker' = IF waker = NoWaker THEN w ELSE waker

\* Mutant: a poll that finds the notification leaves it there.
PollLeavesNotified(w) ==
  /\ future \in {"new", "pending"}
  /\ cx' = w
  /\ woken' = woken \ {w}
  /\ IF notified THEN future' = "ready" /\ UNCHANGED waker
                 ELSE future' = "pending" /\ waker' = w
  /\ UNCHANGED notified

\* poll(cx), after a wake or at any other time.
Poll(w) == /\ future \in {"new", "pending"}
           /\ cx' = w
           /\ woken' = woken \ {w}
           /\ notified' = FALSE
           /\ IF notified THEN future' = "ready" /\ UNCHANGED waker
                          ELSE future' = "pending" /\ waker' = w

\* There is no Drop for this future: its waker stays behind.
DropFuture == /\ future # "none"
              /\ future' = "none"
              /\ UNCHANGED <<notified, waker, cx, woken>>

Next == NotifyOne \/ NewFuture \/ DropFuture \/ \E w \in Wakers : Poll(w)

\* The executor polls a woken task.
RunWoken == cx \in woken /\ \E w \in Wakers : Poll(w)

Spec == Init /\ [][Next]_vars /\ WF_vars(RunWoken)

\* A pending task is covered: its last waker waits for a notification that
\* has not come, or has been woken by one that has.
Covered == future = "pending" => IF notified THEN cx \in woken ELSE waker = cx

wait == IF future = "ready" THEN "done"
        ELSE IF future = "pending" THEN "waiting" ELSE "idle"

P == INSTANCE Permit WITH permit <- notified

\* The loom stand-in keeps the promise of the real SingleWaiterNotify.
ImplementsPermit == P!Spec
=============================================================================
