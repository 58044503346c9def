------------------------------ MODULE WakerSlot ------------------------------
(***************************************************************************)
(* What AtomicWaker promises its users, without its lock: a slot that      *)
(* holds the latest registration, and the wakers that have been taken out  *)
(* of it and are on their way to being woken.                              *)
(*                                                                         *)
(* A registration leaves the slot in three ways only: a newer one takes    *)
(* its place, a wake takes it, or the object is dropped.  A registration   *)
(* that meets a wake is never stored and forgotten: it goes in flight.     *)
(***************************************************************************)
CONSTANTS Wakers,    \* the wakers that can be registered
          NoWaker,   \* the empty slot
          HandsOver  \* whether some caller uses take() for itself

VARIABLES alive,     \* the object has not been dropped
          slot,      \* the registration a later wake will take
          inflight,  \* wakers taken, and not yet woken or handed over
          woken      \* wakers whose task is scheduled and has not run yet

vars == <<alive, slot, inflight, woken>>

Init == /\ alive = TRUE
        /\ slot = NoWaker
        /\ inflight = {}
        /\ woken = {}

Register(w) == /\ alive
               /\ slot' = w
               /\ UNCHANGED <<alive, inflight, woken>>

\* A registration that overlaps a wake: it replaces what was registered and
\* is taken at once.
RegisterWoken(w) == /\ alive
                    /\ slot' = NoWaker
                    /\ inflight' = inflight \union {w}
                    /\ UNCHANGED <<alive, woken>>

Wake == /\ alive
        /\ slot # NoWaker
        /\ slot' = NoWaker
        /\ inflight' = inflight \union {slot}
        /\ UNCHANGED <<alive, woken>>

\* Two threads can carry the same waker, so it may stay in flight.
Arrive(w) == /\ w \in inflight
             /\ inflight' \in {inflight, inflight \ {w}}
             /\ UNCHANGED <<alive, slot>>

\* wake(): the task is scheduled.
Deliver(w) == /\ Arrive(w)
              /\ woken' = woken \union {w}

\* take(): the caller gets the waker.
HandOver(w) == /\ HandsOver
               /\ Arrive(w)
               /\ UNCHANGED woken

\* The executor runs a scheduled task.
Run(w) == /\ w \in woken
          /\ woken' = woken \ {w}
          /\ UNCHANGED <<alive, slot, inflight>>

\* No call may be in progress, so nothing is in flight either.
Drop == /\ alive
        /\ inflight = {}
        /\ alive' = FALSE
        /\ slot' = NoWaker
        /\ UNCHANGED <<inflight, woken>>

Next == \/ Wake
        \/ Drop
        \/ \E w \in Wakers : \/ Register(w)
                             \/ RegisterWoken(w)
                             \/ Deliver(w)
                             \/ HandOver(w)
                             \/ Run(w)

Spec == Init /\ [][Next]_vars
=============================================================================
