------------------------------- MODULE Notify -------------------------------
(***************************************************************************)
(* notify.rs: SingleWaiterNotify and its Notified future, on top of an     *)
(* AtomicWaker.  One task waits, through one future after another; any     *)
(* number of threads call notify_one().  The executor polls a task whose   *)
(* last waker was woken, and may poll it at any other time too, each time  *)
(* with a waker of its choice.                                             *)
(*                                                                         *)
(* One action per atomic instruction; pc[t] names the next one.  While a   *)
(* thread is inside the AtomicWaker its wakerPc is not "idle".             *)
(***************************************************************************)
CONSTANTS Waiter,     \* the task that waits
          Notifiers,  \* the threads that call notify_one()
          Wakers,
          NoWaker

ASSUME ThreadsAssumption == Waiter \notin Notifiers
ASSUME WakersAssumption == NoWaker \notin Wakers

VARIABLES state,       \* SingleWaiterNotify.state
          registered,  \* Notified.registered
          pc,
          cx,          \* the waker of the last poll
          wakerState, cell, wakerPc, held,  \* SingleWaiterNotify.waker
          woken,       \* the wakers that were woken and whose task has not run
          alive        \* the SingleWaiterNotify has not been dropped

Threads == {Waiter} \union Notifiers

W == INSTANCE AtomicWaker
     WITH TakeOnly <- {}, state <- wakerState, pc <- wakerPc

notifyVars == <<state, registered, pc, cx>>
wakerVars == <<wakerState, cell, wakerPc, held, woken, alive>>
vars == <<notifyVars, wakerVars>>

EMPTY    == "EMPTY"
WAITING  == "WAITING"
NOTIFIED == "NOTIFIED"

\* The future is "pending" whenever it is not being polled and has not
\* completed, also before its first poll.
WaiterPCs == {"none", "pending", "check", "register", "load", "cas", "recheck",
              "consume", "ready"}
NotifierPCs == {"none", "wake"}

TypeOK == /\ state \in {EMPTY, WAITING, NOTIFIED}
          /\ registered \in BOOLEAN
          /\ pc \in [Threads -> WaiterPCs \union NotifierPCs]
          /\ pc[Waiter] \in WaiterPCs
          /\ \A n \in Notifiers : pc[n] \in NotifierPCs
          /\ cx \in Wakers \union {NoWaker}
          /\ W!TypeOK

Init == /\ state = EMPTY
        /\ registered = FALSE
        /\ pc = [t \in Threads |-> "none"]
        /\ cx = NoWaker
        /\ W!Init

Goto(t, label) == pc' = [pc EXCEPT ![t] = label]

-----------------------------------------------------------------------------
(* The waiting task *)

\* notified()
NewFuture == /\ alive
             /\ pc[Waiter] = "none"
             /\ Goto(Waiter, "pending")
             /\ registered' = FALSE
             /\ UNCHANGED <<state, cx, wakerVars>>

\* poll(cx): the executor runs the task and hands it a waker.
Poll(w) == /\ pc[Waiter] = "pending"
           /\ cx' = w
           /\ woken' = woken \ {w}
           /\ registered' = TRUE
           /\ Goto(Waiter, IF registered THEN "check" ELSE "register")
           /\ UNCHANGED <<state, wakerState, cell, wakerPc, held, alive>>

\* Mutant: a later poll does not register its waker.
CheckOnly == /\ pc[Waiter] = "check"
             /\ Goto(Waiter, IF state = NOTIFIED THEN "consume" ELSE "pending")
             /\ UNCHANGED <<state, registered, cx, wakerVars>>

\* A later poll first looks for a notification.
Check == /\ pc[Waiter] = "check"
         /\ Goto(Waiter, IF state = NOTIFIED THEN "consume" ELSE "register")
         /\ UNCHANGED <<state, registered, cx, wakerVars>>

\* register_waker(): the waker goes in first ...
RegisterWaker == /\ pc[Waiter] = "register"
                 /\ W!Register(Waiter, cx)
                 /\ Goto(Waiter, "load")
                 /\ UNCHANGED <<state, registered, cx>>

\* ... then the state is loaded,
Load == /\ pc[Waiter] = "load"
        /\ wakerPc[Waiter] = "idle"
        /\ Goto(Waiter, IF state = NOTIFIED THEN "consume" ELSE "cas")
        /\ UNCHANGED <<state, registered, cx, wakerVars>>

\* moved from EMPTY to WAITING,
CompareExchange ==
  /\ pc[Waiter] = "cas"
  /\ state' = IF state = EMPTY THEN WAITING ELSE state
  /\ Goto(Waiter, IF state = NOTIFIED THEN "consume" ELSE "recheck")
  /\ UNCHANGED <<registered, cx, wakerVars>>

\* and loaded again, whether it was EMPTY or already WAITING.
Recheck == /\ pc[Waiter] = "recheck"
           /\ Goto(Waiter, IF state = NOTIFIED THEN "consume" ELSE "pending")
           /\ UNCHANGED <<state, registered, cx, wakerVars>>

\* store(EMPTY), and the poll returns Ready.
Consume == /\ pc[Waiter] = "consume"
           /\ state' = EMPTY
           /\ Goto(Waiter, "ready")
           /\ UNCHANGED <<registered, cx, wakerVars>>

\* Mutant: the state is stored, not compared and exchanged.
DropFutureByStore ==
  /\ pc[Waiter] \in {"pending", "ready"}
  /\ state' = IF registered THEN EMPTY ELSE state
  /\ registered' = FALSE
  /\ Goto(Waiter, "none")
  /\ UNCHANGED <<cx, wakerVars>>

\* drop(Notified), completed or not.
DropFuture ==
  /\ pc[Waiter] \in {"pending", "ready"}
  /\ state' = IF registered /\ state = WAITING THEN EMPTY ELSE state
  /\ registered' = FALSE
  /\ Goto(Waiter, "none")
  /\ UNCHANGED <<cx, wakerVars>>

-----------------------------------------------------------------------------
(* The notifying threads *)

\* Mutant: fetch_or(NOTIFIED) in place of swap.
NotifyOneByOr(n) ==
  /\ alive /\ pc[n] = "none" /\ wakerPc[n] = "idle"
  /\ state' = IF state = WAITING THEN "WAITING | NOTIFIED" ELSE NOTIFIED
  /\ Goto(n, IF state = WAITING THEN "wake" ELSE "none")
  /\ UNCHANGED <<registered, cx, wakerVars>>

\* notify_one(): swap(NOTIFIED); it goes on to wake only if it saw WAITING.
NotifyOne(n) ==
  /\ alive /\ pc[n] = "none" /\ wakerPc[n] = "idle"
  /\ state' = NOTIFIED
  /\ Goto(n, IF state = WAITING THEN "wake" ELSE "none")
  /\ UNCHANGED <<registered, cx, wakerVars>>

\* self.waker.wake()
Wake(n) == /\ pc[n] = "wake"
           /\ W!Take(n)
           /\ Goto(n, "none")
           /\ UNCHANGED <<state, registered, cx>>

\* The rest of a call of the AtomicWaker.
InWaker(t) == W!Continue(t) /\ UNCHANGED notifyVars

-----------------------------------------------------------------------------

\* The owner drops the SingleWaiterNotify: no future borrows it any more and
\* no thread is in a call.
Drop == /\ \A t \in Threads : pc[t] = "none"
        /\ W!Drop
        /\ UNCHANGED notifyVars

\* The instructions of a poll.
WaiterStep == \/ Check
              \/ RegisterWaker
              \/ Load
              \/ CompareExchange
              \/ Recheck
              \/ Consume
              \/ InWaker(Waiter)

NotifierStep(n) == Wake(n) \/ InWaker(n)

Next == \/ NewFuture
        \/ \E w \in Wakers : Poll(w)
        \/ WaiterStep
        \/ DropFuture
        \/ Drop
        \/ \E n \in Notifiers : NotifyOne(n) \/ NotifierStep(n)

Spec == Init /\ [][Next]_vars

\* The executor polls a woken task, and threads finish what they started.
\* Nobody is obliged to notify, to wait, or to keep waiting.
RunWoken == cx \in woken /\ \E w \in Wakers : Poll(w)
Fairness == /\ WF_vars(RunWoken)
            /\ WF_vars(WaiterStep)
            /\ \A n \in Notifiers : WF_vars(NotifierStep(n))

FairSpec == Spec /\ Fairness

-----------------------------------------------------------------------------
(* Correctness *)

\* A wake of these wakers has been delivered or can no longer be stopped.
Coming == woken \union W!inflight

\* A task that was left pending is never forgotten: as long as nobody has
\* notified it, a wake would find its last waker in the slot, and once it is
\* notified a wake of that waker is on its way, or the notifier that saw
\* WAITING has yet to start it.  This is the race between notify_one() and
\* register_waker() that the comment "Register waker FIRST, before changing
\* state to WAITING" is about, with the re-polls, the cancelled futures and
\* the late wakes of earlier notifications.
NoLostWakeup ==
  pc[Waiter] = "pending" /\ registered =>
    /\ state # EMPTY
    /\ state = WAITING  => cx \in {W!slot} \union Coming
    /\ state = NOTIFIED => \/ cx \in Coming
                           \/ cx = W!slot /\ \E n \in Notifiers : pc[n] = "wake"

\* With a single waiter the AtomicWaker never throws a registration away: the
\* branch "Concurrent register (shouldn't happen in normal usage)" is dead.
RegistrationKept == pc[Waiter] = "register" => wakerState \in {W!WAITING, W!WAKING}

permit == state = NOTIFIED
wait == IF pc[Waiter] = "ready" THEN "done"
        ELSE IF registered THEN "waiting" ELSE "idle"

P == INSTANCE Permit

\* SingleWaiterNotify is one stored permit: no wait completes without a
\* notification, each takes one, a cancelled wait leaves it for the next, and
\* a wait that could take one and is not cancelled completes.
ImplementsPermit == P!Spec
=============================================================================
