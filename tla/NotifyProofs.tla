---------------------------- MODULE NotifyProofs ----------------------------
(***************************************************************************)
(* Proofs about Notify, for any set of notifying threads and of wakers.    *)
(* The AtomicWaker inside is not proved about again: its steps are shown   *)
(* to be steps of that module (WakerStep), whose theorems then apply.      *)
(***************************************************************************)
EXTENDS Notify, TLAPS

WP == INSTANCE AtomicWakerProofs
      WITH TakeOnly <- {}, state <- wakerState, pc <- wakerPc

\* What the theorems of AtomicWaker assume of its constants.
USE WakersAssumption DEF WP!ThreadsAssumption, WP!WakersAssumption

USE DEF EMPTY, WAITING, NOTIFIED, WaiterPCs, NotifierPCs, Threads

-----------------------------------------------------------------------------
(* The AtomicWaker as Notify uses it, and as it was proved about. *)

LEMMA SameRegister ==
  ASSUME NEW t \in Threads, NEW w, W!Register(t, w)
  PROVE  WP!Register(t, w)
BY DEF W!Register, W!RegisterLock, W!RegisterWhileWaking, W!RegisterIgnored,
       W!Goto, W!Hold, W!WAITING, W!REGISTERING, W!WAKING, W!BOTH,
       WP!Register, WP!RegisterLock, WP!RegisterWhileWaking, WP!RegisterIgnored,
       WP!Goto, WP!Hold, WP!WAITING, WP!REGISTERING, WP!WAKING, WP!BOTH

LEMMA SameTake ==
  ASSUME NEW t \in Threads, W!Take(t)
  PROVE  WP!Take(t)
BY DEF W!Take, W!OrWaking, W!Goto, W!WAITING, W!REGISTERING, W!WAKING, W!BOTH,
       WP!Take, WP!OrWaking, WP!Goto, WP!WAITING, WP!REGISTERING, WP!WAKING, WP!BOTH

LEMMA SameContinue ==
  ASSUME NEW t \in Threads, W!Continue(t)
  PROVE  WP!Continue(t)
BY DEF W!Continue, W!RegisterStore, W!RegisterUnlock, W!RegisterContended,
       W!Empty, W!Reset, W!WakeHeld, W!ReturnHeld,
       W!Goto, W!Hold, W!WAITING, W!REGISTERING, W!WAKING, W!BOTH,
       WP!Continue, WP!RegisterStore, WP!RegisterUnlock, WP!RegisterContended,
       WP!Empty, WP!Reset, WP!WakeHeld, WP!ReturnHeld,
       WP!Goto, WP!Hold, WP!WAITING, WP!REGISTERING, WP!WAKING, WP!BOTH

LEMMA SameSlot == /\ W!slot = WP!slot /\ W!inflight = WP!inflight
                  /\ W!slot' = WP!slot' /\ W!inflight' = WP!inflight'
BY DEF W!slot, W!inflight, W!OnItsWay, W!Carries, W!Claimed,
       W!WAITING, W!REGISTERING, W!WAKING, W!BOTH,
       WP!slot, WP!inflight, WP!OnItsWay, WP!Carries, WP!Claimed,
       WP!WAITING, WP!REGISTERING, WP!WAKING, WP!BOTH

\* Every step of Notify is a step of its AtomicWaker or leaves it alone.
LEMMA WakerStep ==
  ASSUME cx \in Wakers \union {NoWaker}, [Next]_vars,
         pc[Waiter] = "register" => cx \in Wakers
  PROVE  [WP!Next]_(WP!vars)
<1>1. CASE UNCHANGED wakerVars
  BY <1>1 DEF wakerVars, WP!vars
<1>2. ASSUME NEW w \in Wakers, Poll(w) PROVE [WP!Next]_(WP!vars)
  <2>1. CASE w \in woken
    <3>1. WP!Run(w)
      BY <1>2, <2>1 DEF Poll, WP!Run
    <3> QED BY <3>1 DEF WP!Next
  <2>2. CASE w \notin woken
    BY <1>2, <2>2 DEF Poll, WP!vars
  <2> QED BY <2>1, <2>2
<1>3. CASE RegisterWaker
  <2>1. cx \in Wakers /\ WP!Register(Waiter, cx)
    BY <1>3, SameRegister DEF RegisterWaker
  <2> QED BY <2>1 DEF WP!Next
<1>4. ASSUME NEW t \in Threads, InWaker(t) PROVE [WP!Next]_(WP!vars)
  BY <1>4, SameContinue DEF InWaker, WP!Next
<1>5. ASSUME NEW n \in Notifiers, Wake(n) PROVE [WP!Next]_(WP!vars)
  BY <1>5, SameTake DEF Wake, WP!Next
<1>6. CASE Drop
  <2>1. WP!Drop
    BY <1>6 DEF Drop, W!Drop, WP!Drop
  <2> QED BY <2>1 DEF WP!Next
<1>7. CASE NewFuture \/ Check \/ Load \/ CompareExchange \/ Recheck \/ Consume \/ DropFuture
  BY <1>1, <1>7
     DEF NewFuture, Check, Load, CompareExchange, Recheck, Consume, DropFuture
<1>8. ASSUME NEW n \in Notifiers, NotifyOne(n) PROVE [WP!Next]_(WP!vars)
  BY <1>1, <1>8 DEF NotifyOne
<1>9. CASE UNCHANGED vars
  BY <1>1, <1>9 DEF vars
<1> QED BY <1>2, <1>3, <1>4, <1>5, <1>6, <1>7, <1>8, <1>9
        DEF Next, WaiterStep, NotifierStep

-----------------------------------------------------------------------------
(***************************************************************************)
(* The inductive invariant, on top of the one of AtomicWaker.  Covered is  *)
(* NoLostWakeup carried back into the poll: from the moment the waker has  *)
(* been handed to register() until the poll ends, a wake finds it.         *)
(***************************************************************************)

NotifyTypeOK == /\ state \in {EMPTY, WAITING, NOTIFIED}
                /\ registered \in BOOLEAN
                /\ pc \in [Threads -> WaiterPCs \union NotifierPCs]
                /\ pc[Waiter] \in WaiterPCs
                /\ \A n \in Notifiers : pc[n] \in NotifierPCs
                /\ cx \in Wakers \union {NoWaker}

\* Only the waiting task registers, once at a time, and only its last waker.
SoleRegistrar ==
  /\ \A n \in Notifiers : wakerPc[n] \notin WP!RegisterPCs
  /\ wakerPc[Waiter] # "idle" => pc[Waiter] = "load"
  /\ wakerPc[Waiter] = "reg_store" => held[Waiter] = cx

\* What the poll has learnt about the state holds until it uses it.
PollKnows ==
  /\ pc[Waiter] \in {"check", "register", "load", "cas", "recheck"} => registered
  /\ pc[Waiter] \notin {"none", "pending", "ready"} \/ registered => cx \in Wakers
  /\ pc[Waiter] = "consume" => state = NOTIFIED /\ registered
  /\ pc[Waiter] = "recheck" => state \in {WAITING, NOTIFIED}

Watching == \/ pc[Waiter] \in {"load", "cas", "recheck"}
            \/ pc[Waiter] = "pending" /\ registered

Covered == \/ cx \in woken \union WP!inflight
           \/ WP!slot = cx
           \/ wakerPc[Waiter] = "reg_store" /\ held[Waiter] = cx

NInv == /\ NotifyTypeOK
        /\ SoleRegistrar
        /\ PollKnows
        /\ Watching => Covered
        /\ NoLostWakeup

\* The last waker stays covered while any thread takes a step inside the
\* AtomicWaker.
LEMMA CoveredKept ==
  ASSUME WP!IInv, SoleRegistrar, cx \in Wakers, Covered, cx' = cx,
         NEW t \in Threads, WP!Take(t) \/ WP!Continue(t)
  PROVE  Covered'
<1>1. CASE cx \in woken \union WP!inflight
  <2>1. cx \in (woken \union WP!inflight)'
    BY <1>1, WP!ComingKept
  <2> QED BY <2>1 DEF Covered
<1>2. CASE wakerPc[Waiter] = "reg_store" /\ held[Waiter] = cx
  <2>1. \/ wakerPc'[Waiter] = "reg_store" /\ held'[Waiter] = cx
        \/ WP!slot' = cx
        \/ cx \in WP!inflight'
    BY <1>2, WP!StoreKept
  <2> QED BY <2>1 DEF Covered
<1>3. CASE WP!slot = cx /\ wakerPc[Waiter] # "reg_store"
  <2>1. \A r \in Threads : wakerPc[r] # "reg_store"
    BY <1>3 DEF SoleRegistrar, WP!RegisterPCs
  <2>2. WP!slot' = cx \/ cx \in WP!inflight'
    BY <1>3, <2>1, WP!SlotKept
  <2> QED BY <2>2 DEF Covered
<1>4. CASE WP!slot = cx /\ wakerPc[Waiter] = "reg_store"
  BY <1>2, <1>4 DEF SoleRegistrar
<1> QED BY <1>1, <1>2, <1>3, <1>4 DEF Covered

\* A wake empties the slot.
LEMMA TakeClaims ==
  ASSUME WP!IInv, NEW t \in Threads, WP!Take(t)
  PROVE  WP!slot' = NoWaker
BY DEF WP!Take, WP!OrWaking, WP!slot, WP!IInv, WP!TypeOK,
       WP!WAITING, WP!REGISTERING, WP!WAKING, WP!BOTH

\* A registration of the waiting task is never ignored, and covers it.
LEMMA RegisterCovers ==
  ASSUME WP!IInv, SoleRegistrar, pc[Waiter] = "register",
         cx \in Wakers, cx' = cx, WP!Register(Waiter, cx)
  PROVE  /\ wakerState \in {WP!WAITING, WP!WAKING}
         /\ Covered'
         /\ wakerPc'[Waiter] = "reg_store" => held'[Waiter] = cx
         /\ \A n \in Notifiers : wakerPc'[n] = wakerPc[n]
<1> USE DEF WP!WAITING, WP!REGISTERING, WP!WAKING, WP!BOTH
<1>1. wakerPc[Waiter] = "idle"
  BY DEF SoleRegistrar
<1>2. wakerState \notin {WP!REGISTERING, WP!BOTH}
  BY <1>1 DEF SoleRegistrar, WP!IInv, WP!LockOwned, WP!Owns, WP!TakePCs, WP!RegisterPCs
<1>3. CASE WP!RegisterLock(Waiter, cx)
  BY <1>2, <1>3, ThreadsAssumption
     DEF WP!RegisterLock, WP!Goto, WP!Hold, WP!IInv, WP!TypeOK, Covered
<1>4. CASE WP!RegisterWhileWaking(Waiter, cx)
  <2>1. /\ wakerPc'[Waiter] = "wake" /\ held'[Waiter] = cx
        /\ \A n \in Notifiers : wakerPc'[n] = wakerPc[n]
    BY <1>4, ThreadsAssumption
       DEF WP!RegisterWhileWaking, WP!Goto, WP!Hold, WP!IInv, WP!TypeOK
  <2>2. cx \in WP!inflight'
    BY <2>1 DEF WP!inflight, WP!OnItsWay, WP!Carries
  <2> QED BY <1>4, <2>1, <2>2 DEF Covered, WP!RegisterWhileWaking
<1>5. CASE WP!RegisterIgnored(Waiter, cx)
  BY <1>2, <1>5 DEF WP!RegisterIgnored
<1> QED BY <1>3, <1>4, <1>5 DEF WP!Register

\* A step that leaves the AtomicWaker alone and the last waker with it keeps
\* what is known of both.
LEMMA WakerUnchanged ==
  ASSUME UNCHANGED <<wakerVars, cx>>
  PROVE  /\ Covered' <=> Covered
         /\ Coming' = Coming /\ W!slot' = W!slot
BY DEF wakerVars, Covered, Coming, WP!slot, WP!inflight, WP!OnItsWay,
       WP!Carries, WP!Claimed, W!slot, W!inflight, W!OnItsWay, W!Carries, W!Claimed

\* The steps of the waiting task outside the AtomicWaker.
LEMMA WaiterSteps ==
  ASSUME NInv,
         \/ NewFuture \/ Check \/ Load \/ CompareExchange \/ Recheck
         \/ Consume \/ DropFuture
  PROVE  NInv'
<1> USE DEF NInv, NotifyTypeOK, SoleRegistrar, PollKnows, Watching, Goto
<1>1. UNCHANGED <<wakerVars, cx>>
  BY DEF NewFuture, Check, Load, CompareExchange, Recheck, Consume, DropFuture
<1>2. /\ Covered' <=> Covered
      /\ Coming' = Coming /\ W!slot' = W!slot
  BY <1>1, WakerUnchanged
<1>3. /\ NotifyTypeOK'
      /\ \A n \in Notifiers : pc'[n] = pc[n]
  BY ThreadsAssumption
     DEF NewFuture, Check, Load, CompareExchange, Recheck, Consume, DropFuture
<1>4. SoleRegistrar'
  BY <1>1 DEF wakerVars, NewFuture, Check, Load, CompareExchange, Recheck,
              Consume, DropFuture
<1>5. PollKnows'
  BY DEF NewFuture, Check, Load, CompareExchange, Recheck, Consume, DropFuture
<1>6. (Watching => Covered)'
  BY <1>2 DEF NewFuture, Check, Load, CompareExchange, Recheck, Consume, DropFuture
<1>7. NoLostWakeup'
  <2>1. CASE Recheck /\ state # NOTIFIED
    <3>1. Covered /\ wakerPc[Waiter] = "idle" /\ state = WAITING
      BY <2>1 DEF Recheck
    <3>2. cx \in {W!slot} \union Coming
      BY <3>1, SameSlot DEF Covered, Coming
    <3> QED BY <1>1, <1>2, <2>1, <3>1, <3>2 DEF NoLostWakeup, Recheck
  <2>2. CASE ~(Recheck /\ state # NOTIFIED)
    <3>1. ~(pc[Waiter] = "pending" /\ registered)'
      BY <2>2 DEF NewFuture, Check, Load, CompareExchange, Recheck, Consume, DropFuture
    <3> QED BY <3>1 DEF NoLostWakeup
  <2> QED BY <2>1, <2>2
<1> QED BY <1>3, <1>4, <1>5, <1>6, <1>7

\* A poll replaces the last waker and owes nothing to the previous one.
LEMMA PollStep ==
  ASSUME NInv, NEW w \in Wakers, Poll(w)
  PROVE  NInv'
BY ThreadsAssumption
   DEF Poll, NInv, NotifyTypeOK, SoleRegistrar, PollKnows, Watching, NoLostWakeup, Goto

\* The waiting task hands its waker to register().
LEMMA RegisterStep ==
  ASSUME WP!IInv, NInv, RegisterWaker
  PROVE  NInv'
<1> USE DEF NInv, NotifyTypeOK, SoleRegistrar, PollKnows, Watching, Goto, RegisterWaker
<1>1. cx \in Wakers /\ WP!Register(Waiter, cx)
  BY SameRegister
<1>2. /\ Covered'
      /\ wakerPc'[Waiter] = "reg_store" => held'[Waiter] = cx
      /\ \A n \in Notifiers : wakerPc'[n] = wakerPc[n]
  BY <1>1, RegisterCovers
<1> QED BY <1>2, ThreadsAssumption DEF NoLostWakeup

\* notify_one() turns a waiting state into a notified one with a wake to come.
LEMMA NotifyStep ==
  ASSUME NInv, NEW n \in Notifiers, NotifyOne(n)
  PROVE  NInv'
<1> USE DEF NInv, NotifyTypeOK, SoleRegistrar, PollKnows, Watching, Goto, NotifyOne
<1>1. /\ Covered' <=> Covered
      /\ Coming' = Coming /\ W!slot' = W!slot
  BY WakerUnchanged
<1>2. n # Waiter /\ pc'[Waiter] = pc[Waiter]
  BY ThreadsAssumption
<1>3. NoLostWakeup'
  BY <1>1, <1>2 DEF NoLostWakeup
<1> QED BY <1>1, <1>2, <1>3 DEF wakerVars

\* What a step inside the AtomicWaker, other than a registration, leaves alone.
LEMMA InsideFrame ==
  ASSUME SoleRegistrar, NEW t \in Threads, WP!IInv,
         WP!Continue(t) \/ (t \in Notifiers /\ WP!Take(t))
  PROVE  /\ \A n \in Notifiers : wakerPc'[n] \notin WP!RegisterPCs
         /\ wakerPc'[Waiter] # "idle" => wakerPc[Waiter] # "idle"
         /\ wakerPc'[Waiter] = "reg_store" =>
              wakerPc[Waiter] = "reg_store" /\ held'[Waiter] = held[Waiter]
<1> USE ThreadsAssumption
    DEF SoleRegistrar, WP!IInv, WP!TypeOK, WP!RegisterPCs, WP!TakePCs, WP!PCs,
        WP!Goto, WP!Hold
<1>1. CASE t \in Notifiers /\ WP!Take(t)
  BY <1>1 DEF WP!Take
<1>2. CASE WP!Continue(t)
  BY <1>2 DEF WP!Continue, WP!RegisterStore, WP!RegisterUnlock,
              WP!RegisterContended, WP!Empty, WP!Reset, WP!WakeHeld, WP!ReturnHeld
<1> QED BY <1>1, <1>2

\* A thread inside the AtomicWaker goes on.
LEMMA InWakerStep ==
  ASSUME WP!IInv, NInv, NEW t \in Threads, InWaker(t)
  PROVE  NInv'
<1>1. WP!Continue(t) /\ UNCHANGED notifyVars /\ SoleRegistrar
  BY SameContinue DEF InWaker, NInv
<1>0. /\ \A n \in Notifiers : wakerPc'[n] \notin WP!RegisterPCs
      /\ wakerPc'[Waiter] # "idle" => wakerPc[Waiter] # "idle"
      /\ wakerPc'[Waiter] = "reg_store" =>
           wakerPc[Waiter] = "reg_store" /\ held'[Waiter] = held[Waiter]
  BY <1>1, InsideFrame
<1> USE DEF NInv, SoleRegistrar, Watching
<1>2. NotifyTypeOK' /\ PollKnows'
  BY <1>1 DEF NotifyTypeOK, PollKnows, notifyVars
<1>3. SoleRegistrar'
  <2>1. pc' = pc /\ cx' = cx
    BY <1>1 DEF notifyVars
  <2> QED BY <1>0, <2>1
<1>4. (Watching => Covered)'
  <2>1. Watching' => Watching /\ cx \in Wakers
    BY <1>1 DEF notifyVars, PollKnows
  <2> QED BY <1>1, <2>1, CoveredKept DEF notifyVars
<1>5. NoLostWakeup'
  <2> SUFFICES ASSUME pc[Waiter] = "pending" /\ registered
               PROVE  NoLostWakeup'
    BY <1>1 DEF NoLostWakeup, notifyVars
  <2>1. cx \in Wakers
    BY DEF PollKnows
  <2>2. \A r \in Threads : wakerPc[r] # "reg_store"
    BY DEF WP!RegisterPCs
  <2>3. cx \in Coming => cx \in Coming'
    BY <1>1, <2>1, WP!ComingKept, SameSlot DEF Coming
  <2>4. cx = W!slot => cx = W!slot' \/ cx \in Coming'
    BY <1>1, <2>1, <2>2, WP!SlotKept, SameSlot DEF Coming
  <2> QED BY <1>1, <2>3, <2>4 DEF NoLostWakeup, notifyVars
<1> QED BY <1>2, <1>3, <1>4, <1>5

\* A notifier that saw WAITING starts its wake.
LEMMA WakeStep ==
  ASSUME WP!IInv, NInv, NEW n \in Notifiers, Wake(n)
  PROVE  NInv'
<1> USE DEF NInv, SoleRegistrar, Watching
<1>1. WP!Take(n) /\ UNCHANGED <<state, registered, cx>>
  BY SameTake DEF Wake
<1>2. pc'[Waiter] = pc[Waiter] /\ NotifyTypeOK'
  BY ThreadsAssumption DEF Wake, Goto, NotifyTypeOK
<1>3. PollKnows'
  BY <1>1, <1>2 DEF PollKnows
<1>4. SoleRegistrar'
  BY <1>1, <1>2, InsideFrame
<1>5. (Watching => Covered)'
  <2>1. Watching' => Watching /\ cx \in Wakers
    BY <1>1, <1>2 DEF PollKnows
  <2> QED BY <1>1, <2>1, CoveredKept
<1>6. NoLostWakeup'
  <2> SUFFICES ASSUME pc[Waiter] = "pending" /\ registered
               PROVE  NoLostWakeup'
    BY <1>1, <1>2 DEF NoLostWakeup
  <2>1. cx \in Wakers
    BY DEF PollKnows
  <2>2. \A r \in Threads : wakerPc[r] # "reg_store"
    BY DEF WP!RegisterPCs
  <2>3. cx \in Coming => cx \in Coming'
    BY <1>1, <2>1, WP!ComingKept, SameSlot DEF Coming
  <2>4. cx = W!slot => cx \in Coming'
    <3>1. W!slot' = NoWaker
      BY <1>1, TakeClaims, SameSlot
    <3>2. cx = W!slot => cx = W!slot' \/ cx \in Coming'
      BY <1>1, <2>1, <2>2, WP!SlotKept, SameSlot DEF Coming
    <3> QED BY <2>1, <3>1, <3>2
  <2> QED BY <1>1, <2>3, <2>4 DEF NoLostWakeup
<1> QED BY <1>2, <1>3, <1>4, <1>5, <1>6

\* Nothing is owed to anybody when the object is dropped.
LEMMA DropStep ==
  ASSUME NInv, Drop
  PROVE  NInv'
BY DEF Drop, W!Drop, NInv, NotifyTypeOK, SoleRegistrar, PollKnows, Watching,
       NoLostWakeup, notifyVars

-----------------------------------------------------------------------------

LEMMA InitNInv == Init => NInv /\ WP!Init
BY DEF Init, NInv, NotifyTypeOK, SoleRegistrar, PollKnows, Watching, NoLostWakeup,
       W!Init, W!WAITING, WP!Init, WP!WAITING, WP!RegisterPCs

\* Every step keeps the invariant.
LEMMA NInvStep == WP!IInv /\ NInv /\ [Next]_vars => NInv'
<1> SUFFICES ASSUME WP!IInv, NInv, [Next]_vars PROVE NInv'
  OBVIOUS
<1>1. ASSUME NEW w \in Wakers, Poll(w) PROVE NInv'
  BY <1>1, PollStep
<1>2. CASE RegisterWaker
  BY <1>2, RegisterStep
<1>3. ASSUME NEW t \in Threads, InWaker(t) PROVE NInv'
  BY <1>3, InWakerStep
<1>4. ASSUME NEW n \in Notifiers, Wake(n) PROVE NInv'
  BY <1>4, WakeStep
<1>5. ASSUME NEW n \in Notifiers, NotifyOne(n) PROVE NInv'
  BY <1>5, NotifyStep
<1>6. CASE Drop
  BY <1>6, DropStep
<1>7. CASE UNCHANGED vars
  <2>1. UNCHANGED <<wakerVars, cx>> /\ UNCHANGED notifyVars
    BY <1>7 DEF vars, notifyVars
  <2>2. /\ Covered' <=> Covered
        /\ Coming' = Coming /\ W!slot' = W!slot
    BY <2>1, WakerUnchanged
  <2> QED BY <2>1, <2>2 DEF NInv, NotifyTypeOK, SoleRegistrar, PollKnows, Watching,
                            NoLostWakeup, notifyVars, wakerVars
<1> QED BY <1>1, <1>2, <1>3, <1>4, <1>5, <1>6, <1>7, WaiterSteps
        DEF Next, WaiterStep, NotifierStep

\* In every reachable state of Notify, what AtomicWaker guarantees holds of
\* its waker, and the invariant above holds.
THEOREM Invariance == Spec => [](WP!IInv /\ NInv)
<1>1. NInv => cx \in Wakers \union {NoWaker} /\ (pc[Waiter] = "register" => cx \in Wakers)
  BY DEF NInv, NotifyTypeOK, PollKnows
<1>2. NInv /\ [Next]_vars => [WP!Next]_(WP!vars)
  BY <1>1, WakerStep
<1>3. Init => WP!IInv
  BY InitNInv, WP!InitIInv
<1>4. WP!IInv /\ [WP!Next]_(WP!vars) => WP!IInv'
  BY WP!TypeStep, WP!LockStep, WP!CarryStep, WP!AliveStep DEF WP!IInv
<1> QED BY InitNInv, NInvStep, <1>2, <1>3, <1>4, PTL DEF Spec

\* Type correctness of the state, the pollers and notifiers, and the waker.
THEOREM TypeCorrectness == Spec => []TypeOK
<1>1. WP!TypeOK => W!TypeOK
  BY DEF W!TypeOK, W!PCs, W!RegisterPCs, W!TakePCs,
         W!WAITING, W!REGISTERING, W!WAKING, W!BOTH,
         WP!TypeOK, WP!PCs, WP!RegisterPCs, WP!TakePCs,
         WP!WAITING, WP!REGISTERING, WP!WAKING, WP!BOTH
<1>2. WP!IInv /\ NInv => TypeOK
  BY <1>1 DEF WP!IInv, NInv, NotifyTypeOK, TypeOK
<1> QED BY Invariance, <1>2, PTL

\* No wakeup is lost: a task left pending is covered by a waker in the slot
\* until it is notified, and from then on by a wake that is on its way, for
\* any number of threads calling notify_one().
THEOREM WakeupsAreKept == Spec => []NoLostWakeup
  BY Invariance, PTL DEF NInv

\* The branch "Concurrent register (shouldn't happen in normal usage)" is
\* never taken under a SingleWaiterNotify.
THEOREM RegistrationsAreKept == Spec => []RegistrationKept
<1>1. WP!IInv /\ NInv => RegistrationKept
  <2> SUFFICES ASSUME WP!IInv, NInv, pc[Waiter] = "register"
               PROVE  wakerState \in {W!WAITING, W!WAKING}
    BY DEF RegistrationKept
  <2> USE DEF WP!WAITING, WP!REGISTERING, WP!WAKING, WP!BOTH
  <2>1. wakerPc[Waiter] = "idle"
    BY DEF NInv, SoleRegistrar
  <2>2. wakerState \notin {WP!REGISTERING, WP!BOTH}
    BY <2>1 DEF NInv, SoleRegistrar, WP!IInv, WP!LockOwned, WP!Owns,
                WP!TakePCs, WP!RegisterPCs
  <2> QED BY <2>2 DEF WP!IInv, WP!TypeOK, W!WAITING, W!WAKING
<1> QED BY Invariance, <1>1, PTL

\* A wait completes only with a notification, and takes it; a cancelled wait
\* leaves it: the safety half of ImplementsPermit.
THEOREM PermitSafety == Spec => P!Init /\ [][P!Next]_(P!vars)
<1> USE DEF P!Next, P!Notify, P!Begin, P!Complete, P!Cancel, P!vars, permit, wait
<1>1. Init => P!Init
  BY DEF Init, P!Init
<1>2. NInv /\ [Next]_vars => [P!Next]_(P!vars)
  <2> SUFFICES ASSUME NInv, [Next]_vars PROVE [P!Next]_(P!vars)
    OBVIOUS
  <2> USE DEF NInv, NotifyTypeOK, PollKnows, Goto
  <2>1. ASSUME NEW w \in Wakers, Poll(w) PROVE [P!Next]_(P!vars)
    BY <2>1 DEF Poll
  <2>2. CASE NewFuture \/ Check \/ Load \/ CompareExchange \/ Recheck \/ RegisterWaker
    BY <2>2 DEF NewFuture, Check, Load, CompareExchange, Recheck, RegisterWaker
  <2>3. CASE Consume
    BY <2>3 DEF Consume
  <2>4. CASE DropFuture
    BY <2>4 DEF DropFuture
  <2>5. ASSUME NEW n \in Notifiers, NotifyOne(n) \/ Wake(n) PROVE [P!Next]_(P!vars)
    BY <2>5, ThreadsAssumption DEF NotifyOne, Wake
  <2>6. ASSUME NEW t \in Threads, InWaker(t) PROVE [P!Next]_(P!vars)
    BY <2>6 DEF InWaker, notifyVars
  <2>7. CASE Drop \/ UNCHANGED vars
    BY <2>7 DEF Drop, vars, notifyVars
  <2> QED BY <2>1, <2>2, <2>3, <2>4, <2>5, <2>6, <2>7
          DEF Next, WaiterStep, NotifierStep
<1> QED BY <1>1, <1>2, Invariance, PTL DEF Spec
=============================================================================
