------------------------- MODULE AtomicWakerProofs -------------------------
(***************************************************************************)
(* Proofs about AtomicWaker, for any set of threads, any set of wakers and *)
(* any split of the threads into callers of wake() and of take().          *)
(***************************************************************************)
EXTENDS AtomicWaker, TLAPS

(***************************************************************************)
(* The inductive invariant.  CellExclusive alone is not inductive: that    *)
(* two threads do not meet in the cell follows from the state word being   *)
(* exact about its owner (LockOwned), and what a thread carries from one   *)
(* of its steps to the next is WakerCarried.  The refinement also needs    *)
(* that no call is in progress on a dropped object.                        *)
(***************************************************************************)
CallsAlive == \A t \in Threads : pc[t] # "idle" => alive

IInv == TypeOK /\ LockOwned /\ WakerCarried /\ CallsAlive

\* The names a step of the lock is made of.
USE DEF WAITING, REGISTERING, WAKING, BOTH, RegisterPCs, TakePCs, PCs

-----------------------------------------------------------------------------

\* The initial state has the invariant.
LEMMA InitIInv == Init => IInv
  BY WakersAssumption DEF Init, IInv, TypeOK, LockOwned, WakerCarried, CallsAlive, Owns

\* Every step keeps the types: no call leaves the state word or a local
\* variable outside the values the code names, and a thread that wakes has a
\* waker to wake (this needs WakerCarried).
LEMMA TypeStep == IInv /\ [Next]_vars => TypeOK'
<1> SUFFICES ASSUME TypeOK, WakerCarried, [Next]_vars PROVE TypeOK'
  BY DEF IInv
<1> USE DEF TypeOK, Goto, Hold
<1>1. ASSUME NEW t \in Threads, NEW w \in Wakers, Register(t, w) PROVE TypeOK'
  BY <1>1 DEF Register, RegisterLock, RegisterWhileWaking, RegisterIgnored
<1>2. ASSUME NEW t \in Threads, Take(t) PROVE TypeOK'
  BY <1>2 DEF Take, OrWaking
<1>3. ASSUME NEW t \in Threads, Continue(t) PROVE TypeOK'
  <2>1. CASE RegisterStore(t) \/ RegisterUnlock(t) \/ RegisterContended(t)
    BY <2>1 DEF RegisterStore, RegisterUnlock, RegisterContended
  <2>2. CASE Empty(t)
    BY <2>2 DEF Empty
  <2>3. CASE Reset(t)
    BY <2>3 DEF Reset
  <2>4. CASE WakeHeld(t)
    BY <2>4 DEF WakeHeld, WakerCarried
  <2>5. CASE ReturnHeld(t)
    BY <2>5 DEF ReturnHeld
  <2> QED BY <1>3, <2>1, <2>2, <2>3, <2>4, <2>5 DEF Continue
<1>4. ASSUME NEW w \in Wakers, Run(w) PROVE TypeOK'
  BY <1>4 DEF Run
<1>5. CASE Drop
  BY <1>5 DEF Drop
<1>6. CASE UNCHANGED vars
  BY <1>6 DEF vars
<1> QED BY <1>1, <1>2, <1>3, <1>4, <1>5, <1>6 DEF Next

\* Every step keeps the state word exact: a thread enters the lock only from
\* WAITING, and the state returns to WAITING only with its owner's release.
LEMMA LockStep == IInv /\ [Next]_vars => LockOwned'
<1> SUFFICES ASSUME TypeOK, LockOwned, [Next]_vars PROVE LockOwned'
  BY DEF IInv
<1> USE DEF TypeOK, LockOwned, Owns, Goto, Hold
<1>1. ASSUME NEW t \in Threads, NEW w \in Wakers, Register(t, w)
      PROVE  LockOwned'
  <2>1. CASE RegisterLock(t, w)
    <3>1. /\ \A u \in Threads : ~Owns(u)
          /\ pc'[t] = "reg_store"
          /\ \A u \in Threads \ {t} : pc'[u] = pc[u]
          /\ state' = REGISTERING
      BY <2>1 DEF RegisterLock
    <3> QED BY <3>1
  <2>2. CASE RegisterWhileWaking(t, w)
    BY <2>2 DEF RegisterWhileWaking
  <2>3. CASE RegisterIgnored(t, w)
    BY <2>3 DEF RegisterIgnored
  <2> QED BY <1>1, <2>1, <2>2, <2>3 DEF Register
<1>2. ASSUME NEW t \in Threads, Take(t) PROVE LockOwned'
  <2>1. CASE state = WAITING
    <3>1. /\ \A u \in Threads : ~Owns(u)
          /\ pc'[t] = "take_cell"
          /\ \A u \in Threads \ {t} : pc'[u] = pc[u]
          /\ state' = WAKING
      BY <1>2, <2>1 DEF Take, OrWaking
    <3> QED BY <3>1
  <2>2. CASE state # WAITING
    BY <1>2, <2>2 DEF Take, OrWaking
  <2> QED BY <2>1, <2>2
<1>3. ASSUME NEW t \in Threads, Continue(t) PROVE LockOwned'
  <2>1. CASE RegisterStore(t)
    <3>1. /\ pc[t] = "reg_store" /\ pc'[t] = "reg_unlock"
          /\ \A u \in Threads \ {t} : pc'[u] = pc[u]
          /\ state' = state
      BY <2>1 DEF RegisterStore
    <3> QED BY <3>1
  <2>2. CASE RegisterUnlock(t)
    BY <2>2 DEF RegisterUnlock
  <2>3. CASE RegisterContended(t)
    <3>1. /\ pc[t] = "reg_unlock" /\ pc'[t] = "reg_take"
          /\ \A u \in Threads \ {t} : pc'[u] = pc[u]
          /\ state = BOTH /\ state' = BOTH
      BY <2>3 DEF RegisterContended
    <3> QED BY <3>1
  <2>4. CASE Empty(t)
    <3>1. /\ \/ pc[t] = "take_cell" /\ pc'[t] = "take_reset"
             \/ pc[t] = "reg_take" /\ pc'[t] = "reg_reset"
          /\ \A u \in Threads \ {t} : pc'[u] = pc[u]
          /\ state' = state
      BY <2>4 DEF Empty
    <3> QED BY <3>1
  <2>5. CASE Reset(t)
    <3>1. /\ Owns(t) /\ ~Owns(t)'
          /\ \A u \in Threads \ {t} : pc'[u] = pc[u]
          /\ state' = WAITING
      BY <2>5 DEF Reset
    <3>2. \A u \in Threads : ~Owns(u)'
      BY <3>1
    <3> QED BY <3>1, <3>2
  <2>6. CASE WakeHeld(t) \/ ReturnHeld(t)
    <3>1. /\ ~Owns(t) /\ ~Owns(t)'
          /\ \A u \in Threads \ {t} : pc'[u] = pc[u]
          /\ state' = state
          /\ pc'[t] = "idle"
      BY <2>6 DEF WakeHeld, ReturnHeld
    <3>2. \A u \in Threads : Owns(u)' <=> Owns(u)
      BY <3>1
    <3> QED BY <3>1, <3>2
  <2> QED BY <1>3, <2>1, <2>2, <2>3, <2>4, <2>5, <2>6 DEF Continue
<1>4. ASSUME NEW w \in Wakers, Run(w) PROVE LockOwned'
  BY <1>4 DEF Run
<1>5. CASE Drop
  BY <1>5 DEF Drop
<1>6. CASE UNCHANGED vars
  BY <1>6 DEF vars
<1> QED BY <1>1, <1>2, <1>3, <1>4, <1>5, <1>6 DEF Next

\* Every step keeps what threads carry: only the owner of the lock touches
\* the cell, so a registrar finds there what it stored.
LEMMA CarryStep == IInv /\ [Next]_vars => WakerCarried'
<1> SUFFICES ASSUME TypeOK, LockOwned, WakerCarried, [Next]_vars
             PROVE  WakerCarried'
  BY DEF IInv
<1> USE DEF TypeOK, LockOwned, Owns, WakerCarried, Goto, Hold
<1>1. ASSUME NEW t \in Threads, NEW w \in Wakers, Register(t, w)
      PROVE  WakerCarried'
  BY <1>1, WakersAssumption
     DEF Register, RegisterLock, RegisterWhileWaking, RegisterIgnored
<1>2. ASSUME NEW t \in Threads, Take(t) PROVE WakerCarried'
  BY <1>2 DEF Take
<1>3. ASSUME NEW t \in Threads, Continue(t) PROVE WakerCarried'
  <2>1. CASE RegisterStore(t)
    BY <2>1 DEF RegisterStore
  <2>2. CASE RegisterUnlock(t) \/ RegisterContended(t)
    BY <2>2 DEF RegisterUnlock, RegisterContended
  <2>3. CASE Empty(t)
    BY <2>3 DEF Empty
  <2>4. CASE Reset(t)
    BY <2>4 DEF Reset
  <2>5. CASE WakeHeld(t) \/ ReturnHeld(t)
    BY <2>5 DEF WakeHeld, ReturnHeld
  <2> QED BY <1>3, <2>1, <2>2, <2>3, <2>4, <2>5 DEF Continue
<1>4. ASSUME NEW w \in Wakers, Run(w) PROVE WakerCarried'
  BY <1>4 DEF Run
<1>5. CASE Drop
  BY <1>5 DEF Drop
<1>6. CASE UNCHANGED vars
  BY <1>6 DEF vars
<1> QED BY <1>1, <1>2, <1>3, <1>4, <1>5, <1>6 DEF Next

\* Every step keeps the object alive under the calls in progress: a call
\* starts only on a live object, and only an idle one is dropped.
LEMMA AliveStep == IInv /\ [Next]_vars => CallsAlive'
<1> SUFFICES ASSUME TypeOK, CallsAlive, [Next]_vars PROVE CallsAlive'
  BY DEF IInv
<1> USE DEF TypeOK, CallsAlive, Goto
<1>1. ASSUME NEW t \in Threads, NEW w \in Wakers, Register(t, w)
      PROVE  CallsAlive'
  BY <1>1 DEF Register, RegisterLock, RegisterWhileWaking, RegisterIgnored
<1>2. ASSUME NEW t \in Threads, Take(t) PROVE CallsAlive'
  BY <1>2 DEF Take
<1>3. ASSUME NEW t \in Threads, Continue(t) PROVE CallsAlive'
  BY <1>3 DEF Continue, RegisterStore, RegisterUnlock, RegisterContended,
              Empty, Reset, WakeHeld, ReturnHeld
<1>4. ASSUME NEW w \in Wakers, Run(w) PROVE CallsAlive'
  BY <1>4 DEF Run
<1>5. CASE Drop
  BY <1>5 DEF Drop
<1>6. CASE UNCHANGED vars
  BY <1>6 DEF vars
<1> QED BY <1>1, <1>2, <1>3, <1>4, <1>5, <1>6 DEF Next

-----------------------------------------------------------------------------

\* The inductive invariant holds in every state of every behaviour.
THEOREM Invariance == Spec => []IInv
<1>1. IInv /\ [Next]_vars => IInv'
  BY TypeStep, LockStep, CarryStep, AliveStep DEF IInv
<1> QED BY InitIInv, <1>1, PTL DEF Spec

\* Type correctness: the state word, the cell and every local variable stay
\* within the values the code gives them.
THEOREM TypeCorrectness == Spec => []TypeOK
  BY Invariance, PTL DEF IInv

\* The state word is exact about who is inside register() or take(), with
\* any number of threads calling them.
THEOREM LockIsOwned == Spec => []LockOwned
  BY Invariance, PTL DEF IInv

\* No waker is lost in a local variable or replaced under a registrar.
THEOREM WakersAreCarried == Spec => []WakerCarried
  BY Invariance, PTL DEF IInv

\* No data race on the waker cell: of any number of threads calling
\* register(), take() and wake(), one at a time accesses it.
THEOREM NoRaceOnCell == Spec => []CellExclusive
<1>1. IInv => CellExclusive
  BY DEF IInv, LockOwned, CellExclusive, TouchesCell, Owns
<1> QED BY Invariance, <1>1, PTL

-----------------------------------------------------------------------------
(***************************************************************************)
(* AtomicWaker implements WakerSlot.  A wake takes effect on the slot when *)
(* it sets its bit, a registration when it stores into the cell, or, if a  *)
(* wake has set its bit by then, at that wake.                             *)
(***************************************************************************)

USE DEF OnItsWay, Carries, Claimed

\* A thread outside the lock carries only what it is about to wake or return,
\* whatever happens to the state word and the cell.
LEMMA OutsideLock ==
  ASSUME NEW t \in Threads, ~Owns(t), NEW w \in Wakers
  PROVE  OnItsWay(t, w) <=> pc[t] \in {"wake", "return"} /\ held[t] = w
  BY DEF Owns

\* A step that moves what thread t carries from one place to another, and
\* changes nothing the other threads carry, leaves inflight as it is.
LEMMA SameInflight ==
  ASSUME NEW t \in Threads,
         \A u \in Threads \ {t}, w \in Wakers : OnItsWay(u, w)' <=> OnItsWay(u, w),
         \A w \in Wakers : OnItsWay(t, w)' <=> OnItsWay(t, w)
  PROVE  inflight' = inflight
<1>1. \A u \in Threads, w \in Wakers : OnItsWay(u, w)' <=> OnItsWay(u, w)
  OBVIOUS
<1> HIDE DEF OnItsWay
<1> QED BY <1>1 DEF inflight

\* One that adds w to what thread t carries adds it to inflight.
LEMMA MoreInflight ==
  ASSUME NEW t \in Threads, NEW w \in Wakers,
         \A u \in Threads \ {t}, v \in Wakers : OnItsWay(u, v)' <=> OnItsWay(u, v),
         \A v \in Wakers : OnItsWay(t, v)' <=> v = w,
         \A v \in Wakers : ~OnItsWay(t, v)
  PROVE  inflight' = inflight \union {w}
<1> HIDE DEF OnItsWay
<1>1. \A v \in Wakers : v \in inflight' <=> v \in inflight \/ v = w
  BY DEF inflight
<1>2. inflight \subseteq Wakers /\ inflight' \subseteq Wakers
  BY DEF inflight
<1> QED BY <1>1, <1>2

\* One that takes w from thread t takes it from inflight, unless some other
\* thread carries it too.
LEMMA LessInflight ==
  ASSUME NEW t \in Threads, NEW w \in Wakers,
         \A u \in Threads \ {t}, v \in Wakers : OnItsWay(u, v)' <=> OnItsWay(u, v),
         \A v \in Wakers : OnItsWay(t, v) <=> v = w,
         \A v \in Wakers : ~OnItsWay(t, v)'
  PROVE  w \in inflight /\ inflight' \in {inflight, inflight \ {w}}
<1> HIDE DEF OnItsWay
<1>1. w \in inflight
  BY DEF inflight
<1>2. \A v \in Wakers \ {w} : v \in inflight' <=> v \in inflight
  BY DEF inflight
<1>3. inflight \subseteq Wakers /\ inflight' \subseteq Wakers
  BY DEF inflight
<1> QED BY <1>1, <1>2, <1>3

\* register() before it has the lock: the three outcomes of its first
\* compare_exchange.
LEMMA RegisterSteps ==
  ASSUME IInv, NEW t \in Threads, NEW w \in Wakers, Register(t, w)
  PROVE  [Slot!Next]_(Slot!vars)
<1> USE DEF IInv, TypeOK, LockOwned, WakerCarried, Owns, Goto, Hold
<1>1. CASE RegisterLock(t, w)
  <2>1. \A u \in Threads \ {t}, v \in Wakers : OnItsWay(u, v)' <=> OnItsWay(u, v)
    BY <1>1 DEF RegisterLock
  <2>2. \A v \in Wakers : OnItsWay(t, v)' <=> OnItsWay(t, v)
    BY <1>1 DEF RegisterLock
  <2>3. inflight' = inflight
    BY <2>1, <2>2, SameInflight
  <2> QED BY <1>1, <2>3 DEF RegisterLock, slot, Slot!vars
<1>2. CASE RegisterWhileWaking(t, w)
  <2>1. \A u \in Threads \ {t}, v \in Wakers : OnItsWay(u, v)' <=> OnItsWay(u, v)
    BY <1>2 DEF RegisterWhileWaking
  <2>2. \A v \in Wakers : OnItsWay(t, v)' <=> v = w
    BY <1>2 DEF RegisterWhileWaking
  <2>3. \A v \in Wakers : ~OnItsWay(t, v)
    BY <1>2 DEF RegisterWhileWaking
  <2>4. inflight' = inflight \union {w}
    BY <2>1, <2>2, <2>3, MoreInflight
  <2>5. Slot!RegisterWoken(w)
    BY <1>2, <2>4 DEF RegisterWhileWaking, slot, Slot!RegisterWoken
  <2> QED BY <2>5 DEF Slot!Next
<1>3. CASE RegisterIgnored(t, w)
  BY <1>3 DEF RegisterIgnored, slot, inflight, Slot!vars
<1> QED BY <1>1, <1>2, <1>3 DEF Register

\* A step inside the lock of the cell.
LockedStep(t) == \/ RegisterStore(t)
                 \/ RegisterUnlock(t)
                 \/ RegisterContended(t)
                 \/ Empty(t)
                 \/ Reset(t)

\* Inside the lock, a waker that is on its way moves between the cell and the
\* local variables of its owner, and stays on its way.
LEMMA LockedCarry ==
  ASSUME IInv, NEW t \in Threads, LockedStep(t)
  PROVE  \A u \in Threads, v \in Wakers : OnItsWay(u, v)' <=> OnItsWay(u, v)
<1> USE DEF IInv, TypeOK, LockOwned, WakerCarried, Owns, Goto, Hold
<1>1. Owns(t) /\ \A u \in Threads \ {t} : ~Owns(u) /\ pc'[u] = pc[u] /\ held'[u] = held[u]
  BY DEF LockedStep, RegisterStore, RegisterUnlock, RegisterContended, Empty, Reset
<1>2. \A u \in Threads \ {t}, v \in Wakers : OnItsWay(u, v)' <=> OnItsWay(u, v)
  BY <1>1
<1>3. \A v \in Wakers : OnItsWay(t, v)' <=> OnItsWay(t, v)
  <2>1. CASE RegisterStore(t)
    BY <2>1 DEF RegisterStore
  <2>2. CASE RegisterUnlock(t) \/ RegisterContended(t)
    BY <2>2 DEF RegisterUnlock, RegisterContended
  <2>3. CASE Empty(t)
    BY <2>3 DEF Empty
  <2>4. CASE Reset(t)
    BY <2>4, WakersAssumption DEF Reset
  <2> QED BY <2>1, <2>2, <2>3, <2>4 DEF LockedStep
<1> HIDE DEF OnItsWay, IInv, TypeOK, LockOwned, WakerCarried
<1> QED BY <1>2, <1>3

\* register() inside the lock, and what is common with take(): storing the
\* waker, releasing the lock, taking the waker back out.
LEMMA LockedSteps ==
  ASSUME IInv, NEW t \in Threads, LockedStep(t)
  PROVE  [Slot!Next]_(Slot!vars)
<1> USE DEF IInv, TypeOK, LockOwned, WakerCarried, Owns, Goto, Hold
<1>1. inflight' = inflight
  <2>1. \A u \in Threads, v \in Wakers : OnItsWay(u, v)' <=> OnItsWay(u, v)
    BY LockedCarry
  <2> HIDE DEF OnItsWay, IInv, TypeOK, LockOwned, WakerCarried
  <2> QED BY <2>1, SameInflight
<1>2. CASE RegisterStore(t)
  <2>1. CASE state = REGISTERING
    <3>1. held[t] \in Wakers
      BY <1>2 DEF RegisterStore
    <3>2. alive
      BY <1>2 DEF RegisterStore, CallsAlive
    <3> QED BY <1>1, <1>2, <2>1, <3>1, <3>2
            DEF RegisterStore, slot, Slot!Next, Slot!Register
  <2>2. CASE state = BOTH
    BY <1>1, <1>2, <2>2 DEF RegisterStore, slot, Slot!vars
  <2> QED BY <1>2, <2>1, <2>2 DEF RegisterStore
<1>3. CASE RegisterUnlock(t) \/ RegisterContended(t)
  BY <1>1, <1>3 DEF RegisterUnlock, RegisterContended, slot, Slot!vars
<1>4. CASE Empty(t)
  BY <1>1, <1>4 DEF Empty, slot, Slot!vars
<1>5. CASE Reset(t)
  BY <1>1, <1>5 DEF Reset, slot, Slot!vars
<1> QED BY <1>2, <1>3, <1>4, <1>5 DEF LockedStep

\* take(), and so wake(), at its fetch_or: what is registered is claimed, be
\* it in the cell already or still with the registrar.
LEMMA TakeSteps ==
  ASSUME IInv, NEW t \in Threads, Take(t)
  PROVE  [Slot!Next]_(Slot!vars)
<1> USE DEF IInv, TypeOK, LockOwned, WakerCarried, Owns, Goto, Hold
<1>1. alive /\ alive' = alive /\ held' = held /\ cell' = cell /\ woken' = woken
  BY DEF Take
<1>2. \A u \in Threads \ {t} : pc'[u] = pc[u]
  BY DEF Take
<1>3. CASE state = WAITING
  <2>1. \A u \in Threads \ {t}, v \in Wakers : OnItsWay(u, v)' <=> OnItsWay(u, v)
    BY <1>1, <1>2, <1>3
  <2>2. /\ \A v \in Wakers : OnItsWay(t, v)' <=> v = cell
        /\ \A v \in Wakers : ~OnItsWay(t, v)
    BY <1>3 DEF Take, OrWaking
  <2>3. slot = cell /\ slot' = NoWaker
    BY <1>3 DEF Take, OrWaking, slot
  <2>4. CASE cell \in Wakers
    <3>1. inflight' = inflight \union {cell}
      BY <2>1, <2>2, <2>4, MoreInflight
    <3>2. Slot!Wake
      BY <1>1, <2>3, <2>4, <3>1, WakersAssumption DEF Slot!Wake
    <3> QED BY <3>2 DEF Slot!Next
  <2>5. CASE cell = NoWaker
    <3>1. inflight' = inflight
      <4>1. \A v \in Wakers : OnItsWay(t, v)' <=> OnItsWay(t, v)
        BY <2>2, <2>5, WakersAssumption
      <4> QED BY <2>1, <4>1, SameInflight
    <3> QED BY <1>1, <2>3, <2>5, <3>1 DEF Slot!vars
  <2> QED BY <2>4, <2>5
<1>4. CASE state = REGISTERING
  <2>1. PICK r \in Threads : pc[r] \in {"reg_store", "reg_unlock"}
    BY <1>4
  <2>2. r # t /\ state' = BOTH /\ pc' = pc
    BY <1>4, <2>1 DEF Take, OrWaking
  <2>3. \A u \in Threads \ {r}, v \in Wakers : OnItsWay(u, v)' <=> OnItsWay(u, v)
    BY <1>1, <1>4, <2>1, <2>2
  <2>4. slot = cell /\ slot' = NoWaker
    BY <1>4, <2>2 DEF slot
  <2>5. CASE pc[r] = "reg_store"
    <3>1. held[r] \in Wakers
      BY <2>5
    <3>2. /\ \A v \in Wakers : OnItsWay(r, v)' <=> v = held[r]
          /\ \A v \in Wakers : ~OnItsWay(r, v)
      BY <1>1, <1>4, <2>2, <2>5
    <3>3. inflight' = inflight \union {held[r]}
      BY <2>3, <3>1, <3>2, MoreInflight
    <3>4. Slot!RegisterWoken(held[r])
      BY <1>1, <2>4, <3>3 DEF Slot!RegisterWoken
    <3> QED BY <3>1, <3>4 DEF Slot!Next
  <2>6. CASE pc[r] = "reg_unlock"
    <3>1. cell \in Wakers
      BY <2>6
    <3>2. /\ \A v \in Wakers : OnItsWay(r, v)' <=> v = cell
          /\ \A v \in Wakers : ~OnItsWay(r, v)
      BY <1>1, <1>4, <2>2, <2>6
    <3>3. inflight' = inflight \union {cell}
      BY <2>3, <3>1, <3>2, MoreInflight
    <3>4. Slot!Wake
      BY <1>1, <2>4, <3>1, <3>3, WakersAssumption DEF Slot!Wake
    <3> QED BY <3>4 DEF Slot!Next
  <2> QED BY <2>1, <2>5, <2>6
<1>5. CASE state \in {WAKING, BOTH}
  <2>1. pc' = pc /\ state' = state
    BY <1>5 DEF Take, OrWaking
  <2> QED BY <1>1, <2>1 DEF slot, inflight, Slot!vars
<1> QED BY <1>3, <1>4, <1>5

\* The end of a call: the waker is woken, or given to the caller of take().
LEMMA DeliverySteps ==
  ASSUME IInv, NEW t \in Threads, WakeHeld(t) \/ ReturnHeld(t)
  PROVE  [Slot!Next]_(Slot!vars)
<1> USE DEF IInv, TypeOK, WakerCarried, Goto, Hold
<1> DEFINE w == held[t]
<1>1. w \in Wakers
  BY DEF WakeHeld, ReturnHeld
<1>2. /\ alive' = alive /\ cell' = cell /\ state' = state
      /\ pc[t] \in {"wake", "return"} /\ pc'[t] = "idle"
      /\ \A u \in Threads \ {t} : pc'[u] = pc[u] /\ held'[u] = held[u]
  BY DEF WakeHeld, ReturnHeld
<1>3. \A u \in Threads \ {t}, v \in Wakers : OnItsWay(u, v)' <=> OnItsWay(u, v)
  BY <1>2
<1>4. \A v \in Wakers : (OnItsWay(t, v) <=> v = w) /\ ~OnItsWay(t, v)'
  BY <1>2
<1>5. w \in inflight /\ inflight' \in {inflight, inflight \ {w}}
  BY <1>1, <1>3, <1>4, LessInflight
<1>6. Slot!Arrive(w)
  BY <1>2, <1>5 DEF slot, Slot!Arrive
<1>7. CASE WakeHeld(t)
  <2>1. Slot!Deliver(w)
    BY <1>6, <1>7 DEF WakeHeld, Slot!Deliver
  <2> QED BY <1>1, <2>1 DEF Slot!Next
<1>8. CASE ReturnHeld(t)
  <2>1. TakeOnly # {}
    BY <1>8 DEF ReturnHeld
  <2>2. Slot!HandOver(w)
    BY <1>6, <1>8, <2>1 DEF ReturnHeld, Slot!HandOver
  <2> QED BY <1>1, <2>2 DEF Slot!Next
<1> QED BY <1>7, <1>8

\* Dropping the object finds nothing in flight.
LEMMA DropStep ==
  ASSUME IInv, Drop
  PROVE  [Slot!Next]_(Slot!vars)
<1>1. \A u \in Threads, v \in Wakers : ~OnItsWay(u, v) /\ ~OnItsWay(u, v)'
  BY DEF Drop
<1>2. inflight = {} /\ inflight' = {}
  <2> HIDE DEF OnItsWay
  <2> QED BY <1>1 DEF inflight
<1>3. slot' = NoWaker
  BY DEF Drop, slot
<1>4. Slot!Drop
  BY <1>2, <1>3 DEF Drop, Slot!Drop
<1> QED BY <1>4 DEF Slot!Next

\* AtomicWaker implements WakerSlot: register(), wake() and take() behave as
\* if each were atomic on a slot, for any number of threads and wakers.
THEOREM Refinement == Spec => ImplementsSlot
<1>1. Init => Slot!Init
  <2> SUFFICES ASSUME Init PROVE Slot!Init
    OBVIOUS
  <2>1. \A u \in Threads, v \in Wakers : ~OnItsWay(u, v)
    BY DEF Init
  <2>2. inflight = {}
    <3> HIDE DEF OnItsWay
    <3> QED BY <2>1 DEF inflight
  <2> QED BY <2>2 DEF Init, slot, Slot!Init
<1>2. IInv /\ [Next]_vars => [Slot!Next]_(Slot!vars)
  <2> SUFFICES ASSUME IInv, [Next]_vars PROVE [Slot!Next]_(Slot!vars)
    OBVIOUS
  <2>1. ASSUME NEW t \in Threads, NEW w \in Wakers, Register(t, w)
        PROVE  [Slot!Next]_(Slot!vars)
    BY <2>1, RegisterSteps
  <2>2. ASSUME NEW t \in Threads, Take(t)
        PROVE  [Slot!Next]_(Slot!vars)
    BY <2>2, TakeSteps
  <2>3. ASSUME NEW t \in Threads, Continue(t)
        PROVE  [Slot!Next]_(Slot!vars)
    BY <2>3, LockedSteps, DeliverySteps DEF Continue, LockedStep
  <2>4. ASSUME NEW w \in Wakers, Run(w)
        PROVE  [Slot!Next]_(Slot!vars)
    <3>1. Slot!Run(w)
      BY <2>4 DEF Run, slot, inflight, Slot!Run
    <3> QED BY <3>1 DEF Slot!Next
  <2>5. CASE Drop
    BY <2>5, DropStep
  <2>6. CASE UNCHANGED vars
    BY <2>6 DEF vars, slot, inflight, Slot!vars
  <2> QED BY <2>1, <2>2, <2>3, <2>4, <2>5, <2>6 DEF Next
<1> QED BY <1>1, <1>2, Invariance, PTL DEF Spec, ImplementsSlot, Slot!Spec

-----------------------------------------------------------------------------
(***************************************************************************)
(* What a user of wake() relies on, step by step: a waker that has been    *)
(* taken reaches its task, and one that is registered is not forgotten.    *)
(***************************************************************************)

\* A waker on its way stays on its way until it is woken, when nobody calls
\* take() for itself.
LEMMA ComingKept ==
  ASSUME IInv, TakeOnly = {}, NEW t \in Threads, Take(t) \/ Continue(t),
         NEW w \in Wakers, w \in woken \union inflight
  PROVE  w \in (woken \union inflight)'
<1> USE DEF IInv, TypeOK, LockOwned, WakerCarried, Owns, Goto, Hold
<1>1. CASE w \in woken
  BY <1>1 DEF Take, Continue, RegisterStore, RegisterUnlock, RegisterContended,
              Empty, Reset, WakeHeld, ReturnHeld
<1>2. CASE w \in inflight
  <2>1. PICK u \in Threads : OnItsWay(u, w)
    BY <1>2 DEF inflight
  <2>2. CASE LockedStep(t)
    BY <2>1, <2>2, LockedCarry DEF inflight
  <2>3. CASE Take(t)
    <3>1. OnItsWay(u, w)'
      BY <2>1, <2>3 DEF Take, OrWaking
    <3> QED BY <3>1 DEF inflight
  <2>4. CASE WakeHeld(t)
    <3>1. CASE u = t
      BY <2>1, <2>4, <3>1 DEF WakeHeld
    <3>2. CASE u # t
      <4>1. OnItsWay(u, w)'
        BY <2>1, <2>4, <3>2 DEF WakeHeld
      <4> QED BY <4>1 DEF inflight
    <3> QED BY <3>1, <3>2
  <2>5. CASE ReturnHeld(t)
    BY <2>5 DEF ReturnHeld
  <2> QED BY <2>2, <2>3, <2>4, <2>5 DEF Continue, LockedStep
<1> QED BY <1>1, <1>2

\* A registered waker stays registered or is taken, unless a registration is
\* about to replace it.
LEMMA SlotKept ==
  ASSUME IInv, NEW t \in Threads, Take(t) \/ Continue(t),
         \A r \in Threads : pc[r] # "reg_store",
         NEW w \in Wakers, slot = w
  PROVE  slot' = w \/ w \in inflight'
<1> USE DEF IInv, TypeOK, LockOwned, WakerCarried, Owns, Goto, Hold
<1>1. cell = w /\ state \in {WAITING, REGISTERING}
  BY WakersAssumption DEF slot
<1>2. CASE Take(t)
  <2>1. PICK r \in Threads : OnItsWay(r, w)'
    <3>1. CASE state = WAITING
      BY <1>1, <1>2, <3>1 DEF Take, OrWaking
    <3>2. CASE state = REGISTERING
      <4>1. PICK r \in Threads : pc[r] = "reg_unlock"
        BY <3>2
      <4> QED BY <1>1, <1>2, <3>2, <4>1 DEF Take, OrWaking
    <3> QED BY <1>1, <3>1, <3>2
  <2> QED BY <2>1 DEF inflight
<1>3. CASE Continue(t)
  BY <1>1, <1>3 DEF Continue, RegisterStore, RegisterUnlock, RegisterContended,
                    Empty, Reset, WakeHeld, ReturnHeld, slot
<1> QED BY <1>2, <1>3

\* A waker that is being registered is stored, or taken by a wake that came
\* first.
LEMMA StoreKept ==
  ASSUME IInv, NEW t \in Threads, Take(t) \/ Continue(t),
         NEW r \in Threads, pc[r] = "reg_store",
         NEW w \in Wakers, held[r] = w
  PROVE  \/ pc'[r] = "reg_store" /\ held'[r] = w
         \/ slot' = w
         \/ w \in inflight'
<1> USE DEF IInv, TypeOK, LockOwned, WakerCarried, Owns, Goto, Hold
<1>1. CASE t = r
  <2>1. RegisterStore(t)
    BY <1>1 DEF Take, Continue, RegisterUnlock, RegisterContended, Empty, Reset,
                WakeHeld, ReturnHeld
  <2>2. CASE state = REGISTERING
    BY <1>1, <2>1, <2>2 DEF RegisterStore, slot
  <2>3. CASE state = BOTH
    <3>1. OnItsWay(r, w)'
      BY <1>1, <2>1, <2>3 DEF RegisterStore
    <3> QED BY <3>1 DEF inflight
  <2> QED BY <2>2, <2>3
<1>2. CASE t # r
  BY <1>2 DEF Take, Continue, RegisterStore, RegisterUnlock, RegisterContended,
              Empty, Reset, WakeHeld, ReturnHeld
<1> QED BY <1>1, <1>2
=============================================================================
