----------------------------- MODULE AtomicWaker -----------------------------
(***************************************************************************)
(* atomic_waker.rs: a cell holding an optional waker, guarded by a two-bit *)
(* atomic state that is at once the lock of the cell and the record of a   *)
(* wake that met a registration.                                           *)
(*                                                                         *)
(* One action per atomic instruction or access to the cell; pc[t] names    *)
(* what thread t does next.  A call starts with its first atomic           *)
(* instruction.  Atomics are sequentially consistent here.                 *)
(***************************************************************************)
CONSTANTS Threads,   \* the threads sharing the object
          TakeOnly,  \* those of them that call take() where others call wake()
          Wakers,
          NoWaker    \* None

ASSUME ThreadsAssumption == TakeOnly \subseteq Threads
ASSUME WakersAssumption == NoWaker \notin Wakers

VARIABLES state,  \* AtomicWaker.state
          cell,   \* AtomicWaker.waker
          pc,     \* per thread: the next instruction of its call
          held,   \* per thread: the waker a local variable of the call owns
          woken,  \* the wakers whose task is scheduled and has not run yet
          alive   \* the object has not been dropped

vars == <<state, cell, pc, held, woken, alive>>

WAITING     == "WAITING"
REGISTERING == "REGISTERING"
WAKING      == "WAKING"
BOTH        == "REGISTERING | WAKING"

\* Mutant: fetch_add in place of fetch_or carries out of the WAKING bit.
OrWakingByAdd(s) == CASE s = WAITING     -> WAKING
                      [] s = REGISTERING -> BOTH
                      [] s = WAKING      -> "WAKING + WAKING"
                      [] OTHER           -> "BOTH + WAKING"

\* state.fetch_or(WAKING)
OrWaking(s) == IF s \in {WAITING, WAKING} THEN WAKING ELSE BOTH

RegisterPCs == {"reg_store", "reg_unlock", "reg_take", "reg_reset"}
TakePCs     == {"take_cell", "take_reset"}
PCs == {"idle", "wake", "return"} \union RegisterPCs \union TakePCs

TypeOK == /\ state \in {WAITING, REGISTERING, WAKING, BOTH}
          /\ cell \in Wakers \union {NoWaker}
          /\ pc \in [Threads -> PCs]
          /\ \A t \in Threads : pc[t] = "return" => t \in TakeOnly
          /\ held \in [Threads -> Wakers \union {NoWaker}]
          /\ woken \in SUBSET Wakers
          /\ alive \in BOOLEAN

Init == /\ state = WAITING
        /\ cell = NoWaker
        /\ pc = [t \in Threads |-> "idle"]
        /\ held = [t \in Threads |-> NoWaker]
        /\ woken = {}
        /\ alive = TRUE

Goto(t, label) == pc' = [pc EXCEPT ![t] = label]
Hold(t, w)     == held' = [held EXCEPT ![t] = w]

-----------------------------------------------------------------------------
(* register(w) *)

\* compare_exchange(WAITING, REGISTERING) succeeds.
RegisterLock(t, w) ==
  /\ alive /\ pc[t] = "idle"
  /\ state = WAITING
  /\ state' = REGISTERING
  /\ Hold(t, w)
  /\ Goto(t, "reg_store")
  /\ UNCHANGED <<cell, woken, alive>>

\* It fails with WAKING: the new waker is woken by reference.
RegisterWhileWaking(t, w) ==
  /\ alive /\ pc[t] = "idle"
  /\ state = WAKING
  /\ Hold(t, w)
  /\ Goto(t, "wake")
  /\ UNCHANGED <<state, cell, woken, alive>>

\* It fails with any other value: the registration is dropped.
RegisterIgnored(t, w) ==
  /\ alive /\ pc[t] = "idle"
  /\ state \in {REGISTERING, BOTH}
  /\ UNCHANGED <<state, cell, pc, held, woken, alive>>

Register(t, w) == \/ RegisterLock(t, w)
                  \/ RegisterWhileWaking(t, w)
                  \/ RegisterIgnored(t, w)

\* (*w).replace(waker.clone())
RegisterStore(t) ==
  /\ pc[t] = "reg_store"
  /\ cell' = held[t]
  /\ Hold(t, NoWaker)
  /\ Goto(t, "reg_unlock")
  /\ UNCHANGED <<state, woken, alive>>

\* Mutant: the lock is released by a plain store.
RegisterUnlockByStore(t) ==
  /\ pc[t] = "reg_unlock"
  /\ state' = WAITING
  /\ Goto(t, "idle")
  /\ UNCHANGED <<cell, held, woken, alive>>

\* compare_exchange(REGISTERING, WAITING) succeeds.
RegisterUnlock(t) ==
  /\ pc[t] = "reg_unlock"
  /\ state = REGISTERING
  /\ state' = WAITING
  /\ Goto(t, "idle")
  /\ UNCHANGED <<cell, held, woken, alive>>

\* Mutant: the lock is released without taking the waker back out.
RegisterContendedKeepsCell(t) ==
  /\ pc[t] = "reg_unlock"
  /\ state # REGISTERING
  /\ Goto(t, "reg_reset")
  /\ UNCHANGED <<state, cell, held, woken, alive>>

\* It fails: a wake came in between.
RegisterContended(t) ==
  /\ pc[t] = "reg_unlock"
  /\ state # REGISTERING
  /\ Goto(t, "reg_take")
  /\ UNCHANGED <<state, cell, held, woken, alive>>

-----------------------------------------------------------------------------
(* take() and wake() *)

\* Mutant: a wake does not respect the lock of a registration.
TakeDuringRegister(t) ==
  /\ alive /\ pc[t] = "idle"
  /\ state' = OrWaking(state)
  /\ Goto(t, IF state \in {WAITING, REGISTERING} THEN "take_cell" ELSE "idle")
  /\ UNCHANGED <<cell, held, woken, alive>>

\* fetch_or(WAKING); the cell is this thread's only if the state was WAITING.
Take(t) ==
  /\ alive /\ pc[t] = "idle"
  /\ state' = OrWaking(state)
  /\ Goto(t, IF state = WAITING THEN "take_cell" ELSE "idle")
  /\ UNCHANGED <<cell, held, woken, alive>>

\* (*w).take(), in take() and in a register() that met a wake.
Empty(t) ==
  /\ \/ pc[t] = "take_cell" /\ Goto(t, "take_reset")
     \/ pc[t] = "reg_take" /\ Goto(t, "reg_reset")
  /\ Hold(t, cell)
  /\ cell' = NoWaker
  /\ UNCHANGED <<state, woken, alive>>

\* Mutants: the lock is released only when there was a waker to take; only
\* the WAKING bit is cleared; the registrar forgets to wake what it took.
ResetIfTaken(t) ==
  /\ pc[t] \in {"take_reset", "reg_reset"}
  /\ state' = IF held[t] = NoWaker THEN state ELSE WAITING
  /\ Goto(t, IF held[t] = NoWaker THEN "idle"
             ELSE IF pc[t] = "take_reset" /\ t \in TakeOnly THEN "return"
             ELSE "wake")
  /\ UNCHANGED <<cell, held, woken, alive>>
ResetWakingOnly(t) ==
  /\ pc[t] \in {"take_reset", "reg_reset"}
  /\ state' = IF state = BOTH THEN REGISTERING ELSE WAITING
  /\ Goto(t, IF held[t] = NoWaker THEN "idle" ELSE "wake")
  /\ UNCHANGED <<cell, held, woken, alive>>
ResetRegisterSilently(t) ==
  /\ pc[t] \in {"take_reset", "reg_reset"}
  /\ state' = WAITING
  /\ Goto(t, IF held[t] # NoWaker /\ pc[t] = "take_reset" THEN "wake" ELSE "idle")
  /\ Hold(t, IF pc[t] = "take_reset" THEN held[t] ELSE NoWaker)
  /\ UNCHANGED <<cell, woken, alive>>

\* store(WAITING), in both.
Reset(t) ==
  /\ pc[t] \in {"take_reset", "reg_reset"}
  /\ state' = WAITING
  /\ Goto(t, IF held[t] = NoWaker THEN "idle"
             ELSE IF pc[t] = "take_reset" /\ t \in TakeOnly THEN "return"
             ELSE "wake")
  /\ UNCHANGED <<cell, held, woken, alive>>

\* waker.wake(), or wake_by_ref(): the executor schedules the task.
WakeHeld(t) ==
  /\ pc[t] = "wake"
  /\ woken' = woken \union {held[t]}
  /\ Hold(t, NoWaker)
  /\ Goto(t, "idle")
  /\ UNCHANGED <<state, cell, alive>>

\* take() gives the waker to its caller.
ReturnHeld(t) ==
  /\ pc[t] = "return"
  /\ Hold(t, NoWaker)
  /\ Goto(t, "idle")
  /\ UNCHANGED <<state, cell, woken, alive>>

-----------------------------------------------------------------------------

\* The owner drops the object; by then no thread can be in a call.
Drop ==
  /\ alive
  /\ \A t \in Threads : pc[t] = "idle"
  /\ alive' = FALSE
  /\ cell' = NoWaker
  /\ UNCHANGED <<state, pc, held, woken>>

\* The executor runs the task behind w.
Run(w) ==
  /\ w \in woken
  /\ woken' = woken \ {w}
  /\ UNCHANGED <<state, cell, pc, held, alive>>

\* What a thread does once it is in a call.
Continue(t) == \/ RegisterStore(t)
               \/ RegisterUnlock(t)
               \/ RegisterContended(t)
               \/ Empty(t)
               \/ Reset(t)
               \/ WakeHeld(t)
               \/ ReturnHeld(t)

Next == \/ \E t \in Threads, w \in Wakers : Register(t, w)
        \/ \E t \in Threads : Take(t)
        \/ \E t \in Threads : Continue(t)
        \/ \E w \in Wakers : Run(w)
        \/ Drop

Spec == Init /\ [][Next]_vars

\* The scheduler runs every thread that is inside a call.
FairSpec == Spec /\ \A t \in Threads : WF_vars(Continue(t))

-----------------------------------------------------------------------------
(* What the lock must guarantee *)

\* Thread t has the lock of the cell.
Owns(t) == pc[t] \in RegisterPCs \union TakePCs

TouchesCell(t) == pc[t] \in {"reg_store", "reg_take", "take_cell"}

\* Two threads are never both about to access the waker cell: the accesses
\* through UnsafeCell in register() and take() never race, however many
\* threads call them.
CellExclusive ==
  \A t, u \in Threads : TouchesCell(t) /\ TouchesCell(u) => t = u

\* The state word tells the truth about its owner: it is WAITING exactly when
\* no call is inside the lock, and its bits say which kind of call is.  A
\* state left behind would turn every later registration and wake into a
\* no-op; one released early would let two calls into the cell.
LockOwned ==
  /\ \A t, u \in Threads : Owns(t) /\ Owns(u) => t = u
  /\ state = WAITING <=> \A t \in Threads : ~Owns(t)
  /\ \A t \in Threads :
       /\ pc[t] \in TakePCs => state = WAKING
       /\ pc[t] \in {"reg_store", "reg_unlock"} => state \in {REGISTERING, BOTH}
       /\ pc[t] \in {"reg_take", "reg_reset"} => state = BOTH

\* A register() that met a wake finds its own waker in the cell when it takes
\* it back out, every thread about to wake or to return a waker has one (the
\* `if let Some(waker)` of register() never falls through), and whoever took
\* a waker leaves the cell empty when it lets go of the lock.
WakerCarried ==
  \A t \in Threads :
    /\ pc[t] \in {"reg_store", "reg_reset", "wake", "return"} => held[t] # NoWaker
    /\ pc[t] \in {"reg_unlock", "reg_take"} => cell # NoWaker
    /\ pc[t] \in {"reg_reset", "take_reset"} => cell = NoWaker

-----------------------------------------------------------------------------
(* AtomicWaker implements WakerSlot *)

\* Once a wake has set its bit the cell no longer counts as registered.
slot == IF state \in {WAITING, REGISTERING} THEN cell ELSE NoWaker

\* Wakers in a local variable on their way out, or in a cell that a wake has
\* claimed; a registrar's own waker counts from the moment a wake meets it.
Carries(t) == \/ pc[t] \in {"take_reset", "reg_reset", "wake", "return"}
              \/ pc[t] = "reg_store" /\ state = BOTH
Claimed(t) == \/ pc[t] = "take_cell"
              \/ pc[t] \in {"reg_unlock", "reg_take"} /\ state = BOTH

OnItsWay(t, w) == \/ Carries(t) /\ held[t] = w
                  \/ Claimed(t) /\ cell = w

inflight == {w \in Wakers : \E t \in Threads : OnItsWay(t, w)}

Slot == INSTANCE WakerSlot WITH HandsOver <- TakeOnly # {}

\* register() and wake() behave as if atomic on the slot: a registered waker
\* is replaced by a newer one or taken by a wake, never lost between the two
\* ("If a concurrent wake happens during registration, the newly registered
\* waker will be woken immediately").
ImplementsSlot == Slot!Spec

\* A waker that was taken gets woken, or reaches a caller of take() that does
\* with it what it likes.
HandedOver(w) == \E t \in TakeOnly : pc[t] = "return" /\ held[t] = w
Delivered == \A w \in Wakers : w \in inflight ~> w \in woken \/ HandedOver(w)

\* The lock is released again and again: no interleaving of registrations and
\* wakes leaves it held.
LockReleased == []<>(state = WAITING)
=============================================================================
