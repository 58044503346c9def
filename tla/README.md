# lite-sync in TLA+

A model of the concurrent core of lite-sync: the atomic waker, the single-waiter
notification, the SPSC channel and the two oneshot channels.  TLC checks each on
a small instance, and runs every test of the two channels in every schedule; TLAPS
proves the safety properties of all of them, and that each implements an abstract
specification of what it promises, for any number of threads, wakers and tasks, any capacity and any number of values.

## The system

| component | state | operations | depends on |
|---|---|---|---|
| `AtomicWaker` (`src/atomic_waker.rs`) | a two-bit atomic state, a cell with an optional waker | `register`, `take`, `wake`, `drop` | the executor behind `Waker` |
| `SingleWaiterNotify` (`src/notify.rs`) | an atomic `EMPTY`/`WAITING`/`NOTIFIED`, an `AtomicWaker`; per future a `registered` flag | `notify_one`, `notified`, the future's `poll` and `drop` | `AtomicWaker` |
| its loom stand-in (`src/shim.rs`) | a mutex over a flag and a waker | the same, without `drop` | loom |
| SPSC channel (`src/spsc.rs`) | a ring buffer, a `closed` flag, two `SingleWaiterNotify` | `send`, `try_send`, `send_slice`, `try_send_slice`, `recv`, `try_recv`, `recv_slice`, `try_recv_slice`, `clear`, `drain`, both `drop`s, queries | `SingleWaiterNotify`, smallring |
| oneshot channel (`src/oneshot/`) | an atomic state, the value (in a cell, or encoded in the state), an `AtomicWaker`, the reference count of the `Arc` | `send`, `send_unchecked`, `is_closed`, `try_recv`, `poll`, `blocking_recv`, `close`, both `drop`s | `AtomicWaker`, `Arc`, thread parking |

They interact by shared memory only.  A receiver or a blocked sender leaves its
waker in an `AtomicWaker` and looks at the shared state once more; the other side
changes the shared state and then wakes.  Everything hard lies in how those steps
interleave: a wake in the middle of a registration, a notification between the
registration and the second look, a future dropped with a notification on its
way, a wake that arrives for an earlier wait, the last value pushed just before
the closed flag is set; and, under a weak memory model, a notification that
arrives before what it is about.  There is no persistence and no network; crashes
and message loss do not arise.  What makes each component correct:

- `AtomicWaker`: its state word is a lock of the cell, always given back, and a
  registration is never lost to a concurrent wake;
- `SingleWaiterNotify`: one stored permit, and no waiting task is forgotten;
- SPSC: values in order and exactly once, honest results, nobody waits for ever, and
  the answer of a query holds until the end that asked acts;
- oneshot: the cell is read only when it holds the value, honest results, every
  wait ends once the sender has acted.

`PROJECT.json` lists the hazards, each at its line, with the properties aimed at it.

## The modules

| module | models | how |
|---|---|---|
| `WakerSlot` | the promise of `AtomicWaker` | a slot, and the wakers in flight |
| `AtomicWaker` | `atomic_waker.rs` | one action per atomic instruction or cell access; `pc[t]` is the next one of thread `t` |
| `AtomicWakerProofs` | | theorems |
| `Permit` | the promise of `SingleWaiterNotify` | one stored permit, one wait |
| `Notify` | `notify.rs` over `AtomicWaker` (`INSTANCE`) | the same grain; calls of `register` and `wake` run the actions of `AtomicWaker` |
| `NotifyProofs` | | theorems, using those of `AtomicWakerProofs` |
| `LoomNotify` | the stand-in of `shim.rs` | one action per call, as its mutex makes it |
| `LoomNotifyProofs` | | theorems |
| `Channel` | the promise of the SPSC channel | a bounded queue with two ends |
| `Spsc` | `spsc.rs` over two `Permit`s | one action per access to the ring, the flag or a permit; a query is an operator |
| `SpscProofs` | | theorems |
| `SpscRefinement` | | `Spsc` implements `Channel` |
| `SpscTests` | the tests in `spsc.rs`, `tests/spsc.rs` | a script per task, over the actions of `Spsc` |
| `WeakRecv` | `recv()` against `try_send()` and `drop(Sender)`, with the code of `notify.rs`, under the memory model | one action per access; locations, messages and views |
| `WeakRecvProofs` | | theorems, about the memory and about the exchange |
| `Once` | the promise of the oneshot channels | a slot for one value or a last word |
| `Oneshot` | `oneshot/common.rs` with `generic.rs` or `lite.rs`, over `AtomicWaker` | one action per atomic instruction or access to the cell; the variable `storage` says which storage |
| `OneshotProofs` | | theorems, using those of `AtomicWakerProofs` |
| `OneshotRefinement` | | `Oneshot` implements `Once` |
| `OneshotTests` | the tests in `generic.rs`, `lite.rs`, `tests/oneshot/` | a script per task, over the actions of `Oneshot` |

`Notify` and `Oneshot` run on the detailed `AtomicWaker`, not on its
specification.  `Spsc` runs on `Permit`, which `Notify` is shown to implement
(run `notify`, theorem `PermitSafety`) and `LoomNotify` too (run `loom_notify` and
its own `PermitSafety`), so what is checked of the channel holds over either.

### What the channels promise

`Channel` and `Once` are the channels as a program sees them: calls that begin, take
atomic steps on a queue or a slot, and are answered in the step that decides the answer.
They have no flag, no notification, no waker, no count and no waiting.

- `Channel` moves values in the steps `Put`, `TakeOne`, `TakeSlice` and `Clear`.  An end is
  closed because the other handle is gone.  What it leaves open is what the code does:
  `Empty` was true at some moment of the `try_recv()` that answers it, and `recv_slice()`
  may end without a last look at the queue (`EndSlice`, the run `spsc_zero`).
- `Once` has one slot, in which the sender leaves the value or word that it is going,
  and the receiver word that it is not interested.  Each overwrites what was there
  (`Put`, `LeaveWord`, `Close`), and the generic storage empties the slot whatever it
  answers (`keeps`): this is how the runs `oneshot_close_value` and
  `oneshot_close_send` come about.  `send()` succeeds only after it has seen the slot
  not shut, and then the receiver not gone.

What a promise permits, its refinement does not show to be absent.  `Once` permits the
overwriting above, which is left to the runs named with it and to `EmptyMeansPending`;
and `WakerSlot` permits a `take()` to keep a waker that a concurrent `wake()` gave up
(`HandOver`).  That is what `take()` is for; in the crate only `wake()` calls it, and
wakes what it gets.

The mapping is in `Spsc` and `Oneshot`.  A call that has only its notification or its
wake left is shown as answered, since nothing that can still happen changes the
answer, and so is a receiver of the generic storage that has swapped the state and has
yet to read the cell.  A slice shows what is left of it.

What the variables stand for is said where they are declared.  Some conventions:

- A call that begins takes its first step at once, or (channels) sets the program
  counter to its first step.  A Rust local that survives a step is a variable
  (`held`, `sent`, `got`, `cx`), one that does not is not.
- A waker is a value; waking puts it into `woken`, and the executor takes it out
  when it polls the task.  A task may also be polled without having been woken,
  and with a different waker each time, as `Future` allows.
- A future can be dropped wherever the code can be suspended, that is, while it
  awaits; `try_*` calls run to their end.
- `Spsc`: `drain()` is a sequence of `try_recv()`.  `recv_last` and
  `recv_slice_last` are the last attempts `recv()` and `recv_slice()` make when
  they have seen the flag.  Values are numbered in the order they are offered.
- `Oneshot`: `wait()` and the lite `recv()` are `poll()`.  The parker of
  `blocking_recv()` is a waker whose wake sets its `notified` flag (it is in
  `woken`) and then, as a second step, unparks the thread; `park()` may also return
  for no reason.  A lite storage is that of one `State` of the crate, `()` or one
  of those its tests define, with its `to_u8` and `from_u8`.
- Definitions whose comment says "Mutant" are used by no specification.  Each is
  a plausible bug; put in the place of the definition it names, it breaks a
  property, and so shows that the property has something to say.

### The tests as scripts

`SpscTests` and `OneshotTests` join two kinds of client.  The test called "any" is any
program within the bounds: whatever call, whenever the handle is free.  Every
other one is a unit or loom test of the crate, under the test's own name: a script
for the task it starts in and one for each it spawns, each step a call with the
outcome the test asserts, a query with its answer, a spawn or a join.  A test
runner shows one schedule of a test; here all of them are behaviours.
`AssertionsHold` says that in none of them an assertion fails, `TestsComplete`
that in none of them the test hangs.  Left out are the sleeps, which only favour a
schedule, what loom itself looks for (a leaked `Arc`, say: the run `oneshot_leak` shows
that one), and the values themselves: the tests of the ring number their values in
the order they send them, and the generic storage never tells two values apart.

### The memory model

`WeakRecv` is the only module in which an access is not sequentially consistent.
A location is the sequence of the messages written to it; a thread has, for each
location, the oldest message it may still read, its view; a message carries the view
of the thread that released it, and an `Acquire` load of it adds that view to the
reader's.  A read-modify-write that succeeds reads the newest message, and is
`AcqRel` throughout; one that fails may read any message in view.  With `LockedRMW`
either is a full barrier besides, which x86 makes of every locked instruction,
whether it succeeds or not.

What comes of it: `poll()` sees `NOTIFIED`, and then stores `EMPTY`
(`notify.rs:198`).  A second `notify_one()` between the two is overwritten by a
store, which acquires nothing.  Its sender may have pushed a value or set the flag;
the `try_recv()` that follows need not see either, and since the notification is
used up nothing will make the receiver look again.  The run `weak_recv` ends in that
state.  On x86 the ready future is dropped before the ring is looked at, and its
drop tries a locked `compare_exchange` (`notify.rs:226`): a full barrier after the
notifier's own, which makes everything visible that the notifier had done before.
The run `weak_recv_locked` finds nothing.  The other stores of `EMPTY`
(`notify.rs:113`, `126`, `137`, `143`) are modelled by the same action.  The
sender's side, which waits on `send_notify` with the same code, is the mirror image
and not modelled again.

## The runs

| run | configuration | shows |
|---|---|---|
| `atomic_waker` | 4 threads (one a `take()` caller), 2 wakers | the lock discipline (`LockOwned`, `CellExclusive`, `WakerCarried`); `ImplementsSlot`: the implementation refines `WakerSlot`; `Delivered`, `LockReleased` |
| `notify` | 1 waiter, 3 notifiers, 2 wakers | `NoLostWakeup`; `RegistrationKept`: the branch that ignores a registration is dead with one waiter; `ImplementsPermit`, with its liveness |
| `loom_notify` | 3 wakers | `Covered`, `ImplementsPermit` for the loom stand-in |
| `spsc` | any program on a ring of 2, 3 values, slices up to 3; the 25 unit and 4 loom tests on their rings | `InOrder`, `SendAccounted`, `ClosedMeansDrained`, `ReceiverNotStuck`, `SenderNotStuck`, `RecvReturns`, `SendReturns`; `AnswersKept`; `ImplementsChannel`; `AssertionsHold`, `TestsComplete` |
| `weak_recv_locked` | 2 values and a drop, `LockedRMW = TRUE` | `WaitsIfEmpty`, `NoneMeansDrained` under `Release`/`Acquire` and x86's barriers |
| `oneshot` | any program over the generic storage and over `CustomState`, 2 tasks and the parker; the 18 and 27 unit and 6 loom tests on their storages | `ReadsInitialised`, `ClosedHonestly`, `RefusedHonestly`, `ReceivedIsSent`, `NoLostWakeup`, `ReceiveReturns`, `EmptyMeansPending`, `CloseStopsLiteSend`; `ImplementsOnce`; `AssertionsHold`, `TestsComplete` |

Six more runs end in a counterexample, each to a sentence of the documentation
or of a comment:

| run | the code | the sentence |
|---|---|---|
| `weak_recv` | the notification is taken by a plain store, over one that was never acquired: `recv()` waits with a value in the ring | `spsc.rs:522` "Receive a message from the channel (async, waits if buffer is empty)" |
| `spsc_zero` | `recv_slice()` finds the ring empty; the sender pushes and is dropped; the flag is seen, 0 is returned and a value is left | `spsc.rs:768` "Returns 0 if the channel is closed and empty" |
| `oneshot_empty` | the generic `try_take()` swaps `EMPTY` over `SENDER_CLOSED`: the second `try_recv()` answers `Empty` (and an await from then on never ends) | `generic.rs:134` "`Err(TryRecvError::Empty)` if pending, or `Err(TryRecvError::Closed)` if sender was dropped" |
| `oneshot_close_value` | `close()` stores over `READY`: the value sent before is lost | `common.rs:276` "`try_recv` should be called to receive a value if one was sent before the call to `close` completed" |
| `oneshot_close_send` | the generic `try_recv()` swaps `EMPTY` over `RECEIVER_CLOSED`: a later `send()` succeeds | `common.rs:275` "Any `send` operation which happens after this method returns is guaranteed to fail" |
| `oneshot_leak` | `send_unchecked()` forgets the sender with its share of the `Arc`: the storage is never dropped | `generic.rs:95` "Clean up the value if it was sent but not received" |

The constant `Reused` keeps `oneshot_empty` apart from the rest: it names the
storages whose receiver the program goes on using after an answer of a value or
`Closed`.  In the run `oneshot` the generic storage is not among them; the three
lite ones are, which keep every promise then too.

### Bounds

- `AtomicWaker`: one thread can be inside the lock and any number find it taken;
  a third and a fourth thread give overlapping contenders.  Two wakers tell a
  registration from the one it replaces.  `AtomicWakerProofs` removes the bound
  for the safety properties.
- `Notify`: two notifiers can be inside the `AtomicWaker` (one carrying an old
  waker, one being refused) while the third notifies.  The proofs remove the bound.
- `Spsc`: of `Capacities`, any program is given those in `AnyCapacities`.  A ring of
  two has an empty, a partly filled and a full state; `MaxSlice = 3` is a slice longer
  than the ring, which must be sent and received in parts; `MaxMessages = 3` values
  in all, shared among the sends, which is enough to fill the ring, take from it
  and fill it again.  The number of calls is not bounded.  `SpscProofs` removes the
  bounds for the safety properties.  A test has the ring
  that the code makes of the capacity it asks for, and its own number of values.
- `WeakRecv`: `MaxMessages = 2` values and the drop of the sender are three
  notifications, of which the last two can meet one `Consume`.  `MaxWrites = 5` stops
  polls for no reason once the waker's location has five messages.  `WeakRecvProofs`
  removes both.
- `Oneshot`: the sender acts once.  Two task wakers and the parker can alternate
  for ever.  Of the three lite storages any program is run over the largest,
  `CustomState`; the storage's code is the same for all.  `OneshotProofs` takes any
  set of tasks, and each storage of `Storages`.

Deadlock is not checked: a system whose handles are dropped, or whose program
asks for nothing more, stops.  `RecvReturns`, `SendReturns`, `ReceiveReturns`,
`TestsComplete` and `ImplementsPermit` say what may not stop.

### Fairness

- A thread inside a call of the library goes on (`WF` of its steps): the
  operations are wait-free, so it needs the scheduler only.
- An executor polls a task whose latest waker was woken (`RunWoken`), the
  contract of `Waker`.  A parked thread goes on only with a token; nothing relies
  on spurious returns.
- In `Spsc`, a wait that can complete does, which is `Permit`'s liveness, and
  which `Notify` implements under the two assumptions above.
- A task of a test goes on to its next step once it is out of a call: it is a
  thread, or a task on an executor, that has something to do.
- In any other program nobody is obliged to notify, send, receive, cancel or drop.

Strong fairness is assumed nowhere.

## The proofs

Assumed are only the named assumptions on constants: the empty value and the parker
are no task's waker, `TakeOnly` is a set of threads, the waiter is not a notifier,
the storages are among those of the crate, capacities are positive (`channel()` asks
for a `NonZeroUsize`), and the bounds of `Spsc` and `WeakRecv` are numbers.  All sets
are arbitrary.  Two theorems about `Oneshot` and one about `WeakRecv` have a hypothesis
besides; it is given with them below.

`AtomicWakerProofs`.  None of the properties is inductive alone.  The inductive
invariant `IInv` joins `TypeOK`, `LockOwned` (the state word and the program
counters agree on who has the lock), `WakerCarried` (who holds which waker) and
`CallsAlive` (nobody is in a call of a dropped object).  `LockOwned` is the core:
a step of one thread inside the lock excludes every other thread from it, and
`WakerCarried` follows for the next state because nobody else touched the cell.
Each conjunct has its step lemma, with one step per action.  `NoRaceOnCell` follows from
`LockOwned`: who touches the cell owns the lock.  `Refinement` maps the
implementation to `WakerSlot`: a lemma per group of actions shows which abstract
step, or which stutter, it is.

`NotifyProofs`.  The steps of `Notify` on its waker are steps of `AtomicWaker`,
so `IInv` is carried over by instantiating `AtomicWakerProofs`.  On top,
`NInv` strengthens `NoLostWakeup` to the points inside a poll: from the
registration on, the waker is in the slot or on its way, and a `NOTIFIED` state has a
notifier behind it that has yet to wake if the waker is still in the slot.  The
refinement lemmas of `AtomicWakerProofs` say what each step does to slot and
wakers in flight.  From `NInv` follow `WakeupsAreKept`, `RegistrationsAreKept`
and `PermitSafety`.

`LoomNotifyProofs`.  `Covered` needs two facts beside the types: a waker in the slot
has not been notified, and the last poll of a pending future was by a waker.  The
two make `LInv`, which every step keeps; under it each call is a step of `Permit`.

`SpscProofs`.  The properties of `Spsc` are about what a call reports when it returns, or
about an end that waits; the invariant `SInv` says what each end knows at every step on
the way.  `TxPhase` and `RxPhase` tie what a call is doing to how much of its argument
has gone through, `ClosedByDrop` ties the flag to the ends that are gone.  `RxTold` and
`TxTold` carry `ReceiverNotStuck` and `SenderNotStuck` back to the failed attempt: from
there on, not only once it waits, an end has a permit, or the other end is about to give
one, whenever there is something for it; that is what makes "fail, look at the flag,
wait" free of lost wakeups.  `ValuesAreLast` (the values of the sender's call are the
last that were offered) makes `InOrder` and `SendAccounted` inductive together: what is
pushed is greater than all that went through before.  `AnswersAreKept` follows from the
frames of the steps: a push only adds to the end of the ring (`PushAppends`), and only
taking removes from it.  One lemma per group of steps, one
sublemma for the sequences (`TakenThenQueued`: taking from the queue loses and repeats
nothing).

`SpscRefinement`.  `SInv` says enough for all steps but one kind: the last attempt of
`recv()` and `recv_slice()`, which answers whatever it finds.  It is made only once the
flag was seen, and the flag must still be set when it answers (`LastAttempt`, an
invariant of its own).  The rest
is one lemma per group of steps, each naming the step of `Channel` it is: the push of a
slice is one `Put`, whatever part of it fits, and a second look at the ring is a stutter
or the answer.  `SubSeq` of what is left and of the queue is what needs lemmas
(`RestOfRest`).

`OneshotProofs`.  `OInv` holds for any use of the two handles.  `StateMeans` says what the
state word tells whoever reads it (a code of a value: it was sent, and it is that
value's; and so on), `TxPhase`, `RxPhase` and `ValueWhere` what each side is doing and who
has the value meanwhile; `Answers` and `LiteStaysClosed` what the calls have said.  The
lemma `Codec` is what all rests on: for each storage the codes of the values, `Pending`
and the two closed states are different, and `FromU8` undoes `ToU8`.  From `OInv` follow
six of the theorems.  The wakeups need `WInv`: `Settled` (once the sender has acted, the
state is `Pending` only because the receiver has taken the answer), `SoleRegistrar`, and
`Watched`, which is `NoLostWakeup` carried back to the registration.  It holds under the
hypothesis that `"generic"` is not in `Reused`, which is that of the run `oneshot`: a
receiver over the generic storage is not used again once it has its answer.  Without it
both theorems are false, as the run `oneshot_empty` shows.

`OneshotRefinement`.  `OInv` is enough.  `SlotMeans` says that the slot tells as much as the
state, for each encoding; `AloneMeans` that the count tells the sender of the receiver's
end and of nothing else; `ReturnView` and `ReadingView` that a call is answered when it
returns, or when its swap has found the value.  Nothing is assumed of `Reused`: a generic
receiver that is used again behaves as `Once` says, too.

`WeakRecvProofs`.  First the memory: what a load, a store, a swap and a failed exchange do
to messages and views (`WriteFacts`, `SwapFacts`, `ReadKeeps`), whatever the program.
Then two invariants.  `ReceiveInv` holds whatever hardware does with a read-modify-write:
all that the receiver has not seen of the state are notifications (`ReceiverKnows`), who
acquires the flag sees all that was pushed (`SenderKnows`), and a wake that went through
shows the notification it was for to the next registration (`WakeTells`).  It gives
`Drained`.  `LockedInv` needs `LockedRMW`: the last barrier saw all that was announced
(`BarrierCovers`), and from the drop of the ready future on the receiver does too
(`ReceiverSees`).  It gives `WaitsOnLockedRMW`; its hypothesis is what the run `weak_recv`
lacks.  The proof uses it in one place that matters, the failed exchange of `DropFuture`.

TLC has checked each of these invariants on the instances of the runs.

Model-checked only: all liveness (`Delivered`, `LockReleased`, the fairness of
`Permit`, `RecvReturns`, `SendReturns`, `ReceiveReturns`, `TestsComplete`), which is
out of the prover's reach; and the tests as scripts (`AssertionsHold`), which are finite
instances by nature.  The theorems about the channels are about any program (`Spec`); the
scripts take steps of the same actions, some beyond the bounds of the run's `Spec`, and
TLC checks the same invariants on them.

## Not modelled

- Memory orderings outside `WeakRecv`: there `Acquire`, `Release` and `Relaxed` are all
  taken as sequentially consistent, and a bug that only a weaker ordering shows
  cannot be seen.
- The smallring crate, which is not in the repository: a bounded queue whose
  `push`, `pop`, slice, `peek` and `clear` operations are atomic (in `WeakRecv`: an
  index, released by `push` and acquired by `pop`).
- Use that the crate's documentation rules out: two tasks using one handle of a
  channel at a time, or waiting on one `SingleWaiterNotify`.
- The tests of `AtomicWaker` and `SingleWaiterNotify` as scripts: their calls, in every
  order, are among the behaviours of the runs `atomic_waker` and `notify`.
- `Debug` and the text of the errors; the aliases of `shim.rs`; `lib.rs` and
  `oneshot.rs`, which document and re-export; benchmarks.
- A panic in user code (a waker's `clone`, a value's `drop`).

## Plan

Done: the modules above, bottom up; the tests of both channels; the memory model
where it matters most; what the channels promise; the proofs of the safety properties of
every module and of every refinement but its liveness.  What is left:

1. One wait of the channel over the detailed `Notify`, to check the composition
   that the refinements of `Permit` justify.
2. The sender's wait in the memory model, the mirror image of `WeakRecv`.
