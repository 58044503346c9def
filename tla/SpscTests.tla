------------------------------ MODULE SpscTests ------------------------------
(***************************************************************************)
(* The clients of Spsc: any program within the bounds, and the unit tests  *)
(* of spsc.rs and loom tests of tests/spsc.rs, which go beyond them.  A    *)
(* test is a script per task: calls with the outcome the test asserts, and *)
(* queries with the answer it asserts.  A test runner shows one schedule   *)
(* of each; here every schedule is a behaviour.  The sleeps, which only    *)
(* favour one schedule, are left out.                                      *)
(*                                                                         *)
(* A value is the number of its offer: the tests' own values, which tell   *)
(* their messages apart, are written as 1, 2, ...  Handles are dropped     *)
(* where a task that ends leaves another one running.                      *)
(***************************************************************************)
EXTENDS Spsc

CONSTANT AnyCapacities  \* the rings of any program; a test has its own

VARIABLES test,     \* the name of the test, or "any" program
          pos,      \* per task: the step it is at; 0 before it is spawned
          calling,  \* the tasks that are in a call
          base      \* Len(taken) when the receiver's call began

testVars == <<test, pos, calling, base>>

Task == {"main", "sender", "receiver"}

-----------------------------------------------------------------------------
(* Steps of a script *)

\* A call of the sender with k values that is to push n of them.
Tx(op, k, result, n) ==
  [side |-> "tx", op |-> op, k |-> k, result |-> result, count |-> n]

\* A call of the receiver, or a loop of calls until one has nothing to return,
\* that is to return the values got.
Rx(op, k, result, obtained) ==
  [side |-> "rx", op |-> op, k |-> k, result |-> result, values |-> obtained]

Query(name, answer) == [side |-> "query", op |-> name, answer |-> answer]
Spawn(task) == [side |-> "spawn", op |-> task]
Join(task) == [side |-> "join", op |-> task]

Run(a, b) == [i \in 1 .. b + 1 - a |-> a + i - 1]
Repeat(n, step) == [i \in 1 .. n |-> step]

Send == Tx("send", 1, "ok", 1)                    \* .await.unwrap()
TrySend == Tx("try_send", 1, "ok", 1)             \* .unwrap()
SendSlice(k) == Tx("send_slice", k, "ok", k)      \* .await.unwrap() == k
TrySendSlice(k, n) == Tx("try_send_slice", k, "ok", n)
DropTx == Tx("drop", 0, "none", 0)
DropRx == Rx("drop", 0, "none", <<>>)
Recv(v) == Rx("recv", 0, "some", <<v>>)           \* .await == Some(v)
RecvNone == Rx("recv", 0, "closed", <<>>)         \* .await == None
Recvs(a, b) == [i \in 1 .. b + 1 - a |-> Recv(a + i - 1)]
TryRecv(v) == Rx("try_recv", 0, "some", <<v>>)
TryRecvEmpty == Rx("try_recv", 0, "empty", <<>>)
Slice(op, k, n) == Rx(op, k, "count", Run(1, n))  \* n of the k asked for
ClearDrops(n) == Rx("clear", 0, "none", Run(1, n))    \* what it drops
RecvAll(n) == Rx("recv*", 0, "closed", Run(1, n)) \* while let Some(v) = recv()
Drain(a, b) == Rx("try_recv*", 0, "empty", Run(a, b)) \* drain().collect()

Answer(name) ==
  CASE name = "tx.capacity"   -> SenderCapacity
    [] name = "tx.len"        -> SenderLen
    [] name = "tx.free_slots" -> FreeSlots
    [] name = "tx.is_full"    -> IsFull
    [] name = "rx.capacity"   -> ReceiverCapacity
    [] name = "rx.len"        -> ReceiverLen
    [] name = "rx.is_empty"   -> ReceiverIsEmpty
    [] name = "rx.peek"       -> Peek
    [] name = "drain.size_hint" -> SizeHint

\* A test of one task, and of a main task with others.
Alone(n, script) == [capacity |-> n, main |-> script,
                     sender |-> <<>>, receiver |-> <<>>]
WithSender(n, script, sender) == [Alone(n, script) EXCEPT !.sender = sender]
WithReceiver(n, script, receiver) == [Alone(n, script) EXCEPT !.receiver = receiver]

-----------------------------------------------------------------------------
(* The unit tests *)

test_basic_send_recv == Alone(4, Repeat(3, Send) \o Recvs(1, 3))

test_try_send_recv ==
  Alone(4, Repeat(2, TrySend) \o <<TryRecv(1), TryRecv(2), TryRecvEmpty>>)

test_channel_closed_on_sender_drop == Alone(4, <<Send, DropTx, Recv(1), RecvNone>>)

test_channel_closed_on_receiver_drop ==
  Alone(4, <<DropRx, Tx("send", 1, "closed", 0)>>)

test_cross_task_communication ==
  [capacity |-> 4,
   main     |-> <<Spawn("sender"), Spawn("receiver"), Join("sender"), Join("receiver")>>,
   sender   |-> Repeat(10, Send) \o <<DropTx>>,
   receiver |-> <<RecvAll(10)>>]

\* The value 5 of the test is offered twice: as 5, which finds the buffer full,
\* and as 6.
test_backpressure ==
  WithSender(4,
    Repeat(4, TrySend) \o <<Tx("try_send", 1, "full", 0), Spawn("sender")>>
      \o Recvs(1, 4) \o Recvs(6, 7) \o <<Join("sender")>>,
    <<Send, Send, DropTx>>)

test_capacity_and_len ==
  Alone(8, <<Query("rx.capacity", 8), Query("rx.len", 0), Query("rx.is_empty", TRUE),
             TrySend, TrySend,
             Query("rx.len", 2), Query("rx.is_empty", FALSE)>>)

\* len(), free_slots() and is_full() of the sender.
Occupancy(len, free, full) ==
  <<Query("tx.len", len), Query("tx.free_slots", free), Query("tx.is_full", full)>>

test_sender_capacity_queries ==
  Alone(8, <<Query("tx.capacity", 8)>> \o Occupancy(0, 8, FALSE)
           \o Repeat(3, TrySend) \o Occupancy(3, 5, FALSE)
           \o Repeat(5, TrySend) \o Occupancy(8, 0, TRUE)
           \o <<Recv(1)>> \o Occupancy(7, 1, FALSE))

test_try_send_slice ==
  Alone(16, <<TrySendSlice(5, 5), Query("rx.len", 5)>> \o Recvs(1, 5))

test_try_send_slice_partial ==
  Alone(8, <<TrySendSlice(5, 5), TrySendSlice(10, 3),
             Query("rx.len", 8), Query("tx.is_full", TRUE)>> \o Recvs(1, 8))

test_send_slice == Alone(16, <<SendSlice(10), Query("rx.len", 10)>> \o Recvs(1, 10))

test_send_slice_with_backpressure ==
  WithSender(4, <<Spawn("sender")>> \o Recvs(1, 4) \o <<Join("sender")>> \o Recvs(5, 8),
             <<SendSlice(8), DropTx>>)

test_peek ==
  Alone(8, <<Query("rx.peek", <<>>)>> \o Repeat(3, TrySend)
           \o Repeat(2, Query("rx.peek", <<1>>)) \o <<Query("rx.len", 3)>>)

test_peek_after_recv ==
  Alone(8, Repeat(3, TrySend)
           \o <<Query("rx.peek", <<1>>), Recv(1), Query("rx.peek", <<2>>), Recv(2),
                Query("rx.peek", <<3>>), Recv(3), Query("rx.peek", <<>>)>>)

test_clear ==
  Alone(16, Repeat(10, TrySend)
            \o <<Query("rx.len", 10), ClearDrops(10),
                 Query("rx.len", 0), Query("rx.is_empty", TRUE)>>)

\* The counter of the test counts the values clear() drops.
test_clear_with_drop == Alone(16, Repeat(8, TrySend) \o <<ClearDrops(8)>>)

test_drain ==
  Alone(16, Repeat(10, TrySend) \o <<Drain(1, 10), Query("rx.is_empty", TRUE)>>)

test_drain_empty == Alone(8, <<Drain(1, 0)>>)

test_drain_size_hint ==
  Alone(16, Repeat(5, TrySend)
            \o <<Query("drain.size_hint", <<5, 5>>), TryRecv(1),
                 Query("drain.size_hint", <<4, 4>>), TryRecv(2),
                 Query("drain.size_hint", <<3, 3>>)>>)

test_try_recv_slice ==
  Alone(16, Repeat(10, TrySend)
            \o <<Slice("try_recv_slice", 5, 5), Query("rx.len", 5)>>)

test_try_recv_slice_partial ==
  Alone(16, Repeat(3, TrySend)
            \o <<Slice("try_recv_slice", 10, 3), Query("rx.is_empty", TRUE)>>)

test_recv_slice ==
  Alone(16, Repeat(10, TrySend)
            \o <<Slice("recv_slice", 10, 10), Query("rx.is_empty", TRUE)>>)

test_recv_slice_with_wait ==
  WithReceiver(4, <<Spawn("receiver")>> \o Repeat(8, Send) \o <<Join("receiver")>>,
               <<Slice("recv_slice", 8, 8), DropRx>>)

test_recv_slice_channel_closed ==
  Alone(8, Repeat(3, TrySend) \o <<DropTx, Slice("recv_slice", 10, 3)>>)

test_combined_new_apis ==
  Alone(16, <<TrySendSlice(5, 5),
              Query("tx.len", 5), Query("rx.len", 5), Query("rx.capacity", 16),
              Query("rx.peek", <<1>>),
              Slice("try_recv_slice", 3, 3),
              Query("rx.len", 2), Query("tx.free_slots", 14),
              Drain(4, 5),
              Query("rx.is_empty", TRUE), Query("tx.is_full", FALSE)>>)

-----------------------------------------------------------------------------
(* The loom tests *)

loom_spsc_simple_send_recv ==
  WithSender(2, <<Spawn("sender")>> \o Recvs(1, 2), <<Send, Send, DropTx>>)

loom_spsc_backpressure ==
  WithSender(1, <<Spawn("sender")>> \o Recvs(1, 2) \o <<Join("sender")>>,
             <<Send, Send, DropTx>>)

loom_spsc_close_sender ==
  WithSender(2, <<Spawn("sender"), Recv(1), RecvNone>>, <<Send, DropTx>>)

loom_spsc_close_receiver ==
  WithSender(1, <<TrySend, Spawn("sender"), DropRx, Join("sender")>>,
             <<Tx("send", 1, "closed", 0), DropTx>>)

Tests ==
  [test_basic_send_recv                 |-> test_basic_send_recv,
   test_try_send_recv                   |-> test_try_send_recv,
   test_channel_closed_on_sender_drop   |-> test_channel_closed_on_sender_drop,
   test_channel_closed_on_receiver_drop |-> test_channel_closed_on_receiver_drop,
   test_cross_task_communication        |-> test_cross_task_communication,
   test_backpressure                    |-> test_backpressure,
   test_capacity_and_len                |-> test_capacity_and_len,
   test_sender_capacity_queries         |-> test_sender_capacity_queries,
   test_try_send_slice                  |-> test_try_send_slice,
   test_try_send_slice_partial          |-> test_try_send_slice_partial,
   test_send_slice                      |-> test_send_slice,
   test_send_slice_with_backpressure    |-> test_send_slice_with_backpressure,
   test_peek                            |-> test_peek,
   test_peek_after_recv                 |-> test_peek_after_recv,
   test_clear                           |-> test_clear,
   test_clear_with_drop                 |-> test_clear_with_drop,
   test_drain                           |-> test_drain,
   test_drain_empty                     |-> test_drain_empty,
   test_drain_size_hint                 |-> test_drain_size_hint,
   test_try_recv_slice                  |-> test_try_recv_slice,
   test_try_recv_slice_partial          |-> test_try_recv_slice_partial,
   test_recv_slice                      |-> test_recv_slice,
   test_recv_slice_with_wait            |-> test_recv_slice_with_wait,
   test_recv_slice_channel_closed       |-> test_recv_slice_channel_closed,
   test_combined_new_apis               |-> test_combined_new_apis,
   loom_spsc_simple_send_recv           |-> loom_spsc_simple_send_recv,
   loom_spsc_backpressure               |-> loom_spsc_backpressure,
   loom_spsc_close_sender               |-> loom_spsc_close_sender,
   loom_spsc_close_receiver             |-> loom_spsc_close_receiver]

-----------------------------------------------------------------------------
(* Running a test *)

Script(t) == Tests[test][t]
Running(t) == test # "any" /\ pos[t] \in 1 .. Len(Script(t))
Step(t) == Script(t)[pos[t]]
At(t, sides) == Running(t) /\ Step(t).side \in sides
Ended(t) == test # "any" /\ pos[t] > Len(Script(t))
Looping(t) == Step(t).op \in {"recv*", "try_recv*"}

TestInit ==
  /\ Init
  /\ \/ test = "any" /\ capacity \in AnyCapacities
     \/ test \in DOMAIN Tests /\ capacity = Tests[test].capacity
  /\ pos = [t \in Task |-> IF t = "main" THEN 1 ELSE 0]
  /\ calling = {}
  /\ base = 0

Begin(t) ==
  LET step == Step(t) IN
  CASE step.side = "tx" /\ step.op # "drop" -> StartSend(step.op, step.k)
    [] step.side = "tx" /\ step.op = "drop" -> DropSender
    [] step.side = "rx" /\ step.op = "drop" -> DropReceiver
    [] step.side = "rx" /\ step.op = "recv*" -> StartRecv("recv", 0)
    [] step.side = "rx" /\ step.op = "try_recv*" -> StartRecv("try_recv", 0)
    [] OTHER -> StartRecv(step.op, step.k)

Call(t) ==
  /\ At(t, {"tx", "rx"}) /\ t \notin calling
  /\ Begin(t)
  /\ calling' = calling \union {t}
  /\ base' = IF Step(t).side = "rx" THEN Len(taken) ELSE base
  /\ UNCHANGED <<test, pos>>

\* The task's call is over.
Over(t) ==
  /\ At(t, {"tx", "rx"}) /\ t \in calling
  /\ IF Step(t).side = "tx" THEN txPc \in {"idle", "gone"} ELSE rxPc \in {"idle", "gone"}

\* The loop goes round.
Again(t) ==
  /\ Over(t) /\ Looping(t) /\ rxResult = "some"
  /\ Begin(t)
  /\ UNCHANGED testVars

Return(t) ==
  /\ Over(t) /\ ~(Looping(t) /\ rxResult = "some")
  /\ calling' = calling \ {t}
  /\ pos' = [pos EXCEPT ![t] = @ + 1]
  /\ UNCHANGED <<test, base, vars>>

Ask(t) ==
  /\ At(t, {"query"})
  /\ pos' = [pos EXCEPT ![t] = @ + 1]
  /\ UNCHANGED <<test, calling, base, vars>>

SpawnTask(t) ==
  /\ At(t, {"spawn"})
  /\ pos' = [pos EXCEPT ![t] = @ + 1, ![Step(t).op] = 1]
  /\ UNCHANGED <<test, calling, base, vars>>

JoinTask(t) ==
  /\ At(t, {"join"}) /\ Ended(Step(t).op)
  /\ pos' = [pos EXCEPT ![t] = @ + 1]
  /\ UNCHANGED <<test, calling, base, vars>>

Client(t) == Call(t) \/ Again(t) \/ Return(t) \/ Ask(t) \/ SpawnTask(t) \/ JoinTask(t)

AnyProgram == test = "any" /\ Next /\ UNCHANGED testVars

TestNext == \/ AnyProgram
            \/ \E t \in Task : Client(t)
            \/ test # "any" /\ (TxStep \/ RxStep) /\ UNCHANGED testVars

\* Both ends run, a wait that can complete and is not cancelled does (Permit's
\* own fairness), and so do the tests' tasks.  No program is obliged to call, to
\* cancel or to drop.
TestSpec ==
  /\ TestInit /\ [][TestNext]_<<vars, testVars>>
  /\ WF_<<vars, testVars>>(TxStep /\ UNCHANGED testVars)
  /\ WF_<<vars, testVars>>(RxStep /\ UNCHANGED testVars)
  /\ \A t \in Task : WF_<<vars, testVars>>(Client(t))

-----------------------------------------------------------------------------
(* Correctness *)

\* What the call of a task has come to.
Outcome(t) ==
  IF Step(t).side = "tx" THEN <<txResult, sent>>
  ELSE <<rxResult, SubSeq(taken, base + 1, Len(taken))>>

Expected(t) ==
  IF Step(t).side = "tx" THEN <<Step(t).result, Step(t).count>>
  ELSE <<Step(t).result, Step(t).values>>

\* Whatever the schedule, every call and every query of every test has the
\* outcome the test asserts.
AssertionsHold ==
  \A t \in Task :
    /\ (Over(t) /\ Step(t).op # "drop" /\ ~(Looping(t) /\ rxResult = "some"))
         => Outcome(t) = Expected(t)
    /\ At(t, {"query"}) => Answer(Step(t).op) = Step(t).answer

\* Every test comes to its end.
TestsComplete == test = "any" \/ <>Ended("main")
=============================================================================
