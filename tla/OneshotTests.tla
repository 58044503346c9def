----------------------------- MODULE OneshotTests -----------------------------
(***************************************************************************)
(* The clients of Oneshot: any program within the bounds, and the unit     *)
(* tests of oneshot/generic.rs and oneshot/lite.rs and the loom tests of   *)
(* tests/oneshot/.  A test is a script of its main task and one of the     *)
(* task or thread it spawns: calls with the outcomes the test allows.      *)
(* Every schedule of it is a behaviour here; the sleeps, which only favour *)
(* one schedule, are left out.  The generic storage tells no two values    *)
(* apart, and no test of it sends more than one: they are all "T".         *)
(***************************************************************************)
EXTENDS Oneshot, Sequences

CONSTANT AnyStorages  \* those of any program; a test has its own

VARIABLES test,       \* the test that runs, or AnyTest: any program
          pos,        \* per task: the step it is at; 0 before it is spawned
          calling     \* the tasks that are in a call

testVars == <<test, pos, calling>>

Task == {"main", "spawned"}

-----------------------------------------------------------------------------
(* Steps of a script *)

Step(side, op, v, outcomes) ==
  [side |-> side, op |-> op, value |-> v, outcomes |-> outcomes]

Send(v) == Step("tx", "send", v, {"sent"})              \* .unwrap()
SendErr(v) == Step("tx", "send", v, {"refused"})        \* .is_err()
SendAny(v) == Step("tx", "send", v, {"sent", "refused"})  \* let _ =
DropTx == Step("tx", "drop", "none", {"dropped"})
IsClosedIs(a) == Step("tx", "is_closed", "none", a)
AwaitMut(r) == Step("rx", "await", "none", {r})         \* (&mut receiver).await
TryRecv(r) == Step("rx", "try_recv", "none", {r})
BlockingRecv(r) == Step("rx", "blocking_recv", "none", {r})
CloseRx == Step("rx", "close", "none", {"none"})
DropRx == Step("rx", "drop", "none", {"none"})
Spawn == Step("spawn", "spawn", "none", {})
Join == Step("join", "join", "none", {})

\* Awaiting the receiver by value, with .await, wait() or recv(), drops it.
AwaitAny(rs) == <<Step("rx", "await", "none", rs), DropRx>>
Await(r) == AwaitAny({r})

Test(s, main, spawned) == [storage |-> s, main |-> main, spawned |-> spawned]
AnyTest == Test("any", <<>>, <<>>)

\* The shapes most tests have: the value is sent by a spawned task while the
\* main one receives it, or before.
Later(s, step, receive) == Test(s, <<Spawn>> \o receive, <<step>>)
Before(s, step, receive) == Test(s, <<step>> \o receive, <<>>)

-----------------------------------------------------------------------------
(* generic.rs *)

generic_test_oneshot_string == Later("generic", Send("T"), Await("T"))
generic_test_oneshot_integer == Later("generic", Send("T"), Await("T"))
generic_test_oneshot_immediate == Before("generic", Send("T"), Await("T"))
generic_test_oneshot_custom_struct == Later("generic", Send("T"), Await("T"))
generic_test_oneshot_direct_await == Later("generic", Send("T"), Await("T"))
generic_test_oneshot_await_mut_reference == Later("generic", Send("T"), <<AwaitMut("T")>>)
generic_test_oneshot_immediate_await == Before("generic", Send("T"), Await("T"))
generic_test_oneshot_try_recv ==
  Test("generic", <<TryRecv("empty"), Send("T"), TryRecv("T")>>, <<>>)
generic_test_oneshot_try_recv_closed == Before("generic", DropTx, <<TryRecv("closed")>>)
generic_test_oneshot_dropped == Before("generic", DropTx, Await("closed"))
generic_test_oneshot_large_data == Later("generic", Send("T"), Await("T"))
generic_test_sender_is_closed_initially_false ==
  Test("generic", <<IsClosedIs({"no"})>>, <<>>)
generic_test_sender_is_closed_after_receiver_drop ==
  Test("generic", <<DropRx, IsClosedIs({"yes"})>>, <<>>)
generic_test_sender_is_closed_after_receiver_close ==
  Test("generic", <<CloseRx, IsClosedIs({"yes"})>>, <<>>)
generic_test_receiver_close_prevents_send ==
  Test("generic", <<CloseRx, SendErr("T")>>, <<>>)
generic_test_blocking_recv_immediate == Before("generic", Send("T"), <<BlockingRecv("T")>>)
generic_test_blocking_recv_with_thread == Later("generic", Send("T"), <<BlockingRecv("T")>>)
generic_test_blocking_recv_sender_dropped ==
  Later("generic", DropTx, <<BlockingRecv("closed")>>)

GenericTests ==
  {generic_test_oneshot_string, generic_test_oneshot_integer,
   generic_test_oneshot_immediate, generic_test_oneshot_custom_struct,
   generic_test_oneshot_direct_await, generic_test_oneshot_await_mut_reference,
   generic_test_oneshot_immediate_await, generic_test_oneshot_try_recv,
   generic_test_oneshot_try_recv_closed, generic_test_oneshot_dropped,
   generic_test_oneshot_large_data, generic_test_sender_is_closed_initially_false,
   generic_test_sender_is_closed_after_receiver_drop,
   generic_test_sender_is_closed_after_receiver_close,
   generic_test_receiver_close_prevents_send, generic_test_blocking_recv_immediate,
   generic_test_blocking_recv_with_thread, generic_test_blocking_recv_sender_dropped}

-----------------------------------------------------------------------------
(* lite.rs *)

lite_test_oneshot_called == Later("TestCompletion", Send("Called"), Await("Called"))
lite_test_oneshot_cancelled ==
  Later("TestCompletion", Send("Cancelled"), Await("Cancelled"))
lite_test_oneshot_immediate_called ==
  Before("TestCompletion", Send("Called"), Await("Called"))
lite_test_oneshot_immediate_cancelled ==
  Before("TestCompletion", Send("Cancelled"), Await("Cancelled"))
lite_test_oneshot_custom_state == Later("CustomState", Send("Success"), Await("Success"))
lite_test_oneshot_custom_state_timeout ==
  Before("CustomState", Send("Timeout"), Await("Timeout"))
lite_test_oneshot_unit_type == Later("unit", Send("unit"), Await("unit"))
lite_test_oneshot_unit_type_immediate == Before("unit", Send("unit"), Await("unit"))
lite_test_oneshot_into_future_called ==
  Later("TestCompletion", Send("Called"), Await("Called"))
lite_test_oneshot_into_future_immediate ==
  Before("TestCompletion", Send("Cancelled"), Await("Cancelled"))
lite_test_oneshot_into_future_unit_type == Later("unit", Send("unit"), Await("unit"))
lite_test_oneshot_into_future_custom_state ==
  Later("CustomState", Send("Failure"), Await("Failure"))
lite_test_oneshot_await_mut_reference ==
  Later("TestCompletion", Send("Called"), <<AwaitMut("Called")>>)
lite_test_oneshot_await_mut_reference_unit_type ==
  Before("unit", Send("unit"), <<AwaitMut("unit")>>)
lite_test_oneshot_try_recv_pending == Test("TestCompletion", <<TryRecv("empty")>>, <<>>)
lite_test_oneshot_try_recv_ready ==
  Before("TestCompletion", Send("Called"), <<TryRecv("Called")>>)
lite_test_oneshot_try_recv_sender_dropped ==
  Before("TestCompletion", DropTx, <<TryRecv("closed")>>)
lite_test_oneshot_sender_dropped_before_recv ==
  Before("TestCompletion", DropTx, Await("closed"))
lite_test_oneshot_sender_dropped_unit_type == Before("unit", DropTx, Await("closed"))
lite_test_oneshot_sender_dropped_custom_state ==
  Before("CustomState", DropTx, Await("closed"))
lite_test_sender_is_closed_initially_false == Test("unit", <<IsClosedIs({"no"})>>, <<>>)
lite_test_sender_is_closed_after_receiver_drop ==
  Test("unit", <<DropRx, IsClosedIs({"yes"})>>, <<>>)
lite_test_sender_is_closed_after_receiver_close ==
  Test("unit", <<CloseRx, IsClosedIs({"yes"})>>, <<>>)
lite_test_receiver_close_prevents_send ==
  Test("TestCompletion", <<CloseRx, SendErr("Called")>>, <<>>)
lite_test_blocking_recv_immediate ==
  Before("TestCompletion", Send("Called"), <<BlockingRecv("Called")>>)
lite_test_blocking_recv_with_thread == Later("unit", Send("unit"), <<BlockingRecv("unit")>>)
lite_test_blocking_recv_sender_dropped ==
  Later("unit", DropTx, <<BlockingRecv("closed")>>)

LiteTests ==
  {lite_test_oneshot_called, lite_test_oneshot_cancelled,
   lite_test_oneshot_immediate_called, lite_test_oneshot_immediate_cancelled,
   lite_test_oneshot_custom_state, lite_test_oneshot_custom_state_timeout,
   lite_test_oneshot_unit_type, lite_test_oneshot_unit_type_immediate,
   lite_test_oneshot_into_future_called, lite_test_oneshot_into_future_immediate,
   lite_test_oneshot_into_future_unit_type,
   lite_test_oneshot_into_future_custom_state,
   lite_test_oneshot_await_mut_reference,
   lite_test_oneshot_await_mut_reference_unit_type,
   lite_test_oneshot_try_recv_pending, lite_test_oneshot_try_recv_ready,
   lite_test_oneshot_try_recv_sender_dropped,
   lite_test_oneshot_sender_dropped_before_recv,
   lite_test_oneshot_sender_dropped_unit_type,
   lite_test_oneshot_sender_dropped_custom_state,
   lite_test_sender_is_closed_initially_false,
   lite_test_sender_is_closed_after_receiver_drop,
   lite_test_sender_is_closed_after_receiver_close,
   lite_test_receiver_close_prevents_send, lite_test_blocking_recv_immediate,
   lite_test_blocking_recv_with_thread, lite_test_blocking_recv_sender_dropped}

-----------------------------------------------------------------------------
(* The loom tests, all of the unit type *)

loom_oneshot_lite_success == Later("unit", SendAny("unit"), AwaitAny({"unit", "closed"}))
loom_oneshot_lite_drop_sender == Later("unit", DropTx, Await("closed"))
loom_oneshot_lite_close_receiver ==
  Test("unit", <<Spawn, CloseRx>> \o AwaitAny({"unit", "closed"}), <<SendAny("unit")>>)
loom_oneshot_blocking_recv_success ==
  Later("unit", SendAny("unit"), <<BlockingRecv("unit")>>)
loom_oneshot_blocking_recv_drop_sender ==
  Later("unit", DropTx, <<BlockingRecv("closed")>>)
loom_sender_is_closed_concurrent ==
  Test("unit", <<Spawn, IsClosedIs({"yes", "no"}), Join, DropTx>>, <<DropRx>>)

LoomTests ==
  {loom_oneshot_lite_success, loom_oneshot_lite_drop_sender,
   loom_oneshot_lite_close_receiver, loom_oneshot_blocking_recv_success,
   loom_oneshot_blocking_recv_drop_sender, loom_sender_is_closed_concurrent}

-----------------------------------------------------------------------------
(* Running a test *)

Running(t) == pos[t] \in 1 .. Len(test[t])
Now(t) == test[t][pos[t]]
At(t, sides) == Running(t) /\ Now(t).side \in sides
Ended(t) == pos[t] > Len(test[t])

TestInit ==
  /\ Init
  /\ test \in GenericTests \union LiteTests \union LoomTests \union {AnyTest}
  /\ IF test = AnyTest THEN storage \in AnyStorages ELSE storage = test.storage
  /\ pos = [t \in Task |-> IF t = "main" THEN 1 ELSE 0]
  /\ calling = {}

Begin(step) ==
  CASE step.side = "tx"         -> StartSend(step.op, step.value)
    [] step.op = "await"        -> \E w \in Tasks : Poll(w)
    [] step.op = "close"        -> Close
    [] step.side = "rx" /\ step.op = "drop" -> DropReceiver
    [] OTHER                    -> StartRecv(step.op)

Call(t) ==
  /\ At(t, {"tx", "rx"}) /\ t \notin calling
  /\ Begin(Now(t))
  /\ calling' = calling \union {t}
  /\ UNCHANGED <<test, pos>>

\* The task's call is over.
Over(t) ==
  /\ At(t, {"tx", "rx"}) /\ t \in calling
  /\ IF Now(t).side = "tx" THEN txPc \in {"open", "gone"}
     ELSE rxPc \in {"idle", "gone"} /\ ~awaiting

Advance(t) ==
  /\ pos' = IF At(t, {"spawn"}) THEN [pos EXCEPT ![t] = @ + 1, !["spawned"] = 1]
            ELSE [pos EXCEPT ![t] = @ + 1]
  /\ UNCHANGED <<test, vars>>

Finished(t) == Over(t) /\ Advance(t) /\ calling' = calling \ {t}
SpawnTask(t) == At(t, {"spawn"}) /\ Advance(t) /\ UNCHANGED calling
JoinTask(t) ==
  At(t, {"join"}) /\ Ended("spawned") /\ Advance(t) /\ UNCHANGED calling

Client(t) == Call(t) \/ Finished(t) \/ SpawnTask(t) \/ JoinTask(t)

AnyProgram == test = AnyTest /\ Next /\ UNCHANGED testVars

TestNext == \/ AnyProgram
            \/ \E t \in Task : Client(t)
            \/ /\ test # AnyTest
               /\ TxStep \/ RxStep \/ ParkSpuriously \/ RunWoken
               /\ UNCHANGED testVars

\* Threads go on with the call they are in, the executor polls a task that was
\* woken, and a test's tasks run.  No program is obliged to send, to drop or to
\* keep waiting.
TestSpec ==
  /\ TestInit /\ [][TestNext]_<<vars, testVars>>
  /\ WF_<<vars, testVars>>(TxStep /\ UNCHANGED testVars)
  /\ WF_<<vars, testVars>>(RxStep /\ UNCHANGED testVars)
  /\ WF_<<vars, testVars>>(RunWoken /\ UNCHANGED testVars)
  /\ \A t \in Task : WF_<<vars, testVars>>(Client(t))

-----------------------------------------------------------------------------
(* Correctness *)

\* What the call of a task has come to.
Outcome(t) ==
  CASE Now(t).op = "is_closed"                       -> answer
    [] Now(t).side = "tx" /\ Now(t).op # "is_closed" -> fate
    [] Now(t).op \in {"close", "drop"} /\ Now(t).side = "rx" -> "none"
    [] OTHER -> IF result = "value" THEN received ELSE result

\* Whatever the schedule, every call of every test has an outcome that the test
\* allows.
AssertionsHold == \A t \in Task : Over(t) => Outcome(t) \in Now(t).outcomes

\* Every test comes to its end.
TestsComplete == test = AnyTest \/ <>Ended("main")
=============================================================================
