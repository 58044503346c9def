------------------------------ MODULE WeakRecv ------------------------------
(***************************************************************************)
(* recv() of the SPSC channel against try_send() and drop(Sender), with    *)
(* the memory orderings the code asks for.  The other modules take every   *)
(* access as sequentially consistent; this one does not, for the one       *)
(* exchange where it matters: the sender changes the ring (or the closed   *)
(* flag) and swaps NOTIFIED into recv_notify, the receiver takes the       *)
(* notification by a plain store of EMPTY and looks at the ring.           *)
(*                                                                         *)
(* A location is the sequence of the messages written to it, a thread has  *)
(* a view (for each location, the oldest message it may still read), and   *)
(* so has each message (what a thread that acquires it gets to see).  New  *)
(* messages go to the end: each location is stored to by one thread, and   *)
(* otherwise only swapped.  With LockedRMW a read-modify-write is a full   *)
(* barrier besides, as the locked instructions of x86 are.                 *)
(*                                                                         *)
(* The receiver is a loop of recv(); it is not dropped, and the ring does  *)
(* not fill up.  AtomicWaker is a location of its own, swapped: a waker is *)
(* in it or not.  The ring is its write index, which push() stores with    *)
(* Release and pop() loads with Acquire (smallring, external).             *)
(***************************************************************************)
EXTENDS Naturals, Sequences

CONSTANTS MaxMessages,  \* bound: how many values are sent
          MaxWrites,    \* bound: a task is polled without having been woken only
                        \* while the location of its waker has less messages
          LockedRMW     \* whether a read-modify-write is a full barrier

ASSUME BoundsAssumption == MaxMessages \in Nat /\ MaxWrites \in Nat
ASSUME LockedRMWAssumption == LockedRMW \in BOOLEAN

EMPTY    == "EMPTY"
WAITING  == "WAITING"
NOTIFIED == "NOTIFIED"

Location == {"tail", "closed", "state", "waker"}

VARIABLES mem,      \* per location, its messages
          view,     \* per thread, the index of a message of each location
          barrier,  \* what the last full barrier saw
          txPc, rxPc,
          woken,    \* the receiver's task was woken and has not run since
          wokenView,
          taken     \* how many values recv() has returned

vars == <<mem, view, barrier, txPc, rxPc, woken, wokenView, taken>>

InitialView == [l \in Location |-> 1]

Init ==
  /\ mem = [l \in Location |->
              << [val |-> CASE l = "tail"  -> 0
                            [] l = "state" -> EMPTY
                            [] OTHER       -> FALSE,
                  view |-> InitialView] >>]
  /\ view = [t \in {"tx", "rx"} |-> InitialView]
  /\ barrier = InitialView
  /\ txPc = "idle" /\ rxPc = "pop"
  /\ woken = FALSE /\ wokenView = InitialView
  /\ taken = 0

-----------------------------------------------------------------------------
(* Memory *)

Later(v, w) == [l \in Location |-> IF v[l] < w[l] THEN w[l] ELSE v[l]]
Newest(l) == Len(mem[l])
Latest(l) == mem[l][Newest(l)].val

\* The messages thread t may read.
Readable(t, l) == view[t][l] .. Newest(l)

\* load(Acquire) of message i
Acquire(t, l, i) ==
  /\ view' = [view EXCEPT ![t] = Later(@, mem[l][i].view)]
  /\ UNCHANGED <<mem, barrier>>

\* Thread t writes x, with a view of seen.
Write(t, l, x, seen) ==
  LET v == [seen EXCEPT ![l] = Newest(l) + 1] IN
    /\ mem' = [mem EXCEPT ![l] = Append(@, [val |-> x, view |-> v])]
    /\ view' = [view EXCEPT ![t] = v]

\* store(x, Release)
Release(t, l, x) == Write(t, l, x, view[t]) /\ UNCHANGED barrier

\* What t sees as it begins a read-modify-write.
Fenced(t) == IF LockedRMW THEN Later(view[t], barrier) ELSE view[t]

\* swap(x, AcqRel), and a compare_exchange that succeeds
Swap(t, l, x) ==
  /\ Write(t, l, x, Later(Fenced(t), mem[l][Newest(l)].view))
  /\ barrier' = IF LockedRMW THEN view'[t] ELSE barrier

\* A compare_exchange that reads another value than the expected one, in
\* message i; what it sees of that message is up to its failure ordering.
FailedExchange(t, l, i, seen) ==
  /\ i \in Fenced(t)[l] .. Newest(l)
  /\ view' = [view EXCEPT ![t] = Later(Fenced(t), seen)]
  /\ barrier' = IF LockedRMW THEN view'[t] ELSE barrier
  /\ UNCHANGED mem

-----------------------------------------------------------------------------
(* The sender *)

\* try_send(): push()
Push ==
  /\ txPc = "idle" /\ Latest("tail") < MaxMessages
  /\ Release("tx", "tail", Latest("tail") + 1)
  /\ txPc' = "notify"
  /\ UNCHANGED <<rxPc, woken, wokenView, taken>>

\* drop(Sender): closed.store(true)
DropSender ==
  /\ txPc = "idle" /\ ~Latest("closed")
  /\ Release("tx", "closed", TRUE)
  /\ txPc' = "notify last"
  /\ UNCHANGED <<rxPc, woken, wokenView, taken>>

\* notify_one(): state.swap(NOTIFIED)
NotifyOne ==
  /\ txPc \in {"notify", "notify last"}
  /\ Swap("tx", "state", NOTIFIED)
  /\ txPc' = IF Latest("state") = WAITING THEN "wake"
             ELSE IF Latest("closed") THEN "gone" ELSE "idle"
  /\ UNCHANGED <<rxPc, woken, wokenView, taken>>

\* waker.wake()
Wake ==
  /\ txPc = "wake"
  /\ Swap("tx", "waker", FALSE)
  /\ IF Latest("waker") THEN woken' = TRUE /\ wokenView' = view'["tx"]
                        ELSE UNCHANGED <<woken, wokenView>>
  /\ txPc' = IF Latest("closed") THEN "gone" ELSE "idle"
  /\ UNCHANGED <<rxPc, taken>>

-----------------------------------------------------------------------------
(* The receiver *)

RxGoto(label) == rxPc' = label /\ UNCHANGED <<txPc, woken, wokenView>>

\* try_recv(): pop(), again once the flag was seen.  With a value recv()
\* returns, and is called again.
Pop ==
  /\ rxPc \in {"pop", "repop"}
  /\ \E i \in Readable("rx", "tail") :
       /\ Acquire("rx", "tail", i)
       /\ IF mem["tail"][i].val > taken
            THEN taken' = taken + 1 /\ RxGoto("pop")
            ELSE UNCHANGED taken /\ RxGoto(IF rxPc = "pop" THEN "load" ELSE "gone")

\* Mutant of LoadClosed: closed.load(Relaxed), which sees the flag alone.
LoadClosedRelaxed ==
  /\ rxPc \in {"load", "recheck"}
  /\ \E i \in Readable("rx", "closed") :
       /\ view' = [view EXCEPT !["rx"]["closed"] = i]
       /\ CASE mem["closed"][i].val /\ rxPc = "load"    -> RxGoto("repop")
            [] mem["closed"][i].val /\ rxPc = "recheck" -> RxGoto("pop")
            [] ~mem["closed"][i].val /\ rxPc = "load"    -> RxGoto("recheck")
            [] OTHER                                    -> RxGoto("register")
  /\ UNCHANGED <<mem, barrier, taken>>

\* closed.load(), by try_recv() and once more by recv(), which then makes a
\* last attempt.
LoadClosed ==
  /\ rxPc \in {"load", "recheck"}
  /\ \E i \in Readable("rx", "closed") :
       /\ Acquire("rx", "closed", i)
       /\ CASE mem["closed"][i].val /\ rxPc = "load"    -> RxGoto("repop")
            [] mem["closed"][i].val /\ rxPc = "recheck" -> RxGoto("pop")
            [] ~mem["closed"][i].val /\ rxPc = "load"    -> RxGoto("recheck")
            [] OTHER                                    -> RxGoto("register")
  /\ UNCHANGED taken

\* register_waker(): waker.register()
Register ==
  /\ rxPc = "register"
  /\ Swap("rx", "waker", TRUE)
  /\ RxGoto("state?")
  /\ UNCHANGED taken

\* The loads of the state: before the exchange, after it, and first thing in
\* any poll but the first.
LoadState ==
  /\ rxPc \in {"state?", "exchanged?", "polled?"}
  /\ \E i \in Readable("rx", "state") :
       /\ Acquire("rx", "state", i)
       /\ RxGoto(IF mem["state"][i].val = NOTIFIED THEN "consume"
                 ELSE CASE rxPc = "state?"     -> "exchange"
                        [] rxPc = "exchanged?" -> "pending"
                        [] rxPc = "polled?"    -> "register")
  /\ UNCHANGED taken

\* compare_exchange(EMPTY, WAITING)
CompareExchange ==
  /\ rxPc = "exchange"
  /\ \/ /\ Latest("state") = EMPTY
        /\ Swap("rx", "state", WAITING)
        /\ RxGoto("exchanged?")
     \/ \E i \in Readable("rx", "state") :
          /\ mem["state"][i].val # EMPTY
          /\ FailedExchange("rx", "state", i, mem["state"][i].view)
          /\ RxGoto(IF mem["state"][i].val = NOTIFIED THEN "consume" ELSE "exchanged?")
  /\ UNCHANGED taken

\* state.store(EMPTY), and Ready
Consume ==
  /\ rxPc = "consume"
  /\ Release("rx", "state", EMPTY)
  /\ RxGoto("drop")
  /\ UNCHANGED taken

\* Mutant of DropFuture: no clean-up once the future is ready.
DropReady ==
  /\ rxPc = "drop"
  /\ RxGoto("pop")
  /\ UNCHANGED <<mem, view, barrier, taken>>

\* drop(Notified), which is ready: compare_exchange(WAITING, EMPTY, Relaxed)
\* finds nothing to clean up.
DropFuture ==
  /\ rxPc = "drop"
  /\ \E i \in Readable("rx", "state") :
       /\ mem["state"][i].val # WAITING
       /\ FailedExchange("rx", "state", i, [view["rx"] EXCEPT !["state"] = i])
  /\ RxGoto("pop")
  /\ UNCHANGED taken

\* The executor polls the task again, woken or for no reason.
Poll ==
  /\ rxPc = "pending" /\ (woken \/ Newest("waker") < MaxWrites)
  /\ view' = [view EXCEPT !["rx"] = IF woken THEN Later(@, wokenView) ELSE @]
  /\ woken' = FALSE
  /\ rxPc' = "polled?"
  /\ UNCHANGED <<mem, barrier, txPc, wokenView, taken>>

-----------------------------------------------------------------------------

Next == \/ Push \/ DropSender \/ NotifyOne \/ Wake
        \/ Pop \/ LoadClosed \/ Register \/ LoadState \/ CompareExchange
        \/ Consume \/ DropFuture \/ Poll

Spec == Init /\ [][Next]_vars

\* "Receive a message from the channel (async, waits if buffer is empty)": a
\* receiver that waits, with no wake on its way and a sender that is in no
\* call, has taken everything, and the sender is not gone.
WaitsIfEmpty ==
  (rxPc = "pending" /\ ~woken /\ txPc \in {"idle", "gone"}) =>
    (taken = Latest("tail") /\ ~Latest("closed"))

\* "Returns `None` if the channel is closed and empty": whoever sees the flag also
\* sees everything that was pushed before it was set, and takes it first.
NoneMeansDrained == rxPc = "gone" => (taken = Latest("tail") /\ Latest("closed"))
=============================================================================
