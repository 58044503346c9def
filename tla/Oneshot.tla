------------------------------- MODULE Oneshot -------------------------------
(***************************************************************************)
(* oneshot/common.rs over either storage: oneshot/generic.rs, which keeps  *)
(* the value in a cell next to its state and takes it out by a swap, and   *)
(* oneshot/lite.rs, which encodes the value in the state and only loads    *)
(* it.  One sender, one receiver, an AtomicWaker between them, and the     *)
(* reference count of the Arc they share, which both of them consult.      *)
(*                                                                         *)
(* One action per atomic instruction or access to the cell; txPc and rxPc  *)
(* name the next one.  Atomics are sequentially consistent here.           *)
(***************************************************************************)
EXTENDS Naturals

CONSTANTS Storages, \* the storages in use: "generic", or the lite one of a State
          Reused,   \* those whose receiver the program goes on using after it
                    \* has returned a value, or Closed
          Tasks,    \* the wakers of the tasks that poll the receiver
          Parker,   \* the waker of blocking_recv(): its ThreadParker
          NoWaker

ASSUME StoragesAssumption ==
  /\ Storages \subseteq {"generic", "unit", "TestCompletion", "CustomState"}
  /\ Reused \subseteq Storages
ASSUME WakersAssumption == Parker \notin Tasks /\ NoWaker \notin Tasks \union {Parker}

VARIABLES storage,   \* the storage of this channel, which never changes
          state,     \* GenericStorage.state or LiteStorage.state, a u8
          value,     \* where the value is: with the "sender", in the "cell",
                     \* with the "receiver", or "dropped" with the cell
          payload,   \* the value given to send()
          received,  \* the value the receiver's last call returned
          strong,    \* the reference count of the Arc
          txPc, txOp,
          answer,    \* what the last is_closed() answered: "none", "yes", "no"
          fate,      \* what the sender has come to: "open", "sent", "refused"
                     \* (send() returned Err) or "dropped"
          rxPc, rxOp,
          cx,        \* the waker of the last poll, or the parker
          awaiting,  \* a task awaits the receiver
          result,    \* what the receiver's last call returned
          closed,    \* history: where the sender was at the first close()
          token,     \* the park token of the thread in blocking_recv()
          unparking, \* the threads between notified.store() and unpark()
          wakerState, cell, wakerPc, held,  \* Inner.waker
          woken,     \* wakers woken whose task has not run; of the parker: its
                     \* notified flag
          alive      \* the Arc's content has not been dropped

Tx == "tx"
Rx == "rx"
Wakers == Tasks \union {Parker}

W == INSTANCE AtomicWaker
     WITH Threads <- {Tx, Rx}, TakeOnly <- {}, state <- wakerState, pc <- wakerPc

wakerVars == <<wakerState, cell, wakerPc, held, woken, alive>>
parkVars == <<token, unparking>>
txCall == <<txOp, payload, answer>>  \* the sender's call, and its answer
txVars == <<txPc, txCall, fate>>
others == <<storage, closed, parkVars, wakerVars>>
reply == <<result, received>>        \* to the receiver's last call
rxVars == <<rxPc, rxOp, cx, awaiting, reply>>
vars == <<storage, state, value, strong, txVars, rxVars, closed, parkVars, wakerVars>>

EMPTY           == 0
READY           == 1
SENDER_CLOSED   == 2
RECEIVER_CLOSED == 3

\* The encoding of a State: the values of from_u8(1), from_u8(2), ..., which is
\* None elsewhere, and the codes of a channel that has no value.
Lite(values) == [values |-> values, pending |-> 0, closed |-> 255, receiver_closed |-> 254]
Unit == Lite(<<"unit">>)
TestCompletion == Lite(<<"Called", "Cancelled">>)
CustomState == Lite(<<"Success", "Failure", "Timeout">>)

\* The generic storage has one code for every value.
Generic == [values |-> <<"T">>, pending |-> EMPTY, closed |-> SENDER_CLOSED,
            receiver_closed |-> RECEIVER_CLOSED]

Encoding == CASE storage = "generic"        -> Generic
              [] storage = "unit"           -> Unit
              [] storage = "TestCompletion" -> TestCompletion
              [] OTHER                      -> CustomState

Codes == DOMAIN Encoding.values
Values == {Encoding.values[n] : n \in Codes}

\* Mutant of ToU8: a match arm answers the code of its neighbour.
ToU8Shifted(v) == IF Encoding.values[1] = v THEN 1
                  ELSE (CHOOSE n \in Codes : Encoding.values[n] = v) - 1

\* to_u8()
ToU8(v) == CHOOSE n \in Codes : Encoding.values[n] = v

\* from_u8(), of a code that it knows.
FromU8(n) == Encoding.values[n]

IsGeneric == storage = "generic"
Pending == Encoding.pending
SenderClosed == Encoding.closed
ReceiverClosed == Encoding.receiver_closed

\* The handles that share the Arc.  A sender that has sent is forgotten and
\* keeps its share for good.
Handles == (IF txPc = "gone" /\ fate # "sent" THEN 0 ELSE 1)
           + (IF rxPc = "gone" THEN 0 ELSE 1)

\* Type invariant, with the count of the Arc that is_closed(), poll() and
\* blocking_recv() consult: it is that of the handles.
TypeOK ==
  /\ storage \in Storages
  /\ state \in Codes \union {Pending, SenderClosed, ReceiverClosed}
  /\ value \in {"sender", "cell", "receiver", "dropped"}
  /\ strong = Handles
  /\ txPc \in {"open", "closed?", "count?", "write", "store", "mark", "wake",
               "finish", "gone"}
  /\ txOp \in {"none", "is_closed", "send", "send_unchecked", "drop"}
  /\ answer \in {"none", "yes", "no"}
  /\ payload \in Values \union {"none"} /\ received \in Values \union {"none"}
  /\ fate \in {"open", "sent", "refused", "dropped"}
  /\ rxPc \in {"idle", "take", "read", "register", "retake", "count?", "dropped?",
               "notified?", "park", "drop", "gone"}
  /\ rxOp \in {"none", "try_recv", "poll", "blocking_recv"}
  /\ cx \in Wakers \union {NoWaker}
  /\ awaiting \in BOOLEAN
  /\ result \in {"none", "value", "empty", "closed"}
  /\ closed \in {"never", "before", "during", "after"}
  /\ token \in BOOLEAN /\ unparking \in SUBSET {Tx, Rx}
  /\ W!TypeOK

Init ==
  /\ storage \in Storages
  /\ state = Pending /\ value = "sender" /\ strong = 2
  /\ txPc = "open" /\ txOp = "none" /\ fate = "open" /\ answer = "none" /\ payload = "none"
  /\ rxPc = "idle" /\ rxOp = "none" /\ cx = NoWaker /\ awaiting = FALSE
  /\ result = "none" /\ received = "none"
  /\ closed = "never"
  /\ token = FALSE /\ unparking = {}
  /\ W!Init

\* A thread has returned from register() or wake(), unpark() included.
OutOfWaker(t) == wakerPc[t] = "idle" /\ t \notin unparking

\* A handle is dropped, and with the last one the storage, whose drop() cleans
\* up a value that is READY, and the waker.
Release ==
  /\ strong' = strong - 1
  /\ IF strong = 1
       THEN /\ W!Drop
            /\ value' = IF IsGeneric /\ state = READY THEN "dropped" ELSE value
       ELSE UNCHANGED <<wakerVars, value>>

-----------------------------------------------------------------------------
(* The sender *)

\* store() begins with the cell in the generic storage.
StoreBegins == IF IsGeneric THEN "write" ELSE "store"

\* is_closed(), send(), send_unchecked() with a value, or drop().
StartSend(op, v) ==
  /\ txPc = "open"
  /\ txOp' = op
  /\ txPc' = CASE op \in {"is_closed", "send"} -> "closed?"
               [] op = "send_unchecked"       -> StoreBegins
               [] OTHER                       -> "mark"
  /\ fate' = IF op = "drop" THEN "dropped" ELSE fate
  /\ payload' = IF op \in {"send", "send_unchecked"} THEN v ELSE payload
  /\ UNCHANGED <<state, value, strong, answer, rxVars, others>>

\* Mutant of Alone: the sender counts itself twice.
AloneOffByOne == strong <= 2

\* Arc::strong_count() == 1: the other handle has been dropped.
Alone == strong = 1

\* Mutant of IsClosed: the reference count is not looked at.
IsClosedByFlag ==
  /\ txPc = "closed?"
  /\ LET yes == state = ReceiverClosed IN
     /\ txPc' = IF txOp = "is_closed" THEN "open" ELSE IF yes THEN "mark" ELSE StoreBegins
     /\ fate' = IF txOp = "send" /\ yes THEN "refused" ELSE fate
     /\ answer' = IF txOp = "is_closed" THEN IF yes THEN "yes" ELSE "no" ELSE answer
  /\ UNCHANGED <<state, value, strong, txOp, payload, rxVars, others>>

\* is_closed(): the flag of close(), then the reference count.  A sender that
\* is refused is dropped.
IsClosed ==
  /\ txPc \in {"closed?", "count?"}
  /\ LET yes == IF txPc = "closed?" THEN state = ReceiverClosed ELSE Alone
         over == yes \/ txPc = "count?"
     IN
     /\ txPc' = CASE ~over                      -> "count?"
                  [] over /\ txOp = "is_closed" -> "open"
                  [] OTHER                      -> IF yes THEN "mark" ELSE StoreBegins
     /\ fate' = IF txOp = "send" /\ yes THEN "refused" ELSE fate
     /\ answer' = IF txOp = "is_closed" /\ over THEN IF yes THEN "yes" ELSE "no" ELSE answer
  /\ UNCHANGED <<state, value, strong, txOp, payload, rxVars, others>>

\* The generic store() writes the value ...
Write ==
  /\ txPc = "write"
  /\ value' = "cell"
  /\ txPc' = "store"
  /\ UNCHANGED <<state, strong, txCall, fate, rxVars, others>>

\* Mutant of Store: the sender is not forgotten, and its drop() follows.
StoreThenDrop ==
  /\ txPc = "store"
  /\ state' = ToU8(payload)
  /\ fate' = "sent"
  /\ value' = IF ~IsGeneric THEN "cell" ELSE value
  /\ txPc' = "mark"
  /\ UNCHANGED <<strong, txCall, rxVars, others>>

\* Mutant of Store: send() does not wake.
StoreSilently ==
  /\ txPc = "store"
  /\ state' = ToU8(payload)
  /\ fate' = "sent"
  /\ value' = IF ~IsGeneric THEN "cell" ELSE value
  /\ txPc' = "finish"
  /\ UNCHANGED <<strong, txCall, rxVars, others>>

\* ... then the state, which in the lite storage is the value.
Store ==
  /\ txPc = "store"
  /\ state' = ToU8(payload)
  /\ fate' = "sent"
  /\ value' = IF ~IsGeneric THEN "cell" ELSE value
  /\ txPc' = "wake"
  /\ UNCHANGED <<strong, txCall, rxVars, others>>

\* Mutant of MarkSenderDropped: drop() does not wake.
MarkSilently ==
  /\ txPc = "mark"
  /\ state' = SenderClosed
  /\ txPc' = "finish"
  /\ UNCHANGED <<value, strong, txCall, fate, rxVars, others>>

\* drop(Sender): mark_sender_dropped()
MarkSenderDropped ==
  /\ txPc = "mark"
  /\ state' = SenderClosed
  /\ txPc' = "wake"
  /\ UNCHANGED <<value, strong, txCall, fate, rxVars, others>>

\* self.inner.waker.wake(), after either.
Wake ==
  /\ txPc = "wake"
  /\ W!Take(Tx)
  /\ txPc' = "finish"
  /\ UNCHANGED <<storage, state, value, strong, txCall, fate, rxVars, closed, parkVars>>

\* Mutant of Finish: no mem::forget(), the share of the Arc is given up.
FinishWithoutForget ==
  /\ txPc = "finish" /\ OutOfWaker(Tx)
  /\ Release
  /\ txPc' = "gone"
  /\ UNCHANGED <<storage, state, txCall, fate, rxVars, closed, parkVars>>

\* A sender that has sent is forgotten, its share of the Arc with it; any
\* other gives it up.
Finish ==
  /\ txPc = "finish" /\ OutOfWaker(Tx)
  /\ IF fate = "sent" THEN UNCHANGED <<strong, value, wakerVars>> ELSE Release
  /\ txPc' = "gone"
  /\ UNCHANGED <<storage, state, txCall, fate, rxVars, closed, parkVars>>

-----------------------------------------------------------------------------
(* The receiver *)

\* A call returns; blocking_recv() has consumed the receiver.
Return(r, v) == /\ result' = r
                /\ received' = v
                /\ awaiting' = FALSE
                /\ rxPc' = IF rxOp = "blocking_recv" THEN "drop" ELSE "idle"

\* The receiver is in the program's hands.
Free == rxPc = "idle" /\ (result \in {"value", "closed"} => storage \in Reused)

\* try_recv() or blocking_recv(), whatever was polled before given up.
StartRecv(op) ==
  /\ Free
  /\ rxOp' = op
  /\ cx' = IF op = "blocking_recv" THEN Parker ELSE cx
  /\ awaiting' = FALSE
  /\ result' = "none" /\ received' = "none"
  /\ rxPc' = "take"
  /\ UNCHANGED <<state, value, strong, txVars, others>>

\* poll(cx): an executor runs the task that awaits the receiver.
Poll(w) ==
  /\ Free
  /\ rxOp' = "poll"
  /\ cx' = w
  /\ woken' = woken \ {w}
  /\ awaiting' = TRUE
  /\ result' = "none" /\ received' = "none"
  /\ rxPc' = "take"
  /\ UNCHANGED <<storage, state, value, strong, txVars, closed, parkVars,
                 wakerState, cell, wakerPc, held, alive>>

\* Mutant of AfterTake: the generic storage loads its state too.
AfterTakeLoaded == state

\* Mutant of AfterTake: the lite storage swaps its state too.
AfterTakeSwapped == Pending

\* try_take(): the generic one swaps EMPTY in, the lite one loads.
AfterTake == IF IsGeneric THEN EMPTY ELSE state

\* Mutant of Closes: a dropped sender is not told from one that has not sent.
ReceiverCloses == {ReceiverClosed}

\* The states try_take() answers Closed to.
Closes == {SenderClosed, ReceiverClosed}

\* ... and those it answers Ready to, neither closed nor pending; from_u8()
\* knows them.
IsReady == state \notin Closes \union {Pending} /\ state \in Codes

\* The answer Ready.  The generic storage has yet to read its cell.
TakeReady ==
  IF IsGeneric THEN rxPc' = "read" /\ UNCHANGED <<value, awaiting, reply>>
  ELSE Return("value", FromU8(state)) /\ value' = "receiver"

\* Mutant of TryTake: poll() and blocking_recv() do not look again after they
\* have registered.
TryTakeOnce ==
  /\ \/ /\ rxPc = "take"
        /\ state' = AfterTake
        /\ CASE IsReady -> TakeReady
             [] state \in Closes -> Return("closed", "none") /\ UNCHANGED value
             [] OTHER -> /\ UNCHANGED value
                         /\ IF rxOp = "try_recv" THEN Return("empty", "none")
                            ELSE rxPc' = "register" /\ UNCHANGED <<awaiting, reply>>
     \/ /\ rxPc = "retake" /\ OutOfWaker(Rx)
        /\ rxPc' = "count?" /\ UNCHANGED <<state, value, awaiting, reply>>
  /\ UNCHANGED <<strong, txVars, rxOp, cx, others>>

\* storage.try_take(), by any of the calls, before or after registering.
TryTake ==
  /\ \/ rxPc = "take"
     \/ rxPc = "retake" /\ OutOfWaker(Rx)
  /\ state' = AfterTake
  /\ CASE IsReady -> TakeReady
       [] state \in Closes -> Return("closed", "none") /\ UNCHANGED value
       [] OTHER ->
            /\ UNCHANGED value
            /\ IF rxOp = "try_recv" THEN Return("empty", "none")
               ELSE /\ rxPc' = IF rxPc = "take" THEN "register" ELSE "count?"
                    /\ UNCHANGED <<awaiting, reply>>
  /\ UNCHANGED <<strong, txVars, rxOp, cx, others>>

\* assume_init_read()
Read ==
  /\ rxPc = "read"
  /\ value' = "receiver"
  /\ Return("value", payload)
  /\ UNCHANGED <<state, strong, txVars, rxOp, cx, others>>

\* register_waker()
RegisterWaker ==
  /\ rxPc = "register"
  /\ W!Register(Rx, cx)
  /\ rxPc' = "retake"
  /\ UNCHANGED <<storage, state, value, strong, txVars, rxOp, cx, awaiting, reply,
                 closed, parkVars>>

\* Arc::strong_count() == 1 && is_sender_dropped(), before giving up the CPU.
SenderDropped ==
  /\ rxPc \in {"count?", "dropped?"}
  /\ CASE rxPc = "count?" /\ Alone ->
            rxPc' = "dropped?" /\ UNCHANGED <<awaiting, reply>>
       [] rxPc = "dropped?" /\ state = SenderClosed ->
            Return("closed", "none")
       [] OTHER ->
            /\ rxPc' = IF rxOp = "poll" THEN "idle" ELSE "notified?"
            /\ UNCHANGED <<awaiting, reply>>
  /\ UNCHANGED <<state, value, strong, txVars, rxOp, cx, others>>

\* parker.notified.swap(false)
SwapNotified ==
  /\ rxPc = "notified?"
  /\ woken' = woken \ {Parker}
  /\ rxPc' = IF Parker \in woken THEN "retake" ELSE "park"
  /\ UNCHANGED <<storage, state, value, strong, txVars, rxOp, cx, awaiting, reply, closed,
                 parkVars, wakerState, cell, wakerPc, held, alive>>

\* park() returns with the token, or for no reason.
Park ==
  /\ rxPc = "park" /\ token
  /\ token' = FALSE
  /\ rxPc' = "retake"
  /\ UNCHANGED <<storage, state, value, strong, txVars, rxOp, cx, awaiting, reply, closed,
                 unparking, wakerVars>>

ParkSpuriously ==
  /\ rxPc = "park"
  /\ rxPc' = "retake"
  /\ UNCHANGED <<storage, state, value, strong, txVars, rxOp, cx, awaiting, reply, closed,
                 parkVars, wakerVars>>

\* close()
Close ==
  /\ rxPc = "idle"
  /\ state' = ReceiverClosed
  /\ awaiting' = FALSE
  /\ closed' = CASE closed # "never"                    -> closed
                 [] closed = "never" /\ txPc = "open"   -> "before"
                 [] closed = "never" /\ fate = "sent"   -> "after"
                 [] OTHER                               -> "during"
  /\ UNCHANGED <<storage, value, strong, txVars, rxPc, rxOp, cx, reply, parkVars,
                 wakerVars>>

\* drop(Receiver)
DropReceiver ==
  /\ rxPc \in {"idle", "drop"}
  /\ Release
  /\ awaiting' = FALSE
  /\ rxPc' = "gone"
  /\ UNCHANGED <<storage, state, txVars, rxOp, cx, reply, closed, parkVars>>

-----------------------------------------------------------------------------

\* The rest of a call of the AtomicWaker.  Waking the parker sets its notified
\* flag and then unparks its thread.
InWaker(t) ==
  /\ W!Continue(t)
  /\ unparking' = IF wakerPc[t] = "wake" /\ held[t] = Parker
                    THEN unparking \union {t} ELSE unparking
  /\ UNCHANGED <<storage, state, value, strong, txVars, rxVars, closed, token>>

Unpark(t) ==
  /\ t \in unparking
  /\ unparking' = unparking \ {t}
  /\ token' = TRUE
  /\ UNCHANGED <<storage, state, value, strong, txVars, rxVars, closed, wakerVars>>

TxStep == \/ IsClosed \/ Write \/ Store \/ MarkSenderDropped \/ Wake \/ Finish
          \/ InWaker(Tx) \/ Unpark(Tx)

RxStep == \/ TryTake \/ Read \/ RegisterWaker \/ SenderDropped \/ SwapNotified
          \/ Park \/ InWaker(Rx) \/ Unpark(Rx)
          \/ rxPc = "drop" /\ DropReceiver

Next == \/ \E op \in {"send", "send_unchecked"}, v \in Values : StartSend(op, v)
        \/ \E op \in {"is_closed", "drop"} : StartSend(op, "none")
        \/ TxStep
        \/ \E op \in {"try_recv", "blocking_recv"} : StartRecv(op)
        \/ \E w \in Tasks : Poll(w)
        \/ RxStep
        \/ ParkSpuriously
        \/ Close
        \/ DropReceiver

Spec == Init /\ [][Next]_vars

\* The executor polls a task that was woken.
RunWoken == awaiting /\ cx \in woken /\ \E w \in Tasks : Poll(w)

-----------------------------------------------------------------------------
(* Correctness *)

\* MaybeUninit is read only when it holds the value, and never while it is
\* written: a READY state, and a receiver about to read, both mean that the
\* write is over and that nobody has moved the value out.
ReadsInitialised ==
  IsGeneric =>
    /\ rxPc = "read" => value = "cell" /\ txPc \notin {"write", "store"}
    /\ state = READY => value = "cell" /\ rxPc # "read"

\* A receiver is told Closed only if the sender is going without a value, or
\* if it was closed itself.
ClosedHonestly ==
  result = "closed" => (fate \in {"dropped", "refused"} \/ closed # "never")

\* send() hands its value back, and is_closed() answers yes, only if the receiver
\* was closed or dropped; the receiver has not got the value then.
RefusedHonestly ==
  /\ fate = "refused" \/ answer = "yes" => closed # "never" \/ rxPc = "gone"
  /\ fate = "refused" => value = "sender"

\* The receiver gets the value that was sent, and not before the sender has
\* acted: no State loses its value in the code that LiteStorage keeps of it, or
\* shares the code of a pending or closed channel.
ReceivedIsSent ==
  /\ result = "value" => received = payload /\ fate = "sent"
  /\ txPc \in {"wake", "finish"} /\ fate = "sent" /\ closed = "never" =>
       IsReady \/ rxPc = "read" \/ value # "cell"

\* A task left waiting is never forgotten: its waker is in the slot as long as
\* the sender has not acted, and afterwards a wake of it is on its way.
NoLostWakeup ==
  awaiting /\ rxPc = "idle" =>
    IF state = Pending
      THEN fate # "sent" /\ cx \in {W!slot} \union W!inflight \union woken
      ELSE \/ cx \in W!inflight \union woken
           \/ cx = W!slot /\ txPc = "wake"

\* An await or a blocking_recv() ends once the sender has sent or is going.
Waiting == \/ awaiting
           \/ rxOp = "blocking_recv" /\ rxPc \notin {"drop", "gone"}
ReceiveReturns == Waiting /\ fate # "open" ~> ~Waiting

\* "`Err(TryRecvError::Empty)` if pending, or `Err(TryRecvError::Closed)` if
\* sender was dropped", says try_recv(): it does not answer Empty once the
\* sender has marked itself dropped, however often it has answered Closed.
EmptyMeansPending ==
  [][rxPc = "take" /\ result' = "empty" /\ fate \in {"dropped", "refused"}
       => txPc = "mark"]_vars

\* "Any `send` operation which happens after this method returns is guaranteed
\* to fail", says close(): the checks of send() see it.
CloseStopsSend == (closed = "before" /\ txOp = "send") => fate # "sent"

\* The lite storage keeps that promise, and with it the answer of is_closed():
\* once the program has been told yes, a send() cannot succeed any more.
CloseStopsLiteSend ==
  ~IsGeneric => /\ CloseStopsSend
                /\ (answer = "yes" /\ txOp = "send") => fate # "sent"

\* "After calling `close`, `try_recv` should be called to receive a value if
\* one was sent before the call to `close` completed": it is not told Closed while
\* the value sent is still in the storage.
CloseKeepsValue == (closed = "after" /\ result = "closed") => value = "receiver"

\* "Clean up the value if it was sent but not received", says the drop() of
\* the generic storage: with both handles gone nothing is left in the cell.
NoLeak == (txPc = "gone" /\ rxPc = "gone") => value # "cell"

-----------------------------------------------------------------------------
(* Both storages implement Once.  A sender shows what it has done to the     *)
(* state; what is left of its call then, the wake and the end of its handle, *)
(* nobody is told of.  The generic receiver shows the value once the swap    *)
(* has made it its own, before it reads the cell.                            *)

Slot == IF state = Pending THEN "empty"
        ELSE IF state = SenderClosed THEN "closed"
        ELSE IF state = ReceiverClosed THEN "shut" ELSE "full"

SendCall == IF txPc = "open" THEN "open"
            ELSE IF txPc \in {"closed?", "count?", "write", "store"} THEN txOp
            ELSE IF txPc = "mark" THEN "dropping" ELSE "done"
Seen == IF txPc = "count?" THEN "open"
        ELSE IF txPc \in {"write", "store"} /\ txOp = "send" THEN "there" ELSE "nothing"

Reading == rxPc = "read"
RecvCall == IF rxPc = "gone" THEN "gone"
            ELSE IF rxPc = "drop" \/ (Reading /\ rxOp = "blocking_recv") THEN "consumed"
            ELSE IF rxPc = "idle" \/ Reading THEN "idle" ELSE rxOp
Found == rxPc \in {"register", "retake", "count?", "dropped?", "notified?", "park"}
Awaited == awaiting /\ ~Reading
RecvResult == IF Reading THEN "value" ELSE result
RecvValue == IF Reading THEN payload ELSE received

\* What any storage can send.
Sendable == {"T", "unit", "Called", "Cancelled", "Success", "Failure", "Timeout"}

Promise == INSTANCE Once
           WITH Value <- Sendable, keeps <- ~IsGeneric, slot <- Slot,
                sender <- SendCall, seen <- Seen, receiver <- RecvCall, awaiting <- Awaited,
                found <- Found, result <- RecvResult, received <- RecvValue

\* Every step of a call is one atomic step on the slot or none: the two checks of
\* send(), the swap or load of try_take(), a second look after registering and a
\* late look at a dropped sender add up to the answers of the plain slot.
ImplementsOnce == Promise!Spec
=============================================================================
