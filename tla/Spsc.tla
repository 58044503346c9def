-------------------------------- MODULE Spsc --------------------------------
(***************************************************************************)
(* spsc.rs: the bounded single-producer single-consumer channel.  A ring   *)
(* buffer (the smallring crate, external: a bounded queue whose operations *)
(* are atomic), a closed flag, and two SingleWaiterNotify: recv_notify     *)
(* tells the receiver of data, send_notify tells the sender of room.       *)
(*                                                                         *)
(* Each SingleWaiterNotify is a Permit here, which is what Notify (and, in *)
(* the loom build, LoomNotify) is shown to implement.  One action per      *)
(* access to the ring buffer, to the flag or to a permit; txPc and rxPc    *)
(* name the next one.                                                      *)
(***************************************************************************)
EXTENDS Naturals, Sequences

CONSTANTS Capacities,   \* the slots a ring buffer may be created with
          MaxMessages,  \* bound: how many values the sender ever offers
          MaxSlice      \* bound: the longest slice of a slice operation

ASSUME CapacityAssumption == Capacities \subseteq Nat \ {0}
ASSUME BoundsAssumption == MaxMessages \in Nat /\ MaxSlice \in Nat

VARIABLES buffer,      \* the ring buffer
          capacity,    \* its slots, which do not change
          closed,      \* Inner.closed
          recvPermit, recvWait,  \* Inner.recv_notify
          sendPermit, sendWait,  \* Inner.send_notify
          txPc, txOp,  \* the call of the sender in progress, and its next step
          values,      \* its argument
          sent,        \* how many of them it has pushed: total_sent
          txResult,    \* what the sender's last call returned
          rxPc, rxOp,
          want,        \* dest.len() of a slice operation
          got,         \* how many values the call has popped: total_received
          rxResult,    \* what the receiver's last call returned
          offered,     \* history: how many values were passed to the sender
          taken        \* history: the values taken from the ring buffer

txVars == <<txPc, txOp, values, sent, txResult>>
rxVars == <<rxPc, rxOp, want, got, rxResult>>
recvNotify == <<recvPermit, recvWait>>
sendNotify == <<sendPermit, sendWait>>
vars == <<buffer, capacity, closed, recvNotify, sendNotify, txVars, rxVars, offered, taken>>

RecvNotify == INSTANCE Permit WITH permit <- recvPermit, wait <- recvWait
SendNotify == INSTANCE Permit WITH permit <- sendPermit, wait <- sendWait

TxOps == {"try_send", "send", "try_send_slice", "send_slice"}
RxOps == {"try_recv", "recv", "recv_last",
          "try_recv_slice", "recv_slice", "recv_slice_last", "clear"}

Message == 1 .. offered

TypeOK ==
  /\ capacity \in Capacities
  /\ buffer \in Seq(Message) /\ Len(buffer) <= capacity
  /\ closed \in BOOLEAN
  /\ recvPermit \in BOOLEAN /\ recvWait \in {"idle", "waiting", "done"}
  /\ sendPermit \in BOOLEAN /\ sendWait \in {"idle", "waiting", "done"}
  /\ txPc \in {"idle", "check", "load", "push", "notify", "wait", "reload",
               "drop", "gone"}
  /\ txOp \in TxOps \union {"none"}
  /\ values \in Seq(Message) /\ sent \in 0 .. Len(values)
  /\ txResult \in {"none", "ok", "full", "closed", "cancelled"}
  /\ rxPc \in {"idle", "pop", "load", "repop", "recheck", "pop_slice", "notify",
               "load_slice", "wait", "reload", "clear", "drop", "gone"}
  /\ rxOp \in RxOps \union {"none"}
  /\ want \in Nat
  /\ got \in 0 .. (IF rxOp \in {"try_recv", "recv", "recv_last"} THEN 1 ELSE want)
  /\ rxResult \in {"none", "some", "empty", "closed", "count", "cancelled"}
  /\ offered \in Nat
  /\ taken \in Seq(Message)

\* channel(capacity)
Init ==
  /\ capacity \in Capacities
  /\ buffer = <<>> /\ closed = FALSE
  /\ RecvNotify!Init /\ SendNotify!Init
  /\ txPc = "idle" /\ txOp = "none" /\ values = <<>> /\ sent = 0 /\ txResult = "none"
  /\ rxPc = "idle" /\ rxOp = "none" /\ want = 0 /\ got = 0 /\ rxResult = "none"
  /\ offered = 0 /\ taken = <<>>

Least(a, b) == IF a < b THEN a ELSE b

-----------------------------------------------------------------------------
(* What the handles can ask, at any time and without changing anything.  The *)
(* answer is that of the moment: the other side may be in a call.            *)

\* Sender
IsClosed == closed
SenderCapacity == capacity
SenderLen == Len(buffer)
SenderIsEmpty == SenderLen = 0

\* Mutant of FreeSlots: a ring that keeps one slot free.
FreeSlotsLessOne == IF Len(buffer) < capacity THEN capacity - 1 - Len(buffer) ELSE 0

FreeSlots == capacity - Len(buffer)
IsFull == FreeSlots = 0

\* Receiver; an Option is a sequence of at most one value.
ReceiverLen == Len(buffer)
ReceiverIsEmpty == ReceiverLen = 0
ReceiverCapacity == capacity
Peek == SubSeq(buffer, 1, Least(1, Len(buffer)))

\* The bounds of Drain::size_hint()
SizeHint == <<ReceiverLen, ReceiverLen>>

-----------------------------------------------------------------------------
(* The sender *)

TxGoto(label) == txPc' = label /\ UNCHANGED txResult
TxReturn(result) == txPc' = "idle" /\ txResult' = result

\* A call with k fresh values; send_slice() of an empty slice returns at once.
StartSend(op, k) ==
  /\ txPc = "idle"
  /\ op \in {"try_send", "send"} => k = 1
  /\ offered' = offered + k
  /\ values' = [i \in 1 .. k |-> offered + i]
  /\ sent' = 0
  /\ txOp' = op
  /\ IF op = "send_slice"
       THEN IF k = 0 THEN TxReturn("ok") ELSE txPc' = "check" /\ txResult' = "none"
       ELSE txPc' = "load" /\ txResult' = "none"
  /\ UNCHANGED <<buffer, capacity, closed, recvNotify, sendNotify, rxVars, taken>>

\* send_slice() looks at the flag before each attempt.
CheckClosed ==
  /\ txPc = "check"
  /\ IF closed THEN TxReturn("closed") ELSE TxGoto("load")
  /\ UNCHANGED <<buffer, capacity, closed, recvNotify, sendNotify, txOp, values, sent,
                 rxVars, offered, taken>>

\* Mutant of LoadClosed: the flag is not looked at.
LoadClosedIgnored ==
  /\ txPc = "load"
  /\ TxGoto("push")
  /\ UNCHANGED <<buffer, capacity, closed, recvNotify, sendNotify, txOp, values, sent,
                 rxVars, offered, taken>>

\* try_send() and try_send_slice() begin with the flag.  A send_slice() that
\* sees it only here takes it for "nothing sent" and goes to wait.
LoadClosed ==
  /\ txPc = "load"
  /\ CASE ~closed                           -> TxGoto("push")
       [] closed /\ txOp = "send_slice"     -> TxGoto("wait")
       [] closed /\ txOp = "try_send_slice" -> TxReturn("ok")
       [] OTHER                             -> TxReturn("closed")
  /\ UNCHANGED <<buffer, capacity, closed, recvNotify, sendNotify, txOp, values, sent,
                 rxVars, offered, taken>>

\* Mutant of Remaining: every attempt starts over.
RemainingWhole == values

\* values[total_sent..]
Remaining == SubSeq(values, sent + 1, Len(values))

\* Mutant of Push: a partial push is not told to the receiver.
PushNotifiesAtEnd ==
  /\ txPc = "push"
  /\ LET m == Least(FreeSlots, Len(Remaining)) IN
       /\ buffer' = buffer \o SubSeq(Remaining, 1, m)
       /\ sent' = sent + m
       /\ CASE sent + m = Len(values) /\ m > 0 -> TxGoto("notify")
            [] txOp = "try_send"                -> TxReturn("full")
            [] txOp = "try_send_slice"          -> TxReturn("ok")
            [] OTHER                            -> TxGoto("wait")
  /\ UNCHANGED <<capacity, closed, recvNotify, sendNotify, txOp, values, rxVars,
                 offered, taken>>

\* push(), push_slice(): as many of the remaining values as there is room for.
Push ==
  /\ txPc = "push"
  /\ LET m == Least(FreeSlots, Len(Remaining)) IN
       /\ buffer' = buffer \o SubSeq(Remaining, 1, m)
       /\ sent' = sent + m
       /\ CASE m > 0                            -> TxGoto("notify")
            [] m = 0 /\ txOp = "try_send"       -> TxReturn("full")
            [] m = 0 /\ txOp = "try_send_slice" -> TxReturn("ok")
            [] OTHER                            -> TxGoto("wait")
  /\ UNCHANGED <<capacity, closed, recvNotify, sendNotify, txOp, values, rxVars,
                 offered, taken>>

\* Mutant of NotifyReceiver: send_slice() returns after its first attempt.
NotifyReceiverOnce ==
  /\ txPc = "notify"
  /\ RecvNotify!Notify
  /\ TxReturn("ok")
  /\ UNCHANGED <<buffer, capacity, closed, sendNotify, txOp, values, sent, rxVars,
                 offered, taken>>

\* recv_notify.notify_one(), after a push.
NotifyReceiver ==
  /\ txPc = "notify"
  /\ RecvNotify!Notify
  /\ IF txOp = "send_slice" /\ sent < Len(values) THEN TxGoto("wait")
                                                   ELSE TxReturn("ok")
  /\ UNCHANGED <<buffer, capacity, closed, sendNotify, txOp, values, sent, rxVars,
                 offered, taken>>

\* send_notify.notified().await begins, and completes.
AwaitRoom ==
  /\ txPc = "wait" /\ sendWait # "waiting"
  /\ SendNotify!Begin
  /\ UNCHANGED <<buffer, capacity, closed, recvNotify, txVars, rxVars, offered, taken>>

RoomNotified ==
  /\ txPc = "wait"
  /\ SendNotify!Complete
  /\ TxGoto("reload")
  /\ UNCHANGED <<buffer, capacity, closed, recvNotify, txOp, values, sent, rxVars,
                 offered, taken>>

\* The flag is loaded again, and the loop goes round.
Reload ==
  /\ txPc = "reload"
  /\ IF closed THEN TxReturn("closed")
               ELSE TxGoto(IF txOp = "send" THEN "load" ELSE "check")
  /\ UNCHANGED <<buffer, capacity, closed, recvNotify, sendNotify, txOp, values, sent,
                 rxVars, offered, taken>>

\* The future is dropped while it waits, and what it had not pushed with it.
CancelSend ==
  /\ txPc = "wait"
  /\ SendNotify!Cancel
  /\ TxReturn("cancelled")
  /\ UNCHANGED <<buffer, capacity, closed, recvNotify, txOp, values, sent, rxVars,
                 offered, taken>>

\* Mutant of DropSender: the receiver is not notified.
DropSenderSilently ==
  /\ txPc = "idle"
  /\ closed' = TRUE
  /\ TxGoto("gone")
  /\ UNCHANGED <<buffer, capacity, recvNotify, sendNotify, txOp, values, sent,
                 rxVars, offered, taken>>

\* Mutant of DropSender: the ring is freed with the handle.
DropSenderDiscards ==
  /\ txPc = "idle"
  /\ closed' = TRUE
  /\ buffer' = <<>>
  /\ TxGoto("drop")
  /\ UNCHANGED <<capacity, recvNotify, sendNotify, txOp, values, sent,
                 rxVars, offered, taken>>

\* drop(Sender): the flag, then the receiver.
DropSender ==
  /\ txPc = "idle"
  /\ closed' = TRUE
  /\ TxGoto("drop")
  /\ UNCHANGED <<buffer, capacity, recvNotify, sendNotify, txOp, values, sent,
                 rxVars, offered, taken>>

DropSenderNotify ==
  /\ txPc = "drop"
  /\ RecvNotify!Notify
  /\ TxGoto("gone")
  /\ UNCHANGED <<buffer, capacity, closed, sendNotify, txOp, values, sent, rxVars,
                 offered, taken>>

-----------------------------------------------------------------------------
(* The receiver *)

RxGoto(label) == rxPc' = label /\ UNCHANGED rxResult
RxReturn(result) == rxPc' = "idle" /\ rxResult' = result

\* A call; drain() is a sequence of try_recv().
StartRecv(op, k) ==
  /\ rxPc = "idle"
  /\ op \in {"try_recv", "recv", "clear"} => k = 0
  /\ rxOp' = op
  /\ want' = k
  /\ got' = 0
  /\ CASE op \in {"try_recv", "recv"}   -> rxPc' = "pop" /\ rxResult' = "none"
       [] op = "clear"                  -> rxPc' = "clear" /\ rxResult' = "none"
       [] op = "recv_slice" /\ k = 0    -> RxReturn("count")
       [] OTHER                         -> rxPc' = "pop_slice" /\ rxResult' = "none"
  /\ UNCHANGED <<buffer, capacity, closed, recvNotify, sendNotify, txVars, offered,
                 taken>>

\* The first m values leave the ring buffer.
TakeOut(m) == /\ taken' = taken \o SubSeq(buffer, 1, m)
              /\ buffer' = SubSeq(buffer, m + 1, Len(buffer))
              /\ got' = got + m

\* try_recv(): pop(), again once the flag was seen.
Pop ==
  /\ rxPc \in {"pop", "repop"}
  /\ TakeOut(Least(1, Len(buffer)))
  /\ CASE buffer # <<>>                    -> RxGoto("notify")
       [] buffer = <<>> /\ rxPc = "pop"    -> RxGoto("load")
       [] OTHER                            -> RxReturn("closed")
  /\ UNCHANGED <<capacity, closed, recvNotify, sendNotify, txVars, rxOp, want, offered>>

\* Mutant of LoadClosedEmpty: the flag is believed without a second pop().
LoadClosedOnce ==
  /\ rxPc = "load"
  /\ CASE closed                     -> RxReturn("closed")
       [] ~closed /\ rxOp = "recv"   -> RxGoto("recheck")
       [] OTHER                      -> RxReturn("empty")
  /\ UNCHANGED <<buffer, capacity, closed, recvNotify, sendNotify, txVars, rxOp, want, got,
                 offered, taken>>

LoadClosedEmpty ==
  /\ rxPc = "load"
  /\ CASE closed                     -> RxGoto("repop")
       [] ~closed /\ rxOp = "recv"   -> RxGoto("recheck")
       [] OTHER                      -> RxReturn("empty")
  /\ UNCHANGED <<buffer, capacity, closed, recvNotify, sendNotify, txVars, rxOp, want, got,
                 offered, taken>>

\* recv() loads the flag once more before it waits; if it is set, a last
\* try_recv() decides.
Recheck ==
  /\ rxPc = "recheck"
  /\ IF closed THEN rxOp' = "recv_last" /\ RxGoto("pop")
               ELSE UNCHANGED rxOp /\ RxGoto("wait")
  /\ UNCHANGED <<buffer, capacity, closed, recvNotify, sendNotify, txVars, want, got,
                 offered, taken>>

\* Where a slice operation goes once it has tried to pop.
AfterSlice(popped) ==
  IF rxOp = "recv_slice" /\ popped < want THEN RxGoto("load_slice")
                                          ELSE RxReturn("count")

\* Mutant of Wanted: every attempt starts over.
WantedWhole == want

\* dest[total_received..].len()
Wanted == want - got

\* try_recv_slice(): pop_slice()
PopSlice ==
  /\ rxPc = "pop_slice"
  /\ LET m == Least(Len(buffer), Wanted) IN
       /\ TakeOut(m)
       /\ IF m > 0 THEN RxGoto("notify") ELSE AfterSlice(got)
  /\ UNCHANGED <<capacity, closed, recvNotify, sendNotify, txVars, rxOp, want, offered>>

\* send_notify.notify_one(), after a pop or a clear.
NotifySender ==
  /\ rxPc = "notify"
  /\ SendNotify!Notify
  /\ CASE rxOp \in {"try_recv", "recv", "recv_last"} -> RxReturn("some")
       [] rxOp = "clear"                             -> RxReturn("none")
       [] OTHER                                      -> AfterSlice(got)
  /\ UNCHANGED <<buffer, capacity, closed, recvNotify, txVars, rxOp, want, got,
                 offered, taken>>

\* recv_slice() with some of its slice left: it returns if the flag is set.
LoadClosedSlice ==
  /\ rxPc = "load_slice"
  /\ IF closed THEN RxReturn("count") ELSE RxGoto("wait")
  /\ UNCHANGED <<buffer, capacity, closed, recvNotify, sendNotify, txVars, rxOp, want, got,
                 offered, taken>>

\* recv_notify.notified().await begins, and completes.
AwaitData ==
  /\ rxPc = "wait" /\ recvWait # "waiting"
  /\ RecvNotify!Begin
  /\ UNCHANGED <<buffer, capacity, closed, sendNotify, txVars, rxVars, offered, taken>>

DataNotified ==
  /\ rxPc = "wait"
  /\ RecvNotify!Complete
  /\ RxGoto(IF rxOp = "recv" THEN "pop" ELSE "reload")
  /\ UNCHANGED <<buffer, capacity, closed, sendNotify, txVars, rxOp, want, got,
                 offered, taken>>

\* recv_slice(), awake: with the flag set the next attempt is the last.
ReloadSlice ==
  /\ rxPc = "reload"
  /\ rxOp' = IF closed THEN "recv_slice_last" ELSE rxOp
  /\ RxGoto("pop_slice")
  /\ UNCHANGED <<buffer, capacity, closed, recvNotify, sendNotify, txVars, want, got,
                 offered, taken>>

\* The future is dropped while it waits.
CancelRecv ==
  /\ rxPc = "wait"
  /\ RecvNotify!Cancel
  /\ RxReturn("cancelled")
  /\ UNCHANGED <<buffer, capacity, closed, sendNotify, txVars, rxOp, want, got,
                 offered, taken>>

\* Mutant of Clear: the sender is not notified.
ClearSilently ==
  /\ rxPc = "clear"
  /\ taken' = taken \o buffer
  /\ buffer' = <<>>
  /\ RxReturn("none")
  /\ UNCHANGED <<capacity, closed, recvNotify, sendNotify, txVars, rxOp, want, got,
                 offered>>

\* clear() drops what is there, and notifies in any case.
Clear ==
  /\ rxPc = "clear"
  /\ taken' = taken \o buffer
  /\ buffer' = <<>>
  /\ RxGoto("notify")
  /\ UNCHANGED <<capacity, closed, recvNotify, sendNotify, txVars, rxOp, want, got,
                 offered>>

\* Mutant of DropReceiver: the sender is not notified.
DropReceiverSilently ==
  /\ rxPc = "idle"
  /\ closed' = TRUE
  /\ RxGoto("gone")
  /\ UNCHANGED <<buffer, capacity, recvNotify, sendNotify, txVars, rxOp, want, got,
                 offered, taken>>

\* drop(Receiver): the flag, then the sender.
DropReceiver ==
  /\ rxPc = "idle"
  /\ closed' = TRUE
  /\ RxGoto("drop")
  /\ UNCHANGED <<buffer, capacity, recvNotify, sendNotify, txVars, rxOp, want, got,
                 offered, taken>>

DropReceiverNotify ==
  /\ rxPc = "drop"
  /\ SendNotify!Notify
  /\ RxGoto("gone")
  /\ UNCHANGED <<buffer, capacity, closed, recvNotify, txVars, rxOp, want, got,
                 offered, taken>>

-----------------------------------------------------------------------------

\* What a call does once it has started.
TxStep == \/ CheckClosed \/ LoadClosed \/ Push \/ NotifyReceiver
          \/ AwaitRoom \/ RoomNotified \/ Reload \/ DropSenderNotify

RxStep == \/ Pop \/ LoadClosedEmpty \/ Recheck \/ PopSlice \/ NotifySender
          \/ LoadClosedSlice \/ AwaitData \/ DataNotified \/ ReloadSlice
          \/ Clear \/ DropReceiverNotify

\* Every program within the bounds.
Next == \/ \E op \in TxOps, k \in 0 .. MaxSlice :
             offered + k <= MaxMessages /\ StartSend(op, k)
        \/ TxStep
        \/ CancelSend
        \/ DropSender
        \/ \E op \in RxOps \ {"recv_last", "recv_slice_last"}, k \in 0 .. MaxSlice :
             StartRecv(op, k)
        \/ RxStep
        \/ CancelRecv
        \/ DropReceiver

Spec == Init /\ [][Next]_vars

-----------------------------------------------------------------------------
(* Correctness *)

Through == taken \o buffer

\* Values come out in the order they were offered, none twice, whatever mix of
\* single, slice, cancelled and refused sends put them in.
InOrder == \A i, j \in 1 .. Len(Through) : i < j => Through[i] < Through[j]

Queued(v) == \E i \in 1 .. Len(Through) : Through[i] = v

\* What a send reports is what it did: Ok means that every value went through
\* (or, for try_send_slice, exactly the reported number), and a value handed
\* back as Full or Closed never did.
SendAccounted ==
  /\ \A i \in 1 .. Len(values) : Queued(values[i]) <=> i <= sent
  /\ (txResult = "ok" /\ txOp # "try_send_slice") => sent = Len(values)
  /\ (txResult \in {"full", "closed"} /\ txOp \in {"try_send", "send"}) => sent = 0

\* None from recv(), and Closed from try_recv(), mean the end: the sender is
\* gone and everything it pushed has been taken.  This is the race "where
\* sender drops after push but before we check closed flag".
ClosedMeansDrained ==
  rxResult = "closed" => (closed /\ txPc \in {"drop", "gone"} /\ buffer = <<>>)

\* A receiver waits only for a notification that comes: with data in the
\* buffer, or the sender gone, there is a permit or a notifier on its way.
ReceiverNotStuck ==
  (rxPc = "wait" /\ (buffer # <<>> \/ closed)) =>
    (recvPermit \/ txPc \in {"notify", "drop"})

\* Likewise a sender, with room in the buffer or the receiver gone.
SenderNotStuck ==
  (txPc = "wait" /\ (~IsFull \/ closed)) =>
    (sendPermit \/ rxPc \in {"notify", "drop"})

\* A recv() returns once there is something to receive or the sender is gone.
RecvReturns ==
  (rxOp \in {"recv", "recv_last"} /\ rxPc # "gone" /\ (buffer # <<>> \/ closed))
    ~> rxPc \in {"idle", "drop", "gone"}

\* A send() returns once there is room or the receiver is gone, and a
\* send_slice() does not outlive the receiver.
SendReturns ==
  /\ (txOp = "send" /\ txPc # "gone" /\ (~IsFull \/ closed))
       ~> txPc \in {"idle", "drop", "gone"}
  /\ (txOp = "send_slice" /\ closed) ~> txPc \in {"idle", "drop", "gone"}

\* Until the sender pushes, the room it was told of is there, an empty ring stays
\* empty and a closed channel closed.
RoomKept == txPc # "push" => /\ FreeSlots' >= FreeSlots
                             /\ SenderIsEmpty => SenderIsEmpty'
                             /\ IsClosed => IsClosed'

\* Until the receiver takes something, as many values are there, and the one that
\* it peeked at is still the next.
NextKept == rxPc \notin {"pop", "repop", "pop_slice", "clear"} =>
              /\ ReceiverLen' >= ReceiverLen
              /\ ~ReceiverIsEmpty => Peek' = Peek

\* What the queries told one end in its favour the other end does not take back,
\* in a call or between two.
AnswersKept == [][RoomKept /\ NextKept]_vars

\* "Returns 0 if the channel is closed and empty": the 0 of a recv_slice()
\* into a slice that is not empty means that nothing is left.
ZeroMeansDrained ==
  (rxOp \in {"recv_slice", "recv_slice_last"} /\ rxResult = "count" /\ got = 0 /\ want > 0)
    => buffer = <<>>

-----------------------------------------------------------------------------
(* What a program sees of it: the values, and the calls with their answers.  *)
(* A call whose notification is all that is left has its answer already.     *)

SendDecided == txPc = "notify" /\ ~(txOp = "send_slice" /\ sent < Len(values))

RecvDecided == rxPc = "notify" /\ ~(rxOp = "recv_slice" /\ got < want)

Sending == IF txPc \in {"drop", "gone"} THEN "gone"
           ELSE IF txPc = "idle" \/ SendDecided THEN "idle" ELSE txOp

SendAnswer == IF SendDecided THEN "ok" ELSE txResult

Admitted == txPc = "push"

Single == rxOp \in {"try_recv", "recv", "recv_last"}

Receiving == IF rxPc \in {"drop", "gone"} THEN "gone"
             ELSE IF rxPc = "idle" \/ RecvDecided THEN "idle"
             ELSE IF rxOp = "recv_last" THEN "recv"
             ELSE IF rxOp = "recv_slice_last" THEN "recv_slice" ELSE rxOp

Room == IF Single THEN 1 - got ELSE want - got

FoundEmpty == rxOp = "try_recv" /\ rxPc \in {"load", "repop"}

RecvAnswer == IF ~RecvDecided THEN rxResult
              ELSE IF Single THEN "some" ELSE IF rxOp = "clear" THEN "none" ELSE "count"

Queue == INSTANCE Channel WITH
  Value <- Nat, queue <- buffer, given <- taken,
  sender <- Sending, left <- Remaining, admitted <- Admitted, sendResult <- SendAnswer,
  receiver <- Receiving, room <- Room, foundEmpty <- FoundEmpty, recvResult <- RecvAnswer

\* The channel implements a bounded queue with two ends, on which every call is
\* answered at one moment: Full and Empty when the queue was, Closed to a
\* receiver only once it has everything, nothing sent to a receiver that was gone
\* when the call began, and a slice cut short only by the end of the other side.
ImplementsChannel == Queue!Spec
=============================================================================
