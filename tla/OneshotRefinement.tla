--------------------------- MODULE OneshotRefinement ---------------------------
(***************************************************************************)
(* Oneshot implements Once: over any of its storages, for any use of the   *)
(* receiver and any set of tasks.  The invariant is that of OneshotProofs; *)
(* nothing is assumed of Reused here.                                      *)
(***************************************************************************)
EXTENDS OneshotProofs

USE DEF ChannelTypeOK, FromU8

Step == [Promise!Next]_(Promise!vars)

-----------------------------------------------------------------------------
(* What each end shows, and the slot *)

txView == <<SendCall, Seen, payload, fate, answer>>
rxView == <<RecvCall, Awaited, Found, RecvResult, RecvValue>>

LEMMA TxFrame ==
  ASSUME UNCHANGED txVars
  PROVE  UNCHANGED txView
BY DEF txVars, txCall, txView, SendCall, Seen

\* The value a reading receiver shows is the sender's, which has sent it.
LEMMA RxFrame ==
  ASSUME OInv, UNCHANGED rxVars, fate = "sent" => payload' = payload
  PROVE  UNCHANGED rxView
BY DEF OInv, RxPhase, rxVars, reply, rxView, RecvCall, Awaited, Found, RecvResult, RecvValue,
       Reading

\* The slot tells the same as the state.
LEMMA SlotMeans ==
  ASSUME ChannelTypeOK
  PROVE  /\ Slot = "empty" <=> state = Pending
         /\ Slot = "closed" <=> state = SenderClosed
         /\ Slot = "shut" <=> state = ReceiverClosed
         /\ Slot = "full" <=> state \in Codes
BY Codec DEF Slot

LEMMA SlotMeansNext ==
  ASSUME ChannelTypeOK, ChannelTypeOK', SameCodec
  PROVE  /\ state' = state => Slot' = Slot
         /\ Slot' = "empty" <=> state' = Pending
         /\ Slot' = "closed" <=> state' = SenderClosed
         /\ Slot' = "shut" <=> state' = ReceiverClosed
         /\ Slot' = "full" <=> state' \in Codes
BY Codec DEF Slot, SameCodec

LEMMA AllSendable ==
  ASSUME storage \in Storages
  PROVE  Values \subseteq Sendable
<1> USE DEF Values, Codes, Encoding, Lite, Sendable
<1>1. CASE storage = "generic"
  BY <1>1 DEF Generic
<1>2. CASE storage = "unit"
  BY <1>2 DEF Unit
<1>3. CASE storage = "TestCompletion"
  BY <1>3 DEF TestCompletion
<1>4. CASE storage = "CustomState"
  BY <1>4 DEF CustomState
<1> QED BY <1>1, <1>2, <1>3, <1>4, StoragesAssumption

LEMMA Stutter ==
  ASSUME SameCodec, Slot' = Slot, UNCHANGED txView, UNCHANGED rxView
  PROVE  Step
BY DEF Step, SameCodec, Promise!vars, Promise!sendVars, Promise!recvVars, txView, rxView

-----------------------------------------------------------------------------
(* The steps of the sender *)

LEMMA StartSendView ==
  ASSUME OInv, OInv', SameCodec,
         NEW op \in {"is_closed", "send", "send_unchecked", "drop"},
         NEW v \in Values \union {"none"}, op \in {"send", "send_unchecked"} => v \in Values,
         StartSend(op, v)
  PROVE  Step
<1>1. /\ txPc = "open" /\ UNCHANGED <<state, answer, rxVars>>
      /\ fate' = IF op = "drop" THEN "dropped" ELSE fate
      /\ payload' = IF op \in {"send", "send_unchecked"} THEN v ELSE payload
      /\ SendCall = "open" /\ SendCall' = IF op = "drop" THEN "dropping" ELSE op
      /\ Seen = "nothing"
  BY DEF StartSend, StoreBegins, SendCall, Seen
<1>2. fate = "open"
  BY <1>1 DEF OInv, TxPhase
<1>3. UNCHANGED rxView /\ Slot' = Slot
  BY <1>1, <1>2, RxFrame, SlotMeansNext DEF OInv
<1>4. Seen' = "nothing"
  BY <1>1 DEF StartSend, StoreBegins, Seen
<1>5. UNCHANGED <<Slot, Seen, answer, Promise!recvVars>> /\ (~IsGeneric)' = ~IsGeneric
  BY <1>1, <1>3, <1>4 DEF SameCodec, rxView, Promise!recvVars
<1>6. CASE op \in {"send", "send_unchecked"}
  <2>1. payload' \in Sendable /\ fate' = fate /\ SendCall' = op
    BY <1>1, <1>6, AllSendable DEF OInv
  <2>2. Promise!Send(op)
    BY <1>1, <1>5, <2>1 DEF Promise!Send
  <2> QED BY <1>6, <2>2 DEF Step, Promise!Next
<1>7. CASE op = "is_closed"
  <2>1. Promise!IsClosed
    BY <1>1, <1>5, <1>7 DEF Promise!IsClosed
  <2> QED BY <2>1 DEF Step, Promise!Next
<1>8. CASE op = "drop"
  <2>1. Promise!Drop
    BY <1>1, <1>5, <1>8 DEF Promise!Drop
  <2> QED BY <2>1 DEF Step, Promise!Next
<1> QED BY <1>6, <1>7, <1>8

\* The reference count tells the sender that the receiver is gone, and nothing else.
LEMMA AloneMeans ==
  ASSUME OInv, txPc \in {"closed?", "count?"}
  PROVE  Alone <=> RecvCall = "gone"
<1>1. strong = 1 + (IF rxPc = "gone" THEN 0 ELSE 1)
  BY DEF OInv, Counted, Handles
<1>2. RecvCall = "gone" <=> rxPc = "gone"
  BY DEF RecvCall, OInv, RxPhase
<1> QED BY <1>1, <1>2 DEF Alone

\* Each of the two checks is one look.
LEMMA IsClosedView ==
  ASSUME OInv, OInv', SameCodec, IsClosed
  PROVE  Step
<1>1. /\ txPc \in {"closed?", "count?"} /\ txOp \in {"is_closed", "send"}
      /\ UNCHANGED <<state, payload, txOp, rxVars>>
  BY DEF IsClosed, OInv, TxPhase
<1>2. UNCHANGED <<Slot, payload, Promise!recvVars>> /\ (~IsGeneric)' = ~IsGeneric
  BY <1>1, RxFrame, SlotMeansNext DEF OInv, SameCodec, rxView, Promise!recvVars
<1>3. /\ SendCall = txOp /\ Seen = IF txPc = "closed?" THEN "nothing" ELSE "open"
      /\ txOp' = txOp
  BY <1>1 DEF SendCall, Seen
<1> DEFINE yes == IF txPc = "closed?" THEN state = ReceiverClosed ELSE Alone
<1>4. yes <=> Promise!NotInterested
  BY <1>1, <1>3, AloneMeans, SlotMeans DEF OInv, Promise!NotInterested
<1>5. CASE yes /\ txOp = "is_closed"
  <2>1. SendCall' = "open" /\ Seen' = "nothing" /\ answer' = "yes" /\ fate' = fate
    BY <1>1, <1>5 DEF IsClosed, SendCall, Seen
  <2>2. Promise!AnswerIsClosed
    BY <1>2, <1>3, <1>4, <1>5, <2>1 DEF Promise!AnswerIsClosed
  <2> QED BY <2>2 DEF Step, Promise!Next
<1>6. CASE yes /\ txOp = "send"
  <2>1. SendCall' = "dropping" /\ Seen' = "nothing" /\ answer' = answer /\ fate' = "refused"
    BY <1>1, <1>6 DEF IsClosed, SendCall, Seen
  <2>2. Promise!Refuse
    BY <1>2, <1>3, <1>4, <1>6, <2>1 DEF Promise!Refuse
  <2> QED BY <2>2 DEF Step, Promise!Next
<1>7. CASE ~yes /\ (txPc = "closed?" \/ txOp = "send")
  <2>1. /\ SendCall' = SendCall /\ fate' = fate /\ answer' = answer
        /\ Seen' = IF txPc = "closed?" THEN "open" ELSE "there"
    BY <1>1, <1>7 DEF IsClosed, SendCall, Seen, StoreBegins
  <2>2. IF txPc = "closed?" THEN Slot # "shut" ELSE RecvCall # "gone"
    BY <1>1, <1>7, AloneMeans, SlotMeans DEF OInv
  <2>3. Promise!Look
    BY <1>1, <1>2, <1>3, <1>7, <2>1, <2>2 DEF Promise!Look
  <2> QED BY <2>3 DEF Step, Promise!Next
<1>8. CASE ~yes /\ txPc = "count?" /\ txOp = "is_closed"
  <2>1. SendCall' = "open" /\ Seen' = "nothing" /\ answer' = "no" /\ fate' = fate
    BY <1>1, <1>8 DEF IsClosed, SendCall, Seen
  <2>2. RecvCall # "gone"
    BY <1>1, <1>8, AloneMeans
  <2>3. Promise!AnswerIsClosed
    BY <1>2, <1>3, <1>8, <2>1, <2>2 DEF Promise!AnswerIsClosed
  <2> QED BY <2>3 DEF Step, Promise!Next
<1> QED BY <1>1, <1>5, <1>6, <1>7, <1>8

\* The store of the state is the step that counts, whatever was in the cell before.
LEMMA StoreViews ==
  ASSUME OInv, OInv', SameCodec, Write \/ Store \/ MarkSenderDropped
  PROVE  Step
<1>1. UNCHANGED <<payload, answer, txOp, rxVars>>
  BY DEF Write, Store, MarkSenderDropped, txCall
<1>2. UNCHANGED Promise!recvVars /\ (~IsGeneric)' = ~IsGeneric
  BY <1>1, RxFrame DEF SameCodec, rxView, Promise!recvVars
<1>3. CASE Write
  <2>1. UNCHANGED txView /\ UNCHANGED rxView /\ Slot' = Slot
    BY <1>1, <1>3, RxFrame, SlotMeansNext DEF OInv, Write, txCall, txView, SendCall, Seen
  <2> QED BY <2>1, Stutter
<1>4. CASE Store
  <2>1. /\ SendCall = txOp /\ SendCall' = "done" /\ Seen' = "nothing" /\ fate' = "sent"
        /\ Seen = IF txOp = "send" THEN "there" ELSE "nothing"
        /\ txOp \in {"send", "send_unchecked"}
    BY <1>4 DEF Store, SendCall, Seen, OInv, TxPhase
  <2>2. Slot' = "full"
    <3>1. state' \in Codes
      BY <1>4, Codec DEF Store, OInv, TxPhase
    <3>2. state' \in Codes'
      BY <3>1 DEF SameCodec
    <3> QED BY <3>1, <3>2, SlotMeansNext DEF OInv
  <2>3. Promise!Put
    BY <1>1, <1>2, <2>1, <2>2 DEF Promise!Put
  <2> QED BY <2>3 DEF Step, Promise!Next
<1>5. CASE MarkSenderDropped
  <2>1. SendCall = "dropping" /\ SendCall' = "done" /\ UNCHANGED <<Seen, fate>>
    BY <1>5 DEF MarkSenderDropped, SendCall, Seen
  <2>2. Slot' = "closed"
    BY <1>5, SlotMeansNext DEF OInv, SameCodec, MarkSenderDropped
  <2>3. Promise!LeaveWord
    BY <1>1, <1>2, <2>1, <2>2 DEF Promise!LeaveWord
  <2> QED BY <2>3 DEF Step, Promise!Next
<1> QED BY <1>3, <1>4, <1>5

-----------------------------------------------------------------------------
(* The steps of the receiver *)

LEMMA BeginView ==
  ASSUME OInv, OInv', SameCodec,
         NEW op \in {"try_recv", "poll", "blocking_recv"},
         \/ op # "poll" /\ StartRecv(op)
         \/ op = "poll" /\ \E w \in Tasks : Poll(w)
  PROVE  Step
<1>1. /\ rxPc = "idle" /\ rxPc' = "take" /\ rxOp' = op
      /\ awaiting' = (op = "poll") /\ result' = "none" /\ received' = "none"
      /\ UNCHANGED <<state, txVars>>
  BY DEF StartRecv, Poll, Free
<1>2. UNCHANGED <<Slot, payload, Promise!sendVars>> /\ (~IsGeneric)' = ~IsGeneric
  BY <1>1, TxFrame, SlotMeansNext DEF OInv, SameCodec, txView, Promise!sendVars
<1>3. /\ RecvCall = "idle" /\ RecvCall' = op /\ Found' = Found
      /\ RecvResult' = "none" /\ RecvValue' = "none" /\ ~Reading'
  BY <1>1 DEF RecvCall, Found, RecvResult, RecvValue, Reading
<1>4. Promise!Receive(op)
  <2>1. Awaited' <=> op = "poll"
    BY <1>1, <1>3 DEF Awaited
  <2>2. Awaited' = (op = "poll")
    BY <2>1 DEF Awaited
  <2> QED BY <1>2, <1>3, <2>2 DEF Promise!Receive
<1>5. op \in Promise!Receives
  BY DEF Promise!Receives
<1> QED BY <1>4, <1>5 DEF Step, Promise!Next

\* A call that returns has answered.
LEMMA ReturnView ==
  ASSUME OInv, rxPc \in {"take", "retake", "count?", "dropped?"}, rxOp' = rxOp,
         NEW r, NEW v, Return(r, v)
  PROVE  Promise!Answer(r, v)
<1>1. RecvCall = rxOp /\ rxOp \in {"try_recv", "poll", "blocking_recv"}
  BY DEF OInv, RxPhase, RecvCall, Reading
<1>2. RecvCall' = IF rxOp = "blocking_recv" THEN "consumed" ELSE "idle"
  BY DEF Return, RecvCall, Reading
<1>3. RecvResult' = r /\ RecvValue' = v /\ ~Awaited' /\ ~Found'
  BY DEF Return, RecvResult, RecvValue, Awaited, Found, Reading
<1> QED BY <1>1, <1>2, <1>3 DEF Promise!Answer

\* So has one whose swap has found the value, which it has yet to read.
LEMMA ReadingView ==
  ASSUME OInv, rxPc \in {"take", "retake"}, rxPc' = "read", rxOp' = rxOp, payload' = payload
  PROVE  Promise!Answer("value", payload)
<1>1. RecvCall = rxOp /\ rxOp \in {"try_recv", "poll", "blocking_recv"}
  BY DEF OInv, RxPhase, RecvCall, Reading
<1>2. RecvCall' = IF rxOp = "blocking_recv" THEN "consumed" ELSE "idle"
  BY DEF RecvCall, Reading
<1>3. RecvResult' = "value" /\ RecvValue' = payload /\ ~Awaited' /\ ~Found'
  BY DEF RecvResult, RecvValue, Awaited, Found, Reading
<1> QED BY <1>1, <1>2, <1>3 DEF Promise!Answer

LEMMA TryTakeView ==
  ASSUME OInv, OInv', SameCodec, TryTake
  PROVE  Step
<1>1. /\ rxPc \in {"take", "retake"}
      /\ TakesValue \/ TakesClosed \/ TakesNothing
      /\ UNCHANGED <<txVars, rxOp>>
  BY TakeCases
<1>2. UNCHANGED <<payload, Promise!sendVars>> /\ (~IsGeneric)' = ~IsGeneric
  BY <1>1, TxFrame DEF SameCodec, txVars, txCall, txView, Promise!sendVars
<1>3. RecvCall = rxOp /\ rxOp \in Promise!Receives
  BY <1>1 DEF OInv, RxPhase, RecvCall, Reading, Promise!Receives
<1>4. state' = Pending \/ state' = state
      => Slot' = IF state' = Pending THEN "empty" ELSE Slot
  BY SlotMeansNext, SlotMeans DEF OInv, SameCodec
<1>5. CASE TakesValue
  <2>1. Slot = "full" /\ Slot' = IF ~IsGeneric THEN Slot ELSE "empty"
    BY <1>4, <1>5, SlotMeans, Codec DEF OInv, TakesValue
  <2>2. Promise!Answer("value", payload)
    <3>1. CASE IsGeneric
      BY <1>1, <1>2, <1>5, <3>1, ReadingView DEF TakesValue
    <3>2. CASE ~IsGeneric
      <4>1. Return("value", payload)
        BY <1>5, <3>2 DEF TakesValue, OInv, StateMeans
      <4> QED BY <1>1, <4>1, ReturnView
    <3> QED BY <3>1, <3>2
  <2>3. Promise!Take
    BY <1>2, <1>3, <2>1, <2>2 DEF Promise!Take
  <2> QED BY <2>3 DEF Step, Promise!Next
<1>6. CASE TakesClosed
  <2>1. Slot \in {"closed", "shut"} /\ Slot' = IF ~IsGeneric THEN Slot ELSE "empty"
    BY <1>4, <1>6, SlotMeans, Codec DEF OInv, TakesClosed
  <2>2. Promise!Answer("closed", "none")
    BY <1>1, <1>6, ReturnView DEF TakesClosed
  <2>3. Promise!Take
    BY <1>2, <1>3, <2>1, <2>2 DEF Promise!Take
  <2> QED BY <2>3 DEF Step, Promise!Next
<1>7. CASE TakesNothing
  <2>1. Slot = "empty" /\ Slot' = Slot
    BY <1>4, <1>7, SlotMeans DEF OInv, TakesNothing
  <2>2. CASE rxOp = "try_recv"
    <3>1. Promise!Answer("empty", "none")
      BY <1>1, <1>7, <2>2, ReturnView DEF TakesNothing
    <3>2. Promise!AnswerEmpty
      BY <1>2, <1>3, <2>1, <2>2, <3>1 DEF Promise!AnswerEmpty
    <3> QED BY <3>2 DEF Step, Promise!Next
  <2>3. CASE rxOp # "try_recv"
    <3>1. /\ rxPc' = IF rxPc = "take" THEN "register" ELSE "count?"
          /\ UNCHANGED <<awaiting, reply, rxOp>>
      BY <1>1, <1>7, <2>3 DEF TakesNothing
    <3>2. UNCHANGED <<RecvCall, Awaited, RecvResult, RecvValue>> /\ Found'
      BY <1>1, <3>1 DEF reply, RecvCall, Awaited, RecvResult, RecvValue, Found, Reading
    <3>3. CASE rxPc = "take"
      <4>1. Promise!FindEmpty
        BY <1>2, <1>3, <2>1, <2>3, <3>2 DEF Promise!FindEmpty, Promise!Receives
      <4> QED BY <4>1 DEF Step, Promise!Next
    <3>4. CASE rxPc = "retake"
      <4>1. UNCHANGED rxView
        BY <3>2, <3>4 DEF rxView, Found
      <4> QED BY <1>1, <2>1, <4>1, TxFrame, Stutter
    <3> QED BY <1>1, <3>3, <3>4
  <2> QED BY <2>2, <2>3
<1> QED BY <1>1, <1>5, <1>6, <1>7

\* Reading the cell changes nothing any more.
LEMMA ReadView ==
  ASSUME OInv, OInv', SameCodec, Read
  PROVE  Step
<1>1. UNCHANGED <<state, txVars>> /\ rxOp' = rxOp /\ payload' = payload
  BY DEF Read, txVars, txCall
<1>2. UNCHANGED rxView
  BY <1>1 DEF Read, Return, rxView, RecvCall, Awaited, Found, RecvResult, RecvValue, Reading
<1> QED BY <1>1, <1>2, TxFrame, SlotMeansNext, Stutter DEF OInv

LEMMA SenderDroppedView ==
  ASSUME OInv, OInv', SameCodec, SenderDropped
  PROVE  Step
<1>1. /\ rxPc \in {"count?", "dropped?"} /\ rxOp \in {"poll", "blocking_recv"}
      /\ UNCHANGED <<state, txVars, rxOp>>
      /\ \/ rxPc' = "dropped?" /\ UNCHANGED <<awaiting, reply>>
         \/ state = SenderClosed /\ Return("closed", "none")
         \/ /\ rxPc' = IF rxOp = "poll" THEN "idle" ELSE "notified?"
            /\ UNCHANGED <<awaiting, reply>>
  BY DEF SenderDropped, OInv, RxPhase
<1>2. UNCHANGED <<Slot, payload, Promise!sendVars>> /\ (~IsGeneric)' = ~IsGeneric
  BY <1>1, TxFrame, SlotMeansNext DEF OInv, SameCodec, txView, Promise!sendVars
<1>3. RecvCall = rxOp /\ Found
  BY <1>1 DEF RecvCall, Found, Reading
<1>4. CASE rxPc' \in {"dropped?", "notified?"} /\ UNCHANGED <<awaiting, reply>>
  <2>1. UNCHANGED rxView
    BY <1>1, <1>4 DEF reply, rxView, RecvCall, Awaited, Found, RecvResult, RecvValue, Reading
  <2> QED BY <1>1, <1>2, <2>1, TxFrame, Stutter
<1>5. CASE state = SenderClosed /\ Return("closed", "none")
  <2>1. Slot = "closed"
    BY <1>5, SlotMeans DEF OInv
  <2>2. Promise!Answer("closed", "none")
    BY <1>1, <1>5, ReturnView
  <2>3. Promise!SeeClosed
    BY <1>2, <1>3, <2>1, <2>2 DEF Promise!SeeClosed
  <2> QED BY <2>3 DEF Step, Promise!Next
<1>6. CASE rxOp = "poll" /\ rxPc' = "idle" /\ UNCHANGED <<awaiting, reply>>
  <2>1. /\ RecvCall' = "idle" /\ ~Found'
        /\ UNCHANGED <<Awaited, RecvResult, RecvValue>>
    BY <1>1, <1>6 DEF reply, RecvCall, Awaited, Found, RecvResult, RecvValue, Reading
  <2>2. Promise!AnswerPending
    BY <1>2, <1>3, <1>6, <2>1 DEF Promise!AnswerPending
  <2> QED BY <2>2 DEF Step, Promise!Next
<1> QED BY <1>1, <1>4, <1>5, <1>6

LEMMA CloseView ==
  ASSUME OInv, OInv', SameCodec, Close
  PROVE  Step
<1>1. UNCHANGED Promise!sendVars /\ (~IsGeneric)' = ~IsGeneric
  BY TxFrame DEF Close, SameCodec, txView, Promise!sendVars
<1>2. /\ RecvCall = "idle" /\ ~Awaited'
      /\ UNCHANGED <<RecvCall, Found, RecvResult, RecvValue>>
  BY DEF Close, reply, RecvCall, Awaited, Found, RecvResult, RecvValue, Reading
<1>3. Slot' = "shut"
  BY SlotMeansNext DEF OInv, SameCodec, Close
<1>4. Promise!Close
  BY <1>1, <1>2, <1>3 DEF Promise!Close
<1> QED BY <1>4 DEF Step, Promise!Next

LEMMA DropReceiverView ==
  ASSUME OInv, OInv', SameCodec, DropReceiver
  PROVE  Step
<1>1. UNCHANGED <<Slot, Promise!sendVars>> /\ (~IsGeneric)' = ~IsGeneric
  BY TxFrame, SlotMeansNext DEF OInv, DropReceiver, SameCodec, txView, Promise!sendVars
<1>2. /\ RecvCall \in {"idle", "consumed"} /\ RecvCall' = "gone" /\ ~Awaited'
      /\ UNCHANGED <<Found, RecvResult, RecvValue>>
  BY DEF DropReceiver, reply, RecvCall, Awaited, Found, RecvResult, RecvValue, Reading
<1>3. Promise!DropReceiver
  BY <1>1, <1>2 DEF Promise!DropReceiver
<1> QED BY <1>3 DEF Step, Promise!Next

-----------------------------------------------------------------------------

\* The wake, the end of the sender's handle, registering, waiting and whatever an
\* AtomicWaker does are not seen.
LEMMA QuietViews ==
  ASSUME OInv, OInv', SameCodec,
         \/ Wake \/ Finish
         \/ RegisterWaker \/ SwapNotified \/ Park \/ ParkSpuriously
         \/ \E t \in {Tx, Rx} : InWaker(t) \/ Unpark(t)
         \/ UNCHANGED vars
  PROVE  Step
<1>1. CASE Wake \/ Finish
  <2>1. /\ txPc \in {"wake", "finish"} /\ txPc' \in {"finish", "gone"}
        /\ UNCHANGED <<state, txCall, fate, rxVars>>
    BY <1>1 DEF Wake, Finish
  <2>2. UNCHANGED txView /\ UNCHANGED rxView /\ Slot' = Slot
    BY <2>1, RxFrame, SlotMeansNext DEF OInv, txCall, txView, SendCall, Seen
  <2> QED BY <2>2, Stutter
<1>2. CASE ~(Wake \/ Finish)
  <2>1. /\ \/ rxPc' = rxPc
           \/ rxPc = "register" /\ rxPc' = "retake"
           \/ rxPc \in {"notified?", "park"} /\ rxPc' \in {"retake", "park"}
        /\ UNCHANGED <<state, txVars, rxOp, awaiting, reply>>
    BY <1>2 DEF RegisterWaker, SwapNotified, Park, ParkSpuriously, InWaker, Unpark, vars, rxVars
  <2>2. UNCHANGED txView /\ Slot' = Slot
    BY <2>1, TxFrame, SlotMeansNext DEF OInv
  <2>3. UNCHANGED rxView
    BY <2>1 DEF txVars, txCall, reply, rxView, RecvCall, Awaited, Found, RecvResult, RecvValue,
           Reading
  <2> QED BY <2>2, <2>3, Stutter
<1> QED BY <1>1, <1>2

LEMMA StepView ==
  ASSUME OInv, OInv', [Next]_vars
  PROVE  Step
<1>0. SameCodec
  BY CodecFrame
<1>1. ASSUME NEW op \in {"send", "send_unchecked"}, NEW v \in Values, StartSend(op, v)
      PROVE  Step
  BY <1>0, <1>1, StartSendView
<1>2. ASSUME NEW op \in {"is_closed", "drop"}, StartSend(op, "none") PROVE Step
  BY <1>0, <1>2, StartSendView
<1>3. CASE TxStep
  BY <1>0, <1>3, IsClosedView, StoreViews, QuietViews DEF TxStep
<1>4. ASSUME NEW op \in {"try_recv", "blocking_recv"}, StartRecv(op) PROVE Step
  BY <1>0, <1>4, BeginView
<1>5. ASSUME NEW w \in Tasks, Poll(w) PROVE Step
  BY <1>0, <1>5, BeginView
<1>6. CASE RxStep
  BY <1>0, <1>6, TryTakeView, ReadView, SenderDroppedView, QuietViews, DropReceiverView
     DEF RxStep
<1>7. CASE ParkSpuriously \/ Close \/ DropReceiver \/ UNCHANGED vars
  BY <1>0, <1>7, QuietViews, CloseView, DropReceiverView
<1> QED BY <1>1, <1>2, <1>3, <1>4, <1>5, <1>6, <1>7 DEF Next

LEMMA InitView ==
  ASSUME Init
  PROVE  Promise!Init
<1>1. Slot = "empty"
  BY DEF Init, Slot
<1>2. (~IsGeneric) \in BOOLEAN
  OBVIOUS
<1> QED BY <1>1, <1>2 DEF Init, Promise!Init, SendCall, Seen, RecvCall, Awaited, Found,
                RecvResult, RecvValue, Reading

\* Over any storage the oneshot channel is a slot for one value: each call changes
\* it in one atomic step, is answered in that step, and is answered with what the
\* slot holds.  The checks of send() and is_closed(), the second look after
\* registering and the reference count add no other answer.
THEOREM Refinement == Spec => ImplementsOnce
<1>1. Init => Promise!Init
  BY InitView
<1>2. OInv /\ OInv' /\ [Next]_vars => [Promise!Next]_(Promise!vars)
  BY StepView DEF Step
<1> QED BY Invariance, <1>1, <1>2, PTL DEF Spec, Promise!Spec, ImplementsOnce
=============================================================================
