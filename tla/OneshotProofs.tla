---------------------------- MODULE OneshotProofs ----------------------------
(***************************************************************************)
(* Proofs about Oneshot, for any of its storages, any use of the receiver  *)
(* and any set of tasks that poll it.  As in NotifyProofs, the AtomicWaker *)
(* inside is not proved about again (WakerStep).                           *)
(***************************************************************************)
EXTENDS Oneshot, TLAPS

WP == INSTANCE AtomicWakerProofs
      WITH Threads <- {Tx, Rx}, TakeOnly <- {}, state <- wakerState, pc <- wakerPc

\* What the theorems of AtomicWaker assume of its constants.
USE WakersAssumption DEF WP!ThreadsAssumption, WP!WakersAssumption, Tx, Rx, Wakers

-----------------------------------------------------------------------------
(***************************************************************************)
(* The inductive invariant, apart from the one of AtomicWaker.  What the   *)
(* properties say of the ends of a call, it says of every step on the way. *)
(***************************************************************************)

ChannelTypeOK ==
  /\ storage \in Storages
  /\ state \in Codes \union {Pending, SenderClosed, ReceiverClosed}
  /\ value \in {"sender", "cell", "receiver", "dropped"}
  /\ txPc \in {"open", "closed?", "count?", "write", "store", "mark", "wake",
               "finish", "gone"}
  /\ txOp \in {"none", "is_closed", "send", "send_unchecked", "drop"}
  /\ answer \in {"none", "yes", "no"}
  /\ payload \in Values \union {"none"} /\ received \in Values \union {"none"}
  /\ fate \in {"open", "sent", "refused", "dropped"}
  /\ rxPc \in {"idle", "take", "read", "register", "retake", "count?", "dropped?",
               "notified?", "park", "drop", "gone"}
  /\ rxOp \in {"none", "try_recv", "poll", "blocking_recv"}
  /\ cx \in Wakers \union {NoWaker}
  /\ awaiting \in BOOLEAN
  /\ result \in {"none", "value", "empty", "closed"}
  /\ closed \in {"never", "before", "during", "after"}
  /\ token \in BOOLEAN /\ unparking \in SUBSET {Tx, Rx}

\* The reference count is that of the handles.
Counted == strong = Handles

\* What the sender is doing fits what has come of it, and a value was given to
\* it if it sends one.
TxPhase ==
  /\ txPc \in {"open", "closed?", "count?", "write", "store"} <=> fate = "open"
  /\ txPc = "mark" => fate \in {"dropped", "refused"}
  /\ txPc = "open" => txOp \in {"none", "is_closed"}
  /\ txPc \in {"closed?", "count?"} => txOp \in {"is_closed", "send"}
  /\ txPc \in {"write", "store"} \/ fate = "sent" => txOp \in {"send", "send_unchecked"}
  /\ txPc = "write" => IsGeneric
  /\ txOp \in {"send", "send_unchecked"} => payload \in Values

\* What the receiver is doing fits its call; it reads the cell only when the
\* sender has filled it and nobody can reach it by the state any more.
RxPhase ==
  /\ rxPc = "read" => IsGeneric /\ fate = "sent" /\ value = "cell" /\ state \notin Codes
  /\ rxPc = "take" => rxOp # "none"
  /\ rxPc \in {"register", "retake", "count?", "dropped?"} => rxOp \in {"poll", "blocking_recv"}
  /\ rxPc \in {"notified?", "park", "drop"} => rxOp = "blocking_recv"
  /\ rxOp \in {"poll", "blocking_recv"} => cx \in Wakers
  /\ awaiting => rxOp = "poll" /\ result = "none"
  /\ rxPc \notin {"idle", "drop", "gone"} => result = "none"

\* Where the value is.
ValueWhere ==
  /\ fate \in {"dropped", "refused"} => value = "sender"
  /\ fate = "open" => value = IF IsGeneric /\ txPc = "store" THEN "cell" ELSE "sender"
  /\ fate = "sent" => value \in {"cell", "receiver"}

\* What the state tells whoever reads it.
StateMeans ==
  /\ state \in Codes => /\ fate = "sent" /\ FromU8(state) = payload
                        /\ IsGeneric => value = "cell"
  /\ state = SenderClosed => fate \in {"dropped", "refused"}
  /\ state = ReceiverClosed => closed # "never"
  /\ fate = "sent" /\ closed = "never" => state \in Codes \/ rxPc = "read" \/ value # "cell"

\* What the calls have answered.
Answers ==
  /\ ClosedHonestly
  /\ fate = "refused" \/ answer = "yes" => closed # "never" \/ rxPc = "gone"
  /\ result = "value" => received = payload /\ fate = "sent"

\* Without a swap, the state of a closed receiver stays until the sender acts.
LiteStaysClosed ==
  ~IsGeneric =>
    /\ closed = "before" /\ fate = "open" =>
         state = ReceiverClosed /\ ~(txOp = "send" /\ txPc \in {"count?", "write", "store"})
    /\ answer = "yes" /\ fate = "open" =>
         /\ state = ReceiverClosed \/ rxPc = "gone"
         /\ txOp = "send" => txPc \notin {"write", "store"}
         /\ txOp = "send" /\ txPc = "count?" => rxPc = "gone"

OInv == /\ ChannelTypeOK /\ Counted /\ TxPhase /\ RxPhase /\ ValueWhere
        /\ StateMeans /\ Answers /\ LiteStaysClosed /\ CloseStopsLiteSend

-----------------------------------------------------------------------------
(* The inductive invariant of the wakeups *)

\* Only the receiver registers, once at a time, and only its last waker.
SoleRegistrar ==
  /\ wakerPc[Tx] \notin WP!RegisterPCs
  /\ wakerPc[Rx] # "idle" => rxPc = "retake"
  /\ wakerPc[Rx] = "reg_store" => held[Rx] = cx

Covered == \/ cx \in woken \union WP!inflight
           \/ WP!slot = cx
           \/ wakerPc[Rx] = "reg_store" /\ held[Rx] = cx

\* Once the sender has acted, the state is that of a channel which has not been
\* used only because the receiver has swapped it away.
Settled == state = Pending /\ txPc \in {"wake", "finish", "gone"} =>
             /\ IsGeneric
             /\ \/ rxPc \in {"read", "drop", "gone"}
                \/ rxPc = "idle" /\ result \in {"value", "closed"}

\* The receiver has found nothing, and has not been closed since.
Looked == \/ rxPc \in {"register", "retake", "count?", "dropped?", "notified?", "park"}
          \/ rxPc = "idle" /\ awaiting

\* What NoLostWakeup says, from the second look on.
Owed == IF state = Pending
          THEN cx \in {WP!slot} \union WP!inflight \union woken
          ELSE \/ cx \in WP!inflight \union woken
               \/ cx = WP!slot /\ txPc = "wake"

\* From the registration to the second look, and from there to the wakeup.
Watched == /\ Looked => state # ReceiverClosed
           /\ rxOp = "poll" /\ rxPc = "retake" => Covered
           /\ rxOp = "poll" /\ rxPc \in {"count?", "dropped?"} => Owed
           /\ rxPc = "idle" /\ awaiting => Owed

WInv == SoleRegistrar /\ Settled /\ Watched

-----------------------------------------------------------------------------
(* The encodings.  Nothing else of them is used. *)

\* A state that holds a value is neither pending nor closed, and from_u8() undoes
\* to_u8(); what the generic swap stores means pending.
LEMMA Codec ==
  ASSUME storage \in Storages
  PROVE  /\ Pending # SenderClosed /\ Pending # ReceiverClosed
         /\ SenderClosed # ReceiverClosed
         /\ Codes \intersect {Pending, SenderClosed, ReceiverClosed} = {}
         /\ \A v \in Values : ToU8(v) \in Codes /\ FromU8(ToU8(v)) = v
         /\ \A n \in Codes : FromU8(n) \in Values
         /\ IsGeneric => EMPTY = Pending /\ Codes = {READY}
<1> USE DEF Pending, SenderClosed, ReceiverClosed, Codes, Values, ToU8, FromU8,
            IsGeneric, Encoding, Lite, EMPTY, READY, SENDER_CLOSED, RECEIVER_CLOSED
<1>1. CASE storage = "generic"
  <2>1. /\ Encoding.values = <<"T">> /\ Codes = {1} /\ Values = {"T"}
        /\ Encoding.pending = 0 /\ Encoding.closed = 2 /\ Encoding.receiver_closed = 3
    BY <1>1 DEF Generic
  <2> QED BY <1>1, <2>1
<1>2. CASE storage = "unit"
  <2>1. /\ Encoding.values = <<"unit">> /\ Codes = {1} /\ Values = {"unit"}
        /\ Encoding.pending = 0 /\ Encoding.closed = 255 /\ Encoding.receiver_closed = 254
    BY <1>2 DEF Unit
  <2> QED BY <1>2, <2>1
<1>3. CASE storage = "TestCompletion"
  <2>1. /\ Encoding.values = <<"Called", "Cancelled">> /\ Codes = {1, 2}
        /\ Values = {"Called", "Cancelled"}
        /\ Encoding.pending = 0 /\ Encoding.closed = 255 /\ Encoding.receiver_closed = 254
    BY <1>3 DEF TestCompletion
  <2> QED BY <1>3, <2>1
<1>4. CASE storage = "CustomState"
  <2>1. /\ Encoding.values = <<"Success", "Failure", "Timeout">> /\ Codes = {1, 2, 3}
        /\ Values = {"Success", "Failure", "Timeout"}
        /\ Encoding.pending = 0 /\ Encoding.closed = 255 /\ Encoding.receiver_closed = 254
    BY <1>4 DEF CustomState
  <2> QED BY <1>4, <2>1
<1> QED BY <1>1, <1>2, <1>3, <1>4, StoragesAssumption

\* The storage of a channel, and with it the encoding, never changes.
SameCodec ==
  /\ storage' = storage /\ Encoding' = Encoding
  /\ Codes' = Codes /\ Values' = Values /\ Pending' = Pending
  /\ SenderClosed' = SenderClosed /\ ReceiverClosed' = ReceiverClosed
  /\ IsGeneric' <=> IsGeneric

LEMMA CodecFrame ==
  ASSUME [Next]_vars
  PROVE  SameCodec
<1>1. storage' = storage
  BY DEF Next, TxStep, RxStep, vars, others, StartSend, IsClosed, Write, Store,
         MarkSenderDropped, Wake, Finish, InWaker, Unpark, StartRecv, Poll, TryTake, Read,
         RegisterWaker, SenderDropped, SwapNotified, Park, ParkSpuriously, Close,
         DropReceiver
<1>2. Encoding' = Encoding
  BY <1>1 DEF Encoding
<1> QED BY <1>1, <1>2 DEF Codes, Values, Pending, SenderClosed, ReceiverClosed,
                          IsGeneric, SameCodec

-----------------------------------------------------------------------------
(* Every step of the sender keeps the invariant. *)

USE DEF ChannelTypeOK, FromU8

LEMMA StartSendStep ==
  ASSUME OInv, SameCodec, NEW op \in {"is_closed", "send", "send_unchecked", "drop"},
         NEW v \in Values \union {"none"}, op \in {"send", "send_unchecked"} => v \in Values,
         StartSend(op, v)
  PROVE  OInv'
<1> USE DEF OInv, SameCodec, StartSend, StoreBegins, others, rxVars, reply, parkVars
<1>0. txPc' \in {"closed?", "write", "store", "mark"}
  OBVIOUS
<1>1. ChannelTypeOK'
  BY <1>0
<1>2. Counted' /\ TxPhase'
  BY DEF Counted, Handles, TxPhase
<1>3. RxPhase' /\ ValueWhere' /\ StateMeans'
  BY DEF TxPhase, RxPhase, ValueWhere, StateMeans
<1>4. Answers' /\ LiteStaysClosed' /\ CloseStopsLiteSend'
  BY DEF TxPhase, Answers, ClosedHonestly, LiteStaysClosed, CloseStopsLiteSend, CloseStopsSend
<1> QED BY <1>1, <1>2, <1>3, <1>4

LEMMA IsClosedStep ==
  ASSUME OInv, SameCodec, IsClosed
  PROVE  OInv'
<1> USE DEF OInv, SameCodec, IsClosed, StoreBegins, others, rxVars, reply, parkVars
<1>0. txPc' \in {"open", "count?", "write", "store", "mark"}
  OBVIOUS
<1>1. ChannelTypeOK'
  BY <1>0
<1>2. Counted' /\ TxPhase'
  BY DEF Counted, Handles, TxPhase
<1>3. RxPhase' /\ ValueWhere' /\ StateMeans'
  BY DEF TxPhase, RxPhase, ValueWhere, StateMeans
<1>4. Answers' /\ LiteStaysClosed' /\ CloseStopsLiteSend'
  BY DEF TxPhase, Answers, ClosedHonestly, LiteStaysClosed, CloseStopsLiteSend, CloseStopsSend,
         Counted, Handles, Alone, StateMeans
<1> QED BY <1>1, <1>2, <1>3, <1>4

LEMMA StoreSteps ==
  ASSUME OInv, SameCodec, Write \/ Store \/ MarkSenderDropped
  PROVE  OInv'
<1> USE DEF OInv, SameCodec, Write, Store, MarkSenderDropped, txCall, others, rxVars, reply,
            parkVars
<1>0. Store => state' \in Codes /\ Encoding.values[state'] = payload
  BY Codec DEF TxPhase
<1>1. ChannelTypeOK'
  <2>1. /\ state' \in Codes \union {Pending, SenderClosed, ReceiverClosed}
        /\ value' \in {"sender", "cell", "receiver", "dropped"}
        /\ fate' \in {"open", "sent", "refused", "dropped"}
        /\ txPc' \in {"store", "wake"}
        /\ UNCHANGED <<txCall, rxVars, others>>
    BY <1>0
  <2> QED BY <2>1
<1>2. Counted' /\ TxPhase'
  BY DEF Counted, Handles, TxPhase
<1>3. RxPhase' /\ ValueWhere' /\ StateMeans'
  BY <1>0, Codec DEF TxPhase, RxPhase, ValueWhere, StateMeans
<1>4. Answers' /\ LiteStaysClosed' /\ CloseStopsLiteSend'
  BY DEF TxPhase, Answers, ClosedHonestly, LiteStaysClosed, CloseStopsLiteSend, CloseStopsSend
<1> QED BY <1>1, <1>2, <1>3, <1>4

\* The wake, and the end of the sender.
LEMMA FinishSteps ==
  ASSUME OInv, SameCodec, Wake \/ Finish
  PROVE  OInv'
<1> USE DEF OInv, SameCodec, Wake, Finish, Release, txCall, rxVars, reply, parkVars
<1>1. value' = value
  BY Codec DEF Counted, Handles, StateMeans
<1>2. ChannelTypeOK'
  <2>1. /\ txPc' \in {"finish", "gone"}
        /\ UNCHANGED <<state, value, txCall, fate, rxVars, closed, parkVars>>
    BY <1>1
  <2> QED BY <2>1
<1>3. Counted' /\ TxPhase'
  BY DEF Counted, Handles, TxPhase
<1>4. RxPhase' /\ ValueWhere' /\ StateMeans'
  BY <1>1 DEF TxPhase, RxPhase, ValueWhere, StateMeans
<1>5. Answers' /\ LiteStaysClosed' /\ CloseStopsLiteSend'
  BY DEF TxPhase, Answers, ClosedHonestly, LiteStaysClosed, CloseStopsLiteSend, CloseStopsSend
<1> QED BY <1>2, <1>3, <1>4, <1>5

-----------------------------------------------------------------------------
(* Every step of the receiver keeps the invariant. *)

LEMMA BeginStep ==
  ASSUME OInv, SameCodec,
         \/ \E op \in {"try_recv", "blocking_recv"} : StartRecv(op)
         \/ \E w \in Tasks : Poll(w)
  PROVE  OInv'
<1> USE DEF OInv, SameCodec, StartRecv, Poll, Free, txVars, txCall, others, parkVars
<1>1. /\ rxPc = "idle" /\ rxPc' = "take" /\ awaiting' \in BOOLEAN
      /\ rxOp' \in {"try_recv", "poll", "blocking_recv"}
      /\ cx' \in Wakers \union {NoWaker}
      /\ rxOp' \in {"poll", "blocking_recv"} => cx' \in Wakers
      /\ awaiting' => rxOp' = "poll"
      /\ result' = "none" /\ received' = "none"
      /\ UNCHANGED <<state, value, strong, txVars, closed, parkVars>>
  OBVIOUS
<1> HIDE DEF StartRecv, Poll
<1>2. ChannelTypeOK'
  BY <1>1
<1>3. Counted' /\ TxPhase'
  BY <1>1 DEF Counted, Handles, TxPhase
<1>4. RxPhase' /\ ValueWhere' /\ StateMeans'
  BY <1>1 DEF RxPhase, ValueWhere, StateMeans
<1>5. Answers' /\ LiteStaysClosed' /\ CloseStopsLiteSend'
  BY <1>1 DEF Answers, ClosedHonestly, LiteStaysClosed, CloseStopsLiteSend, CloseStopsSend
<1> QED BY <1>2, <1>3, <1>4, <1>5

\* try_take() finds a value, a closed channel or nothing.
TakesValue == /\ state \in Codes
              /\ IF IsGeneric
                   THEN /\ state' = Pending /\ rxPc' = "read"
                        /\ UNCHANGED <<value, awaiting, reply>>
                   ELSE state' = state /\ Return("value", FromU8(state)) /\ value' = "receiver"

TakesClosed == /\ state \in {SenderClosed, ReceiverClosed}
               /\ state' = IF IsGeneric THEN Pending ELSE state
               /\ Return("closed", "none") /\ UNCHANGED value

TakesNothing == /\ state = Pending /\ UNCHANGED <<state, value>>
                /\ IF rxOp = "try_recv" THEN Return("empty", "none")
                   ELSE /\ rxPc' = IF rxPc = "take" THEN "register" ELSE "count?"
                        /\ UNCHANGED <<awaiting, reply>>

LEMMA TakeCases ==
  ASSUME OInv, TryTake
  PROVE  /\ rxPc = "take" \/ (rxPc = "retake" /\ OutOfWaker(Rx))
         /\ TakesValue \/ TakesClosed \/ TakesNothing
         /\ UNCHANGED <<strong, txVars, rxOp, cx, others>>
<1> USE DEF OInv, TryTake, AfterTake
<1>1. CASE IsReady
  BY <1>1, Codec DEF TakeReady, IsReady, TakesValue, Closes
<1>2. CASE state \in Closes
  BY <1>2, Codec DEF TakesClosed, Closes, IsReady
<1>3. CASE ~IsReady /\ state \notin Closes
  BY <1>3, Codec DEF TakesNothing, Closes, IsReady
<1> QED BY <1>1, <1>2, <1>3

LEMMA TryTakeStep ==
  ASSUME OInv, SameCodec, TryTake
  PROVE  OInv'
<1> USE DEF OInv, SameCodec, others, txVars, txCall, parkVars, reply, Return
<1>1. /\ rxPc \in {"take", "retake"}
      /\ UNCHANGED <<strong, txVars, rxOp, cx, others>>
      /\ TakesValue \/ TakesClosed \/ TakesNothing
  BY TakeCases
<1>2. ChannelTypeOK'
  <2>1. /\ state' \in Codes \union {Pending, SenderClosed, ReceiverClosed}
        /\ value' \in {value, "receiver"}
        /\ rxPc' \in {"read", "idle", "drop", "register", "count?"}
        /\ result' \in {result, "value", "closed", "empty"}
    BY <1>1, Codec DEF TakesValue, TakesClosed, TakesNothing
  <2>2. received' \in Values \union {"none"}
    BY <1>1, Codec DEF TakesValue, TakesClosed, TakesNothing
  <2>3. awaiting' = FALSE \/ awaiting' = awaiting
    BY <1>1 DEF TakesValue, TakesClosed, TakesNothing
  <2>4. awaiting' \in BOOLEAN
    BY <2>3
  <2>5. UNCHANGED <<strong, txVars, rxOp, cx, others>>
    BY <1>1
  <2> QED BY <2>1, <2>2, <2>4, <2>5
<1>3. Counted' /\ TxPhase'
  <2>1. rxPc' # "gone"
    BY <1>1 DEF TakesValue, TakesClosed, TakesNothing
  <2> QED BY <1>1, <2>1 DEF Counted, Handles, TxPhase
<1>4. RxPhase' /\ ValueWhere' /\ StateMeans'
  <2>1. CASE TakesValue
    BY <1>1, <2>1, Codec DEF TakesValue, RxPhase, ValueWhere, StateMeans
  <2>2. CASE TakesClosed
    BY <1>1, <2>2, Codec DEF TakesClosed, RxPhase, ValueWhere, StateMeans
  <2>3. CASE TakesNothing
    BY <1>1, <2>3, Codec DEF TakesNothing, RxPhase, ValueWhere, StateMeans
  <2> QED BY <1>1, <2>1, <2>2, <2>3
<1>5. Answers' /\ LiteStaysClosed' /\ CloseStopsLiteSend'
  <2> USE DEF Answers, ClosedHonestly, LiteStaysClosed, CloseStopsLiteSend, CloseStopsSend,
              StateMeans, RxPhase
  <2>1. CASE TakesValue
    BY <1>1, <2>1, Codec DEF TakesValue
  <2>2. CASE TakesClosed
    BY <1>1, <2>2, Codec DEF TakesClosed
  <2>3. CASE TakesNothing
    BY <1>1, <2>3, Codec DEF TakesNothing
  <2> QED BY <1>1, <2>1, <2>2, <2>3
<1> QED BY <1>2, <1>3, <1>4, <1>5

LEMMA ReadStep ==
  ASSUME OInv, SameCodec, Read
  PROVE  OInv'
<1> USE DEF OInv, SameCodec, Read, Return, others, txVars, txCall, parkVars
<1>1. fate = "sent" /\ payload \in Values /\ rxPc' \in {"idle", "drop"}
  BY DEF RxPhase, TxPhase
<1>2. ChannelTypeOK'
  <2>1. awaiting' \in BOOLEAN
    OBVIOUS
  <2> QED BY <1>1, <2>1
<1>3. Counted' /\ TxPhase'
  BY DEF Counted, Handles, TxPhase
<1>4. RxPhase' /\ ValueWhere' /\ StateMeans'
  BY DEF RxPhase, ValueWhere, StateMeans
<1>5. Answers' /\ LiteStaysClosed' /\ CloseStopsLiteSend'
  BY DEF RxPhase, Answers, ClosedHonestly, LiteStaysClosed, CloseStopsLiteSend, CloseStopsSend
<1> QED BY <1>2, <1>3, <1>4, <1>5

LEMMA SenderDroppedStep ==
  ASSUME OInv, SameCodec, SenderDropped
  PROVE  OInv'
<1> USE DEF OInv, SameCodec, SenderDropped, Return, others, txVars, txCall, parkVars, reply
<1>1. /\ rxPc' \in {"idle", "drop", "dropped?", "notified?"}
      /\ rxPc' = "dropped?" => rxPc = "count?" /\ result' = result
      /\ rxPc' = "notified?" => rxOp = "blocking_recv" /\ result' = result
      /\ rxPc' = "drop" => rxOp = "blocking_recv"
      /\ \/ UNCHANGED <<awaiting, result, received>>
         \/ /\ state = SenderClosed
            /\ awaiting' = FALSE /\ result' = "closed" /\ received' = "none"
      /\ UNCHANGED <<state, value, strong, txVars, rxOp, cx, others>>
  BY DEF RxPhase
<1> HIDE DEF SenderDropped
<1>2. ChannelTypeOK'
  <2>1. /\ awaiting' \in BOOLEAN
        /\ result' \in {result, "closed"} /\ received' \in {received, "none"}
    BY <1>1
  <2> QED BY <1>1, <2>1
<1>3. Counted' /\ TxPhase'
  BY <1>1 DEF RxPhase, Counted, Handles, TxPhase, SenderDropped
<1>4. RxPhase' /\ ValueWhere' /\ StateMeans'
  BY <1>1 DEF RxPhase, ValueWhere, StateMeans, SenderDropped
<1>5. Answers' /\ LiteStaysClosed' /\ CloseStopsLiteSend'
  BY <1>1 DEF RxPhase, StateMeans, Answers, ClosedHonestly, LiteStaysClosed,
              CloseStopsLiteSend, CloseStopsSend, SenderDropped
<1> QED BY <1>2, <1>3, <1>4, <1>5

LEMMA CloseStep ==
  ASSUME OInv, SameCodec, Close
  PROVE  OInv'
<1> USE DEF OInv, SameCodec, Close, txVars, txCall, parkVars, reply
<1>1. /\ closed' \in {"before", "during", "after"}
      /\ closed' = "before" /\ closed # "before" => txPc = "open"
  BY DEF TxPhase
<1>2. ChannelTypeOK'
  <2>1. awaiting' \in BOOLEAN
    OBVIOUS
  <2> QED BY <1>1, <2>1
<1>3. Counted' /\ TxPhase'
  BY DEF Counted, Handles, TxPhase
<1>4. RxPhase' /\ ValueWhere' /\ StateMeans'
  BY <1>1, Codec DEF RxPhase, ValueWhere, StateMeans
<1>5. Answers' /\ LiteStaysClosed' /\ CloseStopsLiteSend'
  BY <1>1 DEF TxPhase, Answers, ClosedHonestly, LiteStaysClosed, CloseStopsLiteSend, CloseStopsSend
<1> QED BY <1>2, <1>3, <1>4, <1>5

LEMMA DropReceiverStep ==
  ASSUME OInv, SameCodec, DropReceiver
  PROVE  OInv'
<1> USE DEF OInv, SameCodec, DropReceiver, Release, txVars, txCall, parkVars, reply
<1>1. value' = value
  BY Codec DEF Counted, Handles, TxPhase, StateMeans
<1>2. ChannelTypeOK'
  <2>1. awaiting' \in BOOLEAN
    OBVIOUS
  <2> QED BY <1>1, <2>1
<1>3. Counted' /\ TxPhase'
  BY DEF Counted, Handles, TxPhase
<1>4. RxPhase' /\ ValueWhere' /\ StateMeans'
  BY <1>1 DEF RxPhase, ValueWhere, StateMeans
<1>5. Answers' /\ LiteStaysClosed' /\ CloseStopsLiteSend'
  BY DEF Answers, ClosedHonestly, LiteStaysClosed, CloseStopsLiteSend, CloseStopsSend
<1> QED BY <1>2, <1>3, <1>4, <1>5

\* Steps that only move the receiver on, or an AtomicWaker or a park token.
LEMMA QuietSteps ==
  ASSUME OInv, SameCodec,
         \/ RegisterWaker \/ SwapNotified \/ Park \/ ParkSpuriously
         \/ \E t \in {Tx, Rx} : InWaker(t) \/ Unpark(t)
         \/ UNCHANGED vars
  PROVE  OInv'
<1> USE DEF OInv, SameCodec, txVars, txCall, parkVars, reply
<1>1. /\ \/ rxPc' = rxPc
         \/ rxPc = "register" /\ rxPc' = "retake"
         \/ rxPc \in {"notified?", "park"} /\ rxPc' \in {"retake", "park"}
      /\ token' \in BOOLEAN /\ unparking' \in SUBSET {Tx, Rx}
      /\ UNCHANGED <<storage, state, value, strong, txVars, rxOp, cx, awaiting, reply, closed>>
  BY DEF RegisterWaker, SwapNotified, Park, ParkSpuriously, InWaker, Unpark, vars, rxVars
<1>2. ChannelTypeOK'
  BY <1>1
<1>3. Counted' /\ TxPhase'
  BY <1>1 DEF Counted, Handles, TxPhase
<1>4. RxPhase' /\ ValueWhere' /\ StateMeans'
  BY <1>1 DEF RxPhase, ValueWhere, StateMeans
<1>5. Answers' /\ LiteStaysClosed' /\ CloseStopsLiteSend'
  BY <1>1 DEF Answers, ClosedHonestly, LiteStaysClosed, CloseStopsLiteSend, CloseStopsSend
<1> QED BY <1>2, <1>3, <1>4, <1>5

LEMMA OInvStep == OInv /\ [Next]_vars => OInv'
<1> SUFFICES ASSUME OInv, [Next]_vars PROVE OInv'
  OBVIOUS
<1>0. SameCodec
  BY CodecFrame
<1>1. ASSUME NEW op \in {"send", "send_unchecked"}, NEW v \in Values, StartSend(op, v)
      PROVE  OInv'
  BY <1>0, <1>1, StartSendStep
<1>2. ASSUME NEW op \in {"is_closed", "drop"}, StartSend(op, "none") PROVE OInv'
  BY <1>0, <1>2, StartSendStep
<1>3. CASE TxStep
  BY <1>0, <1>3, IsClosedStep, StoreSteps, FinishSteps, QuietSteps DEF TxStep
<1>4. CASE \/ \E op \in {"try_recv", "blocking_recv"} : StartRecv(op)
           \/ \E w \in Tasks : Poll(w)
  BY <1>0, <1>4, BeginStep
<1>5. CASE RxStep
  BY <1>0, <1>5, TryTakeStep, ReadStep, SenderDroppedStep, QuietSteps, DropReceiverStep
     DEF RxStep
<1>6. CASE ParkSpuriously \/ Close \/ DropReceiver \/ UNCHANGED vars
  BY <1>0, <1>6, QuietSteps, CloseStep, DropReceiverStep
<1> QED BY <1>1, <1>2, <1>3, <1>4, <1>5, <1>6 DEF Next

-----------------------------------------------------------------------------
(* The AtomicWaker as Oneshot uses it, and as it was proved about. *)

LEMMA SameRegister ==
  ASSUME NEW t \in {Tx, Rx}, NEW w, W!Register(t, w)
  PROVE  WP!Register(t, w)
BY DEF W!Register, W!RegisterLock, W!RegisterWhileWaking, W!RegisterIgnored,
       W!Goto, W!Hold, W!WAITING, W!REGISTERING, W!WAKING, W!BOTH,
       WP!Register, WP!RegisterLock, WP!RegisterWhileWaking, WP!RegisterIgnored,
       WP!Goto, WP!Hold, WP!WAITING, WP!REGISTERING, WP!WAKING, WP!BOTH

LEMMA SameTake ==
  ASSUME NEW t \in {Tx, Rx}, W!Take(t)
  PROVE  WP!Take(t)
BY DEF W!Take, W!OrWaking, W!Goto, W!WAITING, W!REGISTERING, W!WAKING, W!BOTH,
       WP!Take, WP!OrWaking, WP!Goto, WP!WAITING, WP!REGISTERING, WP!WAKING, WP!BOTH

LEMMA SameContinue ==
  ASSUME NEW t \in {Tx, Rx}, W!Continue(t)
  PROVE  WP!Continue(t)
BY DEF W!Continue, W!RegisterStore, W!RegisterUnlock, W!RegisterContended,
       W!Empty, W!Reset, W!WakeHeld, W!ReturnHeld,
       W!Goto, W!Hold, W!WAITING, W!REGISTERING, W!WAKING, W!BOTH,
       WP!Continue, WP!RegisterStore, WP!RegisterUnlock, WP!RegisterContended,
       WP!Empty, WP!Reset, WP!WakeHeld, WP!ReturnHeld,
       WP!Goto, WP!Hold, WP!WAITING, WP!REGISTERING, WP!WAKING, WP!BOTH

LEMMA SameSlot == W!slot = WP!slot /\ W!inflight = WP!inflight
BY DEF W!slot, W!inflight, W!OnItsWay, W!Carries, W!Claimed,
       W!WAITING, W!REGISTERING, W!WAKING, W!BOTH,
       WP!slot, WP!inflight, WP!OnItsWay, WP!Carries, WP!Claimed,
       WP!WAITING, WP!REGISTERING, WP!WAKING, WP!BOTH

\* A step of Oneshot leaves its AtomicWaker alone, or is a step of it.
LEMMA WakerSteps ==
  ASSUME [Next]_vars
  PROVE  \/ UNCHANGED wakerVars
         \/ \E w \in Wakers : WP!Run(w) /\ (SwapNotified \/ \E v \in Tasks : Poll(v))
         \/ RegisterWaker /\ WP!Register(Rx, cx)
         \/ Wake /\ WP!Take(Tx)
         \/ \E t \in {Tx, Rx} : InWaker(t) /\ WP!Continue(t)
         \/ WP!Drop /\ (Finish \/ DropReceiver)
<1>1. ASSUME NEW w \in Tasks, Poll(w) PROVE UNCHANGED wakerVars \/ WP!Run(w)
  BY <1>1 DEF Poll, WP!Run, wakerVars
<1>2. CASE SwapNotified
  BY <1>2 DEF SwapNotified, WP!Run, wakerVars
<1>3. CASE RegisterWaker
  BY <1>3, SameRegister DEF RegisterWaker
<1>4. CASE Wake
  BY <1>4, SameTake DEF Wake
<1>5. ASSUME NEW t \in {Tx, Rx}, InWaker(t) PROVE WP!Continue(t)
  BY <1>5, SameContinue DEF InWaker
<1>6. CASE Finish \/ DropReceiver
  BY <1>6 DEF Finish, DropReceiver, Release, W!Drop, WP!Drop
<1>7. CASE \/ \E op \in {"send", "send_unchecked"}, v \in Values : StartSend(op, v)
           \/ \E op \in {"is_closed", "drop"} : StartSend(op, "none")
           \/ IsClosed \/ Write \/ Store \/ MarkSenderDropped
           \/ \E t \in {Tx, Rx} : Unpark(t)
  BY <1>7 DEF StartSend, IsClosed, Write, Store, MarkSenderDropped, Unpark, others
<1>8. CASE \/ \E op \in {"try_recv", "blocking_recv"} : StartRecv(op)
           \/ TryTake \/ Read \/ SenderDropped \/ Park \/ ParkSpuriously \/ Close
           \/ UNCHANGED vars
  BY <1>8 DEF StartRecv, TryTake, Read, SenderDropped, Park, ParkSpuriously, Close,
              vars, others
<1> QED BY <1>1, <1>2, <1>3, <1>4, <1>5, <1>6, <1>7, <1>8 DEF Next, TxStep, RxStep

LEMMA WakerStep ==
  ASSUME OInv, [Next]_vars
  PROVE  [WP!Next]_(WP!vars)
<1>1. RegisterWaker => cx \in Wakers
  BY DEF RegisterWaker, OInv, RxPhase
<1> QED BY <1>1, WakerSteps DEF WP!Next, WP!vars, wakerVars

LEMMA InitOInv == Init => OInv /\ WP!Init
<1> SUFFICES ASSUME Init PROVE OInv /\ WP!Init
  OBVIOUS
<1> USE DEF Init, OInv
<1>1. ChannelTypeOK
  OBVIOUS
<1>2. Counted /\ TxPhase /\ RxPhase /\ ValueWhere
  BY DEF Counted, Handles, TxPhase, RxPhase, ValueWhere
<1>3. StateMeans /\ Answers /\ LiteStaysClosed /\ CloseStopsLiteSend
  BY Codec DEF StateMeans, Answers, ClosedHonestly, LiteStaysClosed, CloseStopsLiteSend,
               CloseStopsSend
<1>4. WP!Init
  BY DEF W!Init, W!WAITING, WP!Init, WP!WAITING
<1> QED BY <1>1, <1>2, <1>3, <1>4

\* In every reachable state what AtomicWaker guarantees holds of the waker, and
\* the invariant above of the channel.
THEOREM Invariance == Spec => [](WP!IInv /\ OInv)
<1>1. OInv /\ [Next]_vars => [WP!Next]_(WP!vars)
  BY WakerStep
<1>2. Init => WP!IInv
  BY InitOInv, WP!InitIInv
<1>3. WP!IInv /\ [WP!Next]_(WP!vars) => WP!IInv'
  BY WP!TypeStep, WP!LockStep, WP!CarryStep, WP!AliveStep DEF WP!IInv
<1> QED BY InitOInv, OInvStep, <1>1, <1>2, <1>3, PTL DEF Spec

\* Type correctness, and the reference count that is_closed(), poll() and
\* blocking_recv() consult: it is that of the handles.
THEOREM TypeCorrectness == Spec => []TypeOK
<1>1. WP!TypeOK => W!TypeOK
  BY DEF W!TypeOK, W!PCs, W!RegisterPCs, W!TakePCs,
         W!WAITING, W!REGISTERING, W!WAKING, W!BOTH,
         WP!TypeOK, WP!PCs, WP!RegisterPCs, WP!TakePCs,
         WP!WAITING, WP!REGISTERING, WP!WAKING, WP!BOTH
<1>2. WP!IInv /\ OInv => TypeOK
  BY <1>1 DEF WP!IInv, OInv, Counted, TypeOK
<1> QED BY Invariance, <1>2, PTL

\* The cell of the generic storage is read only when it holds the value, and
\* never while it is written, whatever the program does with the two handles.
THEOREM ReadsAreInitialised == Spec => []ReadsInitialised
<1>1. OInv => ReadsInitialised
  <2> SUFFICES ASSUME OInv, IsGeneric
               PROVE  /\ rxPc = "read" => value = "cell" /\ txPc \notin {"write", "store"}
                      /\ state = READY => value = "cell" /\ rxPc # "read"
    BY DEF ReadsInitialised
  <2> QED BY Codec DEF OInv, RxPhase, TxPhase, StateMeans
<1> QED BY Invariance, <1>1, PTL

\* The receiver is told Closed only if the sender goes without a value, or if it
\* was closed itself.
THEOREM ClosedIsHonest == Spec => []ClosedHonestly
  BY Invariance, PTL DEF OInv, Answers

\* send() refuses, and is_closed() answers yes, only for a receiver that was
\* closed or dropped, and a refused value goes back to the caller.
THEOREM RefusedIsHonest == Spec => []RefusedHonestly
<1>1. OInv => RefusedHonestly
  BY DEF OInv, Answers, ValueWhere, RefusedHonestly
<1> QED BY Invariance, <1>1, PTL

\* What is received is what was sent, and what was sent to a receiver that is
\* not closed stays there to be received.
THEOREM ReceivesWhatWasSent == Spec => []ReceivedIsSent
<1>1. OInv => ReceivedIsSent
  BY Codec DEF OInv, Answers, StateMeans, ReceivedIsSent, IsReady, Closes
<1> QED BY Invariance, <1>1, PTL

\* The lite storage keeps the promise of close(), and the answer of is_closed().
THEOREM LiteStaysShut == Spec => []CloseStopsLiteSend
  BY Invariance, PTL DEF OInv

-----------------------------------------------------------------------------
(* The wakeups *)

\* The last waker stays covered while a thread takes a step inside the
\* AtomicWaker.
LEMMA CoveredKept ==
  ASSUME WP!IInv, SoleRegistrar, cx \in Wakers, Covered, cx' = cx,
         NEW t \in {Tx, Rx}, WP!Take(t) \/ WP!Continue(t)
  PROVE  Covered'
<1>1. CASE cx \in woken \union WP!inflight
  <2>1. cx \in (woken \union WP!inflight)'
    BY <1>1, WP!ComingKept
  <2> QED BY <2>1 DEF Covered
<1>2. CASE wakerPc[Rx] = "reg_store" /\ held[Rx] = cx
  <2>1. \/ wakerPc'[Rx] = "reg_store" /\ held'[Rx] = cx
        \/ WP!slot' = cx
        \/ cx \in WP!inflight'
    BY <1>2, WP!StoreKept
  <2> QED BY <2>1 DEF Covered
<1>3. CASE WP!slot = cx /\ wakerPc[Rx] # "reg_store"
  <2>1. \A r \in {Tx, Rx} : wakerPc[r] # "reg_store"
    BY <1>3 DEF SoleRegistrar, WP!RegisterPCs
  <2>2. WP!slot' = cx \/ cx \in WP!inflight'
    BY <1>3, <2>1, WP!SlotKept
  <2> QED BY <2>2 DEF Covered
<1>4. CASE WP!slot = cx /\ wakerPc[Rx] = "reg_store"
  BY <1>2, <1>4 DEF SoleRegistrar
<1> QED BY <1>1, <1>2, <1>3, <1>4 DEF Covered

\* A registration of the receiver is never ignored, and covers it.
LEMMA RegisterCovers ==
  ASSUME WP!IInv, SoleRegistrar, rxPc = "register",
         cx \in Wakers, cx' = cx, WP!Register(Rx, cx)
  PROVE  /\ Covered'
         /\ wakerPc'[Rx] = "reg_store" => held'[Rx] = cx
         /\ wakerPc'[Tx] = wakerPc[Tx]
<1> USE DEF WP!WAITING, WP!REGISTERING, WP!WAKING, WP!BOTH
<1>1. wakerPc[Rx] = "idle"
  BY DEF SoleRegistrar
<1>2. wakerState \notin {WP!REGISTERING, WP!BOTH}
  BY <1>1 DEF SoleRegistrar, WP!IInv, WP!LockOwned, WP!Owns, WP!TakePCs, WP!RegisterPCs
<1>3. CASE WP!RegisterLock(Rx, cx)
  BY <1>2, <1>3 DEF WP!RegisterLock, WP!Goto, WP!Hold, WP!IInv, WP!TypeOK, Covered
<1>4. CASE WP!RegisterWhileWaking(Rx, cx)
  <2>1. /\ wakerPc'[Rx] = "wake" /\ held'[Rx] = cx
        /\ wakerPc'[Tx] = wakerPc[Tx]
    BY <1>4 DEF WP!RegisterWhileWaking, WP!Goto, WP!Hold, WP!IInv, WP!TypeOK
  <2>2. cx \in WP!inflight'
    BY <2>1 DEF WP!inflight, WP!OnItsWay, WP!Carries
  <2> QED BY <1>4, <2>1, <2>2 DEF Covered
<1>5. CASE WP!RegisterIgnored(Rx, cx)
  BY <1>2, <1>5 DEF WP!RegisterIgnored
<1> QED BY <1>3, <1>4, <1>5 DEF WP!Register

\* What a step inside the AtomicWaker, other than a registration, leaves alone.
LEMMA InsideFrame ==
  ASSUME SoleRegistrar, NEW t \in {Tx, Rx}, WP!IInv,
         WP!Continue(t) \/ (t = Tx /\ WP!Take(t))
  PROVE  /\ wakerPc'[Tx] \notin WP!RegisterPCs
         /\ wakerPc'[Rx] # "idle" => wakerPc[Rx] # "idle"
         /\ wakerPc'[Rx] = "reg_store" => wakerPc[Rx] = "reg_store" /\ held'[Rx] = held[Rx]
<1> USE DEF SoleRegistrar, WP!IInv, WP!TypeOK, WP!RegisterPCs, WP!TakePCs, WP!PCs,
            WP!Goto, WP!Hold
<1>1. CASE t = Tx /\ WP!Take(t)
  BY <1>1 DEF WP!Take
<1>2. CASE WP!Continue(t)
  BY <1>2 DEF WP!Continue, WP!RegisterStore, WP!RegisterUnlock, WP!RegisterContended,
              WP!Empty, WP!Reset, WP!WakeHeld, WP!ReturnHeld
<1> QED BY <1>1, <1>2

\* A step that leaves the AtomicWaker alone, and the last waker with it, keeps
\* what is known of both.
LEMMA WakerUnchanged ==
  ASSUME UNCHANGED <<wakerVars, cx>>
  PROVE  /\ Covered' <=> Covered
         /\ WP!slot' = WP!slot /\ WP!inflight' = WP!inflight /\ woken' = woken
         /\ wakerPc' = wakerPc /\ held' = held
BY DEF wakerVars, Covered, WP!slot, WP!inflight, WP!OnItsWay, WP!Carries, WP!Claimed

\* Once the sender has acted the state is pending only for a receiver that has
\* its answer: the one thing here that depends on how the receiver is used.
LEMMA SettledStep ==
  ASSUME "generic" \notin Reused, OInv, Settled, [Next]_vars
  PROVE  Settled'
<1> USE DEF OInv, Settled, SameCodec
<1>0. SameCodec
  BY CodecFrame
<1>1. CASE TryTake
  <2>1. /\ rxPc \in {"take", "retake"} /\ UNCHANGED <<txVars, others>>
        /\ TakesValue \/ TakesClosed \/ TakesNothing
    BY <1>1, TakeCases
  <2> QED BY <1>0, <2>1, Codec DEF TakesValue, TakesClosed, TakesNothing, Return, txVars
<1>2. CASE Read
  BY <1>0, <1>2 DEF Read, Return, txVars, RxPhase
<1>3. CASE \/ \E op \in {"try_recv", "blocking_recv"} : StartRecv(op)
           \/ \E w \in Tasks : Poll(w)
  BY <1>0, <1>3 DEF StartRecv, Poll, Free, txVars, IsGeneric
<1>4. CASE Store \/ MarkSenderDropped \/ Close
  <2>1. Store => state' \in Codes
    BY Codec DEF Store, TxPhase
  <2> QED BY <1>0, <1>4, <2>1, Codec DEF MarkSenderDropped, Close, txVars
<1>5. CASE Wake \/ Finish
  BY <1>0, <1>5 DEF Wake, Finish, rxVars, reply
<1>6. CASE DropReceiver
  BY <1>0, <1>6 DEF DropReceiver, txVars
<1>7. CASE \/ RegisterWaker \/ SenderDropped \/ SwapNotified \/ Park \/ ParkSpuriously
  BY <1>0, <1>7 DEF RegisterWaker, SenderDropped, SwapNotified, Park, ParkSpuriously, txVars,
                    Return, reply, RxPhase
<1>8. ASSUME NEW op \in {"send", "send_unchecked", "is_closed", "drop"}, NEW v, StartSend(op, v)
      PROVE  Settled'
  BY <1>0, <1>8 DEF StartSend, StoreBegins, rxVars, reply
<1>9. CASE IsClosed \/ Write
  BY <1>0, <1>9 DEF IsClosed, Write, StoreBegins, rxVars, reply
<1>10. CASE UNCHANGED vars \/ \E t \in {Tx, Rx} : InWaker(t) \/ Unpark(t)
  BY <1>0, <1>10 DEF vars, InWaker, Unpark, txVars, rxVars, reply
<1> QED BY <1>1, <1>2, <1>3, <1>4, <1>5, <1>6, <1>7, <1>8, <1>9, <1>10
        DEF Next, TxStep, RxStep

LEMMA SoleRegistrarStep ==
  ASSUME WP!IInv, OInv, SoleRegistrar, [Next]_vars
  PROVE  SoleRegistrar'
<1>1. CASE UNCHANGED wakerVars
  <2>1. wakerPc' = wakerPc /\ held' = held
    BY <1>1 DEF wakerVars
  <2>2. wakerPc[Rx] = "idle" => SoleRegistrar'
    BY <2>1 DEF SoleRegistrar
  <2>3. wakerPc[Rx] # "idle" => rxPc' = rxPc /\ cx' = cx
    BY DEF SoleRegistrar, Next, TxStep, RxStep, vars, rxVars, others, StartSend, IsClosed, Write,
           Store, MarkSenderDropped, Wake, Finish, InWaker, Unpark, StartRecv, Poll, TryTake, Read,
           RegisterWaker, SenderDropped, SwapNotified, Park, ParkSpuriously, Close,
           DropReceiver, Free, OutOfWaker
  <2> QED BY <2>1, <2>2, <2>3 DEF SoleRegistrar
<1>2. ASSUME NEW w \in Wakers, WP!Run(w), SwapNotified \/ \E v \in Tasks : Poll(v)
      PROVE  SoleRegistrar'
  BY <1>2 DEF WP!Run, SoleRegistrar, SwapNotified, Poll, Free
<1>3. CASE RegisterWaker /\ WP!Register(Rx, cx)
  <2>1. cx \in Wakers /\ cx' = cx /\ rxPc = "register" /\ rxPc' = "retake"
    BY <1>3 DEF RegisterWaker, OInv, RxPhase
  <2> QED BY <1>3, <2>1, RegisterCovers DEF SoleRegistrar
<1>4. CASE Wake /\ WP!Take(Tx)
  <2>1. rxPc' = rxPc /\ cx' = cx
    BY <1>4 DEF Wake, rxVars
  <2> QED BY <1>4, <2>1, InsideFrame DEF SoleRegistrar
<1>5. ASSUME NEW t \in {Tx, Rx}, InWaker(t), WP!Continue(t) PROVE SoleRegistrar'
  <2>1. rxPc' = rxPc /\ cx' = cx
    BY <1>5 DEF InWaker, rxVars
  <2> QED BY <1>5, <2>1, InsideFrame DEF SoleRegistrar
<1>6. CASE WP!Drop
  BY <1>6 DEF WP!Drop, SoleRegistrar, WP!RegisterPCs
<1> QED BY <1>1, <1>2, <1>3, <1>4, <1>5, <1>6, WakerSteps

\* The steps inside the AtomicWaker.
LEMMA InsideStep ==
  ASSUME WP!IInv, OInv, WInv, SameCodec,
         Wake \/ \E t \in {Tx, Rx} : InWaker(t)
  PROVE  Watched'
<1> USE DEF OInv, WInv, Watched, SameCodec
<1>1. PICK t \in {Tx, Rx} : \/ t = Tx /\ Wake /\ WP!Take(Tx)
                            \/ InWaker(t) /\ WP!Continue(t)
  BY SameTake, SameContinue DEF Wake, InWaker
<1>2. UNCHANGED <<state, rxPc, rxOp, cx, awaiting>>
  BY <1>1 DEF Wake, InWaker, rxVars
<1>3. (Looked => state # ReceiverClosed)'
  BY <1>2 DEF Looked
<1>4. (rxOp = "poll" /\ rxPc = "retake" => Covered)'
  BY <1>1, <1>2, CoveredKept DEF RxPhase
<1>5. ASSUME Owed, rxOp = "poll",
             rxPc \in {"count?", "dropped?"} \/ (rxPc = "idle" /\ awaiting)
      PROVE  Owed'
  <2>1. cx \in Wakers /\ \A r \in {Tx, Rx} : wakerPc[r] # "reg_store"
    BY <1>5 DEF RxPhase, SoleRegistrar, WP!RegisterPCs
  <2>2. cx \in WP!inflight \union woken => cx \in (WP!inflight \union woken)'
    BY <1>1, <2>1, WP!ComingKept
  <2>3. cx = WP!slot => cx = WP!slot' \/ cx \in WP!inflight'
    BY <1>1, <2>1, WP!SlotKept
  <2>4. CASE Wake /\ WP!Take(Tx)
    <3>1. WP!slot' = NoWaker
      BY <2>4 DEF WP!Take, WP!OrWaking, WP!slot, WP!IInv, WP!TypeOK,
                  WP!WAITING, WP!REGISTERING, WP!WAKING, WP!BOTH
    <3>2. state # Pending
      BY <1>5, <2>4 DEF Wake, Settled, RxPhase
    <3> QED BY <1>2, <1>5, <2>1, <2>2, <2>3, <3>1, <3>2 DEF Owed
  <2>5. CASE InWaker(t)
    <3>1. txPc' = txPc
      BY <2>5 DEF InWaker, txVars
    <3> QED BY <1>2, <1>5, <2>2, <2>3, <3>1 DEF Owed
  <2> QED BY <1>1, <2>4, <2>5
<1>6. (rxOp = "poll" /\ rxPc \in {"count?", "dropped?"} => Owed)'
  BY <1>2, <1>5
<1>7. (rxPc = "idle" /\ awaiting => Owed)'
  BY <1>2, <1>5 DEF RxPhase
<1> QED BY <1>3, <1>4, <1>6, <1>7

\* The steps that leave the AtomicWaker alone.
LEMMA OutsideStep ==
  ASSUME OInv, WInv, SameCodec, UNCHANGED <<wakerVars, cx>>,
         \/ \E op \in {"send", "send_unchecked", "is_closed", "drop"}, v \in Values \union {"none"} :
              StartSend(op, v)
         \/ IsClosed \/ Write \/ Store \/ MarkSenderDropped \/ Finish
         \/ TryTake \/ Read \/ SenderDropped \/ Park \/ ParkSpuriously \/ Close \/ DropReceiver
         \/ \E t \in {Tx, Rx} : Unpark(t)
         \/ UNCHANGED vars
  PROVE  Watched'
<1> USE DEF OInv, WInv, Watched, Looked, SameCodec
<1>0. /\ Covered' <=> Covered
      /\ WP!slot' = WP!slot /\ WP!inflight' = WP!inflight /\ woken' = woken
      /\ wakerPc' = wakerPc /\ held' = held /\ cx' = cx
  BY WakerUnchanged
<1>1. CASE \/ \E op \in {"send", "send_unchecked", "is_closed", "drop"}, v \in Values \union {"none"} :
              StartSend(op, v)
           \/ IsClosed \/ Write \/ Finish \/ UNCHANGED vars
           \/ \E t \in {Tx, Rx} : Unpark(t)
  <2>1. UNCHANGED <<state, rxPc, rxOp, awaiting>> /\ (txPc' = txPc \/ txPc # "wake")
    BY <1>1 DEF StartSend, IsClosed, Write, Finish, Unpark, vars, txVars, rxVars
  <2>2. Owed => Owed'
    BY <1>0, <2>1 DEF Owed
  <2> QED BY <1>0, <2>1, <2>2
<1>2. CASE Store \/ MarkSenderDropped
  <2>1. /\ UNCHANGED <<rxPc, rxOp, awaiting>> /\ txPc' = "wake"
        /\ state' \in Codes \union {SenderClosed}
    BY <1>2, Codec DEF Store, MarkSenderDropped, rxVars, TxPhase
  <2>2. state' \notin {Pending, ReceiverClosed}
    BY <2>1, Codec
  <2>3. Owed => Owed'
    BY <1>0, <2>1, <2>2 DEF Owed
  <2> QED BY <1>0, <2>1, <2>2, <2>3
<1>3. CASE TryTake
  <2>1. /\ rxPc = "take" \/ (rxPc = "retake" /\ OutOfWaker(Rx))
        /\ TakesValue \/ TakesClosed \/ TakesNothing
        /\ UNCHANGED <<txVars, rxOp>>
    BY <1>3, TakeCases
  <2>2. CASE TakesValue \/ TakesClosed
    <3>1. rxPc' \in {"read", "drop"} \/ (rxPc' = "idle" /\ awaiting' = FALSE)
      BY <2>2 DEF TakesValue, TakesClosed, Return
    <3> QED BY <3>1
  <2>3. CASE TakesNothing
    <3>1. state' = Pending /\ state = Pending
      BY <2>3 DEF TakesNothing
    <3>2. \/ rxPc' \in {"idle", "drop"} /\ awaiting' = FALSE
          \/ rxPc = "take" /\ rxPc' = "register"
          \/ rxPc = "retake" /\ wakerPc[Rx] = "idle" /\ rxPc' = "count?"
      BY <2>1, <2>3 DEF TakesNothing, Return, OutOfWaker
    <3>3. rxPc = "retake" /\ rxOp = "poll" /\ wakerPc[Rx] = "idle" => Owed'
      BY <1>0, <3>1 DEF Covered, Owed
    <3> QED BY <2>1, <3>1, <3>2, <3>3, Codec
  <2> QED BY <2>1, <2>2, <2>3
<1>4. CASE SenderDropped
  <2>1. /\ UNCHANGED <<state, txPc, rxOp>>
        /\ rxPc \in {"count?", "dropped?"}
        /\ rxPc' \in {"dropped?", "idle", "notified?", "drop"}
        /\ rxPc' = "idle" => rxOp = "poll"
    BY <1>4 DEF SenderDropped, Return, txVars, others, RxPhase
  <2>2. Owed => Owed'
    BY <1>0, <2>1 DEF Owed
  <2> QED BY <2>1, <2>2
<1>5. CASE Read \/ Close \/ DropReceiver
  <2>1. /\ rxPc' \in {"idle", "drop", "gone"} /\ awaiting' = FALSE
    BY <1>5 DEF Read, Close, DropReceiver, Return, RxPhase
  <2> QED BY <2>1
<1>6. CASE Park \/ ParkSpuriously
  <2>1. /\ rxPc = "park" /\ rxPc' = "retake" /\ rxOp = "blocking_recv" /\ rxOp' = rxOp /\ state' = state
    BY <1>6 DEF Park, ParkSpuriously, RxPhase
  <2> QED BY <2>1
<1> QED BY <1>1, <1>2, <1>3, <1>4, <1>5, <1>6

LEMMA WatchedStep ==
  ASSUME WP!IInv, OInv, WInv, [Next]_vars
  PROVE  Watched'
<1>0. SameCodec
  BY CodecFrame
<1> USE DEF OInv, WInv, Watched, Looked, SameCodec
<1>1. CASE Wake \/ \E t \in {Tx, Rx} : InWaker(t)
  BY <1>0, <1>1, InsideStep
<1>2. CASE RegisterWaker
  <2>1. /\ cx \in Wakers /\ cx' = cx /\ WP!Register(Rx, cx)
        /\ rxPc = "register" /\ rxPc' = "retake" /\ state' = state
    BY <1>2, SameRegister DEF RegisterWaker, RxPhase
  <2>2. Covered'
    BY <2>1, RegisterCovers
  <2> QED BY <1>0, <2>1, <2>2
<1>3. CASE SwapNotified
  <2>1. rxPc = "notified?" /\ rxOp' = "blocking_recv" /\ state' = state /\ rxPc' \in {"retake", "park"}
    BY <1>3 DEF SwapNotified, RxPhase
  <2> QED BY <1>0, <2>1
<1>4. CASE \/ \E op \in {"try_recv", "blocking_recv"} : StartRecv(op)
           \/ \E w \in Tasks : Poll(w)
  <2>1. rxPc' = "take"
    BY <1>4 DEF StartRecv, Poll
  <2> QED BY <2>1
<1>5. CASE Finish \/ DropReceiver
  <2>1. CASE UNCHANGED wakerVars
    <3>1. cx' = cx
      BY <1>5 DEF Finish, DropReceiver, rxVars
    <3> QED BY <1>0, <1>5, <2>1, <3>1, OutsideStep
  <2>2. CASE ~UNCHANGED wakerVars
    <3>1. rxPc' = "gone"
      BY <1>5, <2>2 DEF Finish, DropReceiver, Release, Counted, Handles, rxVars
    <3> QED BY <3>1
  <2> QED BY <2>1, <2>2
<1>6. CASE \/ \E op \in {"send", "send_unchecked"}, v \in Values : StartSend(op, v)
           \/ \E op \in {"is_closed", "drop"} : StartSend(op, "none")
           \/ IsClosed \/ Write \/ Store \/ MarkSenderDropped
           \/ TryTake \/ Read \/ SenderDropped \/ Park \/ ParkSpuriously \/ Close
           \/ \E t \in {Tx, Rx} : Unpark(t)
           \/ UNCHANGED vars
  <2>1. UNCHANGED <<wakerVars, cx>>
    BY <1>6 DEF StartSend, IsClosed, Write, Store, MarkSenderDropped, TryTake, Read,
                SenderDropped, Park, ParkSpuriously, Close, Unpark, vars, others, rxVars
  <2> QED BY <1>0, <1>6, <2>1, OutsideStep
<1> QED BY <1>1, <1>2, <1>3, <1>4, <1>5, <1>6 DEF Next, TxStep, RxStep

\* What the wakeups rest on holds in every reachable state, if a receiver over
\* the generic storage is not used again once it has its answer.
THEOREM WakersInvariance ==
  ASSUME "generic" \notin Reused
  PROVE  Spec => []WInv
<1>1. Init => WInv
  BY InitOInv, Codec
     DEF Init, OInv, WInv, SoleRegistrar, Settled, Watched, Looked, WP!Init, WP!RegisterPCs
<1>2. WP!IInv /\ OInv /\ WInv /\ [Next]_vars => WInv'
  BY SoleRegistrarStep, SettledStep, WatchedStep DEF WInv
<1> QED BY Invariance, <1>1, <1>2, PTL DEF Spec

\* No wakeup is lost: a task left pending is covered by a waker in the slot until
\* the sender acts, and from then on by a wake that is on its way or that the
\* sender is about to start; for any set of tasks.
THEOREM WakeupsAreKept ==
  ASSUME "generic" \notin Reused
  PROVE  Spec => []NoLostWakeup
<1>1. OInv /\ WInv => NoLostWakeup
  <2> SUFFICES ASSUME OInv, WInv, awaiting, rxPc = "idle" PROVE NoLostWakeup
    BY DEF NoLostWakeup
  <2>1. Owed
    BY DEF WInv, Watched
  <2>2. state = Pending => fate # "sent"
    BY DEF OInv, WInv, Settled, TxPhase, RxPhase
  <2> QED BY <2>1, <2>2, SameSlot DEF Owed, NoLostWakeup
<1> QED BY Invariance, WakersInvariance, <1>1, PTL

\* try_recv() does not answer Empty once the sender has marked itself dropped:
\* the state still says so, however often it was asked.
THEOREM EmptyIsPending ==
  ASSUME "generic" \notin Reused
  PROVE  Spec => EmptyMeansPending
<1>1. OInv /\ WInv /\ [Next]_vars =>
        [rxPc = "take" /\ result' = "empty" /\ fate \in {"dropped", "refused"}
           => txPc = "mark"]_vars
  <2> SUFFICES ASSUME OInv, WInv, [Next]_vars, rxPc = "take", result' = "empty",
                      fate \in {"dropped", "refused"}
               PROVE  txPc = "mark"
    OBVIOUS
  <2>1. result = "none"
    BY DEF OInv, RxPhase
  <2>2. TryTake
    BY <2>1 DEF Next, TxStep, RxStep, vars, rxVars, others, reply, StartSend, IsClosed, Write,
           Store, MarkSenderDropped, Wake, Finish, InWaker, Unpark, StartRecv, Poll, Read, Free,
           RegisterWaker, SenderDropped, SwapNotified, Park, ParkSpuriously, Close, DropReceiver
  <2>3. state = Pending
    BY <2>1, <2>2, TakeCases DEF TakesValue, TakesClosed, TakesNothing, Return, reply
  <2> QED BY <2>3 DEF OInv, TxPhase, WInv, Settled
<1> QED BY Invariance, WakersInvariance, <1>1, PTL DEF Spec, EmptyMeansPending
=============================================================================
