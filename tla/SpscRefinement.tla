---------------------------- MODULE SpscRefinement ----------------------------
(***************************************************************************)
(* Spsc implements Channel: for rings of any capacity, slices of any       *)
(* length and any number of values.  The invariant is that of SpscProofs.  *)
(***************************************************************************)
EXTENDS SpscProofs

Step == [Queue!Next]_(Queue!vars)

-----------------------------------------------------------------------------
(* What each end shows *)

txView == <<Sending, Remaining, Admitted, SendAnswer>>
rxView == <<Receiving, Room, FoundEmpty, RecvAnswer>>

\* One end's steps leave what the other one shows as it is.
LEMMA TxFrame ==
  ASSUME UNCHANGED <<txPc, txOp, values, sent, txResult>>
  PROVE  UNCHANGED txView
BY DEF txView, Sending, Remaining, Admitted, SendAnswer, SendDecided

LEMMA RxFrame ==
  ASSUME UNCHANGED <<rxPc, rxOp, want, got, rxResult>>
  PROVE  UNCHANGED rxView
BY DEF rxView, Receiving, Room, FoundEmpty, RecvAnswer, RecvDecided, Single

\* A handle shows that it is gone once it has set the flag.
LEMMA Gone ==
  ASSUME TypeOK
  PROVE  /\ Sending = "gone" <=> txPc \in {"drop", "gone"}
         /\ Receiving = "gone" <=> rxPc \in {"drop", "gone"}
BY DEF TypeOK, TxOps, RxOps, Sending, Receiving

\* The sender looks at the flag, notifies, waits or is dropped.
LEMMA TxQuietView ==
  ASSUME SInv, TxQuiet
  PROVE  Step
<1> USE DEF SInv, TxGoto, TxReturn
<1>1. UNCHANGED <<buffer, capacity, taken>> /\ UNCHANGED <<values, sent, txOp>>
      /\ UNCHANGED rxView
  BY TxQuietFrame, RxFrame DEF data, rxVars, TxQuiet, txVars,
       CheckClosed, LoadClosed, NotifyReceiver, AwaitRoom, RoomNotified, Reload, CancelSend,
       DropSender, DropSenderNotify
<1>2. Remaining' = Remaining
  BY <1>1 DEF Remaining
<1>3. UNCHANGED <<Queue!queueVars, Queue!recvVars>>
  BY <1>1 DEF Queue!queueVars, Queue!recvVars, rxView
<1>4. closed /\ txPc \notin {"drop", "gone"} => Receiving = "gone"
  BY Gone DEF ClosedByDrop
<1>5. CASE CheckClosed \/ LoadClosed \/ Reload
  <2>1. CASE closed /\ txPc' = "idle"
    <3>1. Queue!Refuse
      BY <1>2, <1>3, <1>4, <1>5, <2>1 DEF Queue!Refuse, Queue!Sent, Queue!Sends, TxPhase, TxIdle, TxOps,
            CheckClosed, LoadClosed, Reload, Sending, Admitted, SendAnswer, SendDecided
    <3> QED BY <3>1 DEF Step, Queue!Next
  <2>2. CASE LoadClosed /\ ~closed
    <3>1. Receiving # "gone"
      BY <2>2, Gone DEF ClosedByDrop
    <3>2. Queue!Admit
      BY <1>1, <1>2, <1>3, <2>2, <3>1 DEF Queue!Admit, Queue!Sends, TxPhase, TxIdle, TxOps,
            LoadClosed, Sending, Admitted, SendAnswer, SendDecided
    <3> QED BY <3>2 DEF Step, Queue!Next
  <2>3. CASE ~(closed /\ txPc' = "idle") /\ ~(LoadClosed /\ ~closed)
    <3>1. UNCHANGED txView
      BY <1>1, <1>2, <1>5, <2>3 DEF txView, TxPhase, TxIdle, CheckClosed, LoadClosed, Reload,
             Sending, Admitted, SendAnswer, SendDecided
    <3> QED BY <1>3, <3>1 DEF Step, Queue!vars, Queue!sendVars, txView
  <2> QED BY <1>5, <2>1, <2>2, <2>3 DEF CheckClosed, LoadClosed, Reload
<1>6. CASE NotifyReceiver \/ AwaitRoom \/ RoomNotified \/ DropSenderNotify
  <2>1. UNCHANGED txView
    BY <1>1, <1>2, <1>6 DEF txView, TxPhase, TxIdle, TxOps, NotifyReceiver, AwaitRoom,
           RoomNotified, DropSenderNotify, txVars, Sending, Admitted, SendAnswer, SendDecided
  <2> QED BY <1>3, <2>1 DEF Step, Queue!vars, Queue!sendVars, txView
<1>7. CASE CancelSend
  <2>1. Queue!CancelSend
    BY <1>1, <1>2, <1>3, <1>7 DEF Queue!CancelSend, Queue!Sent, CancelSend, TxPhase, TxIdle, TxOps,
           Sending, Admitted, SendAnswer, SendDecided
  <2> QED BY <2>1 DEF Step, Queue!Next
<1>8. CASE DropSender
  <2>1. Queue!DropSender
    BY <1>1, <1>2, <1>3, <1>8 DEF Queue!DropSender, DropSender,
           Sending, Admitted, SendAnswer, SendDecided
  <2> QED BY <2>1 DEF Step, Queue!Next
<1> QED BY <1>5, <1>6, <1>7, <1>8 DEF TxQuiet

\* A call of the sender begins.
LEMMA StartSendView ==
  ASSUME SInv, NEW op \in TxOps, NEW k \in Nat, StartSend(op, k)
  PROVE  Step
<1> USE DEF SInv
<1>1. UNCHANGED <<buffer, capacity, taken>> /\ UNCHANGED rxView
  BY RxFrame DEF StartSend, rxVars
<1>2. UNCHANGED <<Queue!queueVars, Queue!recvVars>>
  BY <1>1 DEF Queue!queueVars, Queue!recvVars, rxView
<1>3. Remaining' \in Seq(Nat) /\ Len(Remaining') = k /\ (k = 0 => Remaining' = <<>>)
  <2>1. /\ values' = [i \in 1 .. k |-> offered + i] /\ sent' = 0 /\ offered \in Nat
    BY DEF StartSend, TypeOK
  <2>2. values' \in Seq(Nat) /\ Len(values') = k
    BY <2>1
  <2>3. Remaining' = values'
    BY <2>1, <2>2, SubSeqFull DEF Remaining
  <2>4. k = 0 => values' = <<>>
    BY <2>2, EmptySeq
  <2> QED BY <2>2, <2>3, <2>4
<1>4. /\ txPc = "idle" /\ txOp' = op
      /\ op \in {"try_send", "send"} => k = 1
      /\ \/ txPc' \in {"check", "load"} /\ txResult' = "none"
         \/ op = "send_slice" /\ k = 0 /\ txPc' = "idle" /\ txResult' = "ok"
  BY DEF StartSend, TxReturn
<1>5. Queue!Send(op)
  BY <1>2, <1>3, <1>4 DEF Queue!Send, Queue!Sent, Sending, Admitted, SendAnswer, SendDecided,
       TxOps
<1>6. op \in Queue!Sends
  BY DEF TxOps, Queue!Sends
<1> QED BY <1>5, <1>6 DEF Step, Queue!Next

\* The values left of those that were left.
LEMMA RestOfRest ==
  ASSUME NEW S, NEW s \in Seq(S), NEW a \in 0 .. Len(s), NEW b \in 0 .. Len(s) - a
  PROVE  SubSeq(SubSeq(s, a + 1, Len(s)), b + 1, Len(s) - a) = SubSeq(s, a + b + 1, Len(s))
<1>1. CASE b < Len(s) - a
  <2>1. /\ a + 1 \in 1 .. Len(s) /\ Len(s) \in 1 .. Len(s)
        /\ b + 1 \in 1 .. Len(s) - (a + 1) + 1 /\ Len(s) - a \in 1 .. Len(s) - (a + 1) + 1
    BY <1>1
  <2>2. SubSeq(SubSeq(s, a + 1, Len(s)), b + 1, Len(s) - a)
          = SubSeq(s, (a + 1) + (b + 1) - 1, (a + 1) + (Len(s) - a) - 1)
    BY <2>1, SubSeqOfSubSeq
  <2>3. (a + 1) + (b + 1) - 1 = a + b + 1 /\ (a + 1) + (Len(s) - a) - 1 = Len(s)
    OBVIOUS
  <2> QED BY <2>2, <2>3
<1>2. CASE b = Len(s) - a
  <2>1. /\ b + 1 \in Int /\ Len(s) - a \in Int /\ Len(s) - a < b + 1
        /\ a + b + 1 \in Int /\ Len(s) \in Int /\ Len(s) < a + b + 1
    BY <1>2
  <2> QED BY <2>1, SubSeqEmpty
<1> QED BY <1>1, <1>2

\* A push moves what Channel moves, and answers in the same step.
LEMMA PushView ==
  ASSUME SInv, Push
  PROVE  Step
<1> USE DEF SInv
<1>1. UNCHANGED <<capacity, taken, values, txOp>> /\ UNCHANGED rxView
  BY RxFrame DEF Push, rxVars
<1> DEFINE m == Least(FreeSlots, Len(Remaining))
<1>2. /\ Remaining \in Seq(Message) /\ Len(Remaining) = Len(values) - sent
      /\ Len(values) \in Nat /\ sent \in 0 .. Len(values) /\ values \in Seq(Message)
  <2>1. values \in Seq(Message) /\ Len(values) \in Nat /\ sent \in 0 .. Len(values)
    BY DEF TypeOK
  <2> QED BY <2>1, Split DEF Remaining
<1>3. /\ m \in Nat /\ m <= FreeSlots /\ m <= Len(Remaining)
      /\ m = FreeSlots \/ m = Len(Remaining)
      /\ m = Queue!Fewer(capacity - Len(buffer), Len(Remaining))
  <2>1. FreeSlots \in Nat /\ Len(Remaining) \in Nat
    <3>1. FreeSlots \in Nat
      BY CapacityAssumption DEF TypeOK, FreeSlots
    <3> QED BY <1>2, <3>1
  <2> QED BY <2>1, LeastOf DEF Least, FreeSlots, Queue!Fewer
<1>4. buffer' = buffer \o SubSeq(Remaining, 1, m) /\ sent' = sent + m
  BY DEF Push
<1>5. txPc = "push" /\ rxPc' = rxPc
  BY DEF Push, rxVars
<1>6. /\ m > 0 => txPc' = "notify" /\ txResult' = txResult
      /\ m = 0 /\ txOp = "try_send" => txPc' = "idle" /\ txResult' = "full"
      /\ m = 0 /\ txOp = "try_send_slice" => txPc' = "idle" /\ txResult' = "ok"
      /\ m = 0 /\ txOp \notin {"try_send", "try_send_slice"} =>
           txPc' = "wait" /\ txResult' = txResult
  BY <1>3 DEF Push, TxGoto, TxReturn
<1> HIDE DEF m
<1>7. Remaining' = SubSeq(Remaining, m + 1, Len(Remaining))
  <2>1. Remaining' = SubSeq(values, sent + m + 1, Len(values))
    BY <1>1, <1>4 DEF Remaining
  <2>2. m \in 0 .. Len(values) - sent
    BY <1>2, <1>3
  <2>3. SubSeq(SubSeq(values, sent + 1, Len(values)), m + 1, Len(values) - sent)
          = SubSeq(values, sent + m + 1, Len(values))
    BY <1>2, <2>2, RestOfRest
  <2> QED BY <1>2, <2>1, <2>3 DEF Remaining
<1>8. (Remaining' = <<>>) <=> ~(sent' < Len(values))
  <2>1. Remaining' \in Seq(Message) /\ Len(Remaining') = Len(values) - sent'
    <3>1. Len(Remaining') = Len(Remaining) - m /\ Remaining' \in Seq(Message)
      BY <1>2, <1>3, <1>7, Split
    <3> QED BY <1>2, <1>3, <1>4, <3>1
  <2>2. sent' \in 0 .. Len(values)
    BY <1>2, <1>3, <1>4
  <2>3. (Remaining' = <<>>) <=> Len(Remaining') = 0
    BY <2>1, EmptySeq
  <2> QED BY <1>2, <2>1, <2>2, <2>3
<1>9. /\ txOp \in TxOps /\ txResult = "none"
      /\ txOp \in {"try_send", "send"} => sent = 0 /\ Len(values) = 1
      /\ txOp = "send_slice" => sent < Len(values)
  BY <1>5 DEF TxPhase, TxIdle
<1>10. \/ Remaining' = <<>> /\ Queue!Sent("ok")
       \/ Remaining' # <<>> /\ Sending = "try_send" /\ Queue!Sent("full")
       \/ Remaining' # <<>> /\ Sending = "try_send_slice" /\ Queue!Sent("ok")
       \/ /\ Remaining' # <<>> /\ Sending \in {"send", "send_slice"}
          /\ ~Admitted' /\ UNCHANGED <<Sending, SendAnswer>>
  <2>1. m = 0 => sent' = sent
    BY <1>2, <1>4
  <2>2. m > 0 /\ Len(values) = 1 => ~(sent' < Len(values))
    BY <1>2, <1>3, <1>4
  <2>3. Sending = txOp
    BY <1>5, <1>9 DEF Sending, SendDecided
  <2>4. CASE m > 0
    BY <1>1, <1>5, <1>6, <1>8, <1>9, <2>2, <2>3, <2>4
       DEF Queue!Sent, Sending, Admitted, SendAnswer, SendDecided, TxOps
  <2>5. CASE m = 0
    <3>1. CASE txOp = "try_send_slice"
      BY <1>6, <2>3, <2>5, <3>1 DEF Queue!Sent, Sending, Admitted, SendAnswer, SendDecided
    <3>2. CASE txOp # "try_send_slice"
      <4>1. sent < Len(values)
        BY <1>9, <3>2 DEF TxOps
      <4>2. Remaining' # <<>>
        BY <1>8, <2>1, <2>5, <4>1
      <4> QED BY <1>1, <1>5, <1>6, <1>9, <2>3, <2>5, <3>2, <4>2
           DEF Queue!Sent, Sending, Admitted, SendAnswer, SendDecided, TxOps
    <3> QED BY <3>1, <3>2
  <2> QED BY <1>3, <2>4, <2>5
<1>11. Queue!Put
  BY <1>1, <1>3, <1>4, <1>5, <1>7, <1>10 DEF Queue!Put, Queue!recvVars, rxView, Admitted
<1> QED BY <1>11 DEF Step, Queue!Next

-----------------------------------------------------------------------------
(* The receiver *)

\* recv() and recv_slice() take their attempt for the last only when they have
\* seen the flag, and the flag stays set.
LastAttempt == rxOp \in {"recv_last", "recv_slice_last"} => closed

LEMMA LastAttemptInv == Spec => []LastAttempt
<1>1. Init => LastAttempt
  BY DEF Init, LastAttempt
<1>2. LastAttempt /\ [Next]_vars => LastAttempt'
  <2> SUFFICES ASSUME LastAttempt, [Next]_vars PROVE LastAttempt'
    OBVIOUS
  <2> USE DEF LastAttempt
  <2>1. ASSUME NEW op \in TxOps, NEW k \in Nat, StartSend(op, k) PROVE LastAttempt'
    BY <2>1 DEF StartSend, rxVars
  <2>2. CASE Push
    BY <2>2 DEF Push, rxVars
  <2>3. CASE TxQuiet
    BY <2>3 DEF TxQuiet, CheckClosed, LoadClosed, NotifyReceiver, AwaitRoom, RoomNotified,
           Reload, CancelSend, DropSender, DropSenderNotify, rxVars
  <2>4. CASE Taking
    BY <2>4 DEF Taking, Pop, PopSlice, Clear
  <2>5. CASE RxQuiet
    BY <2>5 DEF RxQuiet, RxOps, StartRecv, LoadClosedEmpty, Recheck, NotifySender,
           LoadClosedSlice, AwaitData, DataNotified, ReloadSlice, CancelRecv, DropReceiver,
           DropReceiverNotify, rxVars
  <2>6. CASE UNCHANGED vars
    BY <2>6 DEF vars, rxVars
  <2> QED BY <2>1, <2>2, <2>3, <2>4, <2>5, <2>6, Steps
<1> QED BY <1>1, <1>2, PTL DEF Spec

\* try_recv() and the attempts of recv(): a value, or the queue found empty.
LEMMA PopView ==
  ASSUME SInv, Pop
  PROVE  Step
<1> USE DEF SInv, RxGoto, RxReturn
<1> DEFINE m == Least(1, Len(buffer))
<1>1. /\ UNCHANGED <<capacity, rxOp, want>> /\ UNCHANGED txView
      /\ UNCHANGED <<txPc, txOp, closed>>
  BY TxFrame DEF Pop, txVars
<1>2. /\ taken' = taken \o SubSeq(buffer, 1, m)
      /\ buffer' = SubSeq(buffer, m + 1, Len(buffer)) /\ got' = got + m
  BY DEF Pop, TakeOut
<1>3. /\ buffer \in Seq(Message) /\ taken \in Seq(Message) /\ Len(buffer) \in Nat
      /\ buffer = <<>> <=> Len(buffer) = 0
  BY EmptySeq DEF TypeOK
<1>4. /\ buffer = <<>> => m = 0
      /\ buffer # <<>> => m = 1
  <2>1. \A n \in Nat : (n = 0 => Least(1, n) = 0) /\ (n # 0 => Least(1, n) = 1)
    BY DEF Least
  <2> QED BY <1>3, <2>1
<1> HIDE DEF m
<1>5. /\ rxOp \in {"try_recv", "recv", "recv_last"} /\ got = 0 /\ rxResult = "none"
      /\ rxPc \in {"pop", "repop"} /\ (rxPc = "repop" => closed)
  BY DEF Pop, RxPhase
<1>6. /\ buffer # <<>> => rxPc' = "notify" /\ rxResult' = rxResult
      /\ buffer = <<>> /\ rxPc = "pop" => rxPc' = "load" /\ rxResult' = rxResult
      /\ buffer = <<>> /\ rxPc = "repop" => rxPc' = "idle" /\ rxResult' = "closed"
  BY <1>5 DEF Pop
<1>7. /\ Receiving \in {"try_recv", "recv"} /\ (Receiving = "try_recv" <=> rxOp = "try_recv")
      /\ Room = 1 /\ Room' = 1 - got'
  BY <1>1, <1>5 DEF Receiving, RecvDecided, Room, Single
<1>8. CASE buffer # <<>>
  <2>1. Queue!Take(1)
    BY <1>1, <1>2, <1>4, <1>8 DEF Queue!Take, Queue!sendVars, txView
  <2>2. Room' = 0
    BY <1>2, <1>4, <1>5, <1>7, <1>8
  <2>3. Queue!Received("some")
    BY <1>1, <1>5, <1>6, <1>8
       DEF Queue!Received, Receiving, RecvAnswer, FoundEmpty, RecvDecided, Single
  <2>4. Queue!TakeOne
    BY <1>7, <1>8, <2>1, <2>2, <2>3 DEF Queue!TakeOne
  <2> QED BY <2>4 DEF Step, Queue!Next
<1>9. CASE buffer = <<>>
  <2>1. UNCHANGED <<buffer, taken>> /\ got' = got
    <3>1. taken' = taken /\ buffer' = buffer
      <4>1. SubSeq(buffer, 1, 0) = <<>> /\ SubSeq(buffer, 1, Len(buffer)) = buffer
        BY <1>3, SubSeqEmpty, SubSeqFull
      <4>2. taken \o <<>> = taken
        BY <1>3, ConcatEmptySeq
      <4>3. m = 0 /\ m + 1 = 1
        BY <1>4, <1>9
      <4> QED BY <1>2, <4>1, <4>2, <4>3
    <3> QED BY <1>2, <1>4, <1>5, <1>9, <3>1
  <2>2. UNCHANGED <<Queue!queueVars, Queue!sendVars, Room>>
    BY <1>1, <2>1 DEF Queue!queueVars, Queue!sendVars, txView, Room, Single
  <2>3. CASE rxPc = "repop"
    <3>1. Sending = "gone"
      BY <1>5, <2>3, Gone DEF ClosedByDrop
    <3>2. Queue!Received("closed")
      BY <1>6, <1>9, <2>3 DEF Queue!Received, Receiving, RecvAnswer, FoundEmpty, RecvDecided
    <3>3. Queue!AnswerClosed
      BY <1>7, <1>9, <2>2, <3>1, <3>2 DEF Queue!AnswerClosed
    <3> QED BY <3>3 DEF Step, Queue!Next
  <2>4. CASE rxPc = "pop"
    <3>1. rxPc' = "load" /\ rxResult' = rxResult
      BY <1>6, <1>9, <2>4
    <3>2. UNCHANGED <<Receiving, RecvAnswer>>
      BY <1>1, <2>4, <3>1 DEF Receiving, RecvAnswer, RecvDecided
    <3>3. CASE rxOp = "try_recv"
      <4>1. Queue!FindEmpty
        BY <1>1, <1>7, <1>9, <2>2, <3>1, <3>2, <3>3 DEF Queue!FindEmpty, FoundEmpty
      <4> QED BY <4>1 DEF Step, Queue!Next
    <3>4. CASE rxOp # "try_recv"
      <4>1. UNCHANGED FoundEmpty
        BY <1>1, <3>4 DEF FoundEmpty
      <4> QED BY <2>2, <3>2, <4>1 DEF Step, Queue!vars, Queue!recvVars
    <3> QED BY <3>3, <3>4
  <2> QED BY <1>5, <2>3, <2>4
<1> QED BY <1>8, <1>9

\* The attempts of the slice operations: as many values as there are and are
\* wanted, and an answer if that ends the call.
LEMMA PopSliceView ==
  ASSUME SInv, LastAttempt, PopSlice
  PROVE  Step
<1> USE DEF SInv, RxGoto, RxReturn
<1> DEFINE m == Least(Len(buffer), Wanted)
<1>1. /\ UNCHANGED <<capacity, rxOp, want, closed, txPc>> /\ UNCHANGED txView
  BY TxFrame DEF PopSlice, txVars
<1>2. /\ taken' = taken \o SubSeq(buffer, 1, m)
      /\ buffer' = SubSeq(buffer, m + 1, Len(buffer)) /\ got' = got + m
      /\ rxPc = "pop_slice"
  BY DEF PopSlice, TakeOut
<1>3. /\ rxOp \in {"try_recv_slice", "recv_slice", "recv_slice_last"}
      /\ rxResult = "none" /\ want \in Nat /\ got \in 0 .. want
  BY <1>2 DEF RxPhase, TypeOK
<1>4. Room = want - got /\ Room' = want - got' /\ Wanted = Room /\ Room \in Nat
  BY <1>1, <1>3 DEF Room, Single, Wanted
<1>5. /\ m = Queue!Fewer(Len(buffer), Room)
      /\ m \in Nat /\ m <= Room
  <2>1. Len(buffer) \in Nat
    BY DEF TypeOK
  <2> QED BY <1>4, <2>1, LeastOf DEF Least, Queue!Fewer
<1>6. /\ m > 0 => rxPc' = "notify" /\ rxResult' = rxResult
      /\ m = 0 /\ rxOp = "recv_slice" /\ got < want =>
           rxPc' = "load_slice" /\ rxResult' = rxResult
      /\ m = 0 /\ ~(rxOp = "recv_slice" /\ got < want) =>
           rxPc' = "idle" /\ rxResult' = "count"
  BY DEF PopSlice, AfterSlice
<1> HIDE DEF m
<1>7. Queue!Take(m) /\ Room' = Room - m
  BY <1>1, <1>2, <1>3, <1>4, <1>5 DEF Queue!Take, Queue!sendVars, txView
<1>8. /\ Receiving \in {"try_recv_slice", "recv_slice"}
      /\ Receiving = "try_recv_slice" <=> rxOp = "try_recv_slice"
  BY <1>2, <1>3 DEF Receiving, RecvDecided
<1>9. CASE rxOp = "recv_slice" /\ got' < want
  <2>1. UNCHANGED <<Receiving, FoundEmpty, RecvAnswer>>
    <3>1. m = 0 => got < want
      BY <1>2, <1>3, <1>9
    <3>2. rxPc' \in {"notify", "load_slice"} /\ rxResult' = rxResult
      BY <1>5, <1>6, <1>9, <3>1
    <3> QED BY <1>1, <1>2, <1>9, <3>2 DEF Receiving, FoundEmpty, RecvAnswer, RecvDecided
  <2>2. Queue!TakeSlice
    BY <1>5, <1>7, <1>8, <1>9, <2>1 DEF Queue!TakeSlice
  <2> QED BY <2>2 DEF Step, Queue!Next
<1>10. CASE ~(rxOp = "recv_slice" /\ got' < want)
  <2>1. Queue!Received("count")
    <3>1. m = 0 => got' = got
      BY <1>2, <1>3
    <3>2. \/ rxPc' = "notify"
          \/ rxPc' = "idle" /\ rxResult' = "count"
      BY <1>5, <1>6, <1>10, <3>1
    <3> QED BY <1>1, <1>3, <1>10, <3>2
         DEF Queue!Received, Receiving, FoundEmpty, RecvAnswer, RecvDecided, Single
  <2>2. Receiving = "try_recv_slice" \/ Room' = 0 \/ Sending = "gone"
    <3>1. CASE rxOp = "try_recv_slice"
      BY <1>8, <3>1
    <3>2. CASE rxOp = "recv_slice"
      BY <1>2, <1>3, <1>4, <1>5, <1>10, <3>2
    <3>3. CASE rxOp = "recv_slice_last"
      BY <1>2, <3>3, Gone DEF LastAttempt, ClosedByDrop
    <3> QED BY <1>3, <3>1, <3>2, <3>3
  <2>3. Queue!TakeSlice
    BY <1>5, <1>7, <1>8, <2>1, <2>2 DEF Queue!TakeSlice
  <2> QED BY <2>3 DEF Step, Queue!Next
<1> QED BY <1>9, <1>10

\* clear()
LEMMA ClearView ==
  ASSUME SInv, Clear
  PROVE  Step
<1> USE DEF SInv
<1>1. /\ UNCHANGED <<capacity, rxOp, want, got>> /\ UNCHANGED txView
      /\ taken' = taken \o buffer /\ buffer' = <<>>
      /\ rxPc = "clear" /\ rxPc' = "notify"
  BY TxFrame DEF Clear, txVars, RxGoto
<1>2. rxOp = "clear"
  BY <1>1 DEF RxPhase
<1>3. /\ SubSeq(buffer, 1, Len(buffer)) = buffer
      /\ SubSeq(buffer, Len(buffer) + 1, Len(buffer)) = <<>>
  <2>1. buffer \in Seq(Message) /\ Len(buffer) + 1 \in Int /\ Len(buffer) \in Int
        /\ Len(buffer) < Len(buffer) + 1
    BY DEF TypeOK
  <2> QED BY <2>1, SubSeqFull, SubSeqEmpty
<1>4. Queue!Clear
  BY <1>1, <1>2, <1>3 DEF Queue!Clear, Queue!Take, Queue!Received, Queue!sendVars, txView,
       Receiving, Room, FoundEmpty, RecvAnswer, RecvDecided, Single
<1> QED BY <1>4 DEF Step, Queue!Next

\* A call of the receiver begins.
LEMMA StartRecvView ==
  ASSUME SInv, NEW op \in RxOps \ {"recv_last", "recv_slice_last"}, NEW k \in Nat,
         StartRecv(op, k)
  PROVE  Step
<1>1. UNCHANGED <<buffer, capacity, taken>> /\ UNCHANGED txView
  BY TxFrame DEF StartRecv, txVars
<1>2. UNCHANGED <<Queue!queueVars, Queue!sendVars>>
  BY <1>1 DEF Queue!queueVars, Queue!sendVars, txView
<1>3. /\ rxPc = "idle" /\ rxOp' = op /\ want' = k /\ got' = 0
      /\ \/ rxPc' \in {"pop", "clear", "pop_slice"} /\ rxResult' = "none"
         \/ op = "recv_slice" /\ k = 0 /\ rxPc' = "idle" /\ rxResult' = "count"
  BY DEF StartRecv, RxReturn
<1>4. /\ Room' \in Nat
      /\ op \in {"try_recv", "recv"} => Room' = 1
      /\ op = "recv_slice" /\ k = 0 => Room' = 0
  BY <1>3 DEF Room, Single
<1>5. Queue!Receive(op)
  BY <1>2, <1>3, <1>4 DEF Queue!Receive, Queue!Received, Receiving, FoundEmpty, RecvAnswer,
       RecvDecided, RxOps
<1>6. op \in Queue!Receives
  BY DEF RxOps, Queue!Receives
<1> QED BY <1>5, <1>6 DEF Step, Queue!Next

\* The receiver looks at the flag, notifies, waits or is dropped.
LEMMA RxQuietView ==
  ASSUME SInv, LastAttempt, RxQuiet
  PROVE  Step
<1> USE DEF SInv, RxGoto, RxReturn
<1>1. ASSUME NEW op \in RxOps \ {"recv_last", "recv_slice_last"}, NEW k \in Nat,
             StartRecv(op, k)
      PROVE  Step
  BY <1>1, StartRecvView
<1>2. UNCHANGED <<buffer, capacity, taken>> /\ UNCHANGED txView
  BY RxQuietFrame, TxFrame DEF data, txVars
<1>3. UNCHANGED <<Queue!queueVars, Queue!sendVars>>
  BY <1>2 DEF Queue!queueVars, Queue!sendVars, txView
<1>4. rxPc \notin {"drop", "gone"} => (closed <=> Sending = "gone")
  BY Gone DEF ClosedByDrop
<1>5. CASE LoadClosedEmpty
  <2>1. /\ UNCHANGED <<rxOp, want, got>>
        /\ rxPc = "load" /\ rxResult = "none"
        /\ rxOp \in {"try_recv", "recv", "recv_last"}
    BY <1>5 DEF LoadClosedEmpty, RxPhase
  <2>2. Room' = Room
    BY <2>1 DEF Room, Single
  <2>3. CASE ~closed /\ rxOp = "try_recv"
    <3>1. rxPc' = "idle" /\ rxResult' = "empty"
      BY <1>5, <2>3 DEF LoadClosedEmpty
    <3>2. FoundEmpty /\ Sending # "gone"
      BY <1>4, <2>1, <2>3 DEF FoundEmpty
    <3>3. Queue!AnswerEmpty
      BY <1>3, <2>1, <2>2, <3>1, <3>2 DEF Queue!AnswerEmpty, Queue!Received, Receiving,
             FoundEmpty, RecvAnswer, RecvDecided
    <3> QED BY <3>3 DEF Step, Queue!Next
  <2>4. CASE closed \/ rxOp # "try_recv"
    <3>1. /\ rxPc' \in {"repop", "recheck"} /\ rxResult' = rxResult
          /\ rxOp = "try_recv" => rxPc' = "repop"
      BY <1>5, <2>1, <2>4 DEF LoadClosedEmpty, LastAttempt
    <3>2. UNCHANGED <<Receiving, FoundEmpty, RecvAnswer>>
      BY <2>1, <3>1 DEF Receiving, FoundEmpty, RecvAnswer, RecvDecided
    <3> QED BY <1>3, <2>2, <3>2 DEF Step, Queue!vars, Queue!recvVars
  <2> QED BY <2>3, <2>4
<1>6. CASE LoadClosedSlice
  <2>1. UNCHANGED <<rxOp, want, got>> /\ rxPc = "load_slice" /\ rxOp = "recv_slice"
    BY <1>6 DEF LoadClosedSlice, RxPhase
  <2>2. Room' = Room
    BY <2>1 DEF Room, Single
  <2>3. CASE closed
    <3>1. Queue!EndSlice
      BY <1>3, <1>4, <1>6, <2>1, <2>2, <2>3 DEF Queue!EndSlice, Queue!Received, LoadClosedSlice,
             Receiving, FoundEmpty, RecvAnswer, RecvDecided
    <3> QED BY <3>1 DEF Step, Queue!Next
  <2>4. CASE ~closed
    <3>1. UNCHANGED <<Receiving, FoundEmpty, RecvAnswer>>
      BY <1>6, <2>1, <2>4 DEF LoadClosedSlice, Receiving, FoundEmpty, RecvAnswer, RecvDecided
    <3> QED BY <1>3, <2>2, <3>1 DEF Step, Queue!vars, Queue!recvVars
  <2> QED BY <2>3, <2>4
<1>7. CASE Recheck \/ ReloadSlice
  <2>1. /\ UNCHANGED <<want, got, rxResult>>
        /\ rxPc \in {"recheck", "reload"} /\ rxPc' \in {"pop", "wait", "pop_slice"}
        /\ \/ rxOp' = rxOp
           \/ rxOp = "recv" /\ rxOp' = "recv_last"
           \/ rxOp = "recv_slice" /\ rxOp' = "recv_slice_last"
    BY <1>7 DEF Recheck, ReloadSlice, RxPhase
  <2>2. UNCHANGED rxView
    BY <2>1 DEF rxView, Receiving, Room, FoundEmpty, RecvAnswer, RecvDecided, Single
  <2> QED BY <1>3, <2>2 DEF Step, Queue!vars, Queue!recvVars, rxView
<1>8. CASE NotifySender \/ AwaitData \/ DataNotified \/ DropReceiverNotify
  <2>1. UNCHANGED rxView
    BY <1>8 DEF NotifySender, AwaitData, DataNotified, DropReceiverNotify, AfterSlice, RxPhase,
           RxOps, rxVars, rxView, Receiving, Room, FoundEmpty, RecvAnswer, RecvDecided, Single
  <2> QED BY <1>3, <2>1 DEF Step, Queue!vars, Queue!recvVars, rxView
<1>9. CASE CancelRecv
  <2>1. Queue!CancelReceive
    BY <1>3, <1>9 DEF Queue!CancelReceive, Queue!Received, CancelRecv, RxPhase, Receiving, Room,
           FoundEmpty, RecvAnswer, RecvDecided, Single
  <2> QED BY <2>1 DEF Step, Queue!Next
<1>10. CASE DropReceiver
  <2>1. Queue!DropReceiver
    BY <1>3, <1>10 DEF Queue!DropReceiver, DropReceiver, Receiving, Room, FoundEmpty, RecvAnswer,
           RecvDecided, Single
  <2> QED BY <2>1 DEF Step, Queue!Next
<1> QED BY <1>1, <1>5, <1>6, <1>7, <1>8, <1>9, <1>10 DEF RxQuiet

-----------------------------------------------------------------------------

\* The channel implements Channel: whatever the two ends do at the same time, the
\* values move and the calls are answered as if each attempt were one step on a
\* bounded queue whose ends know of each other.
THEOREM Refinement == Spec => ImplementsChannel
<1>1. Init => Queue!Init
  <2> SUFFICES ASSUME Init PROVE Queue!Init
    OBVIOUS
  <2>1. capacity \in Nat \ {0}
    BY CapacityAssumption DEF Init
  <2>2. Remaining = <<>>
    <3>1. values = <<>> /\ sent = 0 /\ Len(values) = 0
      BY EmptySeq DEF Init
    <3> QED BY <3>1, SubSeqEmpty DEF Remaining
  <2> QED BY <2>1, <2>2 DEF Init, Queue!Init, Sending, Admitted, SendAnswer, SendDecided,
           Receiving, Room, FoundEmpty, RecvAnswer, RecvDecided, Single
<1>2. SInv /\ LastAttempt /\ [Next]_vars => Step
  <2> SUFFICES ASSUME SInv, LastAttempt, [Next]_vars PROVE Step
    OBVIOUS
  <2>1. CASE UNCHANGED vars
    <3>1. UNCHANGED txView /\ UNCHANGED rxView /\ UNCHANGED <<buffer, capacity, taken>>
      BY <2>1, TxFrame, RxFrame DEF vars, txVars, rxVars
    <3> QED BY <3>1 DEF Step, Queue!vars, Queue!queueVars, Queue!sendVars, Queue!recvVars,
                txView, rxView
  <2>2. CASE Taking
    BY <2>2, PopView, PopSliceView, ClearView DEF Taking
  <2> QED BY <2>1, <2>2, StartSendView, PushView, TxQuietView, RxQuietView, Steps
<1> QED BY <1>1, <1>2, Invariance, LastAttemptInv, PTL
     DEF Spec, Step, ImplementsChannel, Queue!Spec
=============================================================================
