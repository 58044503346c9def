------------------------------ MODULE SpscProofs ------------------------------
(***************************************************************************)
(* Proofs about Spsc: for rings of any capacity, slices of any length and  *)
(* any number of values.                                                   *)
(***************************************************************************)
EXTENDS Spsc, SequenceTheorems, TLAPS

-----------------------------------------------------------------------------
(***************************************************************************)
(* The inductive invariant.  TypeOK and the properties of Spsc are joined  *)
(* by what each end knows at each step of a call.                          *)
(***************************************************************************)

\* The values of the sender's call are the last that were offered.
ValuesAreLast ==
  /\ Len(values) <= offered
  /\ \A i \in 1 .. Len(values) : values[i] = offered - Len(values) + i

\* The flag is set by a handle that is dropped, and by nothing else.
ClosedByDrop == closed <=> txPc \in {"drop", "gone"} \/ rxPc \in {"drop", "gone"}

TxIdle == {"idle", "drop", "gone"}

\* A call that has not returned has no result, and how much of its argument a
\* send has pushed is known by its kind.
TxPhase ==
  /\ txPc \notin TxIdle => txResult = "none" /\ txOp \in TxOps
  /\ txPc = "check" => txOp = "send_slice"
  /\ txPc \in {"wait", "reload"} => txOp \in {"send", "send_slice"}
  /\ txOp \in {"try_send", "send"} => Len(values) = 1
  /\ txPc \in {"check", "load", "push", "wait", "reload"} =>
       /\ txOp \in {"try_send", "send"} => sent = 0
       /\ txOp = "send_slice" => sent < Len(values)
  /\ txPc = "notify" => sent > 0

\* Likewise a receive.
RxPhase ==
  /\ rxPc \notin {"idle", "drop", "gone"} => rxResult = "none" /\ rxOp \in RxOps
  /\ rxPc \in {"pop", "load", "repop"} =>
       rxOp \in {"try_recv", "recv", "recv_last"} /\ got = 0
  /\ rxPc = "recheck" => rxOp = "recv" /\ got = 0
  /\ rxPc = "wait" => rxOp \in {"recv", "recv_slice"} /\ (rxOp = "recv" => got = 0)
  /\ rxPc \in {"load_slice", "reload"} => rxOp = "recv_slice"
  /\ rxPc = "pop_slice" => rxOp \in {"try_recv_slice", "recv_slice", "recv_slice_last"}
  /\ rxPc = "clear" => rxOp = "clear"
  /\ rxPc = "repop" => closed

\* From its failed attempt to the end of its wait, the receiver is told of
\* whatever is pushed.
RxWatching == \/ rxPc \in {"load", "recheck", "load_slice", "wait"}
              \/ rxPc = "notify" /\ rxOp = "recv_slice" /\ got < want

RxTold == (RxWatching /\ buffer # <<>>) => (recvPermit \/ txPc = "notify")

\* From its failed attempt to the end of its wait, the sender is told of
\* whatever is taken; and once it has seen an open channel, of its end.
TxWatching == \/ txPc = "wait"
              \/ txPc = "notify" /\ txOp = "send_slice" /\ sent < Len(values)

TxTold ==
  /\ (TxWatching /\ ~closed /\ Len(buffer) < capacity) => (sendPermit \/ rxPc = "notify")
  /\ (closed /\ txPc \in {"push", "notify", "wait"}) => (sendPermit \/ rxPc = "drop")
  /\ (closed /\ txPc = "load" /\ txOp = "send_slice") => (sendPermit \/ rxPc = "drop")

SInv == /\ TypeOK
        /\ ValuesAreLast /\ ClosedByDrop
        /\ TxPhase /\ RxPhase
        /\ InOrder /\ SendAccounted
        /\ ClosedMeansDrained
        /\ RxTold /\ TxTold
        /\ ReceiverNotStuck

USE CapacityAssumption, BoundsAssumption

-----------------------------------------------------------------------------
(* Sequences *)

\* What leaves the front of a queue and what stays make up the queue.
LEMMA Split ==
  ASSUME NEW S, NEW s \in Seq(S), NEW m \in 0 .. Len(s)
  PROVE  /\ SubSeq(s, 1, m) \in Seq(S) /\ Len(SubSeq(s, 1, m)) = m
         /\ SubSeq(s, m + 1, Len(s)) \in Seq(S)
         /\ Len(SubSeq(s, m + 1, Len(s))) = Len(s) - m
         /\ SubSeq(s, 1, m) \o SubSeq(s, m + 1, Len(s)) = s
<1>1. Len(s) \in Nat /\ \A i \in 1 .. Len(s) : s[i] \in S
  OBVIOUS
<1>2. SubSeq(s, 1, m) \in Seq(S) /\ Len(SubSeq(s, 1, m)) = m
  BY <1>1
<1>3. /\ SubSeq(s, m + 1, Len(s)) \in Seq(S)
      /\ Len(SubSeq(s, m + 1, Len(s))) = Len(s) - m
  BY <1>1
<1>4. SubSeq(s, 1, m) \o SubSeq(s, m + 1, Len(s)) = SubSeq(s, 1, Len(s))
  <2>1. 1 \in 1 .. Len(s) + 1 /\ m \in 1 - 1 .. Len(s) /\ Len(s) \in m .. Len(s)
    BY <1>1
  <2> QED BY <2>1, ConcatAdjacentSubSeq
<1>5. SubSeq(s, 1, Len(s)) = s
  BY SubSeqFull
<1> QED BY <1>2, <1>3, <1>4, <1>5

\* TakeOut() moves values from the queue to those taken, and so loses, repeats
\* and reorders none.
LEMMA TakenThenQueued ==
  ASSUME NEW S, NEW t \in Seq(S), NEW s \in Seq(S), NEW m \in 0 .. Len(s)
  PROVE  /\ t \o SubSeq(s, 1, m) \in Seq(S)
         /\ (t \o SubSeq(s, 1, m)) \o SubSeq(s, m + 1, Len(s)) = t \o s
<1>1. /\ SubSeq(s, 1, m) \in Seq(S)
      /\ SubSeq(s, m + 1, Len(s)) \in Seq(S)
      /\ SubSeq(s, 1, m) \o SubSeq(s, m + 1, Len(s)) = s
  BY Split
<1>2. t \o SubSeq(s, 1, m) \in Seq(S)
  BY <1>1, ConcatProperties
<1>3. (t \o SubSeq(s, 1, m)) \o SubSeq(s, m + 1, Len(s))
        = t \o (SubSeq(s, 1, m) \o SubSeq(s, m + 1, Len(s)))
  <2>1. \A u, v \in Seq(S) : (t \o u) \o v = t \o (u \o v)
    BY ConcatAssociative
  <2> QED BY <1>1, <2>1
<1> QED BY <1>1, <1>2, <1>3

LEMMA LeastOf ==
  ASSUME NEW a \in Nat, NEW b \in Nat
  PROVE  /\ Least(a, b) \in Nat /\ Least(a, b) <= a /\ Least(a, b) <= b
         /\ Least(a, b) = a \/ Least(a, b) = b
BY DEF Least

-----------------------------------------------------------------------------
(***************************************************************************)
(* The steps, sorted by what they do to the values on their way.           *)
(***************************************************************************)

TxQuiet == \/ CheckClosed \/ LoadClosed \/ NotifyReceiver \/ AwaitRoom \/ RoomNotified
           \/ Reload \/ CancelSend \/ DropSender \/ DropSenderNotify

RxQuiet == \/ \E op \in RxOps \ {"recv_last", "recv_slice_last"}, k \in Nat : StartRecv(op, k)
           \/ LoadClosedEmpty \/ Recheck \/ NotifySender \/ LoadClosedSlice
           \/ AwaitData \/ DataNotified \/ ReloadSlice \/ CancelRecv
           \/ DropReceiver \/ DropReceiverNotify

Taking == Pop \/ PopSlice \/ Clear

LEMMA Steps ==
  ASSUME [Next]_vars
  PROVE  \/ \E op \in TxOps, k \in Nat : StartSend(op, k)
         \/ Push \/ TxQuiet \/ Taking \/ RxQuiet \/ UNCHANGED vars
BY DEF Next, TxStep, RxStep, TxQuiet, RxQuiet, Taking

data == <<buffer, capacity, values, sent, offered, taken>>

LEMMA TxQuietFrame ==
  ASSUME TxQuiet
  PROVE  UNCHANGED <<data, rxVars, recvWait>>
BY DEF TxQuiet, data, rxVars, recvNotify, sendNotify, txVars, RecvNotify!Notify,
       CheckClosed, LoadClosed, NotifyReceiver, AwaitRoom, RoomNotified, Reload, CancelSend,
       DropSender, DropSenderNotify

LEMMA RxQuietFrame ==
  ASSUME RxQuiet
  PROVE  UNCHANGED <<data, txVars, sendWait>>
BY DEF RxQuiet, data, rxVars, recvNotify, sendNotify, txVars, SendNotify!Notify,
       StartRecv, LoadClosedEmpty, Recheck, NotifySender, LoadClosedSlice,
       AwaitData, DataNotified, ReloadSlice, CancelRecv, DropReceiver, DropReceiverNotify

\* A taking step moves the first m values of the buffer.
LEMMA TakingFrame ==
  ASSUME TypeOK, RxPhase, Taking
  PROVE  /\ \E m \in 0 .. Len(buffer) :
              /\ taken' = taken \o SubSeq(buffer, 1, m)
              /\ buffer' = SubSeq(buffer, m + 1, Len(buffer))
         /\ UNCHANGED <<capacity, closed, recvNotify, sendNotify, txVars, offered>>
         /\ rxOp' = rxOp /\ want' = want
<1>0. Len(buffer) \in Nat
  BY DEF TypeOK
<1>1. CASE Pop
  <2>1. Least(1, Len(buffer)) \in 0 .. Len(buffer)
    BY <1>0, LeastOf
  <2> QED BY <1>1, <2>1 DEF Pop, TakeOut
<1>2. CASE PopSlice
  <2>1. Wanted \in Nat
    BY <1>2 DEF PopSlice, TypeOK, RxPhase, Wanted
  <2>2. Least(Len(buffer), Wanted) \in 0 .. Len(buffer)
    BY <1>0, <2>1, LeastOf
  <2> QED BY <1>2, <2>2 DEF PopSlice, TakeOut
<1>3. CASE Clear
  <2>1. Len(buffer) \in 0 .. Len(buffer)
    BY <1>0
  <2>2. SubSeq(buffer, 1, Len(buffer)) = buffer
        /\ SubSeq(buffer, Len(buffer) + 1, Len(buffer)) = <<>>
    <3>1. SubSeq(buffer, 1, Len(buffer)) = buffer
      BY SubSeqFull DEF TypeOK
    <3>2. SubSeq(buffer, Len(buffer) + 1, Len(buffer)) = <<>>
      BY <1>0, SubSeqEmpty
    <3> QED BY <3>1, <3>2
  <2> QED BY <1>3, <2>1, <2>2 DEF Clear
<1> QED BY <1>1, <1>2, <1>3 DEF Taking

-----------------------------------------------------------------------------
(***************************************************************************)
(* What has been pushed.                                                   *)
(***************************************************************************)

LEMMA ThroughType ==
  ASSUME TypeOK
  PROVE  /\ Through \in Seq(Message) /\ Len(Through) \in Nat
         /\ Len(Through) = Len(taken) + Len(buffer)
         /\ offered \in Nat /\ Message \subseteq Nat
BY ConcatProperties DEF TypeOK, Through, Message

\* Nothing beyond what the call has pushed is in the queue or taken.
LEMMA BelowSent ==
  ASSUME TypeOK, ValuesAreLast, SendAccounted
  PROVE  \A i \in 1 .. Len(Through) :
           Through[i] \in Nat /\ Through[i] <= offered - Len(values) + sent
<1> SUFFICES ASSUME NEW i \in 1 .. Len(Through)
             PROVE  Through[i] \in Nat /\ Through[i] <= offered - Len(values) + sent
  OBVIOUS
<1>1. Through[i] \in 1 .. offered /\ offered \in Nat
  BY ThroughType DEF Message
<1>2. Len(values) \in Nat /\ sent \in 0 .. Len(values)
  BY DEF TypeOK
<1> DEFINE j == Through[i] - (offered - Len(values))
<1>3. ASSUME Through[i] > offered - Len(values) + sent PROVE FALSE
  <2>1. j \in 1 .. Len(values) /\ j > sent
    BY <1>1, <1>2, <1>3
  <2>2. values[j] = Through[i]
    BY <1>1, <1>2, <2>1 DEF ValuesAreLast
  <2>3. Queued(values[j])
    BY <2>2 DEF Queued
  <2> QED BY <2>1, <2>3, <1>2 DEF SendAccounted
<1> QED BY <1>1, <1>2, <1>3

\* A push appends the next values of the call, as many as fit.
LEMMA PushFacts ==
  ASSUME TypeOK, ValuesAreLast, Push
  PROVE  \E m \in Nat, p \in Seq(Message) :
           /\ Len(p) = m
           /\ \A i \in 1 .. m : p[i] = values[sent + i]
           /\ buffer' = buffer \o p
           /\ sent' = sent + m /\ sent + m <= Len(values)
           /\ Len(buffer) + m <= capacity
           /\ sent + m = Len(values) \/ Len(buffer) + m = capacity
           /\ m > 0 => TxGoto("notify")
           /\ m = 0 /\ txOp = "try_send" => TxReturn("full")
           /\ m = 0 /\ txOp = "try_send_slice" => TxReturn("ok")
           /\ m = 0 /\ txOp \notin {"try_send", "try_send_slice"} => TxGoto("wait")
<1> DEFINE m == Least(FreeSlots, Len(Remaining))
           p == SubSeq(Remaining, 1, m)
<1>1. /\ Remaining \in Seq(Message) /\ Len(Remaining) = Len(values) - sent
      /\ \A i \in 1 .. Len(Remaining) : Remaining[i] = values[sent + i]
      /\ Len(values) \in Nat /\ sent \in 0 .. Len(values)
  <2>1. values \in Seq(Message) /\ Len(values) \in Nat /\ sent \in 0 .. Len(values)
    BY DEF TypeOK
  <2> QED BY <2>1, Split, SubSeqProperties DEF Remaining
<1>2. FreeSlots \in Nat /\ FreeSlots = capacity - Len(buffer) /\ Len(buffer) \in Nat
      /\ capacity \in Nat
  BY DEF TypeOK, FreeSlots
<1>3. /\ m \in Nat /\ m <= FreeSlots /\ m <= Len(Remaining)
      /\ m = FreeSlots \/ m = Len(Remaining)
  <2>1. Len(Remaining) \in Nat
    BY <1>1
  <2> QED BY <1>2, <2>1, LeastOf
<1>4. /\ p \in Seq(Message) /\ Len(p) = m
      /\ \A i \in 1 .. m : p[i] = values[sent + i]
  BY <1>1, <1>3
<1>5. buffer' = buffer \o p /\ sent' = sent + m
  BY DEF Push
<1>6. /\ m > 0 => TxGoto("notify")
      /\ m = 0 /\ txOp = "try_send" => TxReturn("full")
      /\ m = 0 /\ txOp = "try_send_slice" => TxReturn("ok")
      /\ m = 0 /\ txOp \notin {"try_send", "try_send_slice"} => TxGoto("wait")
  BY <1>3 DEF Push
<1> HIDE DEF m, p
<1>7. /\ sent + m <= Len(values) /\ Len(buffer) + m <= capacity
      /\ sent + m = Len(values) \/ Len(buffer) + m = capacity
  BY <1>1, <1>2, <1>3
<1>8. m \in Nat /\ p \in Seq(Message)
  BY <1>3, <1>4
<1> QED BY <1>4, <1>5, <1>6, <1>7, <1>8

\* The values pushed follow those that went through before.
LEMMA PushOrder ==
  ASSUME TypeOK, ValuesAreLast, InOrder, SendAccounted, Push
  PROVE  /\ InOrder'
         /\ \A i \in 1 .. Len(values') : Queued(values[i])' <=> i <= sent'
<1>1. PICK m \in Nat, p \in Seq(Message) :
           /\ Len(p) = m
           /\ \A i \in 1 .. m : p[i] = values[sent + i]
           /\ buffer' = buffer \o p
           /\ sent' = sent + m /\ sent + m <= Len(values)
  BY PushFacts
<1>2. UNCHANGED <<taken, values, offered>>
  BY DEF Push
<1> DEFINE T == Through  n == Len(Through)
<1>3. T \in Seq(Message) /\ n \in Nat /\ Message \subseteq Nat /\ offered \in Nat
  BY ThroughType
<1>4. Len(values) \in Nat /\ Len(values) <= offered /\ sent \in 0 .. Len(values)
  BY DEF TypeOK, ValuesAreLast
<1>5. Through' = T \o p
  <2>1. taken \in Seq(Message) /\ buffer \in Seq(Message)
    BY DEF TypeOK
  <2>2. \A v \in Seq(Message) : (taken \o buffer) \o v = taken \o (buffer \o v)
    BY <2>1, ConcatAssociative
  <2>3. taken' = taken /\ buffer' = buffer \o p
    BY <1>1, <1>2
  <2> QED BY <1>1, <2>2, <2>3 DEF Through
<1>6. /\ Len(Through') = n + m
      /\ \A i \in 1 .. n : Through'[i] = T[i]
      /\ \A i \in 1 .. m : Through'[n + i] = offered - Len(values) + sent + i
  <2>1. /\ Len(T \o p) = n + m
        /\ \A i \in 1 .. n + m : (T \o p)[i] = IF i <= n THEN T[i] ELSE p[i - n]
    BY <1>1, <1>3, ConcatProperties
  <2>2. \A i \in 1 .. m : sent + i \in 1 .. Len(values)
    BY <1>1, <1>4
  <2>3. ASSUME NEW i \in 1 .. m PROVE p[i] = offered - Len(values) + sent + i
    <3>1. values[sent + i] = offered - Len(values) + (sent + i)
      BY <2>2 DEF ValuesAreLast
    <3> QED BY <1>1, <1>3, <1>4, <3>1
  <2> HIDE DEF T, n
  <2> QED BY <1>1, <1>3, <1>5, <2>1, <2>3
<1>7. \A i \in 1 .. n : T[i] \in Nat /\ T[i] <= offered - Len(values) + sent
  BY BelowSent
<1>8. \A i, j \in 1 .. n : i < j => T[i] < T[j]
  BY DEF InOrder
<1>9. \A i \in 1 .. Len(values) : values[i] = offered - Len(values) + i
  BY DEF ValuesAreLast
<1>10. \A i \in 1 .. Len(values) : (\E q \in 1 .. n : T[q] = values[i]) <=> i <= sent
  BY DEF SendAccounted, Queued
<1> HIDE DEF T, n
<1>11. InOrder'
  <2> SUFFICES ASSUME NEW i \in 1 .. n + m, NEW j \in 1 .. n + m, i < j
               PROVE  Through'[i] < Through'[j]
    BY <1>6 DEF InOrder
  <2>1. CASE j <= n
    BY <1>3, <1>6, <1>8, <2>1
  <2>2. CASE j > n
    <3>1. j - n \in 1 .. m /\ j = n + (j - n)
      BY <1>1, <1>3, <2>2
    <3>2. Through'[j] = offered - Len(values) + sent + (j - n)
      BY <1>6, <3>1
    <3>3. CASE i <= n
      BY <1>3, <1>4, <1>6, <1>7, <3>1, <3>2, <3>3
    <3>4. CASE i > n
      <4>1. i - n \in 1 .. m /\ i = n + (i - n)
        BY <1>1, <1>3, <3>4
      <4>2. Through'[i] = offered - Len(values) + sent + (i - n)
        BY <1>6, <4>1
      <4> QED BY <1>3, <1>4, <3>2, <4>2
    <3> QED BY <1>3, <3>3, <3>4
  <2> QED BY <1>3, <2>1, <2>2
<1>12. ASSUME NEW i \in 1 .. Len(values) PROVE Queued(values[i])' <=> i <= sent'
  <2>1. ASSUME NEW q \in 1 .. Len(Through'), Through'[q] = values[i]
        PROVE  i <= sent'
    <3>1. CASE q \in 1 .. n
      BY <1>1, <1>4, <1>6, <1>10, <2>1, <3>1
    <3>2. CASE q \notin 1 .. n
      <4>1. q - n \in 1 .. m /\ q = n + (q - n)
        BY <1>1, <1>3, <1>6, <3>2
      <4>2. values[i] = offered - Len(values) + sent + (q - n)
        BY <1>6, <2>1, <4>1
      <4>3. i = sent + (q - n)
        BY <1>3, <1>4, <1>9, <4>1, <4>2
      <4> QED BY <1>1, <1>4, <4>1, <4>3
    <3> QED BY <3>1, <3>2
  <2>2. ASSUME i <= sent' PROVE \E q \in 1 .. Len(Through') : Through'[q] = values[i]
    <3>1. CASE i <= sent
      BY <1>1, <1>3, <1>6, <1>10, <3>1
    <3>2. CASE i > sent
      <4>1. i - sent \in 1 .. m
        BY <1>1, <1>4, <2>2, <3>2
      <4>2. Through'[n + (i - sent)] = offered - Len(values) + sent + (i - sent)
        BY <1>6, <4>1
      <4>3. Through'[n + (i - sent)] = values[i]
        BY <1>3, <1>4, <1>9, <4>2
      <4>4. n + (i - sent) \in 1 .. Len(Through')
        BY <1>1, <1>3, <1>6, <4>1
      <4> QED BY <4>3, <4>4
    <3> QED BY <3>1, <3>2, <1>4
  <2> QED BY <1>2, <2>1, <2>2 DEF Queued
<1> QED BY <1>2, <1>11, <1>12

\* Taking moves values inside Through, which stays as it is.
LEMMA TakingOrder ==
  ASSUME TypeOK, RxPhase, Taking
  PROVE  /\ Through' = Through
         /\ taken' \in Seq(Message) /\ buffer' \in Seq(Message)
         /\ Len(buffer') <= Len(buffer)
<1>1. PICK m \in 0 .. Len(buffer) :
        /\ taken' = taken \o SubSeq(buffer, 1, m)
        /\ buffer' = SubSeq(buffer, m + 1, Len(buffer))
  BY TakingFrame
<1>2. buffer \in Seq(Message) /\ taken \in Seq(Message)
  BY DEF TypeOK
<1>3. Through' = Through /\ taken' \in Seq(Message)
  <2>1. /\ taken \o SubSeq(buffer, 1, m) \in Seq(Message)
        /\ (taken \o SubSeq(buffer, 1, m)) \o SubSeq(buffer, m + 1, Len(buffer))
             = taken \o buffer
    <3>1. \A t, s \in Seq(Message) : \A n \in 0 .. Len(s) :
            /\ t \o SubSeq(s, 1, n) \in Seq(Message)
            /\ (t \o SubSeq(s, 1, n)) \o SubSeq(s, n + 1, Len(s)) = t \o s
      BY TakenThenQueued
    <3> QED BY <1>2, <3>1
  <2> QED BY <1>1, <2>1 DEF Through
<1>4. buffer' \in Seq(Message) /\ Len(buffer') = Len(buffer) - m
  BY <1>1, <1>2, Split
<1> QED BY <1>2, <1>3, <1>4

-----------------------------------------------------------------------------
(***************************************************************************)
(* Every step keeps the invariant.                                         *)
(***************************************************************************)

\* A new call offers values that nobody has seen.
LEMMA StartSendStep ==
  ASSUME SInv, NEW op \in TxOps, NEW k \in Nat, StartSend(op, k)
  PROVE  SInv'
<1> USE DEF SInv
<1>1. /\ values' = [i \in 1 .. k |-> offered + i]
      /\ Len(values') = k /\ offered' = offered + k /\ sent' = 0
      /\ offered \in Nat
      /\ Message \subseteq Message'
  BY DEF StartSend, TypeOK, Message
<1>2. /\ UNCHANGED <<buffer, capacity, closed, recvNotify, sendNotify, rxVars, taken>>
      /\ txPc = "idle" /\ txOp' = op
  BY DEF StartSend
<1>3. /\ txPc' \in {"idle", "check", "load"}
      /\ txResult' \in {"none", "ok"} /\ (txPc' # "idle" => txResult' = "none")
      /\ txPc' = "check" => op = "send_slice" /\ k > 0
      /\ txPc' = "idle" => op = "send_slice" /\ k = 0
      /\ txPc' = "load" => op # "send_slice"
      /\ op \in {"try_send", "send"} => k = 1
  BY DEF StartSend, TxReturn
<1>4. TypeOK'
  <2>1. values' \in Seq(Message')
    BY <1>1 DEF Message
  <2>2. buffer' \in Seq(Message') /\ taken' \in Seq(Message') /\ Len(buffer') <= capacity'
    BY <1>1, <1>2, SeqMonotonic DEF TypeOK
  <2> QED BY <1>1, <1>2, <1>3, <2>1, <2>2
          DEF TypeOK, rxVars, recvNotify, sendNotify, TxOps
<1>5. ValuesAreLast'
  BY <1>1 DEF ValuesAreLast
<1>6. TxPhase'
  BY <1>1, <1>2, <1>3 DEF TxPhase, TxIdle, TxOps
<1>7. Through' = Through
  BY <1>2 DEF Through
<1>8. InOrder'
  BY <1>7 DEF InOrder
<1>9. SendAccounted'
  <2>1. ASSUME NEW i \in 1 .. k PROVE ~Queued(values[i])'
    <3>1. values'[i] = offered + i
      BY <1>1
    <3>2. \A q \in 1 .. Len(Through) : Through[q] \in Nat /\ Through[q] <= offered
      BY ThroughType, ElementOfSeq DEF Message
    <3>3. \A q \in 1 .. Len(Through) : Through[q] # offered + i
      BY <1>1, <3>2
    <3> QED BY <1>7, <3>1, <3>3 DEF Queued
  <2>2. \A i \in 1 .. Len(values') : Queued(values[i])' <=> i <= sent'
    BY <1>1, <2>1
  <2> QED BY <1>1, <1>2, <1>3, <2>2 DEF SendAccounted
<1>10. ClosedByDrop' /\ RxPhase' /\ ClosedMeansDrained' /\ ReceiverNotStuck'
  BY <1>2, <1>3 DEF ClosedByDrop, RxPhase, ClosedMeansDrained, ReceiverNotStuck, rxVars,
                    recvNotify
<1>11. RxTold' /\ TxTold'
  BY <1>2, <1>3 DEF RxTold, RxWatching, TxTold, TxWatching, rxVars, recvNotify, sendNotify
<1> QED BY <1>4, <1>5, <1>6, <1>8, <1>9, <1>10, <1>11

\* A push goes on to the notification, or found the ring buffer full.
LEMMA PushStep ==
  ASSUME SInv, Push
  PROVE  SInv'
<1> USE DEF SInv
<1>1. PICK m \in Nat, p \in Seq(Message) :
           /\ Len(p) = m
           /\ buffer' = buffer \o p
           /\ sent' = sent + m /\ sent + m <= Len(values)
           /\ Len(buffer) + m <= capacity
           /\ sent + m = Len(values) \/ Len(buffer) + m = capacity
           /\ m > 0 => TxGoto("notify")
           /\ m = 0 /\ txOp = "try_send" => TxReturn("full")
           /\ m = 0 /\ txOp = "try_send_slice" => TxReturn("ok")
           /\ m = 0 /\ txOp \notin {"try_send", "try_send_slice"} => TxGoto("wait")
  BY PushFacts
<1>2. /\ UNCHANGED <<capacity, closed, recvNotify, sendNotify, txOp, values, rxVars,
                     offered, taken>>
      /\ txPc = "push" /\ txPc' \in {"notify", "wait", "idle"}
      /\ txPc' # "idle" => txResult' = txResult
      /\ txPc' = "idle" => \/ txOp = "try_send" /\ txResult' = "full"
                           \/ txOp = "try_send_slice" /\ txResult' = "ok"
      /\ txPc' = "wait" => txOp \notin {"try_send", "try_send_slice"}
      /\ txPc' = "notify" <=> m > 0
  <2>1. /\ UNCHANGED <<capacity, closed, recvNotify, sendNotify, txOp, values, rxVars,
                       offered, taken>>
        /\ txPc = "push"
    BY DEF Push
  <2> QED BY <1>1, <2>1 DEF TxGoto, TxReturn
<1>3. /\ Len(buffer') = Len(buffer) + m /\ buffer' \in Seq(Message)
      /\ Len(buffer) \in Nat /\ Len(values) \in Nat /\ sent \in 0 .. Len(values)
      /\ capacity \in Nat
      /\ m = 0 => buffer' = buffer
  <2>1. /\ buffer \in Seq(Message) /\ Len(buffer) \in Nat
        /\ Len(values) \in Nat /\ sent \in 0 .. Len(values) /\ capacity \in Nat
    BY CapacityAssumption DEF TypeOK
  <2>2. Len(buffer \o p) = Len(buffer) + Len(p) /\ buffer \o p \in Seq(Message)
    BY <2>1, ConcatProperties
  <2>3. m = 0 => buffer \o p = buffer
    BY <1>1, <2>1, ConcatEqualIffEmpty, EmptySeq
  <2> QED BY <1>1, <2>1, <2>2, <2>3
<1>4. TypeOK'
  <2>1. Message' = Message
    BY <1>2 DEF Message
  <2> QED BY <1>1, <1>2, <1>3, <2>1
          DEF TypeOK, rxVars, recvNotify, sendNotify
<1>5. ValuesAreLast'
  BY <1>2 DEF ValuesAreLast
<1>6. TxPhase'
  BY <1>1, <1>2, <1>3 DEF TxPhase, TxIdle, TxOps
<1>7. InOrder'
  BY PushOrder
<1>8. SendAccounted'
  <2>1. \A i \in 1 .. Len(values') : Queued(values[i])' <=> i <= sent'
    BY PushOrder
  <2>2. txResult = "none"
    BY <1>2 DEF TxPhase, TxIdle
  <2>3. txPc' = "idle" /\ txOp = "try_send" => sent' = 0
    BY <1>1, <1>2, <1>3 DEF TxPhase
  <2> QED BY <1>2, <2>1, <2>2, <2>3 DEF SendAccounted
<1>9. ClosedByDrop' /\ RxPhase'
  BY <1>2 DEF ClosedByDrop, RxPhase, rxVars
<1>10. ClosedMeansDrained'
  BY <1>2 DEF ClosedMeansDrained, rxVars
<1>11. RxTold' /\ ReceiverNotStuck'
  <2>1. buffer' = buffer \/ txPc' = "notify"
    BY <1>2, <1>3
  <2>2. closed => rxPc \in {"drop", "gone"}
    BY <1>2 DEF ClosedByDrop
  <2> QED BY <1>2, <2>1, <2>2
          DEF RxTold, RxWatching, ReceiverNotStuck, rxVars, recvNotify
<1>12. TxTold'
  <2>1. TxWatching' => Len(buffer') = capacity
    <3>1. CASE txPc' = "wait"
      <4>1. txOp \in {"send", "send_slice"}
        BY <1>2, <3>1 DEF TxPhase, TxIdle, TxOps
      <4>2. sent # Len(values)
        BY <1>2, <4>1 DEF TxPhase
      <4>3. m = 0
        BY <1>1, <1>2, <3>1
      <4>4. sent + m = sent /\ Len(buffer) + m = Len(buffer)
        BY <1>3, <4>3
      <4>5. Len(buffer) = capacity
        BY <1>1, <4>2, <4>4
      <4> QED BY <1>3, <4>3, <4>5
    <3>2. CASE txPc' = "notify" /\ sent' < Len(values)
      BY <1>1, <1>3, <3>2
    <3> QED BY <1>2, <3>1, <3>2 DEF TxWatching
  <2> QED BY <1>1, <1>2, <1>3, <2>1 DEF TxTold, rxVars, sendNotify
<1> QED BY <1>4, <1>5, <1>6, <1>7, <1>8, <1>9, <1>10, <1>11, <1>12

\* The data is as it was, and with it whatever is said of it alone.
LEMMA DataKept ==
  ASSUME TypeOK, ValuesAreLast, InOrder, UNCHANGED data
  PROVE  /\ buffer' \in Seq(Message') /\ Len(buffer') <= capacity' /\ capacity' \in Capacities
         /\ values' \in Seq(Message') /\ sent' \in 0 .. Len(values')
         /\ offered' \in Nat /\ taken' \in Seq(Message')
         /\ ValuesAreLast' /\ InOrder'
         /\ \A v : Queued(v)' <=> Queued(v)
BY DEF data, TypeOK, ValuesAreLast, InOrder, Through, Queued, Message

\* A call that has pushed something and has nothing left has pushed it all.
LEMMA AllSent ==
  ASSUME NEW n \in Nat, NEW s \in 0 .. n, s > 0, ~(s < n) \/ n = 1
  PROVE  s = n
OBVIOUS

\* The sender looks at the flag, notifies, waits or is dropped.
LEMMA TxQuietStep ==
  ASSUME SInv, TxQuiet
  PROVE  SInv'
<1> USE DEF SInv, TxQuiet, TxGoto, TxReturn, RecvNotify!Notify, SendNotify!Begin,
            SendNotify!Complete, SendNotify!Cancel
<1>1. UNCHANGED <<data, rxVars, recvWait>>
  BY TxQuietFrame
<1>2. /\ buffer' \in Seq(Message') /\ Len(buffer') <= capacity' /\ capacity' \in Capacities
      /\ values' \in Seq(Message') /\ sent' \in 0 .. Len(values')
      /\ offered' \in Nat /\ taken' \in Seq(Message')
      /\ ValuesAreLast' /\ InOrder'
      /\ \A v : Queued(v)' <=> Queued(v)
  BY <1>1, DataKept
<1>3. txOp' = txOp /\ buffer' = buffer /\ capacity' = capacity /\ values' = values
      /\ sent' = sent
  BY <1>1 DEF data, CheckClosed, LoadClosed, NotifyReceiver, AwaitRoom, RoomNotified,
              Reload, CancelSend, DropSender, DropSenderNotify, txVars
<1>4. TypeOK'
  <2>1. /\ closed' \in BOOLEAN /\ recvPermit' \in BOOLEAN /\ sendPermit' \in BOOLEAN
        /\ sendWait' \in {"idle", "waiting", "done"}
        /\ txPc' \in {"idle", "check", "load", "push", "notify", "wait", "reload",
                      "drop", "gone"}
        /\ txResult' \in {"none", "ok", "full", "closed", "cancelled"}
    BY DEF TypeOK, CheckClosed, LoadClosed, NotifyReceiver, AwaitRoom, RoomNotified,
           Reload, CancelSend, DropSender, DropSenderNotify, txVars, recvNotify, sendNotify
  <2>2. /\ recvWait' \in {"idle", "waiting", "done"} /\ txOp' \in TxOps \union {"none"}
        /\ rxPc' = rxPc /\ rxOp' = rxOp /\ want' = want /\ got' = got
        /\ rxResult' = rxResult
    BY <1>1, <1>3 DEF TypeOK, rxVars
  <2> QED BY <1>2, <2>1, <2>2 DEF TypeOK
<1>5. TxPhase'
  BY <1>3 DEF TxPhase, TxIdle, TxOps, CheckClosed, LoadClosed, NotifyReceiver, AwaitRoom,
              RoomNotified, Reload, CancelSend, DropSender, DropSenderNotify, txVars
<1>6. ClosedByDrop'
  BY <1>1 DEF ClosedByDrop, CheckClosed, LoadClosed, NotifyReceiver, AwaitRoom,
              RoomNotified, Reload, CancelSend, DropSender, DropSenderNotify, txVars, rxVars
<1>7. RxPhase' /\ ClosedMeansDrained'
  <2>1. closed => closed'
    BY DEF CheckClosed, LoadClosed, NotifyReceiver, AwaitRoom,
           RoomNotified, Reload, CancelSend, DropSender, DropSenderNotify
  <2>2. txPc \in {"drop", "gone"} => txPc' \in {"drop", "gone"}
    BY DEF CheckClosed, LoadClosed, NotifyReceiver, AwaitRoom,
           RoomNotified, Reload, CancelSend, DropSender, DropSenderNotify, txVars
  <2> QED BY <1>1, <1>3, <2>1, <2>2 DEF RxPhase, ClosedMeansDrained, rxVars
<1>8. SendAccounted'
  <2>1. /\ txResult' = "ok" /\ txOp # "try_send_slice" =>
             txResult = "ok" \/ sent = Len(values)
        /\ txResult' \in {"full", "closed"} => txResult' = txResult \/ sent = 0
             \/ txOp \notin {"try_send", "send"}
    <3>1. CASE NotifyReceiver
      <4>1. sent \in 0 .. Len(values) /\ Len(values) \in Nat /\ sent > 0
        BY <3>1 DEF NotifyReceiver, TypeOK, TxPhase
      <4>2. txOp # "send_slice" /\ txOp # "try_send_slice" => Len(values) = 1
        BY <3>1 DEF NotifyReceiver, TxPhase, TxIdle, TxOps
      <4>3. ~(txOp = "send_slice" /\ sent < Len(values)) /\ txOp # "try_send_slice"
              => sent = Len(values)
        <5>1. ~(sent < Len(values)) \/ Len(values) = 1 => sent = Len(values)
          BY <4>1, AllSent
        <5> QED BY <4>2, <5>1
      <4> QED BY <3>1, <4>3 DEF NotifyReceiver
    <3>2. CASE ~NotifyReceiver
      BY <3>2 DEF TxPhase, TxIdle, TxOps, CheckClosed, LoadClosed,
         AwaitRoom, RoomNotified, Reload, CancelSend, DropSender, DropSenderNotify, txVars
    <3> QED BY <3>1, <3>2
  <2> QED BY <1>2, <1>3, <2>1 DEF SendAccounted
<1>9. RxTold' /\ ReceiverNotStuck'
  BY <1>1, <1>3 DEF RxTold, RxWatching, ReceiverNotStuck, ClosedByDrop,
              CheckClosed, LoadClosed, NotifyReceiver, AwaitRoom,
              RoomNotified, Reload, CancelSend, DropSender, DropSenderNotify, txVars, rxVars,
              recvNotify
<1>10. TxTold'
  BY <1>1, <1>3 DEF TxTold, TxWatching, TxPhase, ClosedByDrop,
              CheckClosed, LoadClosed, NotifyReceiver, AwaitRoom,
              RoomNotified, Reload, CancelSend, DropSender, DropSenderNotify, txVars, rxVars,
              sendNotify
<1> QED BY <1>2, <1>4, <1>5, <1>6, <1>7, <1>8, <1>9, <1>10

\* Where the receiver goes from a taking step: if it will wait, it has seen the
\* buffer empty, and if it has taken something, it will notify.
LEMMA TakingControl ==
  ASSUME TypeOK, RxPhase, Taking
  PROVE  /\ got' \in 0 .. (IF rxOp' \in {"try_recv", "recv", "recv_last"} THEN 1 ELSE want')
         /\ rxPc' \in {"idle", "load", "notify", "load_slice"}
         /\ rxResult' \in {"none", "closed", "count"}
         /\ RxWatching' => buffer' = <<>>
         /\ rxResult' = "closed" => rxPc = "repop" /\ buffer' = <<>>
         /\ rxPc \notin {"notify", "drop", "gone"}
         /\ rxPc' = "notify" \/ buffer' = buffer
         /\ RxPhase'
<1>0. Len(buffer) \in Nat /\ buffer \in Seq(Message)
  BY DEF TypeOK
<1>1. CASE Pop
  <2> DEFINE m == Least(1, Len(buffer))
  <2>1. /\ buffer' = SubSeq(buffer, m + 1, Len(buffer)) /\ got' = got + m
        /\ rxOp' = rxOp /\ want' = want
    BY <1>1 DEF Pop, TakeOut
  <2>2. /\ buffer = <<>> => m = 0 /\ buffer' = <<>>
        /\ buffer # <<>> => m = 1
    <3>1. buffer = <<>> => Len(buffer) = 0
      OBVIOUS
    <3>2. buffer # <<>> => Len(buffer) \in Nat \ {0}
      BY <1>0, EmptySeq
    <3>3. (buffer = <<>> => m = 0) /\ (buffer # <<>> => m = 1)
      <4>1. \A n \in Nat : (n = 0 => Least(1, n) = 0) /\ (n # 0 => Least(1, n) = 1)
        BY DEF Least
      <4> QED BY <1>0, <3>1, <3>2, <4>1
    <3>4. buffer = <<>> => buffer' = <<>>
      BY <2>1, <3>1, <3>3, SubSeqEmpty
    <3> QED BY <3>3, <3>4
  <2>3. /\ buffer # <<>> => rxPc' = "notify" /\ rxResult' = rxResult
        /\ buffer = <<>> /\ rxPc = "pop" => rxPc' = "load" /\ rxResult' = rxResult
        /\ buffer = <<>> /\ rxPc = "repop" => rxPc' = "idle" /\ rxResult' = "closed"
        /\ rxPc \in {"pop", "repop"}
    BY <1>1 DEF Pop, RxGoto, RxReturn
  <2>4. rxOp \in {"try_recv", "recv", "recv_last"} /\ got = 0 /\ rxResult = "none"
    BY <2>3 DEF RxPhase
  <2> HIDE DEF m
  <2>5. got' \in 0 .. 1 /\ (buffer = <<>> => got' = 0)
    BY <2>1, <2>2, <2>4
  <2> QED BY <2>1, <2>2, <2>3, <2>4, <2>5 DEF RxWatching, RxPhase, RxOps
<1>2. CASE PopSlice
  <2> DEFINE m == Least(Len(buffer), Wanted)
  <2>1. /\ buffer' = SubSeq(buffer, m + 1, Len(buffer)) /\ got' = got + m
        /\ rxOp' = rxOp /\ want' = want
        /\ m > 0 => rxPc' = "notify" /\ rxResult' = rxResult
        /\ ~(m > 0) => AfterSlice(got)
        /\ rxPc = "pop_slice"
    BY <1>2 DEF PopSlice, TakeOut, RxGoto
  <2>2. /\ rxOp \in {"try_recv_slice", "recv_slice", "recv_slice_last"}
        /\ rxResult = "none"
        /\ want \in Nat /\ got \in 0 .. want
    BY <2>1 DEF RxPhase, TypeOK
  <2>3. /\ m \in Nat /\ m <= Len(buffer) /\ m <= Wanted
        /\ m = Len(buffer) \/ m = Wanted
        /\ Wanted = want - got /\ Wanted \in Nat
    <3>1. Wanted = want - got /\ Wanted \in Nat
      BY <2>2 DEF Wanted
    <3> QED BY <1>0, <3>1, LeastOf
  <2> HIDE DEF m
  <2>4. /\ got' \in 0 .. want
        /\ got' < want => m = Len(buffer)
        /\ m = Len(buffer) => buffer' = <<>>
        /\ m = 0 => buffer' = buffer /\ got' = got
    <3>1. got' \in 0 .. want /\ (got' < want => m = Len(buffer))
      BY <2>1, <2>2, <2>3
    <3>2. m = Len(buffer) => buffer' = <<>>
      BY <1>0, <2>1, SubSeqEmpty
    <3>3. m = 0 => buffer' = buffer /\ got' = got
      BY <1>0, <2>1, <2>2, SubSeqFull
    <3> QED BY <3>1, <3>2, <3>3
  <2>5. CASE m > 0
    BY <2>1, <2>2, <2>4, <2>5 DEF RxWatching, RxPhase, RxOps
  <2>6. CASE m = 0
    <3>1. AfterSlice(got) /\ got' = got /\ buffer' = buffer
      BY <2>1, <2>4, <2>6
    <3>2. \/ rxOp = "recv_slice" /\ got < want /\ rxPc' = "load_slice" /\ rxResult' = rxResult
          \/ rxPc' = "idle" /\ rxResult' = "count"
      BY <3>1 DEF AfterSlice, RxGoto, RxReturn
    <3> QED BY <2>1, <2>2, <2>4, <3>1, <3>2 DEF RxWatching, RxPhase, RxOps
  <2> QED BY <2>3, <2>5, <2>6
<1>3. CASE Clear
  BY <1>3 DEF Clear, RxGoto, RxWatching, RxPhase, RxOps, TypeOK
<1> QED BY <1>1, <1>2, <1>3 DEF Taking

\* The receiver takes values, or finds none.
LEMMA TakingStep ==
  ASSUME SInv, Taking
  PROVE  SInv'
<1> USE DEF SInv
<1>1. /\ Through' = Through
      /\ taken' \in Seq(Message) /\ buffer' \in Seq(Message)
      /\ Len(buffer') <= Len(buffer)
  BY TakingOrder
<1>2. /\ UNCHANGED <<capacity, closed, recvNotify, sendNotify, txVars, offered>>
      /\ rxOp' = rxOp /\ want' = want
  BY TakingFrame
<1>3. /\ got' \in 0 .. (IF rxOp' \in {"try_recv", "recv", "recv_last"} THEN 1 ELSE want')
      /\ rxPc' \in {"idle", "load", "notify", "load_slice"}
      /\ rxResult' \in {"none", "closed", "count"}
      /\ RxWatching' => buffer' = <<>>
      /\ rxResult' = "closed" => rxPc = "repop" /\ buffer' = <<>>
      /\ rxPc \notin {"notify", "drop", "gone"}
      /\ rxPc' = "notify" \/ buffer' = buffer
      /\ RxPhase'
  BY TakingControl
<1>4. TypeOK'
  <2>1. Len(buffer) \in Nat /\ Len(buffer') \in Nat /\ capacity \in Nat
    BY <1>1, CapacityAssumption DEF TypeOK
  <2>2. Message' = Message /\ Len(buffer') <= capacity
    BY <1>1, <1>2, <2>1 DEF Message, TypeOK
  <2> QED BY <1>1, <1>2, <1>3, <2>2 DEF TypeOK, recvNotify, sendNotify, txVars
<1>5. ValuesAreLast' /\ TxPhase'
  BY <1>2 DEF ValuesAreLast, TxPhase, txVars
<1>6. InOrder'
  BY <1>1 DEF InOrder
<1>7. SendAccounted'
  BY <1>1, <1>2 DEF SendAccounted, Queued, txVars
<1>8. ClosedByDrop'
  BY <1>2, <1>3 DEF ClosedByDrop, txVars
<1>9. ClosedMeansDrained'
  BY <1>2, <1>3 DEF ClosedMeansDrained, ClosedByDrop, RxPhase, txVars
<1>10. RxTold' /\ ReceiverNotStuck'
  BY <1>3 DEF RxTold, ReceiverNotStuck
<1>11. TxTold'
  BY <1>2, <1>3 DEF TxTold, TxWatching, txVars, sendNotify
<1> QED BY <1>3, <1>4, <1>5, <1>6, <1>7, <1>8, <1>9, <1>10, <1>11

\* The receiver looks at the flag, notifies, waits or is dropped.
LEMMA RxQuietStep ==
  ASSUME SInv, RxQuiet
  PROVE  SInv'
<1> USE DEF SInv, RxQuiet, RxGoto, RxReturn, SendNotify!Notify, RecvNotify!Begin,
            RecvNotify!Complete, RecvNotify!Cancel, AfterSlice
<1>1. UNCHANGED <<data, txVars, sendWait>>
  BY RxQuietFrame
<1>2. /\ buffer' \in Seq(Message') /\ Len(buffer') <= capacity' /\ capacity' \in Capacities
      /\ values' \in Seq(Message') /\ sent' \in 0 .. Len(values')
      /\ offered' \in Nat /\ taken' \in Seq(Message')
      /\ ValuesAreLast' /\ InOrder'
      /\ \A v : Queued(v)' <=> Queued(v)
  BY <1>1, DataKept
<1>3. buffer' = buffer /\ capacity' = capacity /\ values' = values /\ sent' = sent
  BY <1>1 DEF data
<1>4. TypeOK'
  <2>1. /\ closed' \in BOOLEAN /\ recvPermit' \in BOOLEAN /\ sendPermit' \in BOOLEAN
        /\ recvWait' \in {"idle", "waiting", "done"}
    BY DEF TypeOK, StartRecv, LoadClosedEmpty, Recheck, NotifySender, LoadClosedSlice,
           AwaitData, DataNotified, ReloadSlice, CancelRecv, DropReceiver,
           DropReceiverNotify, recvNotify, sendNotify
  <2>2. /\ rxPc' \in {"idle", "pop", "load", "repop", "recheck", "pop_slice", "notify",
                      "load_slice", "wait", "reload", "clear", "drop", "gone"}
        /\ rxOp' \in RxOps \union {"none"} /\ want' \in Nat
        /\ got' \in 0 .. (IF rxOp' \in {"try_recv", "recv", "recv_last"} THEN 1 ELSE want')
        /\ rxResult' \in {"none", "some", "empty", "closed", "count", "cancelled"}
    BY DEF TypeOK, RxPhase, RxOps, StartRecv, LoadClosedEmpty, Recheck, NotifySender,
           LoadClosedSlice, AwaitData, DataNotified, ReloadSlice, CancelRecv, DropReceiver,
           DropReceiverNotify, rxVars
  <2>3. /\ sendWait' = sendWait /\ txPc' = txPc /\ txOp' = txOp /\ txResult' = txResult
    BY <1>1 DEF txVars
  <2> QED BY <1>2, <2>1, <2>2, <2>3 DEF TypeOK
<1>5. TxPhase' /\ SendAccounted'
  BY <1>1, <1>2 DEF TxPhase, SendAccounted, txVars
<1>6. RxPhase'
  BY DEF RxPhase, RxOps, StartRecv, LoadClosedEmpty, Recheck, NotifySender,
         LoadClosedSlice, AwaitData, DataNotified, ReloadSlice, CancelRecv, DropReceiver,
         DropReceiverNotify, rxVars
<1>7. ClosedByDrop' /\ ClosedMeansDrained'
  BY <1>1, <1>3 DEF ClosedByDrop, ClosedMeansDrained, StartRecv, LoadClosedEmpty, Recheck,
         NotifySender, LoadClosedSlice, AwaitData, DataNotified, ReloadSlice, CancelRecv,
         DropReceiver, DropReceiverNotify, rxVars, txVars
<1>8. RxTold' /\ ReceiverNotStuck'
  BY <1>1, <1>3 DEF RxTold, RxWatching, RxPhase, ClosedByDrop, ReceiverNotStuck, StartRecv,
         LoadClosedEmpty, Recheck, NotifySender, LoadClosedSlice, AwaitData, DataNotified,
         ReloadSlice, CancelRecv, DropReceiver, DropReceiverNotify, rxVars, txVars, recvNotify
<1>9. TxTold'
  BY <1>1, <1>3 DEF TxTold, TxWatching, ClosedByDrop, StartRecv,
         LoadClosedEmpty, Recheck, NotifySender, LoadClosedSlice, AwaitData, DataNotified,
         ReloadSlice, CancelRecv, DropReceiver, DropReceiverNotify, rxVars, txVars, sendNotify
<1> QED BY <1>2, <1>4, <1>5, <1>6, <1>7, <1>8, <1>9

\* Nothing happens.
LEMMA StutterStep ==
  ASSUME SInv, UNCHANGED vars
  PROVE  SInv'
<1> USE DEF SInv
<1>1. UNCHANGED <<data, closed, recvNotify, sendNotify, txVars, rxVars>>
  BY DEF vars, data, txVars
<1>2. TypeOK' /\ ValuesAreLast' /\ InOrder' /\ \A v : Queued(v)' <=> Queued(v)
  BY <1>1, DataKept DEF TypeOK, data, recvNotify, sendNotify, txVars, rxVars
<1>3. TxPhase' /\ RxPhase' /\ ClosedByDrop' /\ ClosedMeansDrained' /\ ReceiverNotStuck'
  BY <1>1 DEF data, recvNotify, sendNotify, txVars, rxVars, TxPhase, RxPhase, ClosedByDrop,
              ClosedMeansDrained, ReceiverNotStuck
<1>4. SendAccounted' /\ RxTold' /\ TxTold'
  BY <1>1, <1>2 DEF data, recvNotify, sendNotify, txVars, rxVars, SendAccounted, RxTold,
              TxTold, RxWatching, TxWatching
<1> QED BY <1>2, <1>3, <1>4

-----------------------------------------------------------------------------

\* The invariant holds in every reachable state.
LEMMA Invariance == Spec => []SInv
<1>1. Init => SInv
  <2> SUFFICES ASSUME Init PROVE SInv
    OBVIOUS
  <2>1. buffer = <<>> /\ values = <<>> /\ taken = <<>> /\ Through = <<>>
    BY DEF Init, Through
  <2>2. TypeOK
    <3>1. <<>> \in Seq(Message) /\ Len(<<>>) = 0
      BY EmptySeq
    <3>2. capacity \in Capacities /\ Len(buffer) <= capacity /\ 0 \in 0 .. Len(values)
      BY <2>1, <3>1, CapacityAssumption DEF Init
    <3>3. /\ buffer \in Seq(Message) /\ values \in Seq(Message) /\ taken \in Seq(Message)
          /\ offered \in Nat /\ want \in Nat /\ sent \in 0 .. Len(values)
          /\ got \in 0 .. (IF rxOp \in {"try_recv", "recv", "recv_last"} THEN 1 ELSE want)
      BY <2>1, <3>1, <3>2 DEF Init
    <3> QED BY <3>2, <3>3 DEF Init, TypeOK, RecvNotify!Init, SendNotify!Init
  <2>3. InOrder /\ SendAccounted /\ ValuesAreLast
    BY <2>1 DEF Init, InOrder, SendAccounted, ValuesAreLast
  <2> QED BY <2>2, <2>3 DEF Init, SInv, ClosedByDrop, TxPhase, TxIdle, RxPhase,
          ClosedMeansDrained, RxTold, RxWatching, TxTold, TxWatching, ReceiverNotStuck
<1>2. SInv /\ [Next]_vars => SInv'
  BY Steps, StartSendStep, PushStep, TxQuietStep, TakingStep, RxQuietStep, StutterStep
<1> QED BY <1>1, <1>2, PTL DEF Spec

\* The variables of the channel keep their types; in particular the ring buffer
\* never holds more than its capacity, and no call counts more values than it
\* was given.
THEOREM TypeCorrectness == Spec => []TypeOK
BY Invariance, PTL DEF SInv

\* Whatever mix of single, slice, refused and cancelled sends meets whatever
\* mix of receives, clears and drops: values leave the channel in the order in
\* which they were offered, and none twice.
THEOREM ValuesInOrder == Spec => []InOrder
BY Invariance, PTL DEF SInv

\* What a send reports to have pushed is what it did push, and a value that a
\* refused send hands back is not in the channel.
THEOREM SendsAreAccounted == Spec => []SendAccounted
BY Invariance, PTL DEF SInv

\* recv() returns None, and try_recv() Closed, only once the sender is gone and
\* everything it pushed has been taken.
THEOREM ClosedIsTheEnd == Spec => []ClosedMeansDrained
BY Invariance, PTL DEF SInv

\* A receiver that waits while there is a value or the sender is gone has a
\* permit, or the sender is about to give it one.
THEOREM ReceiverIsTold == Spec => []ReceiverNotStuck
BY Invariance, PTL DEF SInv

\* A sender that waits while there is room or the receiver is gone has a
\* permit, or the receiver is about to give it one.
THEOREM SenderIsTold == Spec => []SenderNotStuck
<1>1. SInv => SenderNotStuck
  <2> SUFFICES ASSUME SInv, txPc = "wait", ~IsFull \/ closed
               PROVE  sendPermit \/ rxPc \in {"notify", "drop"}
    BY DEF SenderNotStuck
  <2>1. Len(buffer) \in Nat /\ capacity \in Nat /\ Len(buffer) <= capacity
    BY DEF SInv, TypeOK
  <2>2. ~closed => Len(buffer) < capacity
    BY <2>1 DEF IsFull, FreeSlots
  <2> QED BY <2>2 DEF SInv, TxTold, TxWatching
<1> QED BY <1>1, Invariance, PTL

\* A push adds to the end of the ring.
LEMMA PushAppends ==
  ASSUME SInv, Push
  PROVE  Len(buffer') >= Len(buffer) /\ (buffer # <<>> => Peek' = Peek)
<1> DEFINE new == SubSeq(Remaining, 1, Least(FreeSlots, Len(Remaining)))
<1>1. buffer \in Seq(Message) /\ values \in Seq(Message) /\ sent \in 0 .. Len(values)
      /\ Len(buffer) \in Nat /\ capacity \in Nat /\ Len(buffer) <= capacity
  BY CapacityAssumption DEF SInv, TypeOK
<1>2. Remaining \in Seq(Message)
  BY <1>1, Split DEF Remaining
<1>3. new \in Seq(Message)
  <2>1. FreeSlots \in Nat /\ Len(Remaining) \in Nat
    BY <1>1, <1>2 DEF FreeSlots
  <2>2. Least(FreeSlots, Len(Remaining)) \in 0 .. Len(Remaining)
    BY <2>1, LeastOf
  <2> QED BY <1>2, <2>2, Split
<1>4. buffer' = buffer \o new
  BY DEF Push
<1> HIDE DEF new
<1>5. Len(buffer') = Len(buffer) + Len(new) /\ Len(new) \in Nat
  BY <1>1, <1>3, <1>4
<1>6. ASSUME buffer # <<>> PROVE Peek' = Peek
  <2>1. Len(buffer) >= 1 /\ Len(buffer') >= 1
    BY <1>1, <1>5, <1>6
  <2>2. SubSeq(buffer \o new, 1, 1) = SubSeq(buffer, 1, 1)
    BY <1>1, <1>3, <2>1, SubSeqOfConcat1
  <2>3. Peek = SubSeq(buffer, 1, 1) /\ Peek' = SubSeq(buffer', 1, 1)
    BY <1>1, <1>5, <2>1 DEF Peek, Least
  <2> QED BY <1>4, <2>2, <2>3
<1> QED BY <1>5, <1>6

\* What the queries told one end in its favour holds until that end acts, whatever
\* the other one does meanwhile.
THEOREM AnswersAreKept == Spec => AnswersKept
<1>1. SInv /\ [Next]_vars => [RoomKept /\ NextKept]_vars
  <2> SUFFICES ASSUME SInv, [Next]_vars PROVE RoomKept /\ NextKept
    OBVIOUS
  <2> USE DEF RoomKept, NextKept, FreeSlots, SenderIsEmpty, SenderLen, IsClosed, ReceiverLen, ReceiverIsEmpty
  <2>1. buffer \in Seq(Message) /\ Len(buffer) \in Nat /\ capacity \in Nat
    BY CapacityAssumption DEF SInv, TypeOK
  <2>2. CASE Push
    <3>1. txPc = "push" /\ buffer \in Seq(Message)
      BY <2>1, <2>2 DEF Push
    <3>2. Len(buffer) # 0 => buffer # <<>>
      BY <2>1
    <3> QED BY <2>2, <3>1, <3>2, PushAppends
  <2>3. CASE Taking
    <3>1. PICK m \in 0 .. Len(buffer) : buffer' = SubSeq(buffer, m + 1, Len(buffer))
      BY <2>3, TakingFrame DEF SInv
    <3>2. Len(buffer') = Len(buffer) - m
      BY <2>1, <3>1, Split
    <3>3. capacity' = capacity /\ closed' = closed
      BY <2>3, TakingFrame DEF SInv
    <3>4. rxPc \in {"pop", "repop", "pop_slice", "clear"}
      BY <2>3 DEF Taking, Pop, PopSlice, Clear
    <3>5. Len(buffer') <= Len(buffer) /\ (Len(buffer) = 0 => Len(buffer') = 0)
      BY <2>1, <3>2
    <3>6. capacity' - Len(buffer') >= capacity - Len(buffer)
      BY <2>1, <3>2, <3>3
    <3> QED BY <3>3, <3>4, <3>5, <3>6
  <2>4. CASE ~Push /\ ~Taking
    <3>1. UNCHANGED <<buffer, capacity>> /\ (closed => closed')
      <4>1. ASSUME NEW op \in TxOps, NEW k \in Nat, StartSend(op, k)
            PROVE  UNCHANGED <<buffer, capacity, closed>>
        BY <4>1 DEF StartSend
      <4>2. CASE TxQuiet
        BY <4>2, TxQuietFrame DEF data, TxQuiet, CheckClosed, LoadClosed, NotifyReceiver,
               AwaitRoom, RoomNotified, Reload, CancelSend, DropSender, DropSenderNotify, txVars
      <4>3. CASE RxQuiet
        BY <4>3, RxQuietFrame DEF data, RxQuiet, StartRecv, LoadClosedEmpty, Recheck,
               NotifySender, LoadClosedSlice, AwaitData, DataNotified, ReloadSlice, CancelRecv,
               DropReceiver, DropReceiverNotify, rxVars
      <4>4. CASE UNCHANGED vars
        BY <4>4 DEF vars
      <4> QED BY <2>4, <4>1, <4>2, <4>3, <4>4, Steps
    <3>2. Peek' = Peek
      BY <3>1 DEF Peek
    <3> QED BY <2>1, <3>1, <3>2
  <2> QED BY <2>2, <2>3, <2>4
<1> QED BY <1>1, Invariance, PTL DEF AnswersKept, Spec
=============================================================================
