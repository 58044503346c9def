------------------------------- MODULE Channel -------------------------------
(***************************************************************************)
(* What the SPSC channel promises a program: a bounded queue with two      *)
(* ends.  A call begins, moves values between itself and the queue in      *)
(* steps that are atomic, and is answered in the step that decides the     *)
(* answer.  There is no flag, no notification and no waiting here: an end  *)
(* is closed because the other handle is gone, and a call that cannot be   *)
(* answered yet is one that has not been answered.                         *)
(***************************************************************************)
EXTENDS Naturals, Sequences

CONSTANT Value  \* what is sent

VARIABLES queue, capacity,
          given,       \* all that has left the queue, in the order it left
          sender,      \* "idle", the call in progress, or "gone"
          left,        \* the values of its call that are not in the queue yet
          admitted,    \* the call has seen the receiver there, for one attempt
          sendResult,  \* the answer to its last call
          receiver,
          room,        \* how many values the call may still take
          foundEmpty,  \* the call has seen the queue empty
          recvResult

sendVars == <<sender, left, admitted, sendResult>>
recvVars == <<receiver, room, foundEmpty, recvResult>>
queueVars == <<queue, capacity, given>>
vars == <<queueVars, sendVars, recvVars>>

Sends == {"try_send", "send", "try_send_slice", "send_slice"}
Receives == {"try_recv", "recv", "try_recv_slice", "recv_slice", "clear"}

Init ==
  /\ queue = <<>> /\ capacity \in Nat \ {0} /\ given = <<>>
  /\ sender = "idle" /\ left = <<>> /\ ~admitted /\ sendResult = "none"
  /\ receiver = "idle" /\ room = 0 /\ ~foundEmpty /\ recvResult = "none"

Fewer(a, b) == IF a < b THEN a ELSE b

-----------------------------------------------------------------------------
(* The sender *)

Sent(answer) == sender' = "idle" /\ sendResult' = answer /\ ~admitted'

\* A call begins.  A send_slice() of nothing is over at once.
Send(op) ==
  /\ sender = "idle"
  /\ left' \in Seq(Value)
  /\ op \in {"try_send", "send"} => Len(left') = 1
  /\ \/ sender' = op /\ sendResult' = "none" /\ UNCHANGED admitted
     \/ op = "send_slice" /\ left' = <<>> /\ Sent("ok")
  /\ UNCHANGED <<queueVars, recvVars>>

\* A call attempts nothing before it has seen the receiver there.
Admit ==
  /\ sender \in Sends /\ receiver # "gone"
  /\ admitted'
  /\ UNCHANGED <<queueVars, sender, left, sendResult, recvVars>>

\* As many values enter as there is room for.  If that is all of them the answer
\* is Ok; if not, the queue is full now, and a try_ call is answered.
Put ==
  /\ admitted
  /\ LET m == Fewer(capacity - Len(queue), Len(left)) IN
       /\ queue' = queue \o SubSeq(left, 1, m)
       /\ left' = SubSeq(left, m + 1, Len(left))
  /\ \/ left' = <<>> /\ Sent("ok")
     \/ left' # <<>> /\ sender = "try_send" /\ Sent("full")
     \/ left' # <<>> /\ sender = "try_send_slice" /\ Sent("ok")
     \/ /\ left' # <<>> /\ sender \in {"send", "send_slice"}
        /\ ~admitted' /\ UNCHANGED <<sender, sendResult>>
  /\ UNCHANGED <<capacity, given, recvVars>>

\* Closed, only with the receiver gone; try_send_slice() says that it sent none.
Refuse ==
  /\ sender \in Sends /\ receiver = "gone"
  /\ Sent(IF sender = "try_send_slice" THEN "ok" ELSE "closed")
  /\ UNCHANGED <<queueVars, left, recvVars>>

\* The future is dropped, and what has not entered the queue with it.
CancelSend ==
  /\ sender \in {"send", "send_slice"}
  /\ Sent("cancelled")
  /\ UNCHANGED <<queueVars, left, recvVars>>

DropSender ==
  /\ sender = "idle" /\ sender' = "gone"
  /\ UNCHANGED <<queueVars, left, admitted, sendResult, recvVars>>

-----------------------------------------------------------------------------
(* The receiver *)

Received(answer) == receiver' = "idle" /\ recvResult' = answer /\ ~foundEmpty'

\* A call begins.  A recv_slice() of nothing is over at once.
Receive(op) ==
  /\ receiver = "idle"
  /\ room' \in Nat
  /\ op \in {"try_recv", "recv"} => room' = 1
  /\ \/ receiver' = op /\ recvResult' = "none" /\ UNCHANGED foundEmpty
     \/ op = "recv_slice" /\ room' = 0 /\ Received("count")
  /\ UNCHANGED <<queueVars, sendVars>>

\* The first m values leave the queue, for the call in progress.
Take(m) == /\ given' = given \o SubSeq(queue, 1, m)
           /\ queue' = SubSeq(queue, m + 1, Len(queue))
           /\ UNCHANGED <<capacity, sendVars>>

TakeOne ==
  /\ receiver \in {"try_recv", "recv"} /\ queue # <<>>
  /\ Take(1) /\ room' = 0
  /\ Received("some")

\* Empty: the queue was, at some moment of the call, and the sender is there.
FindEmpty ==
  /\ receiver = "try_recv" /\ queue = <<>>
  /\ foundEmpty'
  /\ UNCHANGED <<queueVars, sendVars, receiver, room, recvResult>>

AnswerEmpty ==
  /\ foundEmpty /\ sender # "gone"
  /\ Received("empty")
  /\ UNCHANGED <<queueVars, sendVars, room>>

\* Closed, or None: the queue is empty and the sender is gone, at once.
AnswerClosed ==
  /\ receiver \in {"try_recv", "recv"} /\ queue = <<>> /\ sender = "gone"
  /\ Received("closed")
  /\ UNCHANGED <<queueVars, sendVars, room>>

\* As many values leave as there are and the call wants.  recv_slice() is
\* answered when it has all it wants, or with less once the sender is gone.
TakeSlice ==
  /\ receiver \in {"try_recv_slice", "recv_slice"}
  /\ LET m == Fewer(Len(queue), room) IN Take(m) /\ room' = room - m
  /\ \/ /\ receiver = "try_recv_slice" \/ room' = 0 \/ sender = "gone"
        /\ Received("count")
     \/ receiver = "recv_slice" /\ UNCHANGED <<receiver, foundEmpty, recvResult>>

\* It may then be answered without another look at the queue.
EndSlice ==
  /\ receiver = "recv_slice" /\ sender = "gone"
  /\ Received("count")
  /\ UNCHANGED <<queueVars, sendVars, room>>

Clear ==
  /\ receiver = "clear"
  /\ Take(Len(queue))
  /\ Received("none")
  /\ UNCHANGED room

\* The future is dropped.  A recv() that has taken a value has been answered, so
\* no value is lost with it.
CancelReceive ==
  /\ receiver \in {"recv", "recv_slice"}
  /\ Received("cancelled")
  /\ UNCHANGED <<queueVars, sendVars, room>>

DropReceiver ==
  /\ receiver = "idle" /\ receiver' = "gone"
  /\ UNCHANGED <<queueVars, sendVars, room, foundEmpty, recvResult>>

-----------------------------------------------------------------------------

Next == \/ \E op \in Sends : Send(op)
        \/ Admit \/ Put \/ Refuse \/ CancelSend \/ DropSender
        \/ \E op \in Receives : Receive(op)
        \/ TakeOne \/ FindEmpty \/ AnswerEmpty \/ AnswerClosed \/ TakeSlice \/ EndSlice
        \/ Clear \/ CancelReceive \/ DropReceiver

Spec == Init /\ [][Next]_vars
=============================================================================
