--------------------------------- MODULE Once ---------------------------------
(***************************************************************************)
(* What the oneshot channel promises a program: a slot for one value, in   *)
(* which either end can leave word instead that it is no longer            *)
(* interested.  A call begins, looks at the slot or changes it in atomic   *)
(* steps, and is answered in the step that decides the answer.  There is   *)
(* no cell, no waker and no reference count here.                          *)
(***************************************************************************)
CONSTANT Value  \* what is sent

VARIABLES keeps,     \* the slot keeps what it has answered the receiver with
          slot,      \* "empty", "full", or "closed" by the sender, or "shut" by
                     \* the receiver
          sender,    \* "open", the call in progress, "dropping", or "done"
          seen,      \* what the call has seen: "nothing", a slot that was not shut
                     \* ("open"), and after it the receiver ("there")
          payload,   \* what it was given to send
          fate,      \* what has come of it
          answer,    \* what the last is_closed() answered
          receiver,  \* "idle", the call in progress, "consumed", or "gone"
          awaiting,  \* a task awaits the receiver
          found,     \* the call has found the slot empty
          result,    \* what the last call answered
          received   \* and with which value

sendVars == <<sender, seen, payload, fate, answer>>
recvVars == <<receiver, awaiting, found, result, received>>
vars == <<keeps, slot, sendVars, recvVars>>

Init ==
  /\ keeps \in BOOLEAN /\ slot = "empty"
  /\ sender = "open" /\ seen = "nothing" /\ payload = "none" /\ fate = "open"
  /\ answer = "none"
  /\ receiver = "idle" /\ ~awaiting /\ ~found /\ result = "none" /\ received = "none"

-----------------------------------------------------------------------------
(* The sender *)

IsClosed ==
  /\ sender = "open" /\ sender' = "is_closed"
  /\ UNCHANGED <<keeps, slot, seen, payload, fate, answer, recvVars>>

Send(op) ==
  /\ sender = "open" /\ sender' = op
  /\ payload' \in Value
  /\ UNCHANGED <<keeps, slot, seen, fate, answer, recvVars>>

Drop ==
  /\ sender = "open" /\ sender' = "dropping"
  /\ fate' = "dropped"
  /\ UNCHANGED <<keeps, slot, seen, payload, answer, recvVars>>

\* is_closed() and send() look at the slot, and then for the receiver.
Look ==
  /\ sender \in {"is_closed", "send"}
  /\ \/ seen = "nothing" /\ slot # "shut" /\ seen' = "open"
     \/ seen = "open" /\ sender = "send" /\ receiver # "gone" /\ seen' = "there"
  /\ UNCHANGED <<keeps, slot, sender, payload, fate, answer, recvVars>>

\* One of the two looks finds that the receiver is not interested.
NotInterested == \/ seen = "nothing" /\ slot = "shut"
                 \/ seen = "open" /\ receiver = "gone"

AnswerIsClosed ==
  /\ sender = "is_closed" /\ sender' = "open" /\ seen' = "nothing"
  /\ \/ NotInterested /\ answer' = "yes"
     \/ seen = "open" /\ receiver # "gone" /\ answer' = "no"
  /\ UNCHANGED <<keeps, slot, payload, fate, recvVars>>

\* send() gives the value back; the sender is dropped.
Refuse ==
  /\ sender = "send" /\ sender' = "dropping" /\ seen' = "nothing"
  /\ NotInterested
  /\ fate' = "refused"
  /\ UNCHANGED <<keeps, slot, payload, answer, recvVars>>

\* send() has looked before it puts the value in the slot; send_unchecked() has
\* not.  Whatever word was there is replaced.
Put ==
  /\ sender = "send_unchecked" \/ (sender = "send" /\ seen = "there")
  /\ sender' = "done" /\ seen' = "nothing"
  /\ slot' = "full" /\ fate' = "sent"
  /\ UNCHANGED <<keeps, payload, answer, recvVars>>

LeaveWord ==
  /\ sender = "dropping" /\ sender' = "done"
  /\ slot' = "closed"
  /\ UNCHANGED <<keeps, seen, payload, fate, answer, recvVars>>

-----------------------------------------------------------------------------
(* The receiver *)

Receive(op) ==
  /\ receiver = "idle" /\ receiver' = op
  /\ awaiting' = (op = "poll")
  /\ result' = "none" /\ received' = "none"
  /\ UNCHANGED <<keeps, slot, found, sendVars>>

\* blocking_recv() takes the receiver with it.
Answer(r, v) ==
  /\ result' = r /\ received' = v
  /\ ~awaiting' /\ ~found'
  /\ receiver' = IF receiver = "blocking_recv" THEN "consumed" ELSE "idle"

Receives == {"try_recv", "poll", "blocking_recv"}

\* What is in the slot is what the receiver is told; it is told once, unless the
\* slot keeps it.
Take ==
  /\ receiver \in Receives
  /\ \/ slot = "full" /\ Answer("value", payload)
     \/ slot \in {"closed", "shut"} /\ Answer("closed", "none")
  /\ slot' = IF keeps THEN slot ELSE "empty"
  /\ UNCHANGED <<keeps, sendVars>>

AnswerEmpty ==
  /\ receiver = "try_recv" /\ slot = "empty"
  /\ Answer("empty", "none")
  /\ UNCHANGED <<keeps, slot, sendVars>>

\* The others go on.
FindEmpty ==
  /\ receiver \in {"poll", "blocking_recv"} /\ slot = "empty"
  /\ found'
  /\ UNCHANGED <<keeps, slot, sendVars, receiver, awaiting, result, received>>

\* They may then see the sender's word without taking it.
SeeClosed ==
  /\ found /\ slot = "closed"
  /\ Answer("closed", "none")
  /\ UNCHANGED <<keeps, slot, sendVars>>

\* Poll::Pending: the task goes on waiting.
AnswerPending ==
  /\ receiver = "poll" /\ found
  /\ receiver' = "idle" /\ ~found'
  /\ UNCHANGED <<keeps, slot, sendVars, awaiting, result, received>>

\* close(), whatever was in the slot.
Close ==
  /\ receiver = "idle"
  /\ slot' = "shut" /\ ~awaiting'
  /\ UNCHANGED <<keeps, sendVars, receiver, found, result, received>>

DropReceiver ==
  /\ receiver \in {"idle", "consumed"} /\ receiver' = "gone"
  /\ ~awaiting'
  /\ UNCHANGED <<keeps, slot, sendVars, found, result, received>>

-----------------------------------------------------------------------------

Next == \/ IsClosed \/ Drop \/ \E op \in {"send", "send_unchecked"} : Send(op)
        \/ Look \/ AnswerIsClosed \/ Refuse \/ Put \/ LeaveWord
        \/ \E op \in Receives : Receive(op)
        \/ Take \/ AnswerEmpty \/ FindEmpty \/ SeeClosed \/ AnswerPending
        \/ Close \/ DropReceiver

Spec == Init /\ [][Next]_vars
=============================================================================
