--------------------------- MODULE LoomNotifyProofs ---------------------------
(***************************************************************************)
(* Proofs about LoomNotify, for any set of wakers.                         *)
(***************************************************************************)
EXTENDS LoomNotify, TLAPS

\* The inductive invariant: a waker in the slot has not been notified, and the
\* last poll of a pending future was by a waker.
NotNotified == waker # NoWaker => ~notified
LInv == TypeOK /\ Covered /\ NotNotified /\ (future = "pending" => cx \in Wakers)

\* The stand-in's state keeps its type, and a pending task is covered: its last
\* waker is stored as long as no notification is, and has been woken once one
\* is.  A second notification, a re-poll by another waker and a cancelled
\* future whose waker stays behind all keep it so.
LEMMA Invariance == Spec => []LInv
<1> USE WakersAssumption DEF LInv, TypeOK, Covered, NotNotified
<1>1. Init => LInv
  BY DEF Init
<1>2. LInv /\ [Next]_vars => LInv'
  <2> SUFFICES ASSUME LInv, [Next]_vars PROVE LInv'
    OBVIOUS
  <2>1. CASE NotifyOne
    BY <2>1 DEF NotifyOne
  <2>2. CASE NewFuture \/ DropFuture
    BY <2>2 DEF NewFuture, DropFuture
  <2>3. ASSUME NEW w \in Wakers, Poll(w) PROVE LInv'
    BY <2>3 DEF Poll
  <2>4. CASE UNCHANGED vars
    BY <2>4 DEF vars
  <2> QED BY <2>1, <2>2, <2>3, <2>4 DEF Next
<1> QED BY <1>1, <1>2, PTL DEF Spec

\* The variables of the stand-in keep their types, for any set of wakers.
THEOREM TypeCorrectness == Spec => []TypeOK
BY Invariance, PTL DEF LInv

\* No sequence of notifications, polls and cancellations leaves a pending task
\* without its waker stored or woken.
THEOREM TaskIsCovered == Spec => []Covered
BY Invariance, PTL DEF LInv

\* Every step of the stand-in is a step of Permit or a stutter, as NotifyProofs
\* shows of the real SingleWaiterNotify: in safety the loom tests of the channel
\* run over an object that behaves as the real one does.
THEOREM PermitSafety == Spec => P!Init /\ [][P!Next]_(P!vars)
<1> USE DEF P!Next, P!Notify, P!Begin, P!Complete, P!Cancel, P!vars, wait
<1>1. Init => P!Init
  BY DEF Init, P!Init
<1>2. LInv /\ [Next]_vars => [P!Next]_(P!vars)
  <2> SUFFICES ASSUME LInv, [Next]_vars PROVE [P!Next]_(P!vars)
    OBVIOUS
  <2> USE DEF LInv, TypeOK
  <2>1. CASE NotifyOne \/ NewFuture \/ DropFuture
    BY <2>1 DEF NotifyOne, NewFuture, DropFuture
  <2>2. ASSUME NEW w \in Wakers, Poll(w) PROVE [P!Next]_(P!vars)
    BY <2>2 DEF Poll
  <2>3. CASE UNCHANGED vars
    BY <2>3 DEF vars
  <2> QED BY <2>1, <2>2, <2>3 DEF Next
<1> QED BY <1>1, <1>2, Invariance, PTL DEF Spec
=============================================================================
