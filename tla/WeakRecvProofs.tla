--------------------------- MODULE WeakRecvProofs ---------------------------
(***************************************************************************)
(* Proofs about WeakRecv, for any number of values and any number of polls *)
(* for no reason.  What rests on Release and Acquire alone is proved for   *)
(* either value of LockedRMW.                                              *)
(***************************************************************************)
EXTENDS WeakRecv, TLAPS

USE BoundsAssumption, LockedRMWAssumption
USE DEF EMPTY, WAITING, NOTIFIED, Newest

-----------------------------------------------------------------------------
(* The memory *)

Thread == {"tx", "rx"}
View == [Location -> Nat]
Val == Nat \union BOOLEAN \union {EMPTY, WAITING, NOTIFIED}
Message == [val : Val, view : View]

\* A view names messages that are there.
InMem(v, m) == v \in View /\ \A l \in Location : v[l] \in 1..Len(m[l])

MemoryOK ==
  /\ mem \in [Location -> Seq(Message)]
  /\ \A l \in Location : \A i \in 1..Len(mem[l]) : InMem(mem[l][i].view, mem)
  /\ \A l \in Location : Len(mem[l]) >= 1
  /\ view \in [Thread -> View] /\ \A t \in Thread : InMem(view[t], mem)
  /\ InMem(barrier, mem) /\ InMem(wokenView, mem)

\* What the messages of each location say.
Contents ==
  /\ \A i \in 1..Newest("tail") : mem["tail"][i].val = i - 1
  /\ Newest("closed") <= 2
  /\ mem["closed"][1].val = FALSE
  /\ Newest("closed") = 2 => mem["closed"][2].val = TRUE
  /\ \A i \in 1..Newest("state") : mem["state"][i].val \in {EMPTY, WAITING, NOTIFIED}
  /\ \A i \in 1..Newest("waker") : mem["waker"][i].val \in BOOLEAN

Control ==
  /\ txPc \in {"idle", "notify", "notify last", "wake", "gone"}
  /\ rxPc \in {"pop", "repop", "load", "recheck", "register", "state?", "exchange",
               "exchanged?", "pending", "polled?", "consume", "drop", "gone"}
  /\ woken \in BOOLEAN /\ taken \in Nat /\ taken < Newest("tail")
  /\ txPc \in {"idle", "notify"} => Newest("closed") = 1
  /\ txPc \in {"notify last", "gone"} => Newest("closed") = 2

-----------------------------------------------------------------------------
(***************************************************************************)
(* The inductive invariant.  A notification is out while the state is      *)
(* NOTIFIED; everything the sender has done and notified before is         *)
(* announced.                                                              *)
(***************************************************************************)

Told == Latest("state") = NOTIFIED

\* The sender sees its own writes, and its last notification; who acquires the
\* flag sees all that was pushed.
SenderKnows ==
  /\ view["tx"]["tail"] = Newest("tail") /\ view["tx"]["closed"] = Newest("closed")
  /\ Told => view["tx"]["state"] = Newest("state")
  /\ Newest("closed") = 2 => mem["closed"][2].view["tail"] = Newest("tail")

\* All the receiver has not seen of the state are notifications.
ReceiverKnows ==
  \A i \in 1..Newest("state") : i > view["rx"]["state"] => mem["state"][i].val = NOTIFIED

\* The last attempt is made with all that was pushed in view.
LastAttempt ==
  /\ rxPc \in {"repop", "gone"} => Newest("closed") = 2
  /\ rxPc = "repop" => view["rx"]["tail"] = Newest("tail")
  /\ rxPc = "gone" => taken + 1 = Newest("tail")

\* A view with all that was announced.
Announced(v) ==
  /\ v["tail"] = Newest("tail") \/ (txPc = "notify" /\ v["tail"] + 1 = Newest("tail"))
  /\ v["closed"] = Newest("closed") \/ txPc = "notify last"

\* The barrier of every notification; the drop of the future, which is a
\* barrier too, brings it to the receiver before it looks at the ring again.
BarrierCovers == Announced(barrier)
ReceiverSees == ~Told /\ rxPc # "drop" => Announced(view["rx"])

\* A receiver on its way to wait has taken all that was announced, and found the
\* flag not set, unless there is a notification.
Emptied == {"load", "recheck", "register", "state?", "exchange", "exchanged?", "pending",
            "polled?"}
FoundEmpty == ~Told /\ rxPc \in Emptied =>
                taken + 1 = Newest("tail") \/ (txPc = "notify" /\ taken + 2 = Newest("tail"))
FoundOpen == ~Told /\ rxPc \in Emptied \ {"load"} =>
               Newest("closed") = 1 \/ txPc = "notify last"

\* WAITING is the last the receiver has seen of the state.
SeesWaiting == mem["state"][view["rx"]["state"]].val = WAITING

\* Once a notification has replaced WAITING, and its wake has been through, the
\* next registration sees it.
WakeTells ==
  SeesWaiting /\ Latest("state") # WAITING /\ txPc # "wake" =>
    mem["waker"][Newest("waker")].view["state"] > view["rx"]["state"]

\* From the registration on, the waker is in its place or has been woken ...
Registered == rxPc \in {"state?", "exchange", "exchanged?", "pending"} =>
                Latest("waker") \/ woken

\* ... and it is not forgotten: the receiver that goes by a WAITING it has seen
\* earlier, or that waits, is woken by the notification that replaces it.
Owed == woken \/ Latest("state") = WAITING \/ txPc = "wake"
StillWaiting == rxPc \in {"state?", "exchange"} /\ SeesWaiting => Owed
WaitIsOwed == rxPc \in {"exchanged?", "pending"} => Owed

ReceiveInv == /\ MemoryOK /\ Contents /\ Control /\ SenderKnows /\ ReceiverKnows
              /\ LastAttempt /\ WakeTells /\ Registered /\ StillWaiting /\ WaitIsOwed

LockedInv == BarrierCovers /\ ReceiverSees /\ FoundEmpty /\ FoundOpen

-----------------------------------------------------------------------------
(* The operations on the memory *)

LEMMA LaterFacts ==
  ASSUME NEW m, NEW v, NEW w, InMem(v, m), InMem(w, m)
  PROVE  /\ InMem(Later(v, w), m)
         /\ \A l \in Location : Later(v, w)[l] >= v[l] /\ Later(v, w)[l] >= w[l]
BY DEF InMem, View, Later

LEMMA FencedFacts ==
  ASSUME MemoryOK, NEW t \in Thread
  PROVE  /\ InMem(Fenced(t), mem)
         /\ \A l \in Location : Fenced(t)[l] >= view[t][l]
         /\ LockedRMW => \A l \in Location : Fenced(t)[l] >= barrier[l]
<1>1. InMem(view[t], mem) /\ InMem(barrier, mem)
  BY DEF MemoryOK
<1>2. \A l \in Location : view[t][l] >= view[t][l]
  BY <1>1 DEF InMem, View
<1> QED BY <1>1, <1>2, LaterFacts DEF Fenced

\* Thread t appends to location l a message of x, and of its own view, which is now v.
Appends(t, l, x, v) ==
  /\ Len(mem'[l]) = Len(mem[l]) + 1
  /\ \A i \in 1..Len(mem[l]) : mem'[l][i] = mem[l][i]
  /\ mem'[l][Len(mem[l]) + 1] = [val |-> x, view |-> v]
  /\ \A k \in Location \ {l} : mem'[k] = mem[k]
  /\ view'[t] = v /\ \A u \in Thread \ {t} : view'[u] = view[u]

LEMMA WriteFacts ==
  ASSUME MemoryOK, NEW t \in Thread, NEW l \in Location, NEW x \in Val, NEW seen,
         InMem(seen, mem), Write(t, l, x, seen)
  PROVE  /\ Appends(t, l, x, [seen EXCEPT ![l] = Len(mem[l]) + 1])
         /\ mem' \in [Location -> Seq(Message)]
         /\ view' \in [Thread -> View]
         /\ InMem([seen EXCEPT ![l] = Len(mem[l]) + 1], mem')
         /\ \A v : InMem(v, mem) => InMem(v, mem')
<1> DEFINE v == [seen EXCEPT ![l] = Len(mem[l]) + 1]
           new == [val |-> x, view |-> v]
<1>1. mem \in [Location -> Seq(Message)] /\ view \in [Thread -> View]
  BY DEF MemoryOK
<1>2. mem[l] \in Seq(Message) /\ Len(mem[l]) \in Nat
  BY <1>1
<1>3. v \in View /\ new \in Message
  <2>1. seen \in [Location -> Nat] /\ Len(mem[l]) + 1 \in Nat
    BY <1>2 DEF InMem, View
  <2>2. v \in [Location -> Nat]
    BY <2>1
  <2> HIDE DEF v
  <2> QED BY <2>2 DEF View, Message
<1>4. /\ mem' = [mem EXCEPT ![l] = Append(mem[l], new)]
      /\ view' = [view EXCEPT ![t] = v]
  BY <1>1 DEF Write
<1> HIDE DEF v, new
<1>5. Append(mem[l], new) \in Seq(Message)
  BY <1>2, <1>3
<1>6. mem'[l] = Append(mem[l], new) /\ \A k \in Location \ {l} : mem'[k] = mem[k]
  BY <1>1, <1>4
<1>7. mem' \in [Location -> Seq(Message)] /\ view' \in [Thread -> View]
  BY <1>1, <1>3, <1>4, <1>5
<1>8. /\ Len(mem'[l]) = Len(mem[l]) + 1 /\ mem'[l][Len(mem[l]) + 1] = new
      /\ \A i \in 1..Len(mem[l]) : mem'[l][i] = mem[l][i]
  BY <1>2, <1>3, <1>6
<1>9. ASSUME NEW k \in Location
      PROVE  Len(mem[k]) \in Nat /\ Len(mem'[k]) \in Nat /\ Len(mem[k]) <= Len(mem'[k])
  <2>1. mem[k] \in Seq(Message) /\ mem'[k] \in Seq(Message)
    BY <1>1, <1>7
  <2>2. Len(mem[k]) \in Nat /\ Len(mem'[k]) \in Nat
    BY <2>1
  <2>3. CASE k = l
    BY <1>8, <2>2, <2>3
  <2>4. CASE k # l
    BY <1>6, <2>2, <2>4
  <2> QED BY <2>2, <2>3, <2>4
<1>10. ASSUME NEW w, InMem(w, mem) PROVE InMem(w, mem')
  <2>1. \A k \in Location : w[k] \in Nat /\ 1 <= w[k] /\ w[k] <= Len(mem[k])
    BY <1>9, <1>10 DEF InMem
  <2>2. \A k \in Location : w[k] \in 1..Len(mem'[k])
    BY <1>9, <2>1
  <2> QED BY <1>10, <2>2 DEF InMem
<1>11. InMem(v, mem')
  <2>1. \A k \in Location : seen[k] \in 1..Len(mem'[k])
    BY <1>10 DEF InMem
  <2>2. \A k \in Location : v[k] = IF k = l THEN Len(mem[l]) + 1 ELSE seen[k]
    BY DEF v, InMem, View
  <2> QED BY <1>2, <1>3, <1>8, <2>1, <2>2 DEF InMem
<1>12. Appends(t, l, x, v)
  BY <1>1, <1>3, <1>4, <1>6, <1>8 DEF Appends, new
<1> QED BY <1>7, <1>10, <1>11, <1>12 DEF v

LEMMA WriteMemory ==
  ASSUME MemoryOK, NEW t \in Thread, NEW l \in Location, NEW x \in Val, NEW seen,
         InMem(seen, mem), Write(t, l, x, seen), InMem(barrier', mem'), InMem(wokenView', mem')
  PROVE  MemoryOK'
<1> DEFINE v == [seen EXCEPT ![l] = Len(mem[l]) + 1]
<1>1. /\ Appends(t, l, x, v)
      /\ mem' \in [Location -> Seq(Message)] /\ view' \in [Thread -> View]
      /\ InMem(v, mem') /\ \A w : InMem(w, mem) => InMem(w, mem')
  BY WriteFacts
<1> HIDE DEF v
<1>2. \A k \in Location : Len(mem[k]) \in Nat /\ Len(mem[k]) >= 1
  BY DEF MemoryOK
<1>3. \A k \in Location : Len(mem'[k]) >= 1
  BY <1>1, <1>2 DEF Appends
<1>4. \A u \in Thread : InMem(view'[u], mem')
  BY <1>1 DEF Appends, MemoryOK
<1>5. ASSUME NEW k \in Location, NEW i \in 1..Len(mem'[k])
      PROVE  InMem(mem'[k][i].view, mem')
  <2>1. CASE k = l /\ i = Len(mem[l]) + 1
    BY <1>1, <2>1 DEF Appends
  <2>2. CASE ~(k = l /\ i = Len(mem[l]) + 1)
    <3>1. CASE k = l
      <4>1. i \in 1..Len(mem[l]) /\ mem'[k][i] = mem[l][i]
        BY <1>1, <1>2, <1>5, <2>2, <3>1 DEF Appends
      <4> QED BY <1>1, <3>1, <4>1 DEF MemoryOK
    <3>2. CASE k # l
      BY <1>1, <3>2 DEF Appends, MemoryOK
    <3> QED BY <3>1, <3>2
  <2> QED BY <2>1, <2>2
<1> QED BY <1>1, <1>3, <1>4, <1>5 DEF MemoryOK

\* A load, or an exchange that fails, changes no message.
LEMMA ReadMemory ==
  ASSUME MemoryOK, mem' = mem, NEW t \in Thread, NEW v, InMem(v, mem),
         view' = [view EXCEPT ![t] = v], InMem(barrier', mem), wokenView' = wokenView
  PROVE  /\ MemoryOK'
         /\ view'[t] = v /\ \A u \in Thread \ {t} : view'[u] = view[u]
<1>1. v \in View /\ view \in [Thread -> View]
  BY DEF InMem, MemoryOK
<1>2. view' \in [Thread -> View] /\ view'[t] = v /\ \A u \in Thread \ {t} : view'[u] = view[u]
  BY <1>1
<1>3. \A u \in Thread : InMem(view'[u], mem)
  BY <1>2 DEF MemoryOK
<1> QED BY <1>2, <1>3 DEF MemoryOK

-----------------------------------------------------------------------------
(* Every step keeps the invariant.  First, the memory in numbers. *)

LEMMA Sizes ==
  ASSUME MemoryOK
  PROVE  /\ \A l \in Location : Len(mem[l]) \in Nat /\ Len(mem[l]) >= 1
         /\ \A t \in Thread, l \in Location :
              view[t][l] \in Nat /\ 1 <= view[t][l] /\ view[t][l] <= Len(mem[l])
         /\ \A l \in Location :
              barrier[l] \in Nat /\ 1 <= barrier[l] /\ barrier[l] <= Len(mem[l])
         /\ \A k \in Location : \A i \in 1..Len(mem[k]) : \A l \in Location :
              /\ mem[k][i].view[l] \in Nat /\ 1 <= mem[k][i].view[l]
              /\ mem[k][i].view[l] <= Len(mem[l])
<1>1. \A l \in Location : mem[l] \in Seq(Message)
  BY DEF MemoryOK
<1>2. \A l \in Location : Len(mem[l]) \in Nat
  BY <1>1
<1>3. \A v : InMem(v, mem) =>
        \A l \in Location : v[l] \in Nat /\ 1 <= v[l] /\ v[l] <= Len(mem[l])
  BY <1>2 DEF InMem
<1> HIDE DEF InMem
<1> QED BY <1>2, <1>3 DEF MemoryOK

\* What a write of t into l does to sizes, values and views.
LEMMA Numbers ==
  ASSUME MemoryOK, NEW t \in Thread, NEW l \in Location, NEW x \in Val, NEW seen,
         InMem(seen, mem), Write(t, l, x, seen)
  PROVE  /\ Len(mem'[l]) = Len(mem[l]) + 1
         /\ \A i \in 1..Len(mem[l]) : mem'[l][i] = mem[l][i]
         /\ mem'[l][Len(mem[l]) + 1].val = x
         /\ mem'[l][Len(mem[l]) + 1].view = view'[t]
         /\ \A k \in Location \ {l} : mem'[k] = mem[k]
         /\ view'[t][l] = Len(mem[l]) + 1
         /\ \A k \in Location \ {l} : view'[t][k] = seen[k]
         /\ \A u \in Thread \ {t} : view'[u] = view[u]
<1>1. Appends(t, l, x, [seen EXCEPT ![l] = Len(mem[l]) + 1])
  BY WriteFacts
<1>2. seen \in [Location -> Nat]
  BY DEF InMem, View
<1> QED BY <1>1, <1>2 DEF Appends

\* The last messages of the ring and of the flag.
LEMMA Ends ==
  ASSUME MemoryOK, Contents
  PROVE  /\ Latest("tail") = Len(mem["tail"]) - 1
         /\ Len(mem["closed"]) \in {1, 2}
         /\ Latest("closed") = TRUE <=> Len(mem["closed"]) = 2
         /\ Latest("closed") = FALSE <=> Len(mem["closed"]) = 1
         /\ Latest("state") \in {EMPTY, WAITING, NOTIFIED}
         /\ Latest("waker") \in BOOLEAN
<1>1. \A l \in Location : Len(mem[l]) \in Nat /\ Len(mem[l]) >= 1
  BY Sizes
<1>2. \A l \in Location : Len(mem[l]) \in 1..Len(mem[l])
  BY <1>1
<1>3. Len(mem["closed"]) \in {1, 2}
  <2>1. Len(mem["closed"]) \in Nat /\ Len(mem["closed"]) >= 1
    BY <1>1 DEF Location
  <2>2. Len(mem["closed"]) <= 2
    BY DEF Contents
  <2>3. \A n \in Nat : n >= 1 /\ n <= 2 => n \in {1, 2}
    OBVIOUS
  <2> QED BY <2>1, <2>2, <2>3
<1>4. Len(mem["closed"]) = 1 => Latest("closed") = FALSE
  BY DEF Contents, Latest
<1>5. Len(mem["closed"]) = 2 => Latest("closed") = TRUE
  BY DEF Contents, Latest
<1>6. Latest("tail") = Len(mem["tail"]) - 1
  BY <1>2 DEF Contents, Latest, Location
<1>7. Latest("state") \in {EMPTY, WAITING, NOTIFIED}
  BY <1>2 DEF Contents, Latest, Location
<1>8. Latest("waker") \in BOOLEAN
  BY <1>2 DEF Contents, Latest, Location
<1> QED BY <1>3, <1>4, <1>5, <1>6, <1>7, <1>8

LEMMA PushStep ==
  ASSUME ReceiveInv, Push
  PROVE  ReceiveInv' /\ (LockedInv => LockedInv')
<1> USE DEF ReceiveInv, Push, Release
<1>1. /\ Len(mem["tail"]) \in Nat /\ Len(mem["tail"]) >= 1 /\ Latest("tail") = Len(mem["tail"]) - 1
      /\ Len(mem["closed"]) \in Nat /\ Len(mem["state"]) \in Nat /\ Len(mem["waker"]) \in Nat
      /\ view["rx"]["tail"] \in Nat /\ barrier["tail"] \in Nat
  <2>1. /\ Len(mem["tail"]) \in Nat /\ Len(mem["tail"]) >= 1
        /\ Len(mem["closed"]) \in Nat /\ Len(mem["state"]) \in Nat /\ Len(mem["waker"]) \in Nat
        /\ view["rx"]["tail"] \in Nat /\ barrier["tail"] \in Nat
    BY Sizes DEF Location, Thread
  <2> QED BY <2>1, Ends
<1>2. Latest("tail") + 1 \in Val /\ InMem(view["tx"], mem)
  BY <1>1 DEF Val, MemoryOK, Thread
<1>3. /\ Len(mem'["tail"]) = Len(mem["tail"]) + 1
      /\ \A i \in 1..Len(mem["tail"]) : mem'["tail"][i] = mem["tail"][i]
      /\ mem'["tail"][Len(mem["tail"]) + 1].val = Len(mem["tail"])
      /\ mem'["closed"] = mem["closed"] /\ mem'["state"] = mem["state"]
      /\ mem'["waker"] = mem["waker"]
      /\ view'["tx"]["tail"] = Len(mem["tail"]) + 1
      /\ view'["tx"]["closed"] = view["tx"]["closed"]
      /\ view'["tx"]["state"] = view["tx"]["state"]
      /\ view'["rx"] = view["rx"]
  BY <1>1, <1>2, Numbers DEF Location, Thread
<1>4. MemoryOK'
  BY <1>2, WriteFacts, WriteMemory DEF MemoryOK, Location, Thread
<1>5. /\ txPc = "idle" /\ txPc' = "notify"
      /\ rxPc' = rxPc /\ woken' = woken /\ taken' = taken /\ barrier' = barrier
  OBVIOUS
<1> HIDE DEF Push
<1>6. Contents' /\ Control'
  <2>1. ASSUME NEW i \in 1..Len(mem'["tail"]) PROVE mem'["tail"][i].val = i - 1
    <3>1. CASE i = Len(mem["tail"]) + 1
      BY <1>1, <1>3, <3>1
    <3>2. CASE i # Len(mem["tail"]) + 1
      <4>1. i \in 1..Len(mem["tail"])
        BY <1>1, <1>3, <3>2
      <4> QED BY <1>3, <4>1 DEF Contents
    <3> QED BY <3>1, <3>2
  <2>2. Contents'
    BY <1>3, <2>1 DEF Contents
  <2>3. Control'
    BY <1>1, <1>3, <1>5 DEF Control
  <2> QED BY <2>2, <2>3
<1>7. SenderKnows' /\ ReceiverKnows' /\ LastAttempt'
  BY <1>1, <1>3, <1>5 DEF SenderKnows, ReceiverKnows, LastAttempt, Told, Latest, Control
<1>8. WakeTells' /\ Registered' /\ StillWaiting' /\ WaitIsOwed'
  BY <1>3, <1>5 DEF WakeTells, Registered, StillWaiting, WaitIsOwed, Owed, SeesWaiting, Latest
<1>9. LockedInv => LockedInv'
  BY <1>1, <1>3, <1>5 DEF LockedInv, BarrierCovers, ReceiverSees, FoundEmpty, FoundOpen,
                          Announced, Told, Latest, Control
<1> QED BY <1>4, <1>6, <1>7, <1>8, <1>9

LEMMA DropSenderStep ==
  ASSUME ReceiveInv, DropSender
  PROVE  ReceiveInv' /\ (LockedInv => LockedInv')
<1> USE DEF ReceiveInv
<1>1. /\ Write("tx", "closed", TRUE, view["tx"]) /\ Latest("closed") # TRUE
      /\ txPc = "idle" /\ txPc' = "notify last"
      /\ rxPc' = rxPc /\ woken' = woken /\ wokenView' = wokenView /\ taken' = taken
      /\ barrier' = barrier
  BY DEF DropSender, Release
<1>2. /\ Len(mem["tail"]) \in Nat /\ Len(mem["closed"]) = 1
      /\ Len(mem["state"]) \in Nat /\ Len(mem["waker"]) \in Nat
  <2>1. Len(mem["tail"]) \in Nat /\ Len(mem["state"]) \in Nat /\ Len(mem["waker"]) \in Nat
    BY Sizes DEF Location
  <2>2. Len(mem["closed"]) = 1
    BY <1>1, Ends
  <2> QED BY <2>1, <2>2
<1>3. TRUE \in Val /\ InMem(view["tx"], mem)
  BY DEF Val, MemoryOK, Thread
<1>4. /\ Len(mem'["closed"]) = 2
      /\ mem'["closed"][1] = mem["closed"][1]
      /\ mem'["closed"][2].val = TRUE /\ mem'["closed"][2].view = view'["tx"]
      /\ mem'["tail"] = mem["tail"] /\ mem'["state"] = mem["state"]
      /\ mem'["waker"] = mem["waker"]
      /\ view'["tx"]["closed"] = 2
      /\ view'["tx"]["tail"] = view["tx"]["tail"]
      /\ view'["tx"]["state"] = view["tx"]["state"]
      /\ view'["rx"] = view["rx"]
  <2>1. /\ "tx" \in Thread /\ "rx" \in Thread \ {"tx"} /\ "closed" \in Location
        /\ {"tail", "state", "waker"} \subseteq Location \ {"closed"}
    BY DEF Location, Thread
  <2>2. /\ Len(mem'["closed"]) = Len(mem["closed"]) + 1
        /\ \A i \in 1..Len(mem["closed"]) : mem'["closed"][i] = mem["closed"][i]
        /\ mem'["closed"][Len(mem["closed"]) + 1].val = TRUE
        /\ mem'["closed"][Len(mem["closed"]) + 1].view = view'["tx"]
        /\ \A k \in Location \ {"closed"} : mem'[k] = mem[k]
        /\ view'["tx"]["closed"] = Len(mem["closed"]) + 1
        /\ \A k \in Location \ {"closed"} : view'["tx"][k] = view["tx"][k]
        /\ \A u \in Thread \ {"tx"} : view'[u] = view[u]
    BY <1>1, <1>3, <2>1, Numbers
  <2>3. Len(mem["closed"]) + 1 = 2 /\ 1 \in 1..Len(mem["closed"])
    BY <1>2
  <2> QED BY <2>1, <2>2, <2>3, Zenon
<1>5. MemoryOK'
  <2>1. "tx" \in Thread /\ "closed" \in Location
    BY DEF Location, Thread
  <2>2. InMem(barrier, mem) /\ InMem(wokenView, mem)
    BY DEF MemoryOK
  <2>3. InMem(barrier', mem') /\ InMem(wokenView', mem')
    BY <1>1, <1>3, <2>1, <2>2, WriteFacts
  <2> QED BY <1>1, <1>3, <2>1, <2>3, WriteMemory
<1>6. Contents' /\ Control'
  <2>1. Contents'
    BY <1>2, <1>4 DEF Contents
  <2>2. Control'
    BY <1>1, <1>2, <1>4 DEF Control
  <2> QED BY <2>1, <2>2
<1>7. SenderKnows' /\ ReceiverKnows' /\ LastAttempt'
  BY <1>1, <1>2, <1>4 DEF SenderKnows, ReceiverKnows, LastAttempt, Told, Latest, Control
<1>8. WakeTells' /\ Registered' /\ StillWaiting' /\ WaitIsOwed'
  BY <1>1, <1>4 DEF WakeTells, Registered, StillWaiting, WaitIsOwed, Owed, SeesWaiting, Latest
<1>9. LockedInv => LockedInv'
  BY <1>1, <1>2, <1>4 DEF LockedInv, BarrierCovers, ReceiverSees, FoundEmpty, FoundOpen,
                          Announced, Told, Latest, Control
<1> QED BY <1>5, <1>6, <1>7, <1>8, <1>9

\* What a swap does to sizes and values, what the thread sees as it swaps, and the
\* barrier that the swap leaves.
Swapped(t, l, x) ==
  /\ Len(mem'[l]) = Len(mem[l]) + 1
  /\ \A i \in 1..Len(mem[l]) : mem'[l][i] = mem[l][i]
  /\ mem'[l][Len(mem[l]) + 1].val = x
  /\ mem'[l][Len(mem[l]) + 1].view = view'[t]
  /\ \A k \in Location \ {l} : mem'[k] = mem[k]
  /\ view'[t][l] = Len(mem[l]) + 1
  /\ \A k \in Location \ {l} :
       /\ view'[t][k] \in Nat /\ view'[t][k] <= Len(mem[k])
       /\ view'[t][k] >= view[t][k]
       /\ view'[t][k] >= mem[l][Len(mem[l])].view[k]
       /\ LockedRMW => view'[t][k] >= barrier[k]
  /\ \A u \in Thread \ {t} : view'[u] = view[u]
  /\ LockedRMW => barrier' = view'[t]

LEMMA SwapFacts ==
  ASSUME MemoryOK, NEW t \in Thread, NEW l \in Location, NEW x \in Val, Swap(t, l, x),
         wokenView' = wokenView \/ wokenView' = view'[t]
  PROVE  MemoryOK' /\ Swapped(t, l, x)
<1> DEFINE last == mem[l][Len(mem[l])].view
           seen == Later(Fenced(t), last)
<1>1. Len(mem[l]) \in 1..Len(mem[l])
  BY Sizes
<1>2. InMem(last, mem) /\ InMem(Fenced(t), mem)
  BY <1>1, FencedFacts DEF MemoryOK
<1>3. /\ InMem(seen, mem)
      /\ \A k \in Location : seen[k] >= Fenced(t)[k] /\ seen[k] >= last[k]
  BY <1>2, LaterFacts
<1>4. Write(t, l, x, seen) /\ barrier' = IF LockedRMW THEN view'[t] ELSE barrier
  BY DEF Swap
<1> HIDE DEF seen
<1>5. /\ Len(mem'[l]) = Len(mem[l]) + 1
      /\ \A i \in 1..Len(mem[l]) : mem'[l][i] = mem[l][i]
      /\ mem'[l][Len(mem[l]) + 1].val = x
      /\ mem'[l][Len(mem[l]) + 1].view = view'[t]
      /\ \A k \in Location \ {l} : mem'[k] = mem[k]
      /\ view'[t][l] = Len(mem[l]) + 1
      /\ \A k \in Location \ {l} : view'[t][k] = seen[k]
      /\ \A u \in Thread \ {t} : view'[u] = view[u]
  BY <1>3, <1>4, Numbers
<1>6. InMem(view'[t], mem') /\ \A v : InMem(v, mem) => InMem(v, mem')
  <2> HIDE DEF InMem
  <2>1. /\ Appends(t, l, x, [seen EXCEPT ![l] = Len(mem[l]) + 1])
        /\ InMem([seen EXCEPT ![l] = Len(mem[l]) + 1], mem')
        /\ \A v : InMem(v, mem) => InMem(v, mem')
    BY <1>3, <1>4, WriteFacts
  <2>2. view'[t] = [seen EXCEPT ![l] = Len(mem[l]) + 1]
    BY <2>1 DEF Appends
  <2> QED BY <2>1, <2>2
<1>7. InMem(barrier', mem') /\ InMem(wokenView', mem')
  <2>1. InMem(barrier, mem) /\ InMem(wokenView, mem)
    BY DEF MemoryOK
  <2> QED BY <1>4, <1>6, <2>1
<1>8. MemoryOK'
  BY <1>3, <1>4, <1>7, WriteMemory
<1>9. ASSUME NEW k \in Location \ {l}
      PROVE  /\ seen[k] \in Nat /\ seen[k] <= Len(mem[k])
             /\ seen[k] >= view[t][k] /\ seen[k] >= last[k]
             /\ LockedRMW => seen[k] >= barrier[k]
  <2>1. Len(mem[k]) \in Nat /\ view[t][k] \in Nat /\ barrier[k] \in Nat
    BY Sizes
  <2>2. seen[k] \in Nat /\ seen[k] <= Len(mem[k]) /\ Fenced(t)[k] \in Nat
    BY <1>2, <1>3, <2>1 DEF InMem, View
  <2>3. /\ Fenced(t)[k] >= view[t][k]
        /\ LockedRMW => Fenced(t)[k] >= barrier[k]
        /\ seen[k] >= Fenced(t)[k] /\ seen[k] >= last[k]
    BY <1>3, FencedFacts
  <2> QED BY <2>1, <2>2, <2>3
<1> QED BY <1>4, <1>5, <1>8, <1>9 DEF Swapped

LEMMA NotifyOneStep ==
  ASSUME ReceiveInv, NotifyOne
  PROVE  ReceiveInv' /\ (LockedRMW /\ LockedInv => LockedInv')
<1> USE DEF ReceiveInv
<1>1. /\ Swap("tx", "state", NOTIFIED)
      /\ txPc \in {"notify", "notify last"}
      /\ txPc' = IF Latest("state") = WAITING THEN "wake"
                 ELSE IF Latest("closed") THEN "gone" ELSE "idle"
      /\ rxPc' = rxPc /\ woken' = woken /\ wokenView' = wokenView /\ taken' = taken
  BY DEF NotifyOne
<1>2. /\ \A l \in Location : Len(mem[l]) \in Nat /\ Len(mem[l]) >= 1
      /\ view["rx"]["state"] \in Nat /\ view["rx"]["state"] >= 1
      /\ view["rx"]["state"] <= Len(mem["state"])
  BY Sizes DEF Location, Thread
<1>3. MemoryOK' /\ Swapped("tx", "state", NOTIFIED)
  <2>1. "tx" \in Thread /\ "state" \in Location /\ NOTIFIED \in Val
    BY DEF Location, Thread, Val
  <2> QED BY <1>1, <2>1, SwapFacts
<1>4. /\ Len(mem'["state"]) = Len(mem["state"]) + 1
      /\ \A i \in 1..Len(mem["state"]) : mem'["state"][i] = mem["state"][i]
      /\ mem'["state"][Len(mem["state"]) + 1].val = NOTIFIED
      /\ mem'["tail"] = mem["tail"] /\ mem'["closed"] = mem["closed"]
      /\ mem'["waker"] = mem["waker"] /\ view'["rx"] = view["rx"]
      /\ view'["tx"]["state"] = Len(mem["state"]) + 1
      /\ view'["tx"]["tail"] \in Nat /\ view'["tx"]["tail"] <= Len(mem["tail"])
      /\ view'["tx"]["tail"] >= view["tx"]["tail"]
      /\ view'["tx"]["closed"] \in Nat /\ view'["tx"]["closed"] <= Len(mem["closed"])
      /\ view'["tx"]["closed"] >= view["tx"]["closed"]
      /\ LockedRMW => barrier' = view'["tx"]
  BY <1>3 DEF Swapped, Location, Thread
<1>5. /\ view'["tx"]["tail"] = Len(mem["tail"])
      /\ view'["tx"]["closed"] = Len(mem["closed"])
  BY <1>2, <1>4 DEF SenderKnows, Location
<1>6. /\ Latest("closed") = TRUE <=> Len(mem["closed"]) = 2
      /\ Latest("closed") = FALSE <=> Len(mem["closed"]) = 1
      /\ Len(mem["closed"]) \in {1, 2}
  BY Ends
<1>7. /\ txPc' \in {"wake", "gone", "idle"}
      /\ txPc' = "wake" <=> Latest("state") = WAITING
      /\ txPc' = "gone" => Len(mem["closed"]) = 2
      /\ txPc' = "idle" => Len(mem["closed"]) = 1
  <2>1. CASE Latest("state") = WAITING
    BY <1>1, <2>1
  <2>2. CASE Latest("state") # WAITING /\ Latest("closed") = TRUE
    BY <1>1, <1>6, <2>2
  <2>3. CASE Latest("state") # WAITING /\ Latest("closed") = FALSE
    BY <1>1, <1>6, <2>3
  <2> QED BY <1>6, <2>1, <2>2, <2>3
<1>8. Latest("state")' = NOTIFIED /\ SeesWaiting' = SeesWaiting
      /\ Latest("waker")' = Latest("waker")
  BY <1>2, <1>4 DEF Latest, SeesWaiting, Location
<1>9. Contents'
  <2>1. ASSUME NEW i \in 1..Len(mem'["state"])
        PROVE  mem'["state"][i].val \in {EMPTY, WAITING, NOTIFIED}
    <3>1. i \in 1..Len(mem["state"]) \/ i = Len(mem["state"]) + 1
      BY <1>2, <1>4 DEF Location
    <3> QED BY <1>4, <3>1 DEF Contents
  <2> QED BY <1>4, <2>1 DEF Contents
<1>10. Control' /\ SenderKnows' /\ LastAttempt'
  BY <1>1, <1>4, <1>5, <1>7 DEF Control, SenderKnows, LastAttempt
<1>11. ReceiverKnows'
  <2>1. ASSUME NEW i \in 1..Len(mem'["state"]), i > view["rx"]["state"]
        PROVE  mem'["state"][i].val = NOTIFIED
    <3>1. i \in 1..Len(mem["state"]) \/ i = Len(mem["state"]) + 1
      BY <1>2, <1>4 DEF Location
    <3> QED BY <1>4, <2>1, <3>1 DEF ReceiverKnows
  <2> QED BY <1>4, <2>1 DEF ReceiverKnows
<1>12. WakeTells'
  BY <1>1, <1>4, <1>7, <1>8 DEF WakeTells
<1>13. Registered' /\ StillWaiting' /\ WaitIsOwed'
  BY <1>1, <1>7, <1>8 DEF Registered, StillWaiting, WaitIsOwed, Owed
<1>14. LockedRMW => LockedInv'
  BY <1>4, <1>5, <1>8 DEF LockedInv, BarrierCovers, ReceiverSees, FoundEmpty,
                                FoundOpen, Announced, Told
<1> QED BY <1>3, <1>9, <1>10, <1>11, <1>12, <1>13, <1>14

LEMMA WakeStep ==
  ASSUME ReceiveInv, Wake
  PROVE  ReceiveInv' /\ (LockedRMW /\ LockedInv => LockedInv')
<1> USE DEF ReceiveInv
<1>1. /\ Swap("tx", "waker", FALSE) /\ txPc = "wake"
      /\ Latest("waker") = TRUE => woken' = TRUE
      /\ Latest("waker") = FALSE => woken' = woken
      /\ wokenView' = wokenView \/ wokenView' = view'["tx"]
      /\ txPc' = IF Latest("closed") THEN "gone" ELSE "idle"
      /\ rxPc' = rxPc /\ taken' = taken
  BY DEF Wake
<1>2. /\ \A l \in Location : Len(mem[l]) \in Nat /\ Len(mem[l]) >= 1
      /\ view["rx"]["state"] \in Nat /\ view["rx"]["state"] >= 1
      /\ view["rx"]["state"] <= Len(mem["state"])
      /\ view["tx"]["state"] \in Nat
  BY Sizes DEF Location, Thread
<1>3. MemoryOK' /\ Swapped("tx", "waker", FALSE)
  <2>1. "tx" \in Thread /\ "waker" \in Location /\ FALSE \in Val
    BY DEF Location, Thread, Val
  <2> QED BY <1>1, <2>1, SwapFacts
<1>4. /\ Len(mem'["waker"]) = Len(mem["waker"]) + 1
      /\ \A i \in 1..Len(mem["waker"]) : mem'["waker"][i] = mem["waker"][i]
      /\ mem'["waker"][Len(mem["waker"]) + 1].val = FALSE
      /\ mem'["waker"][Len(mem["waker"]) + 1].view = view'["tx"]
      /\ mem'["tail"] = mem["tail"] /\ mem'["closed"] = mem["closed"]
      /\ mem'["state"] = mem["state"] /\ view'["rx"] = view["rx"]
      /\ view'["tx"]["tail"] \in Nat /\ view'["tx"]["tail"] <= Len(mem["tail"])
      /\ view'["tx"]["tail"] >= view["tx"]["tail"]
      /\ view'["tx"]["closed"] \in Nat /\ view'["tx"]["closed"] <= Len(mem["closed"])
      /\ view'["tx"]["closed"] >= view["tx"]["closed"]
      /\ view'["tx"]["state"] \in Nat /\ view'["tx"]["state"] <= Len(mem["state"])
      /\ view'["tx"]["state"] >= view["tx"]["state"]
      /\ LockedRMW => barrier' = view'["tx"]
  BY <1>3 DEF Swapped, Location, Thread
<1>5. /\ view'["tx"]["tail"] = Len(mem["tail"])
      /\ view'["tx"]["closed"] = Len(mem["closed"])
      /\ Told => view'["tx"]["state"] = Len(mem["state"])
  BY <1>2, <1>4 DEF SenderKnows, Location
<1>6. /\ Latest("closed") = TRUE <=> Len(mem["closed"]) = 2
      /\ Latest("closed") = FALSE <=> Len(mem["closed"]) = 1
      /\ Len(mem["closed"]) \in {1, 2}
      /\ Latest("state") \in {EMPTY, WAITING, NOTIFIED} /\ Latest("waker") \in BOOLEAN
  BY Ends
<1>7. /\ txPc' \in {"gone", "idle"}
      /\ txPc' = "gone" => Len(mem["closed"]) = 2
      /\ txPc' = "idle" => Len(mem["closed"]) = 1
  <2>1. CASE Latest("closed") = TRUE
    BY <1>1, <1>6, <2>1
  <2>2. CASE Latest("closed") = FALSE
    BY <1>1, <1>6, <2>2
  <2> QED BY <1>6, <2>1, <2>2
<1>8. /\ \A l \in {"tail", "closed", "state"} : Latest(l)' = Latest(l)
      /\ SeesWaiting' = SeesWaiting /\ Told' = Told
  BY <1>4 DEF Latest, SeesWaiting, Told
<1>9. woken' \in BOOLEAN
  BY <1>1, <1>6 DEF Control
<1>10. Contents'
  <2>1. ASSUME NEW i \in 1..Len(mem'["waker"])
        PROVE  mem'["waker"][i].val \in BOOLEAN
    <3>1. i \in 1..Len(mem["waker"]) \/ i = Len(mem["waker"]) + 1
      BY <1>2, <1>4 DEF Location
    <3> QED BY <1>4, <3>1 DEF Contents
  <2> QED BY <1>4, <2>1 DEF Contents
<1>11. Control' /\ SenderKnows' /\ LastAttempt' /\ ReceiverKnows'
  BY <1>1, <1>4, <1>5, <1>7, <1>8, <1>9 DEF Control, SenderKnows, LastAttempt, ReceiverKnows
\* The wake sees the notification, which the receiver has not seen; and all it has
\* not seen are notifications.
<1>12. WakeTells'
  <2> SUFFICES ASSUME SeesWaiting, Latest("state") # WAITING
               PROVE  view'["tx"]["state"] > view["rx"]["state"]
    BY <1>2, <1>4, <1>8 DEF WakeTells, Location
  <2>1. view["rx"]["state"] # Len(mem["state"])
    BY DEF SeesWaiting, Latest
  <2>2. Len(mem["state"]) \in 1..Len(mem["state"]) /\ Len(mem["state"]) > view["rx"]["state"]
    BY <1>2, <2>1 DEF Location
  <2>3. Told
    BY <2>2 DEF ReceiverKnows, Told, Latest
  <2> QED BY <1>5, <2>2, <2>3
<1>13. Registered' /\ StillWaiting' /\ WaitIsOwed'
  <2>1. ASSUME rxPc \in {"state?", "exchange", "exchanged?", "pending"} PROVE woken' = TRUE
    BY <1>1, <1>6, <2>1 DEF Registered, Control
  <2> QED BY <1>1, <2>1 DEF Registered, StillWaiting, WaitIsOwed, Owed
<1>14. LockedRMW /\ LockedInv => LockedInv'
  BY <1>1, <1>4, <1>5, <1>8 DEF LockedInv, BarrierCovers, ReceiverSees, FoundEmpty,
                                FoundOpen, Announced
<1> QED BY <1>3, <1>10, <1>11, <1>12, <1>13, <1>14

\* The receiver sees v, which is no less than it has seen, and writes nothing.
Reads(v) ==
  /\ mem' = mem /\ view' = [view EXCEPT !["rx"] = v]
  /\ InMem(v, mem) /\ \A l \in Location : v[l] >= view["rx"][l]
  /\ InMem(barrier', mem) /\ wokenView' = wokenView /\ txPc' = txPc

LEMMA AcquireReads ==
  ASSUME MemoryOK, NEW l \in Location, NEW i \in Readable("rx", l), Acquire("rx", l, i),
         wokenView' = wokenView, txPc' = txPc
  PROVE  /\ Reads(Later(view["rx"], mem[l][i].view)) /\ barrier' = barrier
         /\ i \in 1..Len(mem[l]) /\ i >= view["rx"][l]
         /\ \A k \in Location : Later(view["rx"], mem[l][i].view)[k] >= mem[l][i].view[k]
<1>1. i \in 1..Len(mem[l]) /\ i >= view["rx"][l]
  <2>1. Len(mem[l]) \in Nat /\ view["rx"][l] \in Nat /\ 1 <= view["rx"][l]
    BY Sizes DEF Thread
  <2> QED BY <2>1 DEF Readable
<1>2. InMem(view["rx"], mem) /\ InMem(mem[l][i].view, mem) /\ InMem(barrier, mem)
  BY <1>1 DEF MemoryOK, Thread
<1> HIDE DEF InMem
<1>3. /\ InMem(Later(view["rx"], mem[l][i].view), mem)
      /\ \A k \in Location : /\ Later(view["rx"], mem[l][i].view)[k] >= view["rx"][k]
                             /\ Later(view["rx"], mem[l][i].view)[k] >= mem[l][i].view[k]
  BY <1>2, LaterFacts
<1> QED BY <1>1, <1>2, <1>3 DEF Acquire, Reads

LEMMA FailedReads ==
  ASSUME MemoryOK, NEW l \in Location, NEW i, NEW seen, InMem(seen, mem),
         FailedExchange("rx", l, i, seen), wokenView' = wokenView, txPc' = txPc
  PROVE  LET v == Later(Fenced("rx"), seen) IN
           /\ Reads(v) /\ (LockedRMW => barrier' = v)
           /\ LockedRMW => \A k \in Location : v[k] >= barrier[k]
<1> DEFINE v == Later(Fenced("rx"), seen)
<1>1. /\ InMem(Fenced("rx"), mem)
      /\ \A k \in Location : Fenced("rx")[k] >= view["rx"][k]
      /\ LockedRMW => \A k \in Location : Fenced("rx")[k] >= barrier[k]
  BY FencedFacts DEF Thread
<1>2. InMem(v, mem) /\ \A k \in Location : v[k] >= Fenced("rx")[k]
  BY <1>1, LaterFacts
<1>3. /\ mem' = mem /\ view' = [view EXCEPT !["rx"] = v]
      /\ barrier' = IF LockedRMW THEN view'["rx"] ELSE barrier
  BY DEF FailedExchange
<1> HIDE DEF v
<1>4. \A k \in Location : /\ v[k] \in Nat /\ Fenced("rx")[k] \in Nat
                          /\ view["rx"][k] \in Nat /\ barrier[k] \in Nat
  BY <1>1, <1>2, Sizes DEF InMem, View, Thread
<1>5. \A k \in Location : v[k] >= view["rx"][k]
  BY <1>1, <1>2, <1>4
<1>6. LockedRMW => \A k \in Location : v[k] >= barrier[k]
  BY <1>1, <1>2, <1>4
<1>7. view'["rx"] = v
  BY <1>3 DEF MemoryOK, Thread
<1>8. InMem(barrier', mem)
  BY <1>2, <1>3, <1>7 DEF MemoryOK
<1>9. Reads(v)
  BY <1>2, <1>3, <1>5, <1>8 DEF Reads
<1>10. LockedRMW => barrier' = v
  BY <1>3, <1>7
<1> QED BY <1>6, <1>9, <1>10 DEF v

\* What a read never disturbs; and WAITING, when the receiver still sees it, is the
\* WAITING that it saw before.
LEMMA ReadKeeps ==
  ASSUME ReceiveInv, NEW v, Reads(v)
  PROVE  /\ MemoryOK' /\ Contents' /\ SenderKnows' /\ ReceiverKnows' /\ WakeTells'
         /\ view'["rx"] = v /\ (SeesWaiting' => SeesWaiting)
         /\ \A l \in Location : v[l] \in Nat /\ v[l] <= Len(mem[l])
<1> USE DEF ReceiveInv
<1>1. MemoryOK' /\ view'["rx"] = v /\ view'["tx"] = view["tx"]
  <2>1. "rx" \in Thread /\ "tx" \in Thread \ {"rx"}
    BY DEF Thread
  <2> QED BY <2>1, ReadMemory DEF Reads
<1>2. mem' = mem /\ txPc' = txPc
  BY DEF Reads
<1>3. \A l \in Location : /\ v[l] \in Nat /\ v[l] >= 1 /\ v[l] <= Len(mem[l])
                          /\ Len(mem[l]) \in Nat
                          /\ view["rx"][l] \in Nat /\ v[l] >= view["rx"][l]
  <2>1. \A l \in Location : Len(mem[l]) \in Nat /\ view["rx"][l] \in Nat
    BY Sizes DEF Thread
  <2> QED BY <2>1 DEF Reads, InMem, View
<1>4. v["state"] \in 1..Len(mem["state"]) /\ v["state"] >= view["rx"]["state"]
  BY <1>3 DEF Location
<1>5. Contents' /\ SenderKnows'
  BY <1>1, <1>2 DEF Contents, SenderKnows, Told, Latest
<1>6. ReceiverKnows'
  BY <1>1, <1>2, <1>3 DEF ReceiverKnows, Location
<1>7. ASSUME SeesWaiting' PROVE v["state"] = view["rx"]["state"]
  <2>1. mem["state"][v["state"]].val = WAITING
    BY <1>1, <1>2, <1>7 DEF SeesWaiting
  <2>2. ~(v["state"] > view["rx"]["state"])
    BY <1>4, <2>1 DEF ReceiverKnows
  <2> QED BY <1>3, <2>2 DEF Location
<1>8. SeesWaiting' => SeesWaiting
  BY <1>1, <1>2, <1>7 DEF SeesWaiting
<1>9. WakeTells'
  BY <1>1, <1>2, <1>7, <1>8 DEF WakeTells, Latest
<1> QED BY <1>1, <1>3, <1>5, <1>6, <1>8, <1>9

\* A view that takes in one with all that was announced has it too.
LEMMA AnnouncedGrows ==
  ASSUME NEW v, NEW w,
         \A l \in {"tail", "closed"} : /\ v[l] \in Nat /\ v[l] <= Len(mem[l])
                                       /\ w[l] \in Nat /\ v[l] >= w[l]
                                       /\ Len(mem[l]) \in Nat,
         Announced(w)
  PROVE  Announced(v)
<1>1. \A a, b, n \in Nat : a >= b /\ a <= n => /\ b = n => a = n
                                               /\ b + 1 = n => (a = n \/ a + 1 = n)
  OBVIOUS
<1>2. \A l \in {"tail", "closed"} :
        /\ w[l] = Len(mem[l]) => v[l] = Len(mem[l])
        /\ w[l] + 1 = Len(mem[l]) => v[l] = Len(mem[l]) \/ v[l] + 1 = Len(mem[l])
  BY <1>1
<1> QED BY <1>2 DEF Announced

LEMMA PopStep ==
  ASSUME ReceiveInv, Pop
  PROVE  ReceiveInv' /\ (LockedRMW /\ LockedInv => LockedInv')
<1> USE DEF ReceiveInv
<1>1. PICK i \in Readable("rx", "tail") :
        /\ Acquire("rx", "tail", i)
        /\ IF mem["tail"][i].val > taken
             THEN taken' = taken + 1 /\ RxGoto("pop")
             ELSE UNCHANGED taken /\ RxGoto(IF rxPc = "pop" THEN "load" ELSE "gone")
  BY DEF Pop
<1> DEFINE v == Later(view["rx"], mem["tail"][i].view)
<1>2. /\ txPc' = txPc /\ woken' = woken /\ wokenView' = wokenView
      /\ rxPc \in {"pop", "repop"}
  BY <1>1 DEF Pop, RxGoto
<1>3. /\ Reads(v) /\ barrier' = barrier /\ i \in 1..Len(mem["tail"]) /\ i >= view["rx"]["tail"]
  BY <1>1, <1>2, AcquireReads DEF Location
<1> HIDE DEF v
<1>4. /\ MemoryOK' /\ Contents' /\ SenderKnows' /\ ReceiverKnows' /\ WakeTells'
      /\ view'["rx"] = v /\ mem' = mem
      /\ \A l \in Location : v[l] \in Nat /\ v[l] <= Len(mem[l]) /\ v[l] >= view["rx"][l]
  BY <1>3, ReadKeeps DEF Reads
<1>5. /\ mem["tail"][i].val = i - 1 /\ i \in Nat /\ taken \in Nat
      /\ Len(mem["tail"]) \in Nat /\ view["rx"]["tail"] \in Nat /\ view["rx"]["closed"] \in Nat
      /\ Len(mem["closed"]) \in Nat
  <2>1. mem["tail"][i].val = i - 1
    BY <1>3 DEF Contents
  <2>2. i \in Nat
    BY <1>3
  <2> QED BY <2>1, <2>2, Sizes DEF Location, Thread, Control
<1>6. \/ taken' = taken + 1 /\ taken + 1 < i /\ rxPc' = "pop"
      \/ taken' = taken /\ i <= taken + 1 /\ rxPc = "pop" /\ rxPc' = "load"
      \/ taken' = taken /\ i <= taken + 1 /\ rxPc = "repop" /\ rxPc' = "gone"
  <2>1. CASE i - 1 > taken
    <3>1. taken + 1 < i /\ mem["tail"][i].val > taken
      BY <1>5, <2>1
    <3> QED BY <1>1, <3>1 DEF RxGoto
  <2>2. CASE ~(i - 1 > taken)
    <3>1. i <= taken + 1 /\ ~(mem["tail"][i].val > taken)
      BY <1>5, <2>2
    <3> QED BY <1>1, <1>2, <3>1 DEF RxGoto
  <2> QED BY <2>1, <2>2
<1>7. taken \in Nat /\ taken < Len(mem["tail"])
  BY DEF Control
<1>8. taken' \in Nat /\ taken' < Len(mem["tail"])
  BY <1>3, <1>5, <1>6, <1>7
<1>9. rxPc' \in {"pop", "load", "gone"}
  BY <1>6
<1>10. Control'
  BY <1>2, <1>4, <1>8, <1>9 DEF Control
<1>11. LastAttempt'
  <2>1. CASE rxPc' = "gone"
    <3>1. view["rx"]["tail"] = Len(mem["tail"]) /\ Len(mem["closed"]) = 2
      BY <1>6, <2>1 DEF LastAttempt
    <3>2. taken' + 1 = Len(mem["tail"])
      BY <1>3, <1>5, <1>6, <1>7, <2>1, <3>1
    <3> QED BY <1>4, <2>1, <3>1, <3>2 DEF LastAttempt
  <2>2. CASE rxPc' # "gone"
    BY <1>9, <2>2 DEF LastAttempt
  <2> QED BY <2>1, <2>2
<1>12. Registered' /\ StillWaiting' /\ WaitIsOwed'
  BY <1>9 DEF Registered, StillWaiting, WaitIsOwed
<1>13. ASSUME LockedInv PROVE LockedInv'
  <2>1. Told' = Told /\ BarrierCovers' /\ (Announced(view["rx"]) => Announced(v))
    <3>1. Announced(view["rx"]) => Announced(v)
      BY <1>4, <1>5, AnnouncedGrows DEF Location
    <3> QED BY <1>2, <1>3, <1>4, <1>13, <3>1
            DEF Told, Latest, LockedInv, BarrierCovers, Announced
  <2>2. ~Told => Announced(view["rx"])
    BY <1>2, <1>13 DEF LockedInv, ReceiverSees
  <2>3. ReceiverSees'
    BY <1>2, <1>4, <2>1, <2>2 DEF ReceiverSees, Announced
  <2>4. ASSUME ~Told', rxPc' \in Emptied
        PROVE  taken' + 1 = Len(mem["tail"]) \/ (txPc = "notify" /\ taken' + 2 = Len(mem["tail"]))
    <3>1. taken' = taken /\ i <= taken + 1
      BY <1>6, <2>4 DEF Emptied
    <3>2. \/ view["rx"]["tail"] = Len(mem["tail"])
          \/ txPc = "notify" /\ view["rx"]["tail"] + 1 = Len(mem["tail"])
      BY <2>1, <2>2, <2>4 DEF Announced
    <3> QED BY <1>3, <1>5, <1>7, <3>1, <3>2
  <2>5. FoundEmpty' /\ FoundOpen'
    BY <1>2, <1>4, <1>9, <2>4 DEF FoundEmpty, FoundOpen, Emptied
  <2> QED BY <2>1, <2>3, <2>5 DEF LockedInv
<1> QED BY <1>4, <1>10, <1>11, <1>12, <1>13

LEMMA LoadClosedStep ==
  ASSUME ReceiveInv, LoadClosed
  PROVE  ReceiveInv' /\ (LockedRMW /\ LockedInv => LockedInv')
<1> USE DEF ReceiveInv
<1>1. PICK i \in Readable("rx", "closed") :
        /\ Acquire("rx", "closed", i)
        /\ CASE mem["closed"][i].val /\ rxPc = "load"    -> RxGoto("repop")
             [] mem["closed"][i].val /\ rxPc = "recheck" -> RxGoto("pop")
             [] ~mem["closed"][i].val /\ rxPc = "load"    -> RxGoto("recheck")
             [] OTHER                                    -> RxGoto("register")
  BY DEF LoadClosed
<1> DEFINE v == Later(view["rx"], mem["closed"][i].view)
<1>2. rxPc \in {"load", "recheck"} /\ taken' = taken
  BY DEF LoadClosed
<1>3. /\ Len(mem["closed"]) <= 2 /\ Len(mem["tail"]) \in Nat
      /\ view["rx"]["tail"] \in Nat /\ view["rx"]["closed"] \in Nat /\ view["rx"]["closed"] >= 1
      /\ Len(mem["closed"]) \in Nat
  <2>1. Len(mem["closed"]) <= 2
    BY DEF Contents
  <2> QED BY <2>1, Sizes DEF Location, Thread
<1>4. i \in Nat /\ i >= 1 /\ i <= Len(mem["closed"]) /\ i >= view["rx"]["closed"]
  <2>1. i \in view["rx"]["closed"]..Len(mem["closed"])
    BY DEF Readable
  <2> QED BY <1>3, <2>1
<1>5. /\ i = 1 => mem["closed"][i].val = FALSE
      /\ i = 2 => mem["closed"][i].val = TRUE /\ Len(mem["closed"]) = 2
  <2>1. ASSUME i = 2 PROVE Len(mem["closed"]) = 2
    <3>1. \A n \in Nat : 2 <= n /\ n <= 2 => n = 2
      OBVIOUS
    <3> QED BY <1>3, <1>4, <2>1, <3>1
  <2> QED BY <2>1 DEF Contents
<1>6. /\ \/ i = 2 /\ rxPc = "load" /\ rxPc' = "repop"
         \/ i = 2 /\ rxPc = "recheck" /\ rxPc' = "pop"
         \/ i = 1 /\ rxPc = "load" /\ rxPc' = "recheck"
         \/ i = 1 /\ rxPc = "recheck" /\ rxPc' = "register"
      /\ txPc' = txPc /\ woken' = woken /\ wokenView' = wokenView
  <2>1. CASE i = 1
    BY <1>1, <1>2, <1>5, <2>1 DEF RxGoto
  <2>2. CASE i = 2
    BY <1>1, <1>2, <1>5, <2>2 DEF RxGoto
  <2> QED BY <1>3, <1>4, <2>1, <2>2
<1>7. /\ Reads(v) /\ barrier' = barrier
      /\ \A k \in Location : v[k] >= mem["closed"][i].view[k]
  BY <1>1, <1>6, AcquireReads DEF Location
<1> HIDE DEF v
<1>8. /\ MemoryOK' /\ Contents' /\ SenderKnows' /\ ReceiverKnows' /\ WakeTells'
      /\ view'["rx"] = v /\ mem' = mem
      /\ \A l \in Location : v[l] \in Nat /\ v[l] <= Len(mem[l]) /\ v[l] >= view["rx"][l]
  BY <1>7, ReadKeeps DEF Reads
<1>9. Control'
  BY <1>2, <1>6, <1>8 DEF Control
<1>10. LastAttempt'
  <2>1. CASE rxPc' = "repop"
    <3>1. i = 2 /\ Len(mem["closed"]) = 2 /\ mem["closed"][2].view["tail"] = Len(mem["tail"])
      BY <1>5, <1>6, <2>1 DEF SenderKnows
    <3>2. v["tail"] \in Nat /\ v["tail"] <= Len(mem["tail"]) /\ v["tail"] >= Len(mem["tail"])
      BY <1>7, <1>8, <3>1 DEF Location
    <3>3. v["tail"] = Len(mem["tail"])
      BY <1>3, <3>2
    <3> QED BY <1>8, <2>1, <3>1, <3>3 DEF LastAttempt
  <2>2. CASE rxPc' # "repop"
    BY <1>6, <2>2 DEF LastAttempt
  <2> QED BY <2>1, <2>2
<1>11. Registered' /\ StillWaiting' /\ WaitIsOwed'
  BY <1>6 DEF Registered, StillWaiting, WaitIsOwed
<1>12. ASSUME LockedInv PROVE LockedInv'
  <2>1. Told' = Told /\ BarrierCovers' /\ (Announced(view["rx"]) => Announced(v))
    <3>1. Announced(view["rx"]) => Announced(v)
      BY <1>3, <1>8, AnnouncedGrows DEF Location
    <3> QED BY <1>6, <1>7, <1>8, <1>12, <3>1
            DEF Told, Latest, LockedInv, BarrierCovers, Announced
  <2>2. ~Told => Announced(view["rx"])
    BY <1>2, <1>12 DEF LockedInv, ReceiverSees
  <2>3. ReceiverSees'
    BY <1>6, <1>8, <2>1, <2>2 DEF ReceiverSees, Announced
  <2>4. FoundEmpty'
    BY <1>2, <1>6, <1>8, <1>12, <2>1 DEF LockedInv, FoundEmpty, Emptied
  <2>5. FoundOpen'
    <3>1. ASSUME ~Told, i = 1 PROVE Len(mem["closed"]) = 1 \/ txPc = "notify last"
      <4>1. view["rx"]["closed"] = 1
        BY <1>3, <1>4, <3>1
      <4> QED BY <2>2, <3>1, <4>1 DEF Announced
    <3> QED BY <1>6, <1>8, <2>1, <3>1 DEF FoundOpen, Emptied
  <2> QED BY <2>1, <2>3, <2>4, <2>5 DEF LockedInv
<1> QED BY <1>8, <1>9, <1>10, <1>11, <1>12

\* Acquiring the waker's location, the receiver sees the notification that a wake
\* was for: a WAITING that it still sees has not been replaced.
LEMMA RegisterStep ==
  ASSUME ReceiveInv, Register
  PROVE  ReceiveInv' /\ (LockedRMW /\ LockedInv => LockedInv')
<1> USE DEF ReceiveInv
<1>1. /\ Swap("rx", "waker", TRUE) /\ rxPc = "register" /\ rxPc' = "state?"
      /\ txPc' = txPc /\ woken' = woken /\ wokenView' = wokenView /\ taken' = taken
  BY DEF Register, RxGoto
<1>2. MemoryOK' /\ Swapped("rx", "waker", TRUE)
  <2>1. "rx" \in Thread /\ "waker" \in Location /\ TRUE \in Val
    BY DEF Location, Thread, Val
  <2> QED BY <1>1, <2>1, SwapFacts
<1>3. /\ Len(mem'["waker"]) = Len(mem["waker"]) + 1
      /\ \A i \in 1..Len(mem["waker"]) : mem'["waker"][i] = mem["waker"][i]
      /\ mem'["waker"][Len(mem["waker"]) + 1].val = TRUE
      /\ mem'["tail"] = mem["tail"] /\ mem'["closed"] = mem["closed"]
      /\ mem'["state"] = mem["state"] /\ view'["tx"] = view["tx"]
      /\ view'["rx"]["state"] \in Nat /\ view'["rx"]["state"] <= Len(mem["state"])
      /\ view'["rx"]["state"] >= view["rx"]["state"]
      /\ view'["rx"]["state"] >= mem["waker"][Len(mem["waker"])].view["state"]
      /\ LockedRMW => barrier' = view'["rx"]
  BY <1>2 DEF Swapped, Location, Thread
<1>4. \A l \in {"tail", "closed"} :
        /\ view'["rx"][l] \in Nat /\ view'["rx"][l] <= Len(mem[l])
        /\ view'["rx"][l] >= view["rx"][l]
        /\ LockedRMW => view'["rx"][l] >= barrier[l]
  BY <1>2 DEF Swapped, Location
<1>5. /\ \A l \in Location : Len(mem[l]) \in Nat /\ Len(mem[l]) >= 1
      /\ \A l \in Location : view["rx"][l] \in Nat /\ barrier[l] \in Nat
      /\ view["rx"]["state"] \in Nat /\ view["rx"]["state"] >= 1
      /\ view["rx"]["state"] <= Len(mem["state"]) /\ Len(mem["state"]) \in Nat
      /\ mem["waker"][Len(mem["waker"])].view["state"] \in Nat
  <2>1. \A l \in Location : Len(mem[l]) \in Nat /\ Len(mem[l]) >= 1
    BY Sizes
  <2>2. "waker" \in Location /\ "state" \in Location /\ "rx" \in Thread
    BY DEF Location, Thread
  <2>3. Len(mem["waker"]) \in 1..Len(mem["waker"])
    BY <2>1, <2>2
  <2> QED BY <2>1, <2>2, <2>3, Sizes
<1>6. Contents'
  <2>1. ASSUME NEW i \in 1..Len(mem'["waker"])
        PROVE  mem'["waker"][i].val \in BOOLEAN
    <3>1. i \in 1..Len(mem["waker"]) \/ i = Len(mem["waker"]) + 1
      BY <1>3, <1>5 DEF Location
    <3> QED BY <1>3, <3>1 DEF Contents
  <2> QED BY <1>3, <2>1 DEF Contents
<1>7. Control' /\ SenderKnows' /\ LastAttempt'
  BY <1>1, <1>3 DEF Control, SenderKnows, LastAttempt, Told, Latest
<1>8. ReceiverKnows'
  <2>1. ASSUME NEW i \in 1..Len(mem["state"]), i > view'["rx"]["state"]
        PROVE  mem["state"][i].val = NOTIFIED
    <3>1. i > view["rx"]["state"]
      BY <1>3, <1>5, <2>1
    <3> QED BY <3>1 DEF ReceiverKnows
  <2> QED BY <1>3, <2>1 DEF ReceiverKnows
<1>9. SeesWaiting' => SeesWaiting /\ view'["rx"]["state"] = view["rx"]["state"]
  <2> SUFFICES ASSUME SeesWaiting' PROVE view'["rx"]["state"] = view["rx"]["state"]
    BY <1>3 DEF SeesWaiting
  <2>1. mem["state"][view'["rx"]["state"]].val = WAITING
    BY <1>3 DEF SeesWaiting
  <2>2. view'["rx"]["state"] >= 1 /\ view'["rx"]["state"] \in 1..Len(mem["state"])
    BY <1>3, <1>5
  <2>3. ~(view'["rx"]["state"] > view["rx"]["state"])
    BY <2>1, <2>2 DEF ReceiverKnows
  <2> QED BY <1>3, <1>5, <2>3
<1>10. SeesWaiting' => Latest("state") = WAITING \/ txPc = "wake"
  <2> SUFFICES ASSUME SeesWaiting', Latest("state") # WAITING, txPc # "wake" PROVE FALSE
    OBVIOUS
  <2>1. mem["waker"][Len(mem["waker"])].view["state"] > view["rx"]["state"]
    BY <1>9 DEF WakeTells
  <2> QED BY <1>3, <1>5, <1>9, <2>1
<1>11. WakeTells' /\ Registered' /\ StillWaiting' /\ WaitIsOwed'
  <2>1. Latest("state")' = Latest("state") /\ Latest("waker")' = TRUE
    BY <1>3, <1>5 DEF Latest
  <2> QED BY <1>1, <1>10, <2>1 DEF WakeTells, Registered, StillWaiting, WaitIsOwed, Owed
<1>12. ASSUME LockedRMW, LockedInv PROVE LockedInv'
  <2>1. /\ Announced(barrier) => Announced(view'["rx"])
        /\ Announced(view["rx"]) => Announced(view'["rx"])
    BY <1>4, <1>5, <1>12, AnnouncedGrows DEF Location
  <2>2. Announced(view'["rx"]) /\ barrier' = view'["rx"]
    BY <1>3, <1>12, <2>1 DEF LockedInv, BarrierCovers
  <2>3. BarrierCovers' /\ ReceiverSees'
    BY <1>1, <1>3, <2>2 DEF BarrierCovers, ReceiverSees, Announced
  <2>4. FoundEmpty' /\ FoundOpen'
    BY <1>1, <1>3, <1>12 DEF LockedInv, FoundEmpty, FoundOpen, Emptied, Told, Latest
  <2> QED BY <2>3, <2>4 DEF LockedInv
<1> QED BY <1>2, <1>6, <1>7, <1>8, <1>11, <1>12

LEMMA LoadStateStep ==
  ASSUME ReceiveInv, LoadState
  PROVE  ReceiveInv' /\ (LockedRMW /\ LockedInv => LockedInv')
<1> USE DEF ReceiveInv
<1>1. PICK i \in Readable("rx", "state") :
        /\ Acquire("rx", "state", i)
        /\ RxGoto(IF mem["state"][i].val = NOTIFIED THEN "consume"
                  ELSE CASE rxPc = "state?"     -> "exchange"
                         [] rxPc = "exchanged?" -> "pending"
                         [] rxPc = "polled?"    -> "register")
  BY DEF LoadState
<1>2. /\ rxPc \in {"state?", "exchanged?", "polled?"} /\ taken' = taken
      /\ txPc' = txPc /\ woken' = woken /\ wokenView' = wokenView
  BY <1>1 DEF LoadState, RxGoto
<1>3. \/ rxPc' = "consume"
      \/ rxPc = "state?" /\ rxPc' = "exchange"
      \/ rxPc = "exchanged?" /\ rxPc' = "pending"
      \/ rxPc = "polled?" /\ rxPc' = "register"
  BY <1>1, <1>2 DEF RxGoto
<1> DEFINE v == Later(view["rx"], mem["state"][i].view)
<1>4. Reads(v) /\ barrier' = barrier
  BY <1>1, <1>2, AcquireReads DEF Location
<1> HIDE DEF v
<1>5. /\ MemoryOK' /\ Contents' /\ SenderKnows' /\ ReceiverKnows' /\ WakeTells'
      /\ view'["rx"] = v /\ mem' = mem
      /\ SeesWaiting' => SeesWaiting
      /\ \A l \in Location : v[l] \in Nat /\ v[l] <= Len(mem[l]) /\ v[l] >= view["rx"][l]
  BY <1>4, ReadKeeps DEF Reads
<1>6. Control' /\ LastAttempt'
  BY <1>2, <1>3, <1>5 DEF Control, LastAttempt
<1>7. Registered' /\ StillWaiting' /\ WaitIsOwed'
  BY <1>2, <1>3, <1>5 DEF Registered, StillWaiting, WaitIsOwed, Owed, Latest
<1>8. ASSUME LockedInv PROVE LockedInv'
  <2>1. Announced(view["rx"]) => Announced(v)
    BY <1>5, Sizes, AnnouncedGrows DEF Location, Thread
  <2>2. BarrierCovers' /\ ReceiverSees'
    BY <1>2, <1>4, <1>5, <1>8, <2>1
       DEF LockedInv, BarrierCovers, ReceiverSees, Announced, Told, Latest
  <2>3. FoundEmpty' /\ FoundOpen'
    BY <1>2, <1>3, <1>5, <1>8 DEF LockedInv, FoundEmpty, FoundOpen, Emptied, Told, Latest
  <2> QED BY <2>2, <2>3 DEF LockedInv
<1> QED BY <1>5, <1>6, <1>7, <1>8

\* What a write of the receiver into the state does, but for what it writes and
\* where it goes: the receiver has then seen the state as it is.
LEMMA StateWritten ==
  ASSUME ReceiveInv, MemoryOK', NEW x \in {EMPTY, WAITING},
         Len(mem'["state"]) = Len(mem["state"]) + 1,
         \A i \in 1..Len(mem["state"]) : mem'["state"][i] = mem["state"][i],
         mem'["state"][Len(mem["state"]) + 1].val = x,
         \A l \in {"tail", "closed", "waker"} : mem'[l] = mem[l],
         view'["rx"]["state"] = Len(mem["state"]) + 1,
         view'["tx"] = view["tx"], txPc' = txPc
  PROVE  /\ Contents' /\ SenderKnows' /\ ReceiverKnows' /\ WakeTells' /\ ~Told'
         /\ Latest("state")' = x /\ Latest("waker")' = Latest("waker")
<1> USE DEF ReceiveInv
<1>1. Len(mem["state"]) \in Nat
  BY Sizes DEF Location
<1>2. mem'["tail"] = mem["tail"] /\ mem'["closed"] = mem["closed"] /\ mem'["waker"] = mem["waker"]
  OBVIOUS
<1>3. ASSUME NEW i \in 1..Len(mem'["state"])
      PROVE  i \in 1..Len(mem["state"]) \/ i = Len(mem["state"]) + 1
  BY <1>1
<1>4. Latest("state")' = x /\ Latest("waker")' = Latest("waker")
  BY <1>2 DEF Latest
<1>5. Contents'
  <2>1. ASSUME NEW i \in 1..Len(mem'["state"])
        PROVE  mem'["state"][i].val \in {EMPTY, WAITING, NOTIFIED}
    BY <1>3 DEF Contents
  <2> QED BY <1>2, <2>1 DEF Contents
<1>6. ~Told' /\ SenderKnows'
  BY <1>2, <1>4 DEF Told, SenderKnows
<1>7. ReceiverKnows'
  BY <1>1 DEF ReceiverKnows
<1>8. WakeTells'
  BY <1>4 DEF WakeTells, SeesWaiting, Latest
<1> QED BY <1>4, <1>5, <1>6, <1>7, <1>8

\* The exchange that finds EMPTY, which the receiver itself has written.
ExchangeWins ==
  /\ rxPc = "exchange" /\ Latest("state") = EMPTY
  /\ Swap("rx", "state", WAITING)
  /\ RxGoto("exchanged?")
  /\ UNCHANGED taken

LEMMA ExchangeWinsStep ==
  ASSUME ReceiveInv, ExchangeWins
  PROVE  ReceiveInv' /\ (LockedRMW /\ LockedInv => LockedInv')
<1> USE DEF ReceiveInv
<1>1. /\ Swap("rx", "state", WAITING) /\ Latest("state") = EMPTY
      /\ rxPc = "exchange" /\ rxPc' = "exchanged?"
      /\ txPc' = txPc /\ woken' = woken /\ wokenView' = wokenView /\ taken' = taken
  BY DEF ExchangeWins, RxGoto
<1>2. MemoryOK' /\ Swapped("rx", "state", WAITING)
  <2>1. "rx" \in Thread /\ "state" \in Location /\ WAITING \in Val
    BY DEF Location, Thread, Val
  <2> QED BY <1>1, <2>1, SwapFacts
<1>3. /\ Len(mem'["state"]) = Len(mem["state"]) + 1
      /\ \A i \in 1..Len(mem["state"]) : mem'["state"][i] = mem["state"][i]
      /\ mem'["state"][Len(mem["state"]) + 1].val = WAITING
      /\ \A l \in {"tail", "closed", "waker"} : mem'[l] = mem[l]
      /\ view'["rx"]["state"] = Len(mem["state"]) + 1
      /\ view'["tx"] = view["tx"]
      /\ LockedRMW => barrier' = view'["rx"]
  BY <1>2 DEF Swapped, Location, Thread
<1>4. \A l \in {"tail", "closed"} :
        /\ view'["rx"][l] \in Nat /\ view'["rx"][l] <= Len(mem[l])
        /\ view'["rx"][l] >= view["rx"][l]
        /\ LockedRMW => view'["rx"][l] >= barrier[l]
  BY <1>2 DEF Swapped, Location
<1>5. /\ Contents' /\ SenderKnows' /\ ReceiverKnows' /\ WakeTells' /\ ~Told'
      /\ Latest("state")' = WAITING /\ Latest("waker")' = Latest("waker")
  BY <1>1, <1>2, <1>3, StateWritten
<1>6. mem'["tail"] = mem["tail"] /\ mem'["closed"] = mem["closed"]
  BY <1>3
<1>7. Control' /\ LastAttempt'
  BY <1>1, <1>6 DEF Control, LastAttempt
<1>8. Registered' /\ StillWaiting' /\ WaitIsOwed'
  BY <1>1, <1>5 DEF Registered, StillWaiting, WaitIsOwed, Owed
<1>9. ASSUME LockedRMW, LockedInv PROVE LockedInv'
  <2>1. \A l \in {"tail", "closed"} : /\ Len(mem[l]) \in Nat /\ view["rx"][l] \in Nat
                                      /\ barrier[l] \in Nat
    BY Sizes DEF Location, Thread
  <2>2. Announced(barrier) => Announced(view'["rx"])
    BY <1>4, <1>9, <2>1, AnnouncedGrows
  <2>3. Announced(view'["rx"]) /\ barrier' = view'["rx"]
    BY <1>3, <1>9, <2>2 DEF LockedInv, BarrierCovers
  <2>4. BarrierCovers' /\ ReceiverSees'
    BY <1>1, <1>6, <2>3 DEF BarrierCovers, ReceiverSees, Announced
  <2>5. ~Told
    BY <1>1 DEF Told
  <2>6. FoundEmpty' /\ FoundOpen'
    BY <1>1, <1>6, <1>9, <2>5 DEF LockedInv, FoundEmpty, FoundOpen, Emptied
  <2> QED BY <2>4, <2>6 DEF LockedInv
<1> QED BY <1>2, <1>5, <1>7, <1>8, <1>9

\* The exchange that finds something else: a notification, or the WAITING that the
\* receiver has written earlier, whether or not it is still there.
ExchangeFails ==
  /\ rxPc = "exchange"
  /\ \E i \in Readable("rx", "state") :
       /\ mem["state"][i].val # EMPTY
       /\ FailedExchange("rx", "state", i, mem["state"][i].view)
       /\ RxGoto(IF mem["state"][i].val = NOTIFIED THEN "consume" ELSE "exchanged?")
  /\ UNCHANGED taken

LEMMA ExchangeFailsStep ==
  ASSUME ReceiveInv, ExchangeFails
  PROVE  ReceiveInv' /\ (LockedRMW /\ LockedInv => LockedInv')
<1> USE DEF ReceiveInv
<1>1. PICK i \in Readable("rx", "state") :
        /\ mem["state"][i].val # EMPTY
        /\ FailedExchange("rx", "state", i, mem["state"][i].view)
        /\ RxGoto(IF mem["state"][i].val = NOTIFIED THEN "consume" ELSE "exchanged?")
  BY DEF ExchangeFails
<1>2. /\ rxPc = "exchange" /\ taken' = taken
      /\ txPc' = txPc /\ woken' = woken /\ wokenView' = wokenView
  BY <1>1 DEF ExchangeFails, RxGoto
<1>3. /\ Len(mem["state"]) \in Nat
      /\ view["rx"]["state"] \in Nat /\ view["rx"]["state"] >= 1
  BY Sizes DEF Location, Thread
<1>4. i \in 1..Len(mem["state"]) /\ i >= view["rx"]["state"]
  BY <1>3 DEF Readable
<1>5. mem["state"][i].val = NOTIFIED \/ (mem["state"][i].val = WAITING /\ SeesWaiting)
  <2>1. mem["state"][i].val \in {WAITING, NOTIFIED}
    BY <1>1, <1>4 DEF Contents
  <2>2. ASSUME mem["state"][i].val # NOTIFIED PROVE i = view["rx"]["state"]
    <3>1. ~(i > view["rx"]["state"])
      BY <1>4, <2>2 DEF ReceiverKnows
    <3> QED BY <1>3, <1>4, <3>1
  <2> QED BY <2>1, <2>2 DEF SeesWaiting
<1>6. rxPc' = "consume" \/ (rxPc' = "exchanged?" /\ SeesWaiting)
  BY <1>1, <1>5 DEF RxGoto
<1> DEFINE v == Later(Fenced("rx"), mem["state"][i].view)
<1>7. /\ Reads(v)
      /\ LockedRMW => barrier' = v
      /\ LockedRMW => \A k \in Location : v[k] >= barrier[k]
  <2>1. InMem(mem["state"][i].view, mem) /\ "state" \in Location
    BY <1>4 DEF MemoryOK, Location
  <2> QED BY <1>1, <1>2, <2>1, FailedReads
<1> HIDE DEF v
<1>8. /\ MemoryOK' /\ Contents' /\ SenderKnows' /\ ReceiverKnows' /\ WakeTells'
      /\ view'["rx"] = v /\ mem' = mem
      /\ SeesWaiting' => SeesWaiting
      /\ \A l \in Location : v[l] \in Nat /\ v[l] <= Len(mem[l]) /\ v[l] >= view["rx"][l]
  BY <1>7, ReadKeeps DEF Reads
<1>9. Control' /\ LastAttempt'
  BY <1>2, <1>6, <1>8 DEF Control, LastAttempt
<1>10. Registered' /\ StillWaiting' /\ WaitIsOwed'
  BY <1>2, <1>6, <1>8 DEF Registered, StillWaiting, WaitIsOwed, Owed, Latest
<1>11. ASSUME LockedRMW, LockedInv PROVE LockedInv'
  <2>1. Announced(barrier) => Announced(v)
    BY <1>7, <1>8, <1>11, Sizes, AnnouncedGrows DEF Location
  <2>2. Announced(v) /\ barrier' = v
    BY <1>7, <1>11, <2>1 DEF LockedInv, BarrierCovers
  <2>3. BarrierCovers' /\ ReceiverSees'
    BY <1>2, <1>8, <2>2 DEF BarrierCovers, ReceiverSees, Announced
  <2>4. FoundEmpty' /\ FoundOpen'
    BY <1>2, <1>6, <1>8, <1>11 DEF LockedInv, FoundEmpty, FoundOpen, Emptied, Told, Latest
  <2> QED BY <2>3, <2>4 DEF LockedInv
<1> QED BY <1>8, <1>9, <1>10, <1>11

LEMMA CompareExchangeStep ==
  ASSUME ReceiveInv, CompareExchange
  PROVE  ReceiveInv' /\ (LockedRMW /\ LockedInv => LockedInv')
<1>1. CASE ExchangeWins
  BY <1>1, ExchangeWinsStep
<1>2. CASE ExchangeFails
  BY <1>2, ExchangeFailsStep
<1> QED BY <1>1, <1>2 DEF CompareExchange, ExchangeWins, ExchangeFails

LEMMA ConsumeStep ==
  ASSUME ReceiveInv, Consume
  PROVE  ReceiveInv' /\ (LockedInv => LockedInv')
<1> USE DEF ReceiveInv
<1>1. /\ Write("rx", "state", EMPTY, view["rx"])
      /\ rxPc = "consume" /\ rxPc' = "drop" /\ barrier' = barrier
      /\ txPc' = txPc /\ woken' = woken /\ wokenView' = wokenView /\ taken' = taken
  BY DEF Consume, Release, RxGoto
<1>2. /\ "rx" \in Thread /\ "tx" \in Thread \ {"rx"} /\ "state" \in Location
      /\ {"tail", "closed", "waker"} \subseteq Location \ {"state"}
      /\ EMPTY \in Val /\ InMem(view["rx"], mem)
      /\ InMem(barrier, mem) /\ InMem(wokenView, mem)
  BY DEF Thread, Location, Val, MemoryOK
<1>3. MemoryOK'
  <2>1. InMem(barrier', mem') /\ InMem(wokenView', mem')
    BY <1>1, <1>2, WriteFacts
  <2> QED BY <1>1, <1>2, <2>1, WriteMemory
<1>4. /\ Len(mem'["state"]) = Len(mem["state"]) + 1
      /\ \A i \in 1..Len(mem["state"]) : mem'["state"][i] = mem["state"][i]
      /\ mem'["state"][Len(mem["state"]) + 1].val = EMPTY
      /\ \A k \in Location \ {"state"} : mem'[k] = mem[k]
      /\ view'["rx"]["state"] = Len(mem["state"]) + 1
      /\ \A k \in Location \ {"state"} : view'["rx"][k] = view["rx"][k]
      /\ \A u \in Thread \ {"rx"} : view'[u] = view[u]
  BY <1>1, <1>2, Numbers
<1>5. \A l \in {"tail", "closed", "waker"} : mem'[l] = mem[l]
  BY <1>2, <1>4
<1>6. view'["tx"] = view["tx"]
  BY <1>2, <1>4
<1>7. /\ Contents' /\ SenderKnows' /\ ReceiverKnows' /\ WakeTells'
      /\ Latest("state")' = EMPTY /\ Latest("waker")' = Latest("waker")
  BY <1>1, <1>3, <1>4, <1>5, <1>6, StateWritten
<1>8. Control' /\ LastAttempt' /\ Registered' /\ StillWaiting' /\ WaitIsOwed'
  BY <1>1, <1>5 DEF Control, LastAttempt, Registered, StillWaiting, WaitIsOwed
<1>9. LockedInv => LockedInv'
  BY <1>1, <1>5 DEF LockedInv, BarrierCovers, ReceiverSees, FoundEmpty, FoundOpen, Emptied,
                    Announced
<1> QED BY <1>3, <1>7, <1>8, <1>9

\* The clean-up of a future that is ready changes nothing, but it is an exchange: with
\* LockedRMW it brings the receiver all that was announced.
LEMMA DropFutureStep ==
  ASSUME ReceiveInv, DropFuture
  PROVE  ReceiveInv' /\ (LockedRMW /\ LockedInv => LockedInv')
<1> USE DEF ReceiveInv
<1>1. PICK i \in Readable("rx", "state") :
        FailedExchange("rx", "state", i, [view["rx"] EXCEPT !["state"] = i])
  BY DEF DropFuture
<1>2. /\ rxPc = "drop" /\ rxPc' = "pop" /\ taken' = taken
      /\ txPc' = txPc /\ woken' = woken /\ wokenView' = wokenView
  BY DEF DropFuture, RxGoto
<1> DEFINE seen == [view["rx"] EXCEPT !["state"] = i]
           v == Later(Fenced("rx"), seen)
<1>3. InMem(seen, mem)
  <2>1. /\ Len(mem["state"]) \in Nat
        /\ view["rx"]["state"] \in Nat /\ view["rx"]["state"] >= 1
    BY Sizes DEF Location, Thread
  <2>2. i \in Nat /\ i \in 1..Len(mem["state"])
    BY <2>1 DEF Readable
  <2>3. view["rx"] \in [Location -> Nat] /\ \A l \in Location : view["rx"][l] \in 1..Len(mem[l])
    BY DEF MemoryOK, InMem, View, Thread
  <2>4. seen \in [Location -> Nat]
    BY <2>2, <2>3
  <2>5. \A l \in Location : seen[l] = IF l = "state" THEN i ELSE view["rx"][l]
    BY <2>3
  <2> HIDE DEF seen
  <2> QED BY <2>2, <2>3, <2>4, <2>5 DEF InMem, View
<1>4. /\ Reads(v)
      /\ LockedRMW => barrier' = v
      /\ LockedRMW => \A k \in Location : v[k] >= barrier[k]
  <2> HIDE DEF seen
  <2>1. "state" \in Location /\ FailedExchange("rx", "state", i, seen)
    BY <1>1 DEF Location, seen
  <2> QED BY <1>2, <1>3, <2>1, FailedReads
<1> HIDE DEF v
<1>5. /\ MemoryOK' /\ Contents' /\ SenderKnows' /\ ReceiverKnows' /\ WakeTells'
      /\ view'["rx"] = v /\ mem' = mem
      /\ \A l \in Location : v[l] \in Nat /\ v[l] <= Len(mem[l])
  BY <1>4, ReadKeeps DEF Reads
<1>6. Control' /\ LastAttempt' /\ Registered' /\ StillWaiting' /\ WaitIsOwed'
  BY <1>2, <1>5 DEF Control, LastAttempt, Registered, StillWaiting, WaitIsOwed
<1>7. ASSUME LockedRMW, LockedInv PROVE LockedInv'
  <2>1. Announced(barrier) => Announced(v)
    BY <1>4, <1>5, <1>7, Sizes, AnnouncedGrows DEF Location
  <2>2. Announced(v) /\ barrier' = v
    BY <1>4, <1>7, <2>1 DEF LockedInv, BarrierCovers
  <2>3. BarrierCovers' /\ ReceiverSees'
    BY <1>2, <1>5, <2>2 DEF BarrierCovers, ReceiverSees, Announced
  <2>4. FoundEmpty' /\ FoundOpen'
    BY <1>2 DEF FoundEmpty, FoundOpen, Emptied
  <2> QED BY <2>3, <2>4 DEF LockedInv
<1> QED BY <1>5, <1>6, <1>7

LEMMA PollStep ==
  ASSUME ReceiveInv, Poll
  PROVE  ReceiveInv' /\ (LockedInv => LockedInv')
<1> USE DEF ReceiveInv
<1> DEFINE v == IF woken THEN Later(view["rx"], wokenView) ELSE view["rx"]
<1>1. /\ view' = [view EXCEPT !["rx"] = v] /\ mem' = mem /\ barrier' = barrier
      /\ woken' = FALSE /\ rxPc = "pending" /\ rxPc' = "polled?"
      /\ txPc' = txPc /\ wokenView' = wokenView /\ taken' = taken
  BY DEF Poll, MemoryOK, Thread
<1>2. InMem(view["rx"], mem) /\ InMem(wokenView, mem) /\ InMem(barrier, mem)
  BY DEF MemoryOK, Thread
<1>3. InMem(v, mem) /\ \A l \in Location : v[l] >= view["rx"][l]
  <2>1. /\ InMem(Later(view["rx"], wokenView), mem)
        /\ \A l \in Location : Later(view["rx"], wokenView)[l] >= view["rx"][l]
    BY <1>2, LaterFacts
  <2>2. \A l \in Location : view["rx"][l] >= view["rx"][l]
    BY Sizes DEF Thread
  <2> QED BY <1>2, <2>1, <2>2
<1>4. Reads(v)
  BY <1>1, <1>2, <1>3 DEF Reads
<1> HIDE DEF v
<1>5. /\ MemoryOK' /\ Contents' /\ SenderKnows' /\ ReceiverKnows' /\ WakeTells'
      /\ view'["rx"] = v
      /\ \A l \in Location : v[l] \in Nat /\ v[l] <= Len(mem[l]) /\ v[l] >= view["rx"][l]
  BY <1>3, <1>4, ReadKeeps
<1>6. Control' /\ LastAttempt' /\ Registered' /\ StillWaiting' /\ WaitIsOwed'
  BY <1>1 DEF Control, LastAttempt, Registered, StillWaiting, WaitIsOwed
<1>7. ASSUME LockedInv PROVE LockedInv'
  <2>1. Announced(view["rx"]) => Announced(v)
    BY <1>5, Sizes, AnnouncedGrows DEF Location, Thread
  <2>2. BarrierCovers' /\ ReceiverSees'
    BY <1>1, <1>5, <1>7, <2>1 DEF LockedInv, BarrierCovers, ReceiverSees, Announced, Told, Latest
  <2>3. FoundEmpty' /\ FoundOpen'
    BY <1>1, <1>7 DEF LockedInv, FoundEmpty, FoundOpen, Emptied, Told, Latest
  <2> QED BY <2>2, <2>3 DEF LockedInv
<1> QED BY <1>5, <1>6, <1>7

-----------------------------------------------------------------------------

LEMMA InitHolds == Init => ReceiveInv /\ LockedInv
<1> SUFFICES ASSUME Init PROVE ReceiveInv /\ LockedInv
  OBVIOUS
<1>1. InitialView \in View /\ \A l \in Location : InitialView[l] = 1
  BY DEF InitialView, View
<1>2. ASSUME NEW l \in Location
      PROVE  /\ mem[l] \in Seq(Message) /\ Len(mem[l]) = 1 /\ mem[l][1].view = InitialView
             /\ mem[l][1].val = CASE l = "tail"  -> 0
                                  [] l = "state" -> EMPTY
                                  [] OTHER       -> FALSE
  <2> DEFINE x == CASE l = "tail" -> 0 [] l = "state" -> EMPTY [] OTHER -> FALSE
             message == [val |-> x, view |-> InitialView]
  <2>1. x \in Val
    BY DEF Val
  <2>2. mem[l] = <<message>>
    BY DEF Init
  <2>3. message.val = x /\ message.view = InitialView
    OBVIOUS
  <2> HIDE DEF x
  <2>4. message \in Message
    BY <1>1, <2>1 DEF Message
  <2> HIDE DEF message
  <2>5. mem[l] \in Seq(Message) /\ Len(mem[l]) = 1 /\ mem[l][1] = message
    BY <2>2, <2>4
  <2> QED BY <2>3, <2>5 DEF x
<1>3. /\ mem["tail"][1].val = 0 /\ mem["state"][1].val = EMPTY
      /\ mem["closed"][1].val = FALSE /\ mem["waker"][1].val = FALSE
  BY <1>2 DEF Location
<1>4. /\ Len(mem["tail"]) = 1 /\ Len(mem["state"]) = 1
      /\ Len(mem["closed"]) = 1 /\ Len(mem["waker"]) = 1
  BY <1>2 DEF Location
<1>5. \A l \in Location : /\ mem[l] \in Seq(Message) /\ Len(mem[l]) = 1
                            /\ mem[l][1].view = InitialView
  BY <1>2, Zenon
<1>6. InMem(InitialView, mem)
  <2>1. \A l \in Location : InitialView[l] \in 1..Len(mem[l])
    <3>1. 1 \in 1..1
      OBVIOUS
    <3> QED BY <1>1, <1>5, <3>1, Zenon
  <2> QED BY <1>1, <2>1 DEF InMem
<1>7. /\ mem \in [Location -> Seq(Message)]
      /\ \A t \in Thread : view[t] = InitialView
      /\ view \in [Thread -> View] /\ barrier = InitialView /\ wokenView = InitialView
  <2>1. mem \in [Location -> Seq(Message)]
    <3>1. mem = [l \in Location |-> mem[l]]
      BY DEF Init
    <3> QED BY <1>2, <3>1
  <2> QED BY <1>1, <2>1 DEF Init, Thread
<1>8. MemoryOK
  <2>1. \A l \in Location : \A i \in 1..Len(mem[l]) : mem[l][i].view = InitialView
    <3> SUFFICES ASSUME NEW l \in Location, NEW i \in 1..Len(mem[l])
                 PROVE  mem[l][i].view = InitialView
      OBVIOUS
    <3>1. Len(mem[l]) = 1 /\ mem[l][1].view = InitialView
      BY <1>5, Zenon
    <3>2. i = 1
      BY <3>1
    <3> QED BY <3>1, <3>2
  <2>2. \A l \in Location : Len(mem[l]) >= 1
    <3>1. 1 >= 1
      OBVIOUS
    <3> QED BY <1>5, <3>1, Zenon
  <2> QED BY <1>6, <1>7, <2>1, <2>2 DEF MemoryOK
<1>9. /\ txPc = "idle" /\ rxPc = "pop" /\ woken = FALSE /\ taken = 0
      /\ view["tx"]["tail"] = 1 /\ view["tx"]["closed"] = 1 /\ view["tx"]["state"] = 1
      /\ view["rx"]["tail"] = 1 /\ view["rx"]["closed"] = 1 /\ view["rx"]["state"] = 1
      /\ barrier["tail"] = 1 /\ barrier["closed"] = 1
  BY <1>1, <1>7 DEF Init, Thread, Location
<1>10. \A i \in 1..1 : i = 1
  OBVIOUS
<1>11. Contents
  <2>1. \A i \in 1..Len(mem["tail"]) : mem["tail"][i].val = i - 1
    <3>1. 0 = 1 - 1
      OBVIOUS
    <3> QED BY <1>3, <1>4, <1>10, <3>1
  <2>2. \A i \in 1..Len(mem["state"]) : mem["state"][i].val \in {EMPTY, WAITING, NOTIFIED}
    BY <1>3, <1>4, <1>10
  <2>3. \A i \in 1..Len(mem["waker"]) : mem["waker"][i].val \in BOOLEAN
    BY <1>3, <1>4, <1>10
  <2> QED BY <1>3, <1>4, <2>1, <2>2, <2>3 DEF Contents
<1>12. Control /\ SenderKnows /\ LastAttempt
  <2>1. Control
    <3>1. 0 \in Nat /\ 0 < 1 /\ 1 # 2 /\ FALSE \in BOOLEAN
      OBVIOUS
    <3> QED BY <1>4, <1>9, <3>1, Zenon DEF Control, Newest
  <2>2. ~Told
    BY <1>3, <1>4 DEF Told, Latest
  <2>3. SenderKnows /\ LastAttempt
    BY <1>4, <1>9, <2>2 DEF SenderKnows, LastAttempt
  <2> QED BY <2>1, <2>3
<1>13. ReceiverKnows
  BY <1>4, <1>9, <1>10 DEF ReceiverKnows
<1>14. WakeTells /\ Registered /\ StillWaiting /\ WaitIsOwed
  BY <1>3, <1>9 DEF WakeTells, Registered, StillWaiting, WaitIsOwed, SeesWaiting
<1>15. LockedInv
  BY <1>4, <1>9 DEF LockedInv, BarrierCovers, ReceiverSees, FoundEmpty, FoundOpen, Emptied,
                    Announced
<1> QED BY <1>8, <1>11, <1>12, <1>13, <1>14, <1>15 DEF ReceiveInv

LEMMA StutterKeeps ==
  ASSUME ReceiveInv, UNCHANGED vars
  PROVE  ReceiveInv' /\ (LockedInv => LockedInv')
<1> USE DEF vars
<1>1. /\ MemoryOK' /\ Contents' /\ Control' /\ SenderKnows' /\ ReceiverKnows' /\ LastAttempt'
  <2>1. MemoryOK'
    BY DEF ReceiveInv, MemoryOK, InMem
  <2>2. Contents' /\ Control'
    BY DEF ReceiveInv, Contents, Control
  <2>3. SenderKnows' /\ ReceiverKnows' /\ LastAttempt'
    BY DEF ReceiveInv, SenderKnows, ReceiverKnows, LastAttempt, Told, Latest
  <2> QED BY <2>1, <2>2, <2>3
<1>2. WakeTells' /\ Registered' /\ StillWaiting' /\ WaitIsOwed'
  BY DEF ReceiveInv, WakeTells, Registered, StillWaiting, WaitIsOwed, Owed, SeesWaiting, Latest
<1>3. LockedInv => LockedInv'
  BY DEF LockedInv, BarrierCovers, ReceiverSees, FoundEmpty, FoundOpen, Announced, Told, Latest
<1> QED BY <1>1, <1>2, <1>3 DEF ReceiveInv

LEMMA StepKeeps ==
  ASSUME ReceiveInv, [Next]_vars
  PROVE  ReceiveInv' /\ (LockedRMW /\ LockedInv => LockedInv')
<1>1. CASE Push BY <1>1, PushStep
<1>2. CASE DropSender BY <1>2, DropSenderStep
<1>3. CASE NotifyOne BY <1>3, NotifyOneStep
<1>4. CASE Wake BY <1>4, WakeStep
<1>5. CASE Pop BY <1>5, PopStep
<1>6. CASE LoadClosed BY <1>6, LoadClosedStep
<1>7. CASE Register BY <1>7, RegisterStep
<1>8. CASE LoadState BY <1>8, LoadStateStep
<1>9. CASE CompareExchange BY <1>9, CompareExchangeStep
<1>10. CASE Consume BY <1>10, ConsumeStep
<1>11. CASE DropFuture BY <1>11, DropFutureStep
<1>12. CASE Poll BY <1>12, PollStep
<1>13. CASE UNCHANGED vars BY <1>13, StutterKeeps
<1> QED BY <1>1, <1>2, <1>3, <1>4, <1>5, <1>6, <1>7, <1>8, <1>9, <1>10, <1>11, <1>12, <1>13
        DEF Next

\* Whatever the hardware makes of a read-modify-write, recv() reports the end only
\* when it has returned everything that was sent: spsc.rs, try_recv() looks at the
\* ring once more after it has acquired the flag.
THEOREM Drained == Spec => []NoneMeansDrained
<1>1. ReceiveInv => NoneMeansDrained
  <2> SUFFICES ASSUME ReceiveInv, rxPc = "gone"
               PROVE  taken = Latest("tail") /\ Latest("closed")
    BY DEF NoneMeansDrained
  <2>1. /\ Latest("tail") = Len(mem["tail"]) - 1
        /\ Latest("closed") = TRUE <=> Len(mem["closed"]) = 2
    BY Ends DEF ReceiveInv
  <2>2. taken + 1 = Len(mem["tail"]) /\ Len(mem["closed"]) = 2 /\ taken \in Nat
    BY DEF ReceiveInv, LastAttempt, Control
  <2>3. Len(mem["tail"]) \in Nat
    BY Sizes DEF ReceiveInv, Location
  <2> QED BY <2>1, <2>2, <2>3
<1>2. Init => ReceiveInv
  BY InitHolds
<1>3. ReceiveInv /\ [Next]_vars => ReceiveInv'
  BY StepKeeps
<1> QED BY <1>1, <1>2, <1>3, PTL DEF Spec

\* Where a read-modify-write is a full barrier, a receiver waits only for a sender that
\* is there and has sent nothing more: "waits if buffer is empty" (spsc.rs, recv()).
THEOREM WaitsOnLockedRMW ==
  ASSUME LockedRMW
  PROVE  Spec => []WaitsIfEmpty
<1>1. ReceiveInv /\ LockedInv => WaitsIfEmpty
  <2> SUFFICES ASSUME ReceiveInv, LockedInv,
                      rxPc = "pending", ~woken, txPc \in {"idle", "gone"}
               PROVE  taken = Latest("tail") /\ ~Latest("closed")
    BY DEF WaitsIfEmpty
  <2>1. Latest("state") = WAITING
    BY DEF ReceiveInv, WaitIsOwed, Owed
  <2>2. taken + 1 = Len(mem["tail"]) /\ Len(mem["closed"]) = 1 /\ taken \in Nat
    BY <2>1 DEF ReceiveInv, LockedInv, FoundEmpty, FoundOpen, Emptied, Told, Control
  <2>3. /\ Latest("tail") = Len(mem["tail"]) - 1
        /\ Latest("closed") = FALSE <=> Len(mem["closed"]) = 1
    BY Ends DEF ReceiveInv
  <2>4. Len(mem["tail"]) \in Nat
    BY Sizes DEF ReceiveInv, Location
  <2> QED BY <2>2, <2>3, <2>4
<1>2. Init => ReceiveInv /\ LockedInv
  BY InitHolds
<1>3. ReceiveInv /\ LockedInv /\ [Next]_vars => ReceiveInv' /\ LockedInv'
  BY StepKeeps
<1> QED BY <1>1, <1>2, <1>3, PTL DEF Spec
=============================================================================
