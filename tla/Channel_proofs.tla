--------------------------- MODULE Channel_proofs ---------------------------
(***************************************************************************)
(* Proofs about Channel: its types, that no wakeup is lost, and that it is *)
(* a Fifo, for every set of threads, every capacity and every value.       *)
(***************************************************************************)
EXTENDS Channel, FiniteSetTheorems, TLAPS

-----------------------------------------------------------------------------
(* How many threads are at a point.                                        *)

Number(p, point) == Cardinality(At(p, point))

LEMMA AtFinite ==
    ASSUME NEW p, NEW point
    PROVE  IsFiniteSet(At(p, point)) /\ Number(p, point) \in Nat
<1>1. IsFiniteSet(At(p, point))
  BY FS_Subset, ChannelAssumption DEF At
<1>2. QED BY <1>1, FS_CardinalityType DEF Number

\* Between p and q, thread t goes from x to y and nobody else moves.
Moves(p, q, t, x, y) ==
    /\ p \in [Thread -> Points] /\ q \in [Thread -> Points]
    /\ t \in Thread /\ p[t] = x /\ q[t] = y /\ x # y
    /\ \A u \in Thread \ {t} : q[u] = p[u]

LEMMA Moved ==
    ASSUME NEW p, NEW q, NEW t, NEW x, NEW y, Moves(p, q, t, x, y)
    PROVE  /\ At(q, x) \subseteq At(p, x) /\ Number(q, x) = Number(p, x) - 1
           /\ Number(q, y) = Number(p, y) + 1
           /\ \A z : z # x /\ z # y => At(q, z) = At(p, z) /\ Number(q, z) = Number(p, z)
<1>1. At(q, x) = At(p, x) \ {t} /\ t \in At(p, x)
  BY DEF At, Moves
<1>2. At(q, y) = At(p, y) \cup {t} /\ t \notin At(p, y)
  BY DEF At, Moves
<1>3. \A z : z # x /\ z # y => At(q, z) = At(p, z)
  BY DEF At, Moves
<1>4. Number(q, x) = Number(p, x) - 1
  BY <1>1, AtFinite, FS_RemoveElement DEF Number
<1>5. Number(q, y) = Number(p, y) + 1
  BY <1>2, AtFinite, FS_AddElement DEF Number
<1>6. QED BY <1>1, <1>3, <1>4, <1>5 DEF Number

\* Which operation each point belongs to.
LEMMA CallOf ==
    /\ \A op \in Calls : Call(op) = op
    /\ \A op \in Calls : op # "none"
    /\ Call("idle") = "none"
    /\ Call("onFull") = "send" /\ Call("sendAgain") = "send"
    /\ Call("onEmpty") = "recv" /\ Call("recvAgain") = "recv"
    /\ "send" \in Calls /\ "recv" \in Calls /\ "try" \in Calls /\ "close" \in Calls
BY DEF Call, Calls

\* Waking a sleeper does not change the operation it is in.
LEMMA Waking ==
    ASSUME NEW point \in Asleep
    PROVE  Awake[point] \in Points /\ Call(Awake[point]) = Call(point)
BY DEF Asleep, Awake, Points, Calls, Call

\* A signal moves one sleeper of the condition to where it tries again, if there is one.
LEMMA Signalled ==
    ASSUME NEW p \in [Thread -> Points], NEW point \in Asleep, NEW q \in Signal(p, point)
    PROVE  /\ q \in [Thread -> Points]
           /\ \A t \in Thread : Call(q[t]) = Call(p[t])
           /\ At(p, point) = {} => q = p
           /\ At(p, point) # {} => Number(q, Awake[point]) = Number(p, Awake[point]) + 1
           /\ \A z : z \notin {point, Awake[point]} => At(q, z) = At(p, z) /\ Number(q, z) = Number(p, z)
<1>1. CASE At(p, point) = {}
  BY <1>1 DEF Signal
<1>2. CASE At(p, point) # {}
  <2>1. PICK u \in Thread : p[u] = point /\ q = [p EXCEPT ![u] = Awake[point]]
    BY <1>2 DEF Signal, At
  <2> DEFINE again == Awake[point]
  <2>2. again \in Points /\ point \in Points /\ again # point /\ Call(again) = Call(point)
    BY DEF Asleep, Awake, Points, Calls, Call
  <2>3. q = [p EXCEPT ![u] = again]
    BY <2>1
  <2>4. q \in [Thread -> Points] /\ q[u] = again /\ \A t \in Thread \ {u} : q[t] = p[t]
    BY <2>2, <2>3
  <2> HIDE DEF again
  <2>5. /\ Number(q, again) = Number(p, again) + 1
        /\ \A z : z # point /\ z # again => At(q, z) = At(p, z) /\ Number(q, z) = Number(p, z)
    <3>1. Moves(p, q, u, point, again)
      BY <2>1, <2>2, <2>4 DEF Moves
    <3>2. QED BY <3>1, Moved
  <2>6. \A t \in Thread : Call(q[t]) = Call(p[t])
    BY <2>1, <2>2, <2>4
  <2>7. QED BY <1>2, <2>4, <2>5, <2>6 DEF again
<1>3. QED BY <1>1, <1>2

-----------------------------------------------------------------------------

LEMMA TypeStep == TypeOK /\ [Next]_vars => TypeOK'
<1> SUFFICES ASSUME TypeOK, [Next]_vars PROVE TypeOK'
  OBVIOUS
<1> DEFINE Carries(p, i) == \A t \in Thread : Call(p[t]) = "send" <=> i[t] # Nil
<1>1. ASSUME NEW t \in Thread, NEW op \in Calls, NEW v \in Value \cup {Nil}, Begin(t, op, v)
      PROVE  TypeOK'
  <2>1. v # Nil <=> op = "send"
    BY <1>1, ChannelAssumption DEF Begin
  <2>2. op \in Points /\ op \notin {"onFull", "sendAgain"}
    BY DEF Points, Calls
  <2>3. Carries(pc', item')
    BY <1>1, <2>1, CallOf DEF Begin, TypeOK
  <2>4. QED BY <1>1, <2>2, <2>3 DEF Begin, TypeOK
<1>2. ASSUME NEW t \in Thread, SendClosed(t) PROVE TypeOK'
  <2>1. Carries(pc', item')
    BY <1>2, CallOf DEF SendClosed, Return, TypeOK
  <2>2. pc' \in [Thread -> Points]
    BY <1>2 DEF SendClosed, TypeOK, Points
  <2>3. QED BY <1>2, <2>1, <2>2 DEF SendClosed, Return, TypeOK
<1>3. ASSUME NEW t \in Thread, SendWait(t) PROVE TypeOK'
  <2>1. Carries(pc', item')
    BY <1>3, CallOf DEF SendWait, Sending, TypeOK
  <2>2. pc' \in [Thread -> Points]
    BY <1>3 DEF SendWait, TypeOK, Points, Asleep
  <2>3. QED BY <1>3, <2>1, <2>2 DEF SendWait, TypeOK
<1>4. ASSUME NEW t \in Thread, SendItem(t) PROVE TypeOK'
  <2> DEFINE p == [pc EXCEPT ![t] = "idle"]
  <2>1. p \in [Thread -> Points] /\ "onEmpty" \in Asleep
    BY DEF TypeOK, Points, Asleep
  <2>2. pc' \in Signal(p, "onEmpty")
    BY <1>4 DEF SendItem
  <2>3. pc' \in [Thread -> Points]
    BY <2>1, <2>2, Signalled
  <2>4. Carries(p, item')
    BY <1>4, CallOf DEF SendItem, Return, TypeOK
  <2>5. Carries(pc', item')
    BY <2>1, <2>2, <2>4, Signalled, ZenonT(60)
  <2>6. item[t] \in Value
    BY <1>4, CallOf DEF SendItem, Sending, TypeOK
  <2>7. queue' \in Seq(Value) /\ (capacity' > 0 => Len(queue') <= capacity')
    BY <1>4, <2>6, ChannelAssumption DEF SendItem, MustWait, TypeOK
  <2>8. QED BY <1>4, <2>3, <2>5, <2>7 DEF SendItem, Return, TypeOK
<1>5. ASSUME NEW t \in Thread, RecvWait(t) PROVE TypeOK'
  <2>1. Carries(pc', item')
    BY <1>5, CallOf DEF RecvWait, Receiving, TypeOK
  <2>2. pc' \in [Thread -> Points]
    BY <1>5 DEF RecvWait, TypeOK, Points, Asleep
  <2>3. QED BY <1>5, <2>1, <2>2 DEF RecvWait, TypeOK
<1>6. ASSUME NEW t \in Thread, RecvNothing(t) PROVE TypeOK'
  <2>1. Carries(pc', item')
    BY <1>6, CallOf DEF RecvNothing, Return, TypeOK
  <2>2. pc' \in [Thread -> Points]
    BY <1>6 DEF RecvNothing, TypeOK, Points
  <2>3. QED BY <1>6, <2>1, <2>2 DEF RecvNothing, Return, TypeOK
<1>7. ASSUME NEW t \in Thread, RecvItem(t) PROVE TypeOK'
  <2> DEFINE p == [pc EXCEPT ![t] = "idle"]
  <2>1. p \in [Thread -> Points] /\ "onFull" \in Asleep
    BY DEF TypeOK, Points, Asleep
  <2>2. pc' \in Signal(p, "onFull")
    BY <1>7 DEF RecvItem
  <2>3. pc' \in [Thread -> Points]
    BY <2>1, <2>2, Signalled
  <2>4. Carries(p, item')
    BY <1>7, CallOf DEF RecvItem, Return, TypeOK
  <2>5. Carries(pc', item')
    BY <2>1, <2>2, <2>4, Signalled, ZenonT(60)
  <2>6. /\ queue' \in Seq(Value) /\ Head(queue) \in Value
        /\ Len(queue) \in Nat /\ Len(queue') \in Nat /\ Len(queue') <= Len(queue)
    BY <1>7 DEF RecvItem, TypeOK
  <2>7. capacity' > 0 => Len(queue') <= capacity'
    BY <1>7, <2>6, ChannelAssumption DEF RecvItem, TypeOK
  <2>8. QED BY <1>7, <2>3, <2>5, <2>6, <2>7 DEF RecvItem, Return, TypeOK
<1>8. ASSUME NEW t \in Thread, Close(t) PROVE TypeOK'
  <2> DEFINE p == [pc EXCEPT ![t] = "idle"]
  <2>1. p \in [Thread -> Points] /\ pc' = Broadcast(p)
    BY <1>8 DEF Close, TypeOK, Points
  <2>2. pc' \in [Thread -> Points]
    BY <2>1 DEF Broadcast, Asleep, Awake, Points
  <2>3. Carries(p, item')
    BY <1>8, CallOf DEF Close, Return, TypeOK
  <2>4. Carries(pc', item')
    BY <2>1, <2>3, Waking DEF Broadcast
  <2>5. QED BY <1>8, <2>2, <2>4 DEF Close, Return, TypeOK
<1>9. ASSUME NEW t \in Thread, Spurious(t) PROVE TypeOK'
  <2>1. pc' \in [Thread -> Points]
    BY <1>9 DEF Spurious, TypeOK, Asleep, Awake, Points
  <2>2. Carries(pc', item')
    BY <1>9, Waking DEF Spurious, TypeOK
  <2>3. QED BY <1>9, <2>1, <2>2 DEF Spurious, TypeOK
<1>10. CASE UNCHANGED vars
  BY <1>10 DEF vars, TypeOK
<1>11. QED
  BY <1>1, <1>2, <1>3, <1>4, <1>5, <1>6, <1>7, <1>8, <1>9, <1>10 DEF Next, Run

\* Every variable keeps its type, a bounded channel never holds more than its capacity,
\* and a thread carries a value exactly while it is sending.
THEOREM TypeCorrect == Spec => []TypeOK
<1>1. Init => TypeOK
  <2> SUFFICES ASSUME Init PROVE TypeOK
    OBVIOUS
  <2> USE DEF Init
  <2>1. capacity \in Capacities /\ closed \in BOOLEAN /\ queue = <<>>
    OBVIOUS
  <2>2. capacity > 0 => Len(queue) <= capacity
    BY <2>1, ChannelAssumption
  <2>3. queue \in Seq(Value)
    BY <2>1
  <2>4. pc \in [Thread -> Points] /\ item \in [Thread -> Value \cup {Nil}]
    BY DEF Points
  <2>5. result \in [Thread -> Value \cup {Nil, "none", "sent", "refused", "closed"}]
    OBVIOUS
  <2>6. \A t \in Thread : Call(pc[t]) = "send" <=> item[t] # Nil
    BY CallOf
  <2>7. QED BY <2>1, <2>2, <2>3, <2>4, <2>5, <2>6 DEF TypeOK
<1>2. QED BY <1>1, TypeStep, PTL DEF Spec

-----------------------------------------------------------------------------
(* No wakeup is lost.                                                      *)

\* Leaving a point, or arriving at one nobody sleeps at, as the wakeup counts see it.
LEMMA WakeupStep ==
    ASSUME TypeOK, NoLostWakeup, [Next]_vars
    PROVE  NoLostWakeup'
<1> USE DEF Number
<1>1. TypeOK'
  BY TypeStep
<1>2. /\ Len(queue) \in Nat /\ Len(queue') \in Nat /\ capacity \in Nat /\ capacity' \in Nat
      /\ pc \in [Thread -> Points] /\ pc' \in [Thread -> Points]
  BY <1>1, ChannelAssumption DEF TypeOK
<1>3. \A z : Number(pc, z) \in Nat /\ Number(pc', z) \in Nat
  BY AtFinite
<1>4. ASSUME NEW t \in Thread, NEW op \in Calls, NEW v \in Value \cup {Nil}, Begin(t, op, v)
      PROVE  NoLostWakeup'
  <2>1. Moves(pc, pc', t, "idle", op)
    BY <1>2, <1>4 DEF Begin, Moves, Calls
  <2>2. \A z \in {"onEmpty", "onFull", "recvAgain", "sendAgain"} : At(pc', z) = At(pc, z)
    BY <2>1, Moved DEF Calls
  <2>3. QED
    BY <1>4, <2>2 DEF Begin, NoLostWakeup, ReceiversCovered, SendersCovered, ClosedWakesAll
<1>5. ASSUME NEW t \in Thread, SendClosed(t) PROVE NoLostWakeup'
  <2>1. Moves(pc, pc', t, pc[t], "idle")
    BY <1>2, <1>5 DEF SendClosed, Sending, Moves
  <2>2. At(pc', "onEmpty") = At(pc, "onEmpty") /\ At(pc', "onFull") = At(pc, "onFull")
    BY <1>5, <2>1, Moved DEF SendClosed, Sending
  <2>3. QED
    BY <1>5, <2>2 DEF SendClosed, NoLostWakeup, ReceiversCovered, SendersCovered, ClosedWakesAll
<1>6. ASSUME NEW t \in Thread, SendWait(t) PROVE NoLostWakeup'
  <2>1. Moves(pc, pc', t, pc[t], "onFull")
    BY <1>2, <1>6 DEF SendWait, Sending, Moves
  <2>2. At(pc', "onEmpty") = At(pc, "onEmpty") /\ At(pc', "recvAgain") = At(pc, "recvAgain")
    BY <1>6, <2>1, Moved DEF SendWait, Sending
  <2>3. capacity' - Len(queue') <= Cardinality(At(pc', "sendAgain"))
    <3>1. capacity' = capacity /\ queue' = queue /\ capacity <= Len(queue)
      BY <1>2, <1>6 DEF SendWait, MustWait
    <3>2. Cardinality(At(pc', "sendAgain")) \in Nat
      BY <1>3
    <3>3. QED BY <1>2, <3>1, <3>2
  <2>4. QED
    BY <1>6, <2>2, <2>3 DEF SendWait, NoLostWakeup, ReceiversCovered, SendersCovered, ClosedWakesAll
<1>7. ASSUME NEW t \in Thread, SendItem(t) PROVE NoLostWakeup'
  <2> DEFINE p == [pc EXCEPT ![t] = "idle"]
  <2>1. Moves(pc, p, t, pc[t], "idle") /\ pc[t] \in {"send", "sendAgain"}
    BY <1>2, <1>7 DEF SendItem, Sending, Moves, Points
  <2>2. p \in [Thread -> Points] /\ pc' \in Signal(p, "onEmpty")
    BY <2>1, <1>7 DEF SendItem, Moves
  <2>3. Len(queue') = Len(queue) + 1 /\ capacity' = capacity /\ ~ closed'
    BY <1>7 DEF SendItem, TypeOK
  <2> HIDE DEF p
  <2>4. /\ \A z \in {"onEmpty", "recvAgain", "onFull"} : At(p, z) = At(pc, z)
        /\ Number(p, "sendAgain") >= Number(pc, "sendAgain") - 1
    BY <1>3, <2>1, Moved
  <2>5. /\ At(p, "onEmpty") = {} => pc' = p
        /\ At(p, "onEmpty") # {} => Number(pc', "recvAgain") = Number(p, "recvAgain") + 1
        /\ At(pc', "onFull") = At(p, "onFull") /\ At(pc', "sendAgain") = At(p, "sendAgain")
    BY <2>2, Signalled DEF Asleep, Awake
  <2>6. ReceiversCovered'
    BY <1>2, <1>3, <2>3, <2>4, <2>5 DEF NoLostWakeup, ReceiversCovered
  <2>7. SendersCovered'
    BY <1>2, <1>3, <2>3, <2>4, <2>5 DEF NoLostWakeup, SendersCovered
  <2>8. QED BY <2>3, <2>6, <2>7 DEF NoLostWakeup, ClosedWakesAll
<1>8. ASSUME NEW t \in Thread, RecvWait(t) PROVE NoLostWakeup'
  <2>1. Moves(pc, pc', t, pc[t], "onEmpty")
    BY <1>2, <1>8 DEF RecvWait, Receiving, Moves
  <2>2. At(pc', "onFull") = At(pc, "onFull") /\ At(pc', "sendAgain") = At(pc, "sendAgain")
    BY <1>8, <2>1, Moved DEF RecvWait, Receiving
  <2>3. Len(queue') <= Cardinality(At(pc', "recvAgain"))
    <3>1. Len(queue') = 0
      BY <1>8 DEF RecvWait
    <3>2. Cardinality(At(pc', "recvAgain")) \in Nat
      BY <1>3
    <3>3. QED BY <3>1, <3>2
  <2>4. QED
    BY <1>8, <2>2, <2>3 DEF RecvWait, NoLostWakeup, ReceiversCovered, SendersCovered, ClosedWakesAll
<1>9. ASSUME NEW t \in Thread, RecvNothing(t) PROVE NoLostWakeup'
  <2>1. Moves(pc, pc', t, pc[t], "idle") /\ pc[t] \in {"try", "recv", "recvAgain"}
    BY <1>2, <1>9 DEF RecvNothing, Receiving, Moves
  <2>2. \A z \in {"onEmpty", "onFull", "sendAgain"} : At(pc', z) = At(pc, z)
    BY <2>1, Moved
  <2>3. Len(queue') <= Cardinality(At(pc', "recvAgain"))
    <3>1. Len(queue') = 0
      BY <1>9 DEF RecvNothing
    <3>2. Cardinality(At(pc', "recvAgain")) \in Nat
      BY <1>3
    <3>3. QED BY <3>1, <3>2
  <2>4. QED
    BY <1>9, <2>2, <2>3 DEF RecvNothing, NoLostWakeup, ReceiversCovered, SendersCovered, ClosedWakesAll
<1>10. ASSUME NEW t \in Thread, RecvItem(t) PROVE NoLostWakeup'
  <2> DEFINE p == [pc EXCEPT ![t] = "idle"]
  <2>1. Moves(pc, p, t, pc[t], "idle") /\ pc[t] \in {"try", "recv", "recvAgain"}
    BY <1>2, <1>10 DEF RecvItem, Receiving, Moves, Points
  <2>2. p \in [Thread -> Points] /\ pc' \in Signal(p, "onFull")
    BY <2>1, <1>10 DEF RecvItem, Moves
  <2>3. Len(queue') = Len(queue) - 1 /\ capacity' = capacity /\ closed' = closed
    BY <1>10 DEF RecvItem, TypeOK
  <2> HIDE DEF p
  <2>4. /\ \A z \in {"onEmpty", "sendAgain", "onFull"} : At(p, z) = At(pc, z)
        /\ Number(p, "recvAgain") >= Number(pc, "recvAgain") - 1
    BY <1>3, <2>1, Moved
  <2>5. /\ At(p, "onFull") = {} => pc' = p
        /\ At(p, "onFull") # {} => Number(pc', "sendAgain") = Number(p, "sendAgain") + 1
        /\ At(pc', "onEmpty") = At(p, "onEmpty") /\ At(pc', "recvAgain") = At(p, "recvAgain")
    BY <2>2, Signalled DEF Asleep, Awake
  <2>6. ReceiversCovered'
    BY <1>2, <1>3, <2>3, <2>4, <2>5 DEF NoLostWakeup, ReceiversCovered
  <2>7. SendersCovered'
    BY <1>2, <1>3, <2>3, <2>4, <2>5 DEF NoLostWakeup, SendersCovered
  <2>8. ClosedWakesAll'
    BY <2>3, <2>4, <2>5 DEF NoLostWakeup, ClosedWakesAll
  <2>9. QED BY <2>6, <2>7, <2>8 DEF NoLostWakeup
<1>11. ASSUME NEW t \in Thread, Close(t) PROVE NoLostWakeup'
  <2>1. \A u \in Thread : pc'[u] \notin Asleep
    BY <1>11 DEF Close, Broadcast, Asleep, Awake
  <2>2. At(pc', "onEmpty") = {} /\ At(pc', "onFull") = {}
    BY <2>1 DEF At, Asleep
  <2>3. QED BY <2>2 DEF NoLostWakeup, ReceiversCovered, SendersCovered, ClosedWakesAll
<1>12. ASSUME NEW t \in Thread, Spurious(t) PROVE NoLostWakeup'
  <2>1. Moves(pc, pc', t, pc[t], Awake[pc[t]])
    BY <1>2, <1>12 DEF Spurious, Moves, Asleep, Awake
  <2>2. CASE pc[t] = "onEmpty"
    <3>1. Moves(pc, pc', t, "onEmpty", "recvAgain")
      BY <2>1, <2>2 DEF Awake
    <3>2. /\ At(pc', "onEmpty") \subseteq At(pc, "onEmpty")
          /\ Cardinality(At(pc', "recvAgain")) = Cardinality(At(pc, "recvAgain")) + 1
          /\ At(pc', "onFull") = At(pc, "onFull") /\ At(pc', "sendAgain") = At(pc, "sendAgain")
      BY <3>1, Moved
    <3>3. Cardinality(At(pc, "recvAgain")) \in Nat
      BY <1>3
    <3>4. capacity' = capacity /\ queue' = queue /\ closed' = closed
      BY <1>12 DEF Spurious
    <3>5. QED
      BY <1>2, <3>2, <3>3, <3>4
      DEF NoLostWakeup, ReceiversCovered, SendersCovered, ClosedWakesAll
  <2>3. CASE pc[t] = "onFull"
    <3>1. Moves(pc, pc', t, "onFull", "sendAgain")
      BY <2>1, <2>3 DEF Awake
    <3>2. /\ At(pc', "onFull") \subseteq At(pc, "onFull")
          /\ Cardinality(At(pc', "sendAgain")) = Cardinality(At(pc, "sendAgain")) + 1
          /\ At(pc', "onEmpty") = At(pc, "onEmpty") /\ At(pc', "recvAgain") = At(pc, "recvAgain")
      BY <3>1, Moved
    <3>3. Cardinality(At(pc, "sendAgain")) \in Nat
      BY <1>3
    <3>4. capacity' = capacity /\ queue' = queue /\ closed' = closed
      BY <1>12 DEF Spurious
    <3>5. QED
      BY <1>2, <3>2, <3>3, <3>4
      DEF NoLostWakeup, ReceiversCovered, SendersCovered, ClosedWakesAll
  <2>4. QED BY <1>12, <2>2, <2>3 DEF Spurious, Asleep
<1>13. CASE UNCHANGED vars
  BY <1>13 DEF vars, At, NoLostWakeup, ReceiversCovered, SendersCovered, ClosedWakesAll
<1>14. QED
  BY <1>4, <1>5, <1>6, <1>7, <1>8, <1>9, <1>10, <1>11, <1>12, <1>13 DEF Next, Run

\* Whatever the threads, the capacity and the interleaving, no wakeup is lost.
THEOREM WakeupsSuffice == Spec => []NoLostWakeup
<1>1. Init => NoLostWakeup
  BY DEF Init, At, NoLostWakeup, ReceiversCovered, SendersCovered, ClosedWakesAll
<1>2. TypeOK /\ NoLostWakeup /\ [Next]_vars => NoLostWakeup'
  BY WakeupStep
<1>3. QED BY <1>1, <1>2, TypeCorrect, PTL DEF Spec

-----------------------------------------------------------------------------
(* A channel is a Fifo.                                                    *)

calls(p) == [t \in Thread |-> Call(p[t])]

\* A thread that goes back to idle ends its call, whomever it wakes on the way.
LEMMA Replies ==
    ASSUME NEW p \in [Thread -> Points], NEW q \in [Thread -> Points], NEW t \in Thread,
           \A u \in Thread : Call(q[u]) = Call([p EXCEPT ![t] = "idle"][u])
    PROVE  calls(q) = [calls(p) EXCEPT ![t] = "none"]
<1>1. \A u \in Thread : Call(q[u]) = IF u = t THEN "none" ELSE Call(p[u])
  BY CallOf
<1>2. QED BY <1>1 DEF calls

LEMMA FifoStep ==
    ASSUME TypeOK, [Next]_vars
    PROVE  [F!Next]_(F!vars)
<1>0. pc \in [Thread -> Points] /\ pc' \in [Thread -> Points]
  BY TypeStep DEF TypeOK
<1>1. ASSUME NEW t \in Thread, NEW op \in Calls, NEW v \in Value \cup {Nil}, Begin(t, op, v)
      PROVE  F!Next
  <2>1. calls(pc') = [calls(pc) EXCEPT ![t] = op]
    <3>1. \A u \in Thread : Call(pc'[u]) = IF u = t THEN op ELSE Call(pc[u])
      BY <1>0, <1>1, CallOf DEF Begin
    <3>2. QED BY <3>1 DEF calls
  <2>2. calls(pc)[t] = "none"
    BY <1>1, CallOf DEF Begin, calls
  <2>3. F!Request(t, op, v)
    BY <1>1, <2>1, <2>2 DEF Begin, calls, Calls, F!Request
  <2>4. QED BY <2>3 DEF F!Next, Calls
<1>2. ASSUME NEW t \in Thread, SendClosed(t) PROVE F!Next
  <2>1. calls(pc') = [calls(pc) EXCEPT ![t] = "none"]
    BY <1>0, <1>2, Replies DEF SendClosed
  <2>2. calls(pc)[t] = "send"
    BY <1>2, CallOf DEF SendClosed, Sending, calls
  <2>3. F!Refuse(t)
    BY <1>2, <2>1, <2>2 DEF SendClosed, Return, calls, F!Refuse, F!Reply
  <2>4. QED BY <2>3 DEF F!Next
<1>3. ASSUME NEW t \in Thread, SendWait(t) PROVE UNCHANGED F!vars
  <2>1. calls(pc') = calls(pc)
    <3>1. \A u \in Thread : Call(pc'[u]) = Call(pc[u])
      BY <1>0, <1>3, CallOf DEF SendWait, Sending
    <3>2. QED BY <3>1 DEF calls
  <2>2. QED BY <1>3, <2>1 DEF SendWait, calls, F!vars
<1>4. ASSUME NEW t \in Thread, SendItem(t) PROVE F!Next
  <2> DEFINE p == [pc EXCEPT ![t] = "idle"]
  <2>1. p \in [Thread -> Points] /\ pc' \in Signal(p, "onEmpty") /\ "onEmpty" \in Asleep
    BY <1>0, <1>4 DEF SendItem, Points, Asleep
  <2>2. calls(pc') = [calls(pc) EXCEPT ![t] = "none"]
    <3>1. \A u \in Thread : Call(pc'[u]) = Call(p[u])
      BY <2>1, Signalled
    <3>2. QED BY <1>0, <3>1, Replies
  <2>3. calls(pc)[t] = "send"
    BY <1>4, CallOf DEF SendItem, Sending, calls
  <2>4. F!HasRoom
    BY <1>4, ChannelAssumption DEF SendItem, MustWait, TypeOK, F!HasRoom
  <2>5. F!Send(t)
    BY <1>4, <2>2, <2>3, <2>4 DEF SendItem, Return, calls, F!Send, F!Reply
  <2>6. QED BY <2>5 DEF F!Next
<1>5. ASSUME NEW t \in Thread, RecvWait(t) PROVE UNCHANGED F!vars
  <2>1. calls(pc') = calls(pc)
    <3>1. \A u \in Thread : Call(pc'[u]) = Call(pc[u])
      BY <1>0, <1>5, CallOf DEF RecvWait, Receiving
    <3>2. QED BY <3>1 DEF calls
  <2>2. QED BY <1>5, <2>1 DEF RecvWait, calls, F!vars
<1>6. ASSUME NEW t \in Thread, RecvNothing(t) PROVE F!Next
  <2>1. calls(pc') = [calls(pc) EXCEPT ![t] = "none"]
    BY <1>0, <1>6, Replies DEF RecvNothing
  <2>2. calls(pc)[t] = "try" \/ (calls(pc)[t] = "recv" /\ closed)
    BY <1>6, CallOf DEF RecvNothing, Receiving, calls
  <2>3. F!GiveUp(t)
    BY <1>6, <2>1, <2>2 DEF RecvNothing, Return, calls, F!GiveUp, F!Reply
  <2>4. QED BY <2>3 DEF F!Next
<1>7. ASSUME NEW t \in Thread, RecvItem(t) PROVE F!Next
  <2> DEFINE p == [pc EXCEPT ![t] = "idle"]
  <2>1. p \in [Thread -> Points] /\ pc' \in Signal(p, "onFull") /\ "onFull" \in Asleep
    BY <1>0, <1>7 DEF RecvItem, Points, Asleep
  <2>2. calls(pc') = [calls(pc) EXCEPT ![t] = "none"]
    <3>1. \A u \in Thread : Call(pc'[u]) = Call(p[u])
      BY <2>1, Signalled
    <3>2. QED BY <1>0, <3>1, Replies
  <2>3. calls(pc)[t] \in {"recv", "try"}
    BY <1>7, CallOf DEF RecvItem, Receiving, calls
  <2>4. F!Receive(t)
    BY <1>7, <2>2, <2>3 DEF RecvItem, Return, calls, F!Receive, F!Reply
  <2>5. QED BY <2>4 DEF F!Next
<1>8. ASSUME NEW t \in Thread, Close(t) PROVE F!Next
  <2> DEFINE p == [pc EXCEPT ![t] = "idle"]
  <2>1. p \in [Thread -> Points] /\ pc' = Broadcast(p)
    BY <1>0, <1>8 DEF Close, Points
  <2>2. \A u \in Thread : Call(pc'[u]) = Call(p[u])
    BY <2>1, Waking DEF Broadcast
  <2>3. calls(pc') = [calls(pc) EXCEPT ![t] = "none"]
    BY <1>0, <2>2, Replies
  <2>4. calls(pc)[t] = "close"
    BY <1>8, CallOf DEF Close, calls
  <2>5. F!Close(t)
    BY <1>8, <2>3, <2>4 DEF Close, Return, calls, F!Close, F!Reply
  <2>6. QED BY <2>5 DEF F!Next
<1>9. ASSUME NEW t \in Thread, Spurious(t) PROVE UNCHANGED F!vars
  <2>1. calls(pc') = calls(pc)
    <3>1. \A u \in Thread : Call(pc'[u]) = Call(pc[u])
      BY <1>0, <1>9, Waking DEF Spurious
    <3>2. QED BY <3>1 DEF calls
  <2>2. QED BY <1>9, <2>1 DEF Spurious, calls, F!vars
<1>10. CASE UNCHANGED vars
  BY <1>10 DEF vars, F!vars
<1>11. QED
  BY <1>1, <1>2, <1>3, <1>4, <1>5, <1>6, <1>7, <1>8, <1>9, <1>10 DEF Next, Run

\* Waiting and waking implement the first-in first-out queue, for any number of threads,
\* any values and any capacities.
THEOREM ChannelIsFifo == Spec => IsFifo
<1>1. Init => F!Init
  BY CallOf DEF Init, F!Init
<1>2. TypeOK /\ [Next]_vars => [F!Next]_(F!vars)
  BY FifoStep
<1>3. QED BY <1>1, <1>2, TypeCorrect, PTL DEF Spec, IsFifo, F!Spec
=============================================================================
