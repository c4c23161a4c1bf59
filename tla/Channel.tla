------------------------------ MODULE Channel ------------------------------
(***************************************************************************)
(* The channel module of src/src/stdlib.c: a linked queue, a mutex and the *)
(* condition variables not_full and not_empty.  Every operation touches    *)
(* the queue while it holds the mutex only, so what it does between taking *)
(* the mutex and giving it back, or sleeping, is one step.                 *)
(***************************************************************************)
EXTENDS Naturals, Sequences, FiniteSets

CONSTANTS Thread, Value, Nil,
          Capacities,  \* capacities given to channel.new, 0 = unbounded
          MaxQueue     \* bound of this model on the length of an unbounded queue

ASSUME ChannelAssumption ==
    /\ IsFiniteSet(Thread)
    /\ Nil \notin Value
    /\ Capacities \subseteq Nat
    /\ MaxQueue \in Nat

VARIABLES
    capacity,  \* ch->capacity
    queue,     \* the list from ch->head to ch->tail; ch->count is its length
    closed,    \* ch->closed
    pc,        \* per thread: where it is in an operation
    item,      \* per thread: args[1] of the send it is in
    result     \* per thread: what its last operation returned

vars == <<capacity, queue, closed, pc, item, result>>

\* Asleep in pthread_cond_wait, and awake but still to get the mutex back.
Asleep == {"onFull", "onEmpty"}
Awake  == [onFull |-> "sendAgain", onEmpty |-> "recvAgain"]

Calls == {"send", "recv", "try", "close"}
Points == {"idle"} \cup Calls \cup Asleep \cup {"sendAgain", "recvAgain"}

\* The operation a thread at this point is in.
Call(point) ==
    CASE point \in {"send", "onFull", "sendAgain"} -> "send"
      [] point \in {"recv", "onEmpty", "recvAgain"} -> "recv"
      [] point = "try" -> "try"
      [] point = "close" -> "close"
      [] OTHER -> "none"

At(p, point) == {t \in Thread : p[t] = point}

Init ==
    /\ capacity \in Capacities
    /\ queue = <<>>
    /\ closed = FALSE
    /\ pc = [t \in Thread |-> "idle"]
    /\ item = [t \in Thread |-> Nil]
    /\ result = [t \in Thread |-> "none"]

\* A thread calls an operation and has not got the mutex yet.
Begin(t, op, v) ==
    /\ pc[t] = "idle"
    /\ op = "send" /\ capacity = 0 =>
          Len(queue) + Cardinality(At(pc, "send")) < MaxQueue
    /\ v \in IF op = "send" THEN Value ELSE {Nil}
    /\ pc' = [pc EXCEPT ![t] = op]
    /\ item' = [item EXCEPT ![t] = v]
    /\ result' = [result EXCEPT ![t] = "none"]
    /\ UNCHANGED <<capacity, queue, closed>>

\* The thread gives the mutex back and returns r.
Return(t, r) ==
    /\ item' = [item EXCEPT ![t] = Nil]
    /\ result' = [result EXCEPT ![t] = r]

\* Mutant of Signal: nobody is woken.
NoSignal(p, point) == {p}

\* pthread_cond_signal: one of the threads asleep there, if any, wakes up.
Signal(p, point) ==
    IF At(p, point) = {} THEN {p}
    ELSE {[p EXCEPT ![t] = Awake[point]] : t \in At(p, point)}

\* Mutant of Broadcast: only the receivers are woken.
WakeReceivers(p) == [t \in Thread |-> IF p[t] = "onEmpty" THEN "recvAgain" ELSE p[t]]

\* pthread_cond_broadcast on both conditions.
Broadcast(p) == [t \in Thread |-> IF p[t] \in Asleep THEN Awake[p[t]] ELSE p[t]]

-----------------------------------------------------------------------------
(* channel_send_native *)

Sending(t) == pc[t] \in {"send", "sendAgain"}

MustWait(t) == capacity > 0 /\ Len(queue) >= capacity

SendClosed(t) ==
    /\ Sending(t) /\ closed
    /\ pc' = [pc EXCEPT ![t] = "idle"]
    /\ Return(t, "refused")
    /\ UNCHANGED <<capacity, queue, closed>>

SendWait(t) ==
    /\ Sending(t) /\ ~ closed /\ MustWait(t)
    /\ pc' = [pc EXCEPT ![t] = "onFull"]
    /\ UNCHANGED <<capacity, queue, closed, item, result>>

SendItem(t) ==
    /\ Sending(t) /\ ~ closed /\ ~ MustWait(t)
    /\ queue' = Append(queue, item[t])
    /\ pc' \in Signal([pc EXCEPT ![t] = "idle"], "onEmpty")
    /\ Return(t, "sent")
    /\ UNCHANGED <<capacity, closed>>

-----------------------------------------------------------------------------
(* channel_recv_native and channel_try_recv_native *)

Receiving(t) == pc[t] \in {"recv", "recvAgain"}

RecvWait(t) ==
    /\ Receiving(t) /\ queue = <<>> /\ ~ closed
    /\ pc' = [pc EXCEPT ![t] = "onEmpty"]
    /\ UNCHANGED <<capacity, queue, closed, item, result>>

\* Mutant of RecvNothing: a closed channel answers nil whatever it holds.
RecvDropped(t) ==
    /\ \/ pc[t] = "try" /\ queue = <<>>
       \/ Receiving(t) /\ closed
    /\ pc' = [pc EXCEPT ![t] = "idle"]
    /\ Return(t, Nil)
    /\ UNCHANGED <<capacity, queue, closed>>

RecvNothing(t) ==
    /\ queue = <<>>
    /\ \/ pc[t] = "try"
       \/ Receiving(t) /\ closed
    /\ pc' = [pc EXCEPT ![t] = "idle"]
    /\ Return(t, Nil)
    /\ UNCHANGED <<capacity, queue, closed>>

RecvItem(t) ==
    /\ pc[t] = "try" \/ Receiving(t)
    /\ queue # <<>>
    /\ queue' = Tail(queue)
    /\ pc' \in Signal([pc EXCEPT ![t] = "idle"], "onFull")
    /\ Return(t, Head(queue))
    /\ UNCHANGED <<capacity, closed>>

\* channel_close_native
Close(t) ==
    /\ pc[t] = "close"
    /\ closed' = TRUE
    /\ pc' = Broadcast([pc EXCEPT ![t] = "idle"])
    /\ Return(t, "closed")
    /\ UNCHANGED <<capacity, queue>>

\* pthread_cond_wait may return with no signal.
Spurious(t) ==
    /\ pc[t] \in Asleep
    /\ pc' = [pc EXCEPT ![t] = Awake[pc[t]]]
    /\ UNCHANGED <<capacity, queue, closed, item, result>>

\* What a thread that is in an operation and not asleep does next.
Run(t) ==
    \/ SendClosed(t) \/ SendWait(t) \/ SendItem(t)
    \/ RecvWait(t) \/ RecvNothing(t) \/ RecvItem(t)
    \/ Close(t)

Next == \E t \in Thread :
    \/ \E op \in Calls, v \in Value \cup {Nil} : Begin(t, op, v)
    \/ Run(t)
    \/ Spurious(t)

Spec == Init /\ [][Next]_vars

\* Every runnable thread is scheduled and gets the mutex; no wakeup comes unasked for.
LiveSpec == Spec /\ \A t \in Thread : WF_vars(Run(t))

-----------------------------------------------------------------------------
(* Properties.                                                             *)

TypeOK ==
    /\ capacity \in Capacities
    /\ queue \in Seq(Value)
    /\ capacity > 0 => Len(queue) <= capacity
    /\ closed \in BOOLEAN
    /\ pc \in [Thread -> Points]
    /\ item \in [Thread -> Value \cup {Nil}]
    /\ \A t \in Thread : Call(pc[t]) = "send" <=> item[t] # Nil
    /\ result \in [Thread -> Value \cup {Nil, "none", "sent", "refused", "closed"}]

\* If a receiver sleeps, there are no more queued values than receivers already woken
\* for them; if a sender sleeps, no more free places than senders already woken.
ReceiversCovered == At(pc, "onEmpty") # {} => Len(queue) <= Cardinality(At(pc, "recvAgain"))
SendersCovered == At(pc, "onFull") # {} => capacity - Len(queue) <= Cardinality(At(pc, "sendAgain"))
ClosedWakesAll == closed => At(pc, "onEmpty") = {} /\ At(pc, "onFull") = {}

\* No wakeup is lost, although each send and each receive signals one thread only and
\* a thread that was never asleep may take what a woken one was woken for; and nobody
\* sleeps on a closed channel.
NoLostWakeup == ReceiversCovered /\ SendersCovered /\ ClosedWakesAll

F == INSTANCE Fifo WITH call <- [t \in Thread |-> Call(pc[t])]

\* A channel is a first-in first-out queue: nothing is lost, duplicated or reordered, a
\* bounded one is never over-full, a send succeeds only on an open channel, and recv
\* answers nil only when the channel is closed and empty.
IsFifo == F!Spec

\* No thread sleeps for ever beside work it could do: while there is room, or a value,
\* one of the threads that wait for it gets on, and close releases all of them.
Progress == F!Live
=============================================================================
