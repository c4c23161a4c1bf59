-------------------------------- MODULE Fifo --------------------------------
(***************************************************************************)
(* What a channel promises to the threads that use it: a first-in          *)
(* first-out queue, bounded when its capacity is positive, on which sends  *)
(* and receives take effect one at a time, and which can be closed.  How a *)
(* thread waits and is woken is not part of the promise.                   *)
(***************************************************************************)
EXTENDS Naturals, Sequences

CONSTANTS Thread,      \* threads that use the channel
          Value,       \* values that are sent
          Nil,         \* the answer of a receive that finds nothing
          Capacities   \* capacities the channel may be created with, 0 = unbounded

VARIABLES capacity, queue, closed,
          call,        \* per thread: the operation it is in, or "none"
          item,        \* per thread: the value it is sending
          result       \* per thread: what its last operation answered

vars == <<capacity, queue, closed, call, item, result>>

Init ==
    /\ capacity \in Capacities
    /\ queue = <<>>
    /\ closed = FALSE
    /\ call = [t \in Thread |-> "none"]
    /\ item = [t \in Thread |-> Nil]
    /\ result = [t \in Thread |-> "none"]

Request(t, op, v) ==
    /\ call[t] = "none"
    /\ \/ op = "send" /\ v \in Value
       \/ op \in {"recv", "try", "close"} /\ v = Nil
    /\ call' = [call EXCEPT ![t] = op]
    /\ item' = [item EXCEPT ![t] = v]
    /\ result' = [result EXCEPT ![t] = "none"]
    /\ UNCHANGED <<capacity, queue, closed>>

Reply(t, r) ==
    /\ call' = [call EXCEPT ![t] = "none"]
    /\ item' = [item EXCEPT ![t] = Nil]
    /\ result' = [result EXCEPT ![t] = r]
    /\ UNCHANGED capacity

HasRoom == capacity = 0 \/ Len(queue) < capacity

Send(t) ==
    /\ call[t] = "send" /\ ~ closed /\ HasRoom
    /\ queue' = Append(queue, item[t])
    /\ Reply(t, "sent")
    /\ UNCHANGED closed

Refuse(t) ==
    /\ call[t] = "send" /\ closed
    /\ Reply(t, "refused")
    /\ UNCHANGED <<queue, closed>>

Receive(t) ==
    /\ call[t] \in {"recv", "try"} /\ queue # <<>>
    /\ queue' = Tail(queue)
    /\ Reply(t, Head(queue))
    /\ UNCHANGED closed

\* A receive that finds nothing answers only once nothing more can come.
GiveUp(t) ==
    /\ queue = <<>>
    /\ call[t] = "try" \/ (call[t] = "recv" /\ closed)
    /\ Reply(t, Nil)
    /\ UNCHANGED <<queue, closed>>

Close(t) ==
    /\ call[t] = "close"
    /\ closed' = TRUE
    /\ Reply(t, "closed")
    /\ UNCHANGED queue

Next == \E t \in Thread :
    \/ \E op \in {"send", "recv", "try", "close"}, v \in Value \cup {Nil} : Request(t, op, v)
    \/ Send(t) \/ Refuse(t) \/ Receive(t) \/ GiveUp(t) \/ Close(t)

Spec == Init /\ [][Next]_vars

(***************************************************************************)
(* Weak fairness with each action's enabling condition spelled out.  Some  *)
(* waiting sender (receiver) goes on when there is room (a value); every   *)
(* thread goes on when the channel is closed.                              *)
(***************************************************************************)
SendersGoOn ==
    \/ []<>(closed \/ ~ HasRoom \/ \A t \in Thread : call[t] # "send")
    \/ []<><<\E t \in Thread : Send(t)>>_vars

ReceiversGoOn ==
    \/ []<>(queue = <<>> \/ \A t \in Thread : call[t] # "recv")
    \/ []<><<\E t \in Thread : Receive(t)>>_vars

\* try_recv and close never wait, and on a closed channel nothing does.
Answered(t) == []<>(call[t] \notin {"try", "close"} /\ (closed => call[t] = "none"))

Live == SendersGoOn /\ ReceiversGoOn /\ \A t \in Thread : Answered(t)
=============================================================================
