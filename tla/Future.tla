------------------------------- MODULE Future -------------------------------
(***************************************************************************)
(* What a thread handle promises: it stands for the result of a function   *)
(* that runs on its own.  The result is there once the function has ended, *)
(* never changes, and whoever asks for it gets it, having waited for it.   *)
(***************************************************************************)
CONSTANTS Handle, Thread, Value, Null

VARIABLES cell,   \* per handle: Null before it is spawned, "pending", or the result
          asking, \* per thread: the handle whose result it asks for, or Null
          answer  \* per thread: what it was answered last

vars == <<cell, asking, answer>>

Init ==
    /\ cell = [h \in Handle |-> Null]
    /\ asking = [t \in Thread |-> Null]
    /\ answer = [t \in Thread |-> Null]

Spawn(h) ==
    /\ cell[h] = Null
    /\ cell' = [cell EXCEPT ![h] = "pending"]
    /\ UNCHANGED <<asking, answer>>

Fulfil(h) ==
    /\ cell[h] = "pending"
    /\ \E v \in Value : cell' = [cell EXCEPT ![h] = v]
    /\ UNCHANGED <<asking, answer>>

Ask(t, h) ==
    /\ asking[t] = Null /\ cell[h] # Null
    /\ asking' = [asking EXCEPT ![t] = h]
    /\ UNCHANGED <<cell, answer>>

\* With the result there, asking and answering may be one step.
Tell(t, h) ==
    /\ asking[t] \in {Null, h} /\ cell[h] \in Value
    /\ asking' = [asking EXCEPT ![t] = Null]
    /\ answer' = [answer EXCEPT ![t] = cell[h]]
    /\ UNCHANGED cell

Next ==
    \/ \E h \in Handle : Spawn(h) \/ Fulfil(h)
    \/ \E t \in Thread, h \in Handle : Ask(t, h) \/ Tell(t, h)

Spec == Init /\ [][Next]_vars
=============================================================================
