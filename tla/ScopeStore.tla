----------------------------- MODULE ScopeStore -----------------------------
(***************************************************************************)
(* What one scope promises: it holds at most one value for each name, and  *)
(* a lookup answers what the name holds at that moment, except for names   *)
(* that a for loop wrote last.  EnvIndex, the list and the hash index of   *)
(* src/src/env.c, implements it.                                           *)
(***************************************************************************)
CONSTANTS Name, Value, NoName, NoValue

VARIABLES value,    \* what each name holds, NoValue when it is not defined
          behind,   \* names a lookup may be wrong about
          answer    \* if the last call was a lookup: a name and what it answered

vars == <<value, behind, answer>>

NoAnswer == [name |-> NoName, value |-> NoValue]

Init == value = [n \in Name |-> NoValue] /\ behind = {} /\ answer = NoAnswer

Hold(n, v) == value' = [value EXCEPT ![n] = v] /\ answer' = NoAnswer

Write(n, v) == Hold(n, v) /\ behind' = behind \ {n}

LoopWrite(n, v) == Hold(n, v) /\ behind' \in {behind, behind \cup {n}}

Answer(n) ==
    /\ \E v \in Value \cup {NoValue} :
        /\ n \notin behind => v = value[n]
        /\ answer' = [name |-> n, value |-> v]
    /\ UNCHANGED <<value, behind>>

Next == \E n \in Name : Answer(n) \/ \E v \in Value : Write(n, v) \/ LoopWrite(n, v)

Spec == Init /\ [][Next]_vars
=============================================================================
