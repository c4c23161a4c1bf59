------------------------------ MODULE EnvIndex ------------------------------
(***************************************************************************)
(* One scope: the linked list of src/src/env.c, which is authoritative,    *)
(* and the Robin Hood table of src/src/gc/env_hashmap.c, which indexes the *)
(* list once env_define_const has made it longer than the threshold.  The  *)
(* loops of envmap_set, envmap_grow and envmap_get are one step per turn.  *)
(***************************************************************************)
EXTENDS Integers, Sequences, FiniteSets

CONSTANTS Name, Value,
          NoName,      \* no name: an empty slot has none
          NoValue,     \* what a name holds that is not defined
          Hashes,      \* the programs: what their names hash to
          Threshold,   \* ENV_MAP_THRESHOLD
          Capacities,  \* the powers of two from the smallest capacity
          LoopName     \* the variables of for loops over arrays and strings

ASSUME IndexAssumption ==
    /\ IsFiniteSet(Name)
    /\ NoName \notin Name /\ NoValue \notin Value
    /\ Hashes \subseteq [Name -> Nat]
    /\ Threshold \in Nat
    /\ \A c \in Capacities : c \in Nat /\ c >= 4
    /\ LoopName \subseteq Name

VARIABLES
    hash,     \* what each name hashes to
    value,    \* the list: what each name holds
    order,    \* the list: its names, the head first
    behind,   \* history: names written in the list and not in the index since
    cap,      \* the capacity of the table, 0 while there is none
    table,    \* the entry of each slot
    count,    \* how many slots are taken
    work,     \* what is still to be entered in the table
    key, val, \* the arguments of the running envmap_set or envmap_get
    ins,      \* the entry envmap_set carries
    slot,     \* the slot it is at, or where envmap_get started
    probe,    \* how far envmap_get is from there
    pc,       \* where the running call is
    answer    \* what the last call answered

list == <<value, order, behind>>
index == <<cap, table, count>>
call == <<key, val, ins, slot, probe>>
vars == <<hash, list, index, work, call, pc, answer>>

Entry == [key : Name \cup {NoName}, dist : Int, value : Value \cup {NoValue}]

Points == {"idle", "load", "set", "look", "scan"}

\* (h + j) & mask, for a slot h and a distance below the capacity.
Plus(h, j) == IF h + j < cap THEN h + j ELSE h + j - cap

Home(n) == hash[n] % cap

Taken(e) == e.dist >= 0

Occupied == {s \in 0 .. cap - 1 : Taken(table[s])}

\* An entry to be made, and the empty one calloc and the loop after it leave.
Fresh(n, v) == [key |-> n, dist |-> 0, value |-> v]
Empty == [key |-> NoName, dist |-> -1, value |-> NoValue]

NoAnswer == [name |-> NoName, value |-> NoValue]

Init ==
    /\ hash \in Hashes
    /\ value = [n \in Name |-> NoValue] /\ order = <<>> /\ behind = {}
    /\ cap = 0 /\ table = <<>> /\ count = 0
    /\ work = <<>>
    /\ key = NoName /\ val = NoValue /\ ins = Empty /\ slot = 0 /\ probe = 0
    /\ pc = "idle"
    /\ answer = NoAnswer

-----------------------------------------------------------------------------
(* env.c: the list *)

\* envmap_init: every slot is empty.
NewTable(c) ==
    /\ cap' = c
    /\ table' = [s \in 0 .. c - 1 |-> Empty]
    /\ count' = 0

\* The node of the name is written.
Hold(n, v) == value' = [value EXCEPT ![n] = v] /\ answer' = NoAnswer

\* The index is brought up to date, if there is one.
Sync(n, v) ==
    /\ IF cap = 0 THEN UNCHANGED <<work, pc>>
                  ELSE work' = <<Fresh(n, v)>> /\ pc' = "load"
    /\ UNCHANGED index

\* Mutant of Rewrite: the list is written and the index forgotten.
RewriteList(n, v) ==
    /\ pc = "idle" /\ value[n] # NoValue
    /\ Hold(n, v) /\ behind' = behind \ {n}
    /\ UNCHANGED <<hash, order, index, work, call, pc>>

\* env_define and env_define_const of a name that is there, the assignment to a
\* mutable one, and the counter of a range: the node is written in place.
Rewrite(n, v) ==
    /\ pc = "idle" /\ value[n] # NoValue
    /\ Hold(n, v) /\ behind' = behind \ {n}
    /\ Sync(n, v)
    /\ UNCHANGED <<hash, order, call>>

\* A for loop over an array or a string writes the node of its variable and leaves
\* the index alone.
WriteSlot(n, v) ==
    /\ n \in LoopName /\ pc = "idle" /\ value[n] # NoValue
    /\ Hold(n, v) /\ behind' = IF cap = 0 THEN behind ELSE behind \cup {n}
    /\ UNCHANGED <<hash, order, index, work, call, pc>>

\* A node is put at the head of the list.
Insert(n, v) ==
    /\ pc = "idle" /\ value[n] = NoValue
    /\ Hold(n, v) /\ UNCHANGED behind
    /\ order' = <<n>> \o order
    /\ UNCHANGED <<hash, call>>

\* env_define of a new name.
Define(n, v) ==
    /\ Insert(n, v) /\ Sync(n, v)

\* The list is copied into a new table, from its head.
Promote ==
    /\ \E c \in Capacities :
        /\ c >= 2 * Len(order')
        /\ \A d \in Capacities : d >= 2 * Len(order') => c <= d
        /\ NewTable(c)
    /\ work' = [i \in 1 .. Len(order') |-> Fresh(order'[i], value'[order'[i]])]
    /\ pc' = "load"

\* Mutant of DefineConst: the name that makes the list too long is not copied.
DefineConstLate(n, v) ==
    /\ Insert(n, v)
    /\ IF Len(order') = Threshold + 1
       THEN /\ \E c \in Capacities : c >= 2 * Len(order) /\ NewTable(c)
            /\ work' = [i \in 1 .. Len(order) |-> Fresh(order[i], value[order[i]])]
            /\ pc' = "load"
       ELSE Sync(n, v)

\* env_define_const of a new name.
DefineConst(n, v) ==
    /\ Insert(n, v)
    /\ IF Len(order') = Threshold + 1 THEN Promote ELSE Sync(n, v)

-----------------------------------------------------------------------------
(* env_hashmap.c: envmap_set and envmap_grow *)

\* envmap_grow skips the slots that were empty.
Skip ==
    /\ pc = "load" /\ ~ Taken(Head(work))
    /\ work' = Tail(work)
    /\ UNCHANGED <<hash, list, index, call, pc, answer>>

\* Mutant of Full: the table is filled to the last slot.
FullAtCap == count > cap

Full == count * 4 >= cap * 3

\* The table is three quarters full: the slots are entered again in one twice as
\* large, before the entry that is being made.
Grow ==
    /\ pc = "load" /\ Taken(Head(work)) /\ Full
    /\ NewTable(2 * cap)
    /\ work' = [i \in 1 .. cap |-> table[i - 1]] \o work
    /\ UNCHANGED <<hash, list, call, pc, answer>>

\* envmap_set starts at the slot the name hashes to.
Begin ==
    /\ pc = "load" /\ Taken(Head(work)) /\ ~ Full
    /\ key' = Head(work).key /\ val' = Head(work).value
    /\ ins' = Fresh(key', val') /\ slot' = Home(key')
    /\ work' = Tail(work)
    /\ pc' = "set"
    /\ UNCHANGED <<hash, list, index, probe, answer>>

Here == table[slot]

\* What a call knew is gone when it returns.
Forget ==
    key' = NoName /\ val' = NoValue /\ ins' = Empty /\ slot' = 0 /\ probe' = 0

\* envmap_set returns, to the copying loop while that has more to enter.
Done == pc' = (IF work = <<>> THEN "idle" ELSE "load") /\ Forget

\* The slot is empty.
Place ==
    /\ pc = "set" /\ ~ Taken(Here)
    /\ table' = [table EXCEPT ![slot] = ins]
    /\ count' = count + 1
    /\ Done
    /\ UNCHANGED <<hash, list, cap, work, answer>>

\* The slot holds the name.
Replace ==
    /\ pc = "set" /\ Taken(Here) /\ Here.key = key
    /\ table' = [table EXCEPT ![slot].value = val]
    /\ Done
    /\ UNCHANGED <<hash, list, cap, count, work, answer>>

Farther(e) == [e EXCEPT !.dist = @ + 1]

\* Mutant of Displace: the entry that gives up its slot is put back one slot too near.
DisplaceNear ==
    /\ pc = "set" /\ Taken(Here) /\ Here.key # key /\ Here.dist < ins.dist
    /\ table' = [table EXCEPT ![slot] = ins]
    /\ ins' = Here /\ slot' = Plus(slot, 1)
    /\ UNCHANGED <<hash, list, cap, count, work, key, val, probe, pc, answer>>

\* The entry there is nearer to its home than the carried one: they change places.
Displace ==
    /\ pc = "set" /\ Taken(Here) /\ Here.key # key /\ Here.dist < ins.dist
    /\ table' = [table EXCEPT ![slot] = ins]
    /\ ins' = Farther(Here) /\ slot' = Plus(slot, 1)
    /\ UNCHANGED <<hash, list, cap, count, work, key, val, probe, pc, answer>>

\* Mutant of Advance: the walk stays where it is.
AdvanceInPlace ==
    /\ pc = "set" /\ Taken(Here) /\ Here.key # key /\ Here.dist >= ins.dist
    /\ UNCHANGED <<hash, list, index, work, call, pc, answer>>

\* The entry there is at least as far from its home.
Advance ==
    /\ pc = "set" /\ Taken(Here) /\ Here.key # key /\ Here.dist >= ins.dist
    /\ ins' = Farther(ins) /\ slot' = Plus(slot, 1)
    /\ UNCHANGED <<hash, list, index, work, key, val, probe, pc, answer>>

-----------------------------------------------------------------------------
(* env_get in this scope *)

Get(n) ==
    /\ pc = "idle"
    /\ key' = n
    /\ IF cap > 0 /\ count > 0
       THEN slot' = Home(n) /\ pc' = "look"
       ELSE UNCHANGED slot /\ pc' = "scan"
    /\ UNCHANGED <<hash, list, index, work, val, ins, probe, answer>>

There == table[Plus(slot, probe)]

Return(v) == answer' = [name |-> key, value |-> v] /\ pc' = "idle" /\ Forget

\* envmap_get: an empty slot, or an entry nearer to its home than the name would
\* be: the name is not there.
Miss ==
    /\ pc = "look" /\ There.dist < probe
    /\ pc' = "scan"
    /\ UNCHANGED <<hash, list, index, work, call, answer>>

Hit ==
    /\ pc = "look" /\ There.dist >= probe /\ There.key = key
    /\ Return(There.value)
    /\ UNCHANGED <<hash, list, index, work>>

LookOn ==
    /\ pc = "look" /\ There.dist >= probe /\ There.key # key
    /\ probe' = probe + 1
    /\ UNCHANGED <<hash, list, index, work, key, val, ins, slot, pc, answer>>

\* The list decides when the index has no answer.
Scan ==
    /\ pc = "scan"
    /\ Return(value[key])
    /\ UNCHANGED <<hash, list, index, work>>

-----------------------------------------------------------------------------
Step == \/ Skip \/ Grow \/ Begin \/ Place \/ Replace \/ Displace \/ Advance
        \/ Miss \/ Hit \/ LookOn \/ Scan

Start(n, v) == Rewrite(n, v) \/ WriteSlot(n, v) \/ Define(n, v) \/ DefineConst(n, v)

Next == Step \/ \E n \in Name : Get(n) \/ \E v \in Value : Start(n, v)

\* A call that has started goes on: one thread runs it to its end.
Spec == Init /\ [][Next]_vars /\ WF_vars(Step)

-----------------------------------------------------------------------------
TypeOK ==
    /\ hash \in Hashes
    /\ value \in [Name -> Value \cup {NoValue}]
    /\ order \in Seq(Name) /\ behind \subseteq Name
    /\ cap \in Nat /\ table \in [0 .. cap - 1 -> Entry] /\ count \in Nat
    /\ work \in Seq(Entry)
    /\ key \in Name \cup {NoName} /\ val \in Value \cup {NoValue}
    /\ ins \in Entry /\ slot \in 0 .. cap - 1 \cup {0} /\ probe \in Nat
    /\ pc \in Points
    /\ answer \in [name : Name \cup {NoName}, value : Value \cup {NoValue}]

\* Between calls the index holds exactly the names of the list, each once: whatever
\* displaced what while the table filled and grew (src/src/gc/env_hashmap.c:42).
OneEntryPerName ==
    pc = "idle" /\ cap > 0 =>
        \A n \in Name : Cardinality({s \in Occupied : table[s].key = n})
                            = IF value[n] = NoValue THEN 0 ELSE 1

\* envmap_get stops at the first entry that is nearer to its home than the name could
\* be, and is never wrong to stop: a name the index holds is found.  The fallback of
\* src/src/env.c:166 finds nothing.
MissIsRight == pc = "scan" /\ cap > 0 => value[key] = NoValue

\* Probing for a free slot ends because there is one.
RoomToPlace == pc = "set" => \E s \in 0 .. cap - 1 : ~ Taken(table[s])

\* A scope is a store: whichever of the list and the index a lookup asked, it answers
\* what was written last, unless a for loop over an array or a string wrote it.
Scope == INSTANCE ScopeStore
StoreIsKept == Scope!Spec

\* A lookup answers what was written last.  "Keep map in sync (critical: map is read
\* first by env_get)", src/src/env.c:227; the loops at src/src/interpreter.c:4974 and
\* src/src/interpreter.c:5003 do not.
AnswersAreCurrent ==
    [][answer' \notin {answer, NoAnswer} => answer'.value = value[answer'.name]]_vars

\* Every call ends: the probing loops have no bound but what is in the table.
CallsEnd == pc # "idle" ~> pc = "idle"
=============================================================================
