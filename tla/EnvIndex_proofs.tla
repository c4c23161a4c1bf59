--------------------------- MODULE EnvIndex_proofs ---------------------------
(***************************************************************************)
(* Proofs about EnvIndex, for every number of names, whatever they hash to *)
(* and however large the table: a lookup finds every name the index holds, *)
(* no name has two entries, there is always a free slot, and a scope keeps *)
(* the promise of ScopeStore.                                              *)
(***************************************************************************)
EXTENDS EnvIndex, FiniteSetTheorems, SequenceTheorems, TLAPS

-----------------------------------------------------------------------------
(* The inductive invariant                                                 *)

Slots == 0 .. cap - 1

\* The slot at distance j from the home of n.
At(n, j) == Plus(Home(n), j)

Control ==
    /\ pc = "load" => work # <<>> /\ Taken(work[Len(work)])
    /\ pc \in {"idle", "look", "scan"} => work = <<>>
    /\ pc \in {"load", "set", "look"} => cap > 0
    /\ pc \in {"idle", "load"} => slot = 0
    /\ pc \in {"set", "look", "scan"} => key \in Name
    /\ work # <<>> => Taken(work[Len(work)])
    /\ \A i \in 1 .. Len(work) : Taken(work[i]) => work[i].key \in Name
    /\ cap > 0 => cap >= 4

\* An entry is as far from its home as it says.
Placed ==
    \A s \in Slots : Taken(table[s]) =>
        /\ table[s].key \in Name /\ table[s].dist < cap
        /\ At(table[s].key, table[s].dist) = s

\* From its home to an entry no slot holds one nearer to its own home: the order
\* Robin Hood hashing keeps, and why envmap_get may stop early.
Rich ==
    \A s \in Slots : Taken(table[s]) =>
        \A j \in 0 .. table[s].dist : table[At(table[s].key, j)].dist >= j

Unique ==
    \A s, t \in Slots :
        Taken(table[s]) /\ Taken(table[t]) /\ table[s].key = table[t].key => s = t

Counted ==
    cap > 0 => /\ count = Cardinality(Occupied) /\ count < cap
               /\ pc = "set" => count * 4 < cap * 3

\* The carried entry is where it would be put, and what it passed was not nearer home.
Carried ==
    pc = "set" =>
        /\ ins.key \in Name /\ ins.dist \in Slots /\ slot = At(ins.key, ins.dist)
        /\ \A j \in 0 .. ins.dist - 1 : table[At(ins.key, j)].dist >= j

\* Until the first exchange it is the new entry, which no slot passed holds; after
\* that the new entry is in a slot that was passed, and the carried one in none.
Exchanged ==
    pc = "set" =>
        IF ins.key = key
        THEN /\ ins.value = val
             /\ \A j \in 0 .. ins.dist - 1 : table[At(key, j)].key # key
        ELSE /\ \A s \in Slots : Taken(table[s]) => table[s].key # ins.key
             /\ \E w \in Slots, k \in Slots :
                    /\ k < w /\ slot = At(key, w)
                    /\ \A j \in 0 .. w - 1 : Taken(table[At(key, j)])
                    /\ table[At(key, k)].key = key /\ table[At(key, k)].value = val

\* What envmap_get has passed is not the name.
Looking ==
    pc = "look" =>
        /\ slot = Home(key) /\ probe \in Slots
        /\ \A j \in 0 .. probe - 1 :
            table[At(key, j)].dist >= j /\ table[At(key, j)].key # key

\* Entry e is right, or its name was written by a loop, or will be entered last.
Last(n) ==
    \/ work # <<>> /\ work[Len(work)].key = n /\ work[Len(work)].value = value[n]
    \/ work = <<>> /\ pc = "set" /\ key = n /\ val = value[n]

Right(n, v) == v = value[n] \/ n \in behind \/ Last(n)

Current ==
    /\ \A s \in Slots : Taken(table[s]) => Right(table[s].key, table[s].value)
    /\ \A i \in 1 .. Len(work) : Taken(work[i]) => Right(work[i].key, work[i].value)
    /\ pc = "set" => Right(key, val) /\ Right(ins.key, ins.value)

Listed(n) == value[n] # NoValue

InTable(n) == \E s \in Slots : Taken(table[s]) /\ table[s].key = n

Waiting(n) == \E i \in 1 .. Len(work) : Taken(work[i]) /\ work[i].key = n

\* The index and what is to be entered in it hold the names of the list, no others.
Covered ==
    /\ cap > 0 => \A n \in Name :
        Listed(n) => InTable(n) \/ Waiting(n) \/ (pc = "set" /\ ins.key = n)
    /\ \A s \in Slots : Taken(table[s]) => Listed(table[s].key)
    /\ \A i \in 1 .. Len(work) : Taken(work[i]) => Listed(work[i].key)
    /\ pc = "set" => Listed(ins.key) /\ Listed(key)

\* The list is written before anything else.
Nodes ==
    /\ \A n \in Name : Listed(n) <=> \E i \in 1 .. Len(order) : order[i] = n
    /\ pc = "scan" /\ cap > 0 => ~ Listed(key)
    /\ pc \in {"idle", "load", "set"} => probe = 0

IInv ==
    /\ TypeOK /\ Control /\ Placed /\ Rich /\ Unique /\ Counted /\ Carried
    /\ Exchanged /\ Looking /\ Current /\ Covered /\ Nodes

-----------------------------------------------------------------------------
(* Slots                                                                   *)

\* The slots from the home of a name on: each once, all of them, one after another.
LEMMA AtFacts ==
    ASSUME cap \in Nat, cap > 0, hash \in [Name -> Nat], NEW n \in Name
    PROVE  /\ \A j \in Slots : At(n, j) \in Slots
           /\ \A j, k \in Slots : At(n, j) = At(n, k) => j = k
           /\ \A s \in Slots : \E j \in Slots : At(n, j) = s
           /\ \A j \in Slots : j + 1 \in Slots => Plus(At(n, j), 1) = At(n, j + 1)
           /\ At(n, 0) = Home(n)
<1>1. Home(n) \in Slots
  BY DEF Home, Slots
<1>2. \A s \in Slots : s >= Home(n) => At(n, s - Home(n)) = s /\ s - Home(n) \in Slots
  BY <1>1 DEF At, Plus, Slots
<1>3. \A s \in Slots : s < Home(n) =>
          At(n, s - Home(n) + cap) = s /\ s - Home(n) + cap \in Slots
  BY <1>1 DEF At, Plus, Slots
<1>4. \A s \in Slots : \E j \in Slots : At(n, j) = s
  BY <1>1, <1>2, <1>3 DEF Slots
<1>5. \A j \in Slots : At(n, j) \in Slots
  BY <1>1 DEF At, Plus, Slots
<1>6. \A j, k \in Slots : At(n, j) = At(n, k) => j = k
  BY <1>1 DEF At, Plus, Slots
<1>7. \A j \in Slots : j + 1 \in Slots => Plus(At(n, j), 1) = At(n, j + 1)
  BY <1>1 DEF At, Plus, Slots
<1>8. At(n, 0) = Home(n)
  BY <1>1 DEF At, Plus, Slots
<1>9. QED
  BY <1>4, <1>5, <1>6, <1>7, <1>8

\* A table that is not full has an empty slot.
LEMMA Free ==
    ASSUME TypeOK, Counted, cap > 0
    PROVE  \E s \in Slots : ~ Taken(table[s])
<1>1. IsFiniteSet(Slots) /\ Cardinality(Slots) = cap
  BY FS_Interval DEF Slots, TypeOK
<1>2. CASE Occupied = Slots
  BY <1>1, <1>2 DEF Counted, TypeOK
<1>3. CASE Occupied # Slots
  BY <1>3 DEF Occupied, Slots
<1>4. QED
  BY <1>2, <1>3

\* The slots from a home on are not all taken: the walk does not come round.
LEMMA RoomAhead ==
    ASSUME TypeOK, Counted, cap > 0, NEW n \in Name, NEW w \in Slots, hash \in [Name -> Nat],
           \A j \in 0 .. w : Taken(table[At(n, j)])
    PROVE  w + 1 \in Slots
<1>1. PICK s \in Slots : ~ Taken(table[s])
  BY Free
<1>2. PICK j \in Slots : At(n, j) = s
  BY AtFacts DEF TypeOK
<1>3. ~ (j \in 0 .. w)
  BY <1>1, <1>2
<1>4. QED
  BY <1>3 DEF Slots, TypeOK

-----------------------------------------------------------------------------
(* What the table keeps when a step leaves it alone, and a new table       *)

TableInv == Placed /\ Rich /\ Unique

LEMMA Hashed == ASSUME IndexAssumption, TypeOK PROVE hash \in [Name -> Nat]
  BY DEF IndexAssumption, TypeOK

LEMMA SameTable ==
    ASSUME TableInv, UNCHANGED <<hash, cap, table>>
    PROVE  TableInv'
  BY DEF TableInv, Placed, Rich, Unique, Slots, At, Plus, Home, Taken

LEMMA SameCount ==
    ASSUME Counted, UNCHANGED <<cap, table, count>>, pc' # "set"
    PROVE  Counted'
  BY DEF Counted, Occupied, Taken

LEMMA EmptyTable ==
    ASSUME NEW c \in Nat, c >= 4, NewTable(c), pc' # "set"
    PROVE  /\ cap' \in Nat /\ cap' >= 4
           /\ table' \in [0 .. cap' - 1 -> Entry'] /\ count' \in Nat
           /\ \A s \in Slots' : ~ Taken(table'[s])
           /\ TableInv' /\ Counted'
<1>1. cap' = c /\ table' = [s \in 0 .. c - 1 |-> Empty] /\ count' = 0
  BY DEF NewTable
<1>2. \A s \in Slots' : table'[s] = Empty
  BY <1>1 DEF Slots
<1>3. Empty \in Entry /\ ~ Taken(Empty) /\ Entry' = Entry
  BY DEF Empty, Entry, Taken
<1>4. \A s \in Slots' : ~ Taken(table'[s])
  BY <1>2, <1>3 DEF Taken
<1>5. TableInv'
  BY <1>4 DEF TableInv, Placed, Rich, Unique, Taken
<1>6. Occupied' = {}
  BY <1>4 DEF Occupied, Slots, Taken
<1>7. Counted'
  BY <1>1, <1>6, FS_EmptySet DEF Counted
<1>8. QED
  BY <1>1, <1>3, <1>4, <1>5, <1>7

LEMMA Single ==
    ASSUME NEW S, NEW e \in S
    PROVE  /\ <<e>> \in Seq(S) /\ Len(<<e>>) = 1 /\ <<e>>[1] = e /\ <<e>> # <<>>
           /\ Len(<<>>) = 0 /\ <<>> \in Seq(S)
  OBVIOUS

-----------------------------------------------------------------------------
(* The list                                                                *)

\* A write that brings the index up to date.
LEMMA SyncStep ==
    ASSUME IndexAssumption, IInv, NEW n \in Name, NEW v \in Value, pc = "idle",
           Hold(n, v), Sync(n, v), behind' \in {behind, behind \ {n}},
           value[n] # NoValue => behind' = behind \ {n},
           UNCHANGED <<hash, call>>,
           \/ value[n] # NoValue /\ order' = order
           \/ value[n] = NoValue /\ order' = <<n>> \o order
    PROVE  IInv'
<1>1. value' = [value EXCEPT ![n] = v] /\ answer' = NoAnswer /\ UNCHANGED <<cap, table, count>>
  BY DEF Hold, Sync, index
<1>2. work = <<>> /\ v # NoValue
  BY DEF IInv, Control, IndexAssumption
<1>3. \/ cap = 0 /\ work' = <<>> /\ pc' = "idle"
      \/ cap # 0 /\ work' = <<Fresh(n, v)>> /\ pc' = "load"
  BY <1>2 DEF Sync
<1>4. Fresh(n, v) \in Entry /\ Taken(Fresh(n, v)) /\ Fresh(n, v).key = n /\ Fresh(n, v).value = v
  BY DEF Fresh, Entry, Taken
<1>5. /\ cap = 0 => Len(work') = 0
      /\ cap # 0 => Len(work') = 1 /\ work' # <<>> /\ work'[1] = Fresh(n, v)
      /\ work' \in Seq(Entry)
  BY <1>3, <1>4, Single, ZenonT(60)
<1>6. TypeOK'
  <2>1. order' \in Seq(Name)
    <3>1. order \in Seq(Name) /\ <<n>> \in Seq(Name)
      BY DEF IInv, TypeOK
    <3>2. <<n>> \o order \in Seq(Name)
      BY <3>1
    <3>3. QED BY <3>1, <3>2
  <2>2. value' \in [Name -> Value \cup {NoValue}] /\ behind' \subseteq Name
    BY <1>1 DEF IInv, TypeOK
  <2>3. answer' \in [name : Name \cup {NoName}, value : Value \cup {NoValue}]
    BY <1>1 DEF NoAnswer
  <2>4. QED
    BY <2>1, <2>2, <2>3, <1>1, <1>3, <1>5 DEF IInv, TypeOK, Points, call, Entry
<1>7. Control'
  <2>1. \A i \in 1 .. Len(work') : work'[i] = Fresh(n, v)
    BY <1>5 DEF IInv, TypeOK
  <2>2. QED
    BY <2>1, <1>1, <1>3, <1>4, <1>5 DEF IInv, Control, TypeOK, call
<1>8. Placed' /\ Rich' /\ Unique'
  BY <1>1, SameTable DEF IInv, TableInv
<1>9. Counted'
  BY <1>1, <1>3, SameCount DEF IInv
<1>10. Carried' /\ Exchanged' /\ Looking'
  BY <1>3 DEF Carried, Exchanged, Looking
<1>11. Current'
  <2>1. CASE cap = 0
    BY <1>1, <1>3, <2>1 DEF Current, Slots
  <2>2. CASE cap # 0
    <3>1. Last(n)'
      BY <1>1, <1>4, <1>5, <2>2 DEF Last, IInv, TypeOK
    <3>2. \A s \in Slots : Taken(table[s]) =>
              \/ table[s].value = value[table[s].key]
              \/ table[s].key \in behind
      BY <1>2 DEF IInv, Current, Right, Last
    <3>3. ASSUME NEW s \in Slots, Taken(table[s])
          PROVE  Right(table[s].key, table[s].value)'
      <4>1. CASE table[s].key = n
        BY <3>1, <4>1, <1>1 DEF Right
      <4>2. CASE table[s].key # n
        BY <3>2, <3>3, <4>2, <1>1 DEF Right, IInv, TypeOK, Placed
      <4>3. QED BY <4>1, <4>2
    <3>4. \A i \in 1 .. Len(work') : Right(work[i].key, work[i].value)'
      <4>0. Len(work') = 1
        BY <1>5, <2>2
      <4>1. \A i \in 1 .. Len(work') : i = 1
        BY <4>0
      <4>2. QED BY <4>1, <3>1, <1>4, <1>5, <2>2 DEF Right
    <3>5. pc' # "set"
      BY <1>3
    <3>6. (\A s \in Slots : Taken(table[s]) => Right(table[s].key, table[s].value))'
      BY <3>3, <1>1 DEF Slots
    <3>7. QED
      BY <3>4, <3>5, <3>6 DEF Current
  <2>3. QED BY <2>1, <2>2
<1>12. Covered'
  <2>1. \A m \in Name : Listed(m)' <=> m = n \/ Listed(m)
    BY <1>1, <1>2 DEF Listed, IInv, TypeOK
  <2>2. \A m \in Name : cap # 0 /\ Listed(m) => InTable(m)'
    BY <1>1, <1>2 DEF IInv, Covered, InTable, Waiting, Slots, Taken, TypeOK
  <2>3. cap # 0 => Waiting(n)'
    BY <1>3, <1>4 DEF Waiting
  <2>4. \A s \in Slots : Taken(table[s]) => Listed(table[s].key)'
    BY <1>1, <2>1 DEF IInv, Covered, Placed
  <2>5. \A i \in 1 .. Len(work') : Taken(work'[i]) => Listed(work[i].key)'
    <3>1. \A i \in 1 .. Len(work') : work'[i] = Fresh(n, v)
      BY <1>4, <1>5 DEF IInv, TypeOK
    <3>2. QED BY <3>1, <1>4, <2>1
  <2>6. cap' > 0 => \A m \in Name : Listed(m)' => InTable(m)' \/ Waiting(m)'
    BY <2>1, <2>2, <2>3, <1>1 DEF IInv, TypeOK
  <2>7. (\A s \in Slots : Taken(table[s]) => Listed(table[s].key))'
    BY <2>4, <1>1 DEF Slots, Listed
  <2>8. QED
    BY <2>5, <2>6, <2>7, <1>3 DEF Covered
<1>13. Nodes'
  <2>1. CASE value[n] # NoValue
    BY <1>1, <1>2, <1>3, <2>1 DEF Nodes, Listed, IInv, TypeOK, call
  <2>2. CASE value[n] = NoValue
    <3>1. order' = <<n>> \o order /\ Len(order') = Len(order) + 1 /\ order'[1] = n
      BY <2>2 DEF IInv, TypeOK
    <3>2. \A i \in 1 .. Len(order) : order'[i + 1] = order[i]
      BY <3>1 DEF IInv, TypeOK
    <3>3. \A i \in 1 .. Len(order') : i = 1 \/ order'[i] = order[i - 1]
      BY <3>1, <3>2 DEF IInv, TypeOK
    <3>4. \A m \in Name : (\E i \in 1 .. Len(order') : order'[i] = m)
                            <=> m = n \/ \E i \in 1 .. Len(order) : order[i] = m
      BY <3>1, <3>2, <3>3, SMTT(30) DEF IInv, TypeOK
    <3>5. QED
      BY <3>4, <1>1, <1>2, <1>3 DEF Nodes, Listed, IInv, TypeOK, call
  <2>3. QED BY <2>1, <2>2
<1>14. QED
  BY <1>6, <1>7, <1>8, <1>9, <1>10, <1>11, <1>12, <1>13 DEF IInv

\* The list becomes longer than the threshold and is copied.
LEMMA PromoteStep ==
    ASSUME IndexAssumption, IInv, NEW n \in Name, NEW v \in Value, Insert(n, v), Promote
    PROVE  IInv'
<1>1. /\ value' = [value EXCEPT ![n] = v] /\ answer' = NoAnswer /\ order' = <<n>> \o order
      /\ value[n] = NoValue /\ pc = "idle" /\ UNCHANGED <<behind, hash, call>>
  BY DEF Insert, Hold
<1>2. PICK c \in Capacities : NewTable(c)
  BY DEF Promote
<1>3. c \in Nat /\ c >= 4 /\ v # NoValue
  BY <1>2 DEF IndexAssumption
<1>4. pc' = "load" /\ work' = [i \in 1 .. Len(order') |-> Fresh(order'[i], value'[order'[i]])]
  BY DEF Promote
<1>5. /\ cap' \in Nat /\ cap' >= 4
      /\ table' \in [0 .. cap' - 1 -> Entry'] /\ count' \in Nat
      /\ \A s \in Slots' : ~ Taken(table'[s])
      /\ TableInv' /\ Counted'
  BY <1>2, <1>3, <1>4, EmptyTable
<1>6. order' \in Seq(Name) /\ Len(order') = Len(order) + 1 /\ order'[1] = n
  <2>1. order \in Seq(Name) /\ <<n>> \in Seq(Name)
    BY DEF IInv, TypeOK
  <2>2. QED BY <2>1, <1>1
<1>7. \A i \in 1 .. Len(order) : order'[i + 1] = order[i]
  BY <1>1, <1>6 DEF IInv, TypeOK
<1>8. \A i \in 1 .. Len(order') : i = 1 \/ order'[i] = order[i - 1]
  BY <1>1, <1>6, <1>7 DEF IInv, TypeOK
<1>9. \A m \in Name : (\E i \in 1 .. Len(order') : order'[i] = m)
                        <=> m = n \/ \E i \in 1 .. Len(order) : order[i] = m
  BY <1>1, <1>6, <1>7, <1>8 DEF IInv, TypeOK
<1>10. \A m \in Name : Listed(m)' <=> \E i \in 1 .. Len(order') : order'[i] = m
  BY <1>9, <1>1, <1>3 DEF IInv, Nodes, Listed, TypeOK
<1>11. value' \in [Name -> Value \cup {NoValue}]
  BY <1>1 DEF IInv, TypeOK
<1>12. /\ Len(work') = Len(order') /\ Len(order') > 0
       /\ \A i \in 1 .. Len(work') :
            /\ order'[i] \in Name /\ work'[i].key = order'[i] /\ Taken(work'[i])
            /\ work'[i].value = value'[order'[i]] /\ work'[i] \in Entry
  BY <1>4, <1>6, <1>11, SMTT(30) DEF Fresh, Taken, Entry, IInv, TypeOK
<1>13. work' \in Seq(Entry) /\ work' # <<>>
  BY <1>4, <1>12, <1>6
<1>14. TypeOK'
  <2>1. answer' \in [name : Name \cup {NoName}, value : Value \cup {NoValue}]
    BY <1>1 DEF NoAnswer
  <2>2. slot' = slot /\ slot = 0
    BY <1>1 DEF call, IInv, TypeOK, Control
  <2>3. QED
    BY <2>1, <2>2, <1>1, <1>4, <1>5, <1>6, <1>11, <1>13 DEF IInv, TypeOK, Points, call, Entry
<1>15. Control'
  <2>1. slot' = 0
    BY <1>1 DEF call, IInv, Control
  <2>2. Taken(work'[Len(work')]) /\ \A i \in 1 .. Len(work') : work'[i].key \in Name
    BY <1>6, <1>12
  <2>3. pc' = "load" /\ cap' > 0 /\ cap' >= 4
    BY <1>4, <1>5
  <2>4. QED
    BY <2>1, <2>2, <2>3, <1>13 DEF Control, Taken
<1>16. Carried' /\ Exchanged' /\ Looking'
  BY <1>4 DEF Carried, Exchanged, Looking
<1>17. Current'
  BY <1>4, <1>5, <1>12 DEF Current, Right
<1>18. Covered'
  <2>1. \A m \in Name : Listed(m)' => Waiting(m)'
    BY <1>10, <1>12 DEF Waiting
  <2>2. \A i \in 1 .. Len(work') : Listed(work[i].key)'
    BY <1>10, <1>12
  <2>3. QED
    BY <2>1, <2>2, <1>4, <1>5 DEF Covered
<1>19. Nodes'
  <2>1. probe' = 0 /\ pc' = "load"
    BY <1>1, <1>4 DEF IInv, Nodes, call
  <2>2. QED BY <2>1, <1>10 DEF Nodes
<1>20. QED
  BY <1>5, <1>14, <1>15, <1>16, <1>17, <1>18, <1>19 DEF IInv, TableInv

\* A loop writes its variable.
LEMMA WriteSlotStep ==
    ASSUME IndexAssumption, IInv, NEW n \in Name, NEW v \in Value, WriteSlot(n, v)
    PROVE  IInv'
<1>1. /\ value' = [value EXCEPT ![n] = v] /\ answer' = NoAnswer /\ value[n] # NoValue
      /\ behind' = (IF cap = 0 THEN behind ELSE behind \cup {n})
      /\ pc = "idle" /\ UNCHANGED <<hash, order, cap, table, count, work, call, pc>>
  BY DEF WriteSlot, Hold, index
<1>2. v # NoValue /\ work = <<>>
  BY <1>1 DEF IndexAssumption, IInv, Control
<1>3. TypeOK'
  <2>1. answer' \in [name : Name \cup {NoName}, value : Value \cup {NoValue}]
    BY <1>1 DEF NoAnswer
  <2>2. QED
    BY <2>1, <1>1 DEF IInv, TypeOK, call, Entry
<1>4. Control'
  BY <1>1, <1>2 DEF IInv, Control, call
<1>5. Placed' /\ Rich' /\ Unique'
  BY <1>1, SameTable DEF IInv, TableInv
<1>6. Counted' /\ Carried' /\ Exchanged' /\ Looking'
  BY <1>1, SameCount DEF IInv, Carried, Exchanged, Looking
<1>7. \A m \in Name : Listed(m)' <=> Listed(m)
  BY <1>1, <1>2 DEF Listed, IInv, TypeOK
<1>8. Current'
  <2>1. \A s \in Slots : Taken(table[s]) =>
            table[s].key \in Name /\ \/ table[s].value = value[table[s].key]
                                     \/ table[s].key \in behind
    BY <1>1, <1>2 DEF IInv, Current, Right, Last, Placed
  <2>2. \A s \in Slots : cap # 0
    BY DEF Slots, IInv, TypeOK
  <2>3. \A s \in Slots : Taken(table[s]) => Right(table[s].key, table[s].value)'
    BY <2>1, <2>2, <1>1 DEF Right, IInv, TypeOK
  <2>4. (\A s \in Slots : Taken(table[s]) => Right(table[s].key, table[s].value))'
    BY <2>3, <1>1 DEF Slots
  <2>5. QED
    BY <2>4, <1>1, <1>2 DEF Current
<1>9. Covered'
  BY <1>1, <1>2, <1>7 DEF IInv, Covered, InTable, Waiting, Placed, Slots, Taken
<1>10. Nodes'
  BY <1>1, <1>7 DEF IInv, Nodes, call
<1>11. QED
  BY <1>3, <1>4, <1>5, <1>6, <1>8, <1>9, <1>10 DEF IInv

-----------------------------------------------------------------------------
(* What is to be entered                                                   *)

\* The rest of a sequence that has more than one element.
LEMMA Rest ==
    ASSUME NEW S, NEW w \in Seq(S), w # <<>>
    PROVE  /\ Head(w) = w[1] /\ Tail(w) \in Seq(S) /\ Len(Tail(w)) = Len(w) - 1 /\ Len(w) > 0
           /\ \A i \in 1 .. Len(w) - 1 : Tail(w)[i] = w[i + 1]
           /\ \A i \in 1 .. Len(w) : i = 1 \/ w[i] = Tail(w)[i - 1]
           /\ Tail(w) = <<>> <=> Len(w) = 1
<1>1. Head(w) = w[1] /\ Tail(w) \in Seq(S) /\ Len(Tail(w)) = Len(w) - 1 /\ Len(w) > 0
  OBVIOUS
<1>2. \A i \in 1 .. Len(w) - 1 : Tail(w)[i] = w[i + 1]
  OBVIOUS
<1>3. \A i \in 1 .. Len(w) : i = 1 \/ w[i] = Tail(w)[i - 1]
  BY <1>1, <1>2
<1>4. Tail(w) = <<>> <=> Len(Tail(w)) = 0
  BY <1>1, EmptySeq
<1>5. QED
  BY <1>1, <1>2, <1>3, <1>4

\* One sequence after another.
LEMMA Joined ==
    ASSUME NEW S, NEW u \in Seq(S), NEW w \in Seq(S), NEW x, x = u \o w
    PROVE  /\ x \in Seq(S) /\ Len(x) = Len(u) + Len(w)
           /\ \A i \in 1 .. Len(u) : x[i] = u[i]
           /\ \A i \in 1 .. Len(w) : x[i + Len(u)] = w[i]
           /\ \A i \in 1 .. Len(x) : \/ i \in 1 .. Len(u) /\ x[i] = u[i]
                                     \/ i - Len(u) \in 1 .. Len(w) /\ x[i] = w[i - Len(u)]
  OBVIOUS

LEMMA SkipStep ==
    ASSUME IndexAssumption, IInv, Skip
    PROVE  IInv'
<1>1. /\ pc = "load" /\ ~ Taken(Head(work)) /\ work' = Tail(work)
      /\ UNCHANGED <<hash, value, order, behind, cap, table, count, key, val, ins, slot, probe,
                     pc, answer>>
  BY DEF Skip, list, index, call
<1>2. /\ work \in Seq(Entry) /\ work # <<>> /\ Taken(work[Len(work)])
  BY <1>1 DEF IInv, TypeOK, Control
<1>3. /\ Head(work) = work[1] /\ work' \in Seq(Entry) /\ Len(work') = Len(work) - 1 /\ Len(work) > 0
      /\ \A i \in 1 .. Len(work) - 1 : work'[i] = work[i + 1]
      /\ \A i \in 1 .. Len(work) : i = 1 \/ work[i] = work'[i - 1]
  BY <1>1, <1>2, Rest
<1>4. Len(work) # 1 /\ Len(work) \in Nat
  BY <1>1, <1>2, <1>3
<1>5. work' # <<>> /\ work'[Len(work')] = work[Len(work)]
  BY <1>3, <1>4
<1>6. TypeOK'
  BY <1>1, <1>3 DEF IInv, TypeOK, Entry
<1>7. Control'
  <2>1. \A i \in 1 .. Len(work') : Taken(work'[i]) => work'[i].key \in Name
    BY <1>3, <1>4 DEF IInv, Control
  <2>2. QED
    BY <2>1, <1>1, <1>2, <1>5 DEF IInv, Control
<1>8. Placed' /\ Rich' /\ Unique' /\ Counted'
  BY <1>1, SameTable, SameCount DEF IInv, TableInv
<1>9. Carried' /\ Exchanged' /\ Looking'
  BY <1>1 DEF Carried, Exchanged, Looking
<1>10. Current'
  <2>1. \A m : Last(m) => Last(m)'
    BY <1>1, <1>2, <1>5 DEF Last
  <2>2. \A m, u : Right(m, u) => Right(m, u)'
    BY <2>1, <1>1 DEF Right
  <2>3. \A s \in Slots : Taken(table[s]) => Right(table[s].key, table[s].value)
    BY DEF IInv, Current
  <2>4. \A i \in 1 .. Len(work') : Taken(work'[i]) => Right(work'[i].key, work'[i].value)
    BY <1>3, <1>4 DEF IInv, Current
  <2>5. (\A s \in Slots : Taken(table[s]) => Right(table[s].key, table[s].value))'
    BY <2>2, <2>3, <1>1 DEF Slots
  <2>6. (\A i \in 1 .. Len(work) : Taken(work[i]) => Right(work[i].key, work[i].value))'
    BY <2>2, <2>4
  <2>7. QED
    BY <2>5, <2>6, <1>1 DEF Current
<1>11. Covered'
  <2>1. ASSUME NEW m, Waiting(m)
        PROVE  Waiting(m)'
    <3>1. PICK i \in 1 .. Len(work) : Taken(work[i]) /\ work[i].key = m
      BY <2>1 DEF Waiting
    <3>2. i # 1
      BY <1>1, <1>3, <3>1
    <3>3. i - 1 \in 1 .. Len(work') /\ work'[i - 1] = work[i]
      BY <1>3, <1>4, <3>2
    <3>4. QED
      BY <3>1, <3>3 DEF Waiting, Taken
  <2>2. (\A i \in 1 .. Len(work) : Taken(work[i]) => Listed(work[i].key))'
    <3>1. \A i \in 1 .. Len(work) : Taken(work[i]) => Listed(work[i].key)
      BY DEF IInv, Covered
    <3>2. \A i \in 1 .. Len(work') : i + 1 \in 1 .. Len(work) /\ work'[i] = work[i + 1]
      BY <1>3, <1>4
    <3>3. QED
      BY <1>1, <3>1, <3>2 DEF Listed, Taken
  <2>3. QED
    BY <2>1, <2>2, <1>1 DEF IInv, Covered, Listed, InTable, Slots, Taken
<1>12. Nodes'
  BY <1>1 DEF IInv, Nodes, Listed
<1>13. QED
  BY <1>6, <1>7, <1>8, <1>9, <1>10, <1>11, <1>12 DEF IInv

LEMMA GrowStep ==
    ASSUME IndexAssumption, IInv, Grow
    PROVE  IInv'
<1>1. /\ pc = "load" /\ work' = [i \in 1 .. cap |-> table[i - 1]] \o work
      /\ UNCHANGED <<hash, value, order, behind, key, val, ins, slot, probe, pc, answer>>
      /\ NewTable(2 * cap)
  BY DEF Grow, list, call
<1>2. /\ work \in Seq(Entry) /\ work # <<>> /\ Taken(work[Len(work)])
      /\ cap \in Nat /\ cap >= 4 /\ slot = 0 /\ table \in [0 .. cap - 1 -> Entry]
  BY <1>1 DEF IInv, TypeOK, Control
<1>3. /\ cap' \in Nat /\ cap' >= 4
      /\ table' \in [0 .. cap' - 1 -> Entry'] /\ count' \in Nat
      /\ \A s \in Slots' : ~ Taken(table'[s])
      /\ TableInv' /\ Counted'
  BY <1>1, <1>2, EmptyTable
<1>4. DEFINE old == [i \in 1 .. cap |-> table[i - 1]]
<1>5. old \in Seq(Entry) /\ Len(old) = cap
  BY <1>2
<1>6. \A i \in 1 .. cap : old[i] = table[i - 1] /\ i - 1 \in Slots
  BY <1>2 DEF Slots
<1>7. work' = old \o work
  BY <1>1
<1>8. HIDE DEF old
<1>9. /\ work' \in Seq(Entry) /\ Len(work') = cap + Len(work) /\ Len(work) \in Nat /\ Len(work) > 0
      /\ \A i \in 1 .. cap : work'[i] = old[i]
      /\ \A i \in 1 .. Len(work) : work'[i + cap] = work[i]
  <2>1. Len(work) \in Nat /\ Len(work) > 0
    BY <1>2
  <2>2. work \in Seq(Entry) /\ old \in Seq(Entry)
    BY <1>2, <1>5
  <2>3. work' \in Seq(Entry)
    BY <2>2, <1>7, ConcatProperties
  <2>4. Len(work') = Len(old) + Len(work)
    BY <2>2, <1>7, Joined
  <2>5. \A i \in 1 .. Len(old) : work'[i] = old[i]
    BY <2>2, <1>7, Joined
  <2>6. \A i \in 1 .. Len(work) : work'[i + Len(old)] = work[i]
    BY <2>2, <1>7, Joined
  <2>7. QED
    BY <2>1, <2>3, <2>4, <2>5, <2>6, <1>5
<1>9a. \A i \in 1 .. Len(work') :
            \/ i \in 1 .. cap /\ work'[i] = old[i]
            \/ i - cap \in 1 .. Len(work) /\ work'[i] = work[i - cap]
  BY <1>2, <1>5, <1>7, Joined
<1>10. /\ \A s \in Slots : s + 1 \in 1 .. Len(work') /\ work'[s + 1] = table[s]
       /\ \A i \in 1 .. Len(work) : i + cap \in 1 .. Len(work') /\ work'[i + cap] = work[i]
  <2>1. \A s \in Slots : s + 1 \in 1 .. cap
    BY <1>2 DEF Slots
  <2>2. \A s \in Slots : work'[s + 1] = table[(s + 1) - 1]
    BY <2>1, <1>6, <1>9
  <2>3. QED
    BY <2>1, <2>2, <1>2, <1>9 DEF Slots
<1>11. work' # <<>> /\ work'[Len(work')] = work[Len(work)]
  BY <1>2, <1>9
<1>12. \A i \in 1 .. Len(work') : \/ \E s \in Slots : work'[i] = table[s]
                                  \/ \E j \in 1 .. Len(work) : work'[i] = work[j]
  <2>1. ASSUME NEW i \in 1 .. Len(work')
        PROVE  \/ \E s \in Slots : work'[i] = table[s]
               \/ \E j \in 1 .. Len(work) : work'[i] = work[j]
    <3>1. CASE i \in 1 .. cap /\ work'[i] = old[i]
      BY <3>1, <1>6
    <3>2. CASE i - cap \in 1 .. Len(work) /\ work'[i] = work[i - cap]
      BY <3>2
    <3>3. QED BY <3>1, <3>2, <1>9a
  <2>2. QED BY <2>1
<1>13. TypeOK'
  BY <1>1, <1>2, <1>3, <1>9 DEF IInv, TypeOK, Entry
<1>14. Control'
  <2>1. \A s \in Slots : Taken(table[s]) => table[s].key \in Name
    BY DEF IInv, Placed
  <2>2. \A i \in 1 .. Len(work) : Taken(work[i]) => work[i].key \in Name
    BY DEF IInv, Control
  <2>3. \A i \in 1 .. Len(work') : Taken(work'[i]) => work'[i].key \in Name
    BY <2>1, <2>2, <1>12
  <2>4. QED
    BY <2>3, <1>1, <1>2, <1>3, <1>11 DEF Control
<1>15. Carried' /\ Exchanged' /\ Looking'
  BY <1>1 DEF Carried, Exchanged, Looking
<1>16. Current'
  <2>1. \A m : Last(m) => Last(m)'
    BY <1>1, <1>2, <1>11 DEF Last
  <2>2. \A m, u : Right(m, u) => Right(m, u)'
    BY <2>1, <1>1 DEF Right
  <2>3. /\ \A s \in Slots : Taken(table[s]) => Right(table[s].key, table[s].value)
        /\ \A i \in 1 .. Len(work) : Taken(work[i]) => Right(work[i].key, work[i].value)
    BY DEF IInv, Current
  <2>4. \A i \in 1 .. Len(work') : Taken(work'[i]) => Right(work'[i].key, work'[i].value)
    BY <2>3, <1>12
  <2>5. (\A i \in 1 .. Len(work) : Taken(work[i]) => Right(work[i].key, work[i].value))'
    BY <2>2, <2>4
  <2>6. (\A s \in Slots : Taken(table[s]) => Right(table[s].key, table[s].value))'
    BY <1>3
  <2>7. QED
    BY <2>5, <2>6, <1>1 DEF Current
<1>17. Covered'
  <2>1. \A m : InTable(m) \/ Waiting(m) => Waiting(m)'
    BY <1>10 DEF Waiting, InTable
  <2>2. \A i \in 1 .. Len(work') : Taken(work'[i]) => Listed(work'[i].key)
    BY <1>12 DEF IInv, Covered
  <2>3. \A m : Listed(m)' <=> Listed(m)
    BY <1>1 DEF Listed
  <2>4. (\A i \in 1 .. Len(work) : Taken(work[i]) => Listed(work[i].key))'
    BY <2>2, <2>3
  <2>5. (\A s \in Slots : Taken(table[s]) => Listed(table[s].key))'
    BY <1>3
  <2>6. \A m \in Name : Listed(m) => InTable(m) \/ Waiting(m)
    BY <1>1, <1>2 DEF IInv, Covered
  <2>7. QED
    BY <2>1, <2>3, <2>4, <2>5, <2>6, <1>1 DEF Covered
<1>18. Nodes'
  BY <1>1 DEF IInv, Nodes, Listed
<1>19. QED
  BY <1>3, <1>13, <1>14, <1>15, <1>16, <1>17, <1>18 DEF IInv, TableInv

-----------------------------------------------------------------------------
(* envmap_set                                                              *)

\* A name that is not in a slot passed, and meets a slot that is free or whose entry is
\* nearer to its home, is in no slot.
LEMMA Absent ==
    ASSUME IndexAssumption, IInv, pc = "set", Here.dist < ins.dist,
           NEW s \in Slots, Taken(table[s])
    PROVE  table[s].key # ins.key
<1>1. CASE ins.key # key
  BY <1>1 DEF IInv, Exchanged
<1>2. CASE ins.key = key
  <2>1. SUFFICES ASSUME table[s].key = key PROVE FALSE
    BY <1>2
  <2>2. /\ table[s].dist \in Int /\ ins.dist \in Int
        /\ 0 <= table[s].dist /\ table[s].dist < cap /\ At(key, table[s].dist) = s
        /\ ins.dist \in Slots /\ slot = At(key, ins.dist)
    BY <2>1, <1>2 DEF IInv, TypeOK, Entry, Taken, Placed, Carried, Slots
  <2>3. CASE table[s].dist < ins.dist
    <3>1. table[s].dist \in 0 .. ins.dist - 1
      BY <2>2, <2>3
    <3>2. QED
      BY <3>1, <2>1, <2>2, <1>2 DEF IInv, Exchanged
  <2>4. CASE table[s].dist >= ins.dist
    <3>1. ins.dist \in 0 .. table[s].dist
      BY <2>2, <2>4 DEF Slots
    <3>2. table[At(key, ins.dist)].dist >= ins.dist
      BY <3>1, <2>1 DEF IInv, Rich
    <3>3. Here.dist \in Int
      BY <2>2, AtFacts, SMTT(30) DEF Here, IInv, TypeOK, Entry, Slots
    <3>4. QED
      BY <3>2, <3>3, <2>2 DEF Here
  <2>5. QED BY <2>2, <2>3, <2>4
<1>3. QED BY <1>1, <1>2

LEMMA SlotType ==
    ASSUME IndexAssumption, IInv, pc = "set"
    PROVE  /\ cap \in Nat /\ cap >= 4 /\ hash \in [Name -> Nat]
           /\ key \in Name /\ ins.key \in Name /\ ins \in Entry /\ ins.dist \in Slots
           /\ ins.dist \in Nat /\ slot \in Slots /\ slot = At(ins.key, ins.dist)
           /\ Here \in Entry /\ Here.dist \in Int /\ Here = table[slot]
           /\ table \in [Slots -> Entry]
<1>1. cap \in Nat /\ cap >= 4 /\ hash \in [Name -> Nat] /\ table \in [Slots -> Entry]
  BY Hashed DEF IInv, TypeOK, Control, Slots
<1>2. /\ key \in Name /\ ins.key \in Name /\ ins \in Entry /\ ins.dist \in Slots
      /\ slot = At(ins.key, ins.dist)
  BY DEF IInv, TypeOK, Control, Carried
<1>3. slot \in Slots
  BY <1>1, <1>2, AtFacts
<1>4. QED
  BY <1>1, <1>2, <1>3 DEF Here, Entry, Slots

LEMMA AtSame ==
    ASSUME UNCHANGED <<hash, cap>>
    PROVE  \A n, j : At(n, j)' = At(n, j)
  BY DEF At, Plus, Home

\* The carried entry takes a slot that is free, or whose entry is nearer to its home.
LEMMA Raise ==
    ASSUME IndexAssumption, IInv, pc = "set", Here.dist < ins.dist,
           table' = [table EXCEPT ![slot] = ins], UNCHANGED <<hash, cap>>
    PROVE  /\ TableInv' /\ table' \in [Slots -> Entry]
           /\ table'[slot] = ins /\ \A s \in Slots : s # slot => table'[s] = table[s]
           /\ \A s \in Slots : table'[s].dist >= table[s].dist /\ table'[s].dist \in Int
<1>1. /\ cap \in Nat /\ cap >= 4 /\ ins.key \in Name /\ ins \in Entry /\ ins.dist \in Slots
      /\ slot \in Slots /\ slot = At(ins.key, ins.dist) /\ Here = table[slot]
      /\ table \in [Slots -> Entry] /\ ins.dist \in Nat /\ hash \in [Name -> Nat]
  BY SlotType
<1>2. table' \in [Slots -> Entry] /\ table'[slot] = ins /\ \A s \in Slots : s # slot => table'[s] = table[s]
  BY <1>1
<1>3. \A s \in Slots : table'[s].dist >= table[s].dist /\ table'[s].dist \in Int /\ table[s].dist \in Int
  BY <1>1, <1>2 DEF Entry
<1>4. Slots' = Slots /\ \A n, j : At(n, j)' = At(n, j)
  BY AtSame DEF Slots
<1>5. \A s \in Slots : Taken(table[s]) => table[s].key # ins.key
  BY Absent
<1>6. Placed'
  <2>1. ASSUME NEW s \in Slots, Taken(table'[s])
        PROVE  /\ table'[s].key \in Name /\ table'[s].dist < cap
               /\ At(table'[s].key, table'[s].dist) = s
    <3>1. CASE s = slot
      BY <3>1, <1>1, <1>2 DEF Slots
    <3>2. CASE s # slot
      BY <3>2, <2>1, <1>2 DEF IInv, Placed
    <3>3. QED BY <3>1, <3>2
  <2>2. QED
    BY <2>1, <1>4 DEF Placed, Taken
<1>7. Rich'
  <2>1. ASSUME NEW s \in Slots, Taken(table'[s]), NEW j \in 0 .. table'[s].dist
        PROVE  table'[At(table'[s].key, j)].dist >= j
    <3>1. CASE s = slot
      <4>0. j \in Slots
        BY <3>1, <1>1, <1>2 DEF Slots
      <4>1. At(ins.key, j) \in Slots
        BY <4>0, <1>1, AtFacts
      <4>2. CASE j = ins.dist
        BY <4>2, <3>1, <1>1, <1>2
      <4>3. CASE j # ins.dist
        <5>1. j \in 0 .. ins.dist - 1
          BY <4>3, <3>1, <1>1, <1>2
        <5>2. table[At(ins.key, j)].dist >= j
          BY <5>1 DEF IInv, Carried
        <5>3. QED
          BY <5>1, <5>2, <4>1, <3>1, <1>2, <1>3
      <4>4. QED BY <4>2, <4>3
    <3>2. CASE s # slot
      <4>1. /\ table'[s] = table[s] /\ Taken(table[s]) /\ table[s].key \in Name
            /\ table[s].dist < cap /\ table[s].dist \in Int
        BY <3>2, <2>1, <1>2, <1>3 DEF IInv, Placed
      <4>2. table[At(table[s].key, j)].dist >= j
        BY <4>1 DEF IInv, Rich
      <4>3. At(table[s].key, j) \in Slots
        <5>1. j \in Slots
          BY <4>1, <1>1 DEF Slots
        <5>2. QED BY <5>1, <4>1, <1>1, AtFacts
      <4>4. QED
        BY <4>1, <4>2, <4>3, <1>3
    <3>3. QED BY <3>1, <3>2
  <2>2. QED
    BY <2>1, <1>4 DEF Rich, Taken
<1>8. Unique'
  <2>1. ASSUME NEW s \in Slots, NEW t \in Slots, Taken(table'[s]), Taken(table'[t]),
               table'[s].key = table'[t].key
        PROVE  s = t
    BY <2>1, <1>2, <1>5 DEF IInv, Unique
  <2>2. QED
    BY <2>1, <1>4 DEF Unique, Taken
<1>9. QED
  BY <1>2, <1>3, <1>6, <1>7, <1>8 DEF TableInv

LEMMA BeginStep ==
    ASSUME IndexAssumption, IInv, Begin
    PROVE  IInv'
<1>1. /\ pc = "load" /\ Taken(Head(work)) /\ work' = Tail(work) /\ pc' = "set" /\ ~ Full
      /\ key' = Head(work).key /\ val' = Head(work).value
      /\ ins' = Fresh(key', val') /\ slot' = Home(key')
      /\ UNCHANGED <<hash, value, order, behind, cap, table, count, probe, answer>>
  BY DEF Begin, list, index
<1>2. /\ work \in Seq(Entry) /\ work # <<>> /\ Taken(work[Len(work)])
      /\ cap \in Nat /\ cap >= 4 /\ cap > 0
  BY <1>1 DEF IInv, TypeOK, Control
<1>3. /\ Head(work) = work[1] /\ work' \in Seq(Entry) /\ Len(work') = Len(work) - 1 /\ Len(work) > 0
      /\ \A i \in 1 .. Len(work) - 1 : work'[i] = work[i + 1]
      /\ \A i \in 1 .. Len(work) : i = 1 \/ work[i] = work'[i - 1]
      /\ work' = <<>> <=> Len(work) = 1
  BY <1>1, <1>2, Rest
<1>4. Len(work) \in Nat /\ 1 \in 1 .. Len(work)
  BY <1>2, <1>3
<1>5. /\ key' \in Name /\ val' \in Value \cup {NoValue} /\ work[1] \in Entry
      /\ key' = work[1].key /\ val' = work[1].value
  <2>1. work[1] \in Entry /\ Taken(work[1]) /\ key' = work[1].key /\ val' = work[1].value
    BY <1>1, <1>2, <1>3, <1>4
  <2>2. work[1].key \in Name
    BY <2>1, <1>4 DEF IInv, Control
  <2>3. QED
    BY <2>1, <2>2 DEF Entry
<1>6. ins' \in Entry /\ ins'.key = key' /\ ins'.dist = 0 /\ ins'.value = val'
  BY <1>1, <1>5 DEF Fresh, Entry
<1>7. Slots' = Slots /\ 0 \in Slots /\ \A n, j : At(n, j)' = At(n, j)
  BY <1>1, <1>2, AtSame DEF Slots
<1>8. slot' = At(ins'.key, 0) /\ slot' \in Slots
  BY <1>1, <1>2, <1>5, <1>6, <1>7, AtFacts, Hashed DEF IInv
<1>9. TypeOK'
  BY <1>1, <1>2, <1>3, <1>5, <1>6, <1>8 DEF IInv, TypeOK, Points, Entry, Slots
<1>10. work' # <<>> => work'[Len(work')] = work[Len(work)]
  BY <1>3, <1>4
<1>11. Control'
  <2>1. \A i \in 1 .. Len(work') : Taken(work'[i]) => work'[i].key \in Name
    BY <1>3, <1>4 DEF IInv, Control
  <2>2. QED
    BY <2>1, <1>1, <1>2, <1>5, <1>10 DEF Control
<1>12. Placed' /\ Rich' /\ Unique'
  BY <1>1, SameTable DEF IInv, TableInv
<1>13. Counted'
  <2>1. count * 4 < cap * 3
    BY <1>1, <1>2 DEF Full, IInv, TypeOK
  <2>2. QED
    BY <2>1, <1>1 DEF IInv, Counted, Occupied, Taken
<1>14. Carried'
  BY <1>5, <1>6, <1>7, <1>8 DEF Carried
<1>15. Exchanged' /\ Looking'
  BY <1>1, <1>6 DEF Exchanged, Looking
<1>16. Current'
  <2>1. \A m : Last(m) => Last(m)'
    BY <1>1, <1>2, <1>3, <1>5, <1>10 DEF Last
  <2>2. \A m, u : Right(m, u) => Right(m, u)'
    BY <2>1, <1>1 DEF Right
  <2>3. \A s \in Slots : Taken(table[s]) => Right(table[s].key, table[s].value)
    BY DEF IInv, Current
  <2>4. \A i \in 1 .. Len(work') : Taken(work'[i]) => Right(work'[i].key, work'[i].value)
    BY <1>3, <1>4 DEF IInv, Current
  <2>5. Right(key', val')
    BY <1>1, <1>3, <1>4, <1>5 DEF IInv, Current
  <2>6. (\A s \in Slots : Taken(table[s]) => Right(table[s].key, table[s].value))'
    BY <2>2, <2>3, <1>1 DEF Slots
  <2>7. (\A i \in 1 .. Len(work) : Taken(work[i]) => Right(work[i].key, work[i].value))'
    BY <2>2, <2>4
  <2>8. Right(key, val)' /\ Right(ins.key, ins.value)'
    BY <2>2, <2>5, <1>6
  <2>9. QED
    BY <2>6, <2>7, <2>8 DEF Current
<1>17. Covered'
  <2>1. \A m : Waiting(m) => Waiting(m)' \/ m = ins'.key
    <3>1. ASSUME NEW m, NEW i \in 1 .. Len(work), Taken(work[i]), work[i].key = m, i # 1
          PROVE  Waiting(m)'
      <4>1. i - 1 \in 1 .. Len(work') /\ work'[i - 1] = work[i]
        BY <3>1, <1>3, <1>4
      <4>2. QED BY <3>1, <4>1 DEF Waiting
    <3>2. QED BY <3>1, <1>5, <1>6 DEF Waiting
  <2>2. \A m : (Listed(m)' <=> Listed(m)) /\ (InTable(m)' <=> InTable(m))
    BY <1>1 DEF Listed, InTable, Slots, Taken
  <2>3. (\A i \in 1 .. Len(work) : Taken(work[i]) => Listed(work[i].key))'
    BY <2>2, <1>3, <1>4 DEF IInv, Covered
  <2>4. Listed(key)' /\ Listed(ins.key)'
    BY <2>2, <1>1, <1>3, <1>4, <1>5, <1>6 DEF IInv, Covered
  <2>5. (\A s \in Slots : Taken(table[s]) => Listed(table[s].key))'
    BY <2>2, <1>1 DEF IInv, Covered, Slots, Taken
  <2>6. \A m \in Name : Listed(m) => InTable(m) \/ Waiting(m)
    BY <1>1, <1>2 DEF IInv, Covered
  <2>7. QED
    BY <2>1, <2>2, <2>3, <2>4, <2>5, <2>6, <1>1 DEF Covered
<1>18. Nodes'
  BY <1>1 DEF IInv, Nodes, Listed
<1>19. QED
  BY <1>9, <1>11, <1>12, <1>13, <1>14, <1>15, <1>16, <1>17, <1>18 DEF IInv

\* What the end of a call leaves to the next.
LEMMA DoneStep ==
    ASSUME IndexAssumption, IInv, pc = "set", Done, table' \in [Slots -> Entry], count' \in Nat,
           UNCHANGED <<hash, value, order, behind, cap, work, answer>>
    PROVE  /\ TypeOK' /\ Control' /\ Carried' /\ Exchanged' /\ Looking' /\ Nodes'
           /\ pc' # "set"
           /\ \A m : Last(m) => Last(m)' \/ (m = key /\ val = value[key])
<1>1. /\ pc' = (IF work = <<>> THEN "idle" ELSE "load")
      /\ key' = NoName /\ val' = NoValue /\ ins' = Empty /\ slot' = 0 /\ probe' = 0
  BY DEF Done, Forget
<1>2. pc' \in {"idle", "load"}
  BY <1>1
<1>3. TypeOK'
  BY <1>1, <1>2 DEF IInv, TypeOK, Points, Slots, Entry, Empty
<1>4. Control'
  BY <1>1 DEF IInv, Control
<1>5. Carried' /\ Exchanged' /\ Looking'
  BY <1>2 DEF Carried, Exchanged, Looking
<1>6. Nodes'
  BY <1>1, <1>2 DEF IInv, Nodes, Listed
<1>7. \A m : Last(m) => Last(m)' \/ (m = key /\ val = value[key])
  BY DEF Last
<1>8. QED
  BY <1>2, <1>3, <1>4, <1>5, <1>6, <1>7

LEMMA PlaceStep ==
    ASSUME IndexAssumption, IInv, Place
    PROVE  IInv'
<1>1. /\ pc = "set" /\ ~ Taken(Here) /\ table' = [table EXCEPT ![slot] = ins]
      /\ count' = count + 1 /\ Done
      /\ UNCHANGED <<hash, value, order, behind, cap, work, answer>>
  BY DEF Place, list
<1>2. /\ cap \in Nat /\ cap >= 4 /\ ins.key \in Name /\ ins \in Entry /\ ins.dist \in Slots
      /\ slot \in Slots /\ Here = table[slot] /\ Here.dist \in Int
      /\ table \in [Slots -> Entry] /\ ins.dist \in Nat /\ hash \in [Name -> Nat] /\ key \in Name
  BY <1>1, SlotType
<1>3. Here.dist < ins.dist
  BY <1>1, <1>2 DEF Taken
<1>4. /\ TableInv' /\ table' \in [Slots -> Entry]
      /\ table'[slot] = ins /\ \A s \in Slots : s # slot => table'[s] = table[s]
  BY <1>1, <1>3, Raise
<1>5. count \in Nat /\ count' \in Nat
  BY <1>1 DEF IInv, TypeOK
<1>6. /\ TypeOK' /\ Control' /\ Carried' /\ Exchanged' /\ Looking' /\ Nodes'
      /\ pc' # "set"
      /\ \A m : Last(m) => Last(m)' \/ (m = key /\ val = value[key])
  BY <1>1, <1>4, <1>5, DoneStep
<1>7. Counted'
  <2>1. Occupied' = Occupied \cup {slot} /\ slot \notin Occupied
    BY <1>1, <1>2, <1>4 DEF Occupied, Taken, Slots
  <2>2. IsFiniteSet(Occupied)
    <3>1. IsFiniteSet(0 .. cap - 1)
      BY <1>2, FS_Interval
    <3>2. QED BY <3>1, FS_Subset DEF Occupied
  <2>3. Cardinality(Occupied') = Cardinality(Occupied) + 1
    BY <2>1, <2>2, FS_AddElement
  <2>4. count = Cardinality(Occupied) /\ count * 4 < cap * 3
    BY <1>1, <1>2 DEF IInv, Counted
  <2>5. QED
    BY <2>3, <2>4, <1>1, <1>2, <1>5, <1>6 DEF Counted
<1>8. \A s \in Slots : Taken(table'[s]) /\ table'[s].key = key => table'[s].value = val
  <2>1. CASE ins.key = key
    <3>1. \A s \in Slots : Taken(table[s]) => table[s].key # ins.key
      BY <1>1, <1>3, Absent
    <3>2. ins.value = val
      BY <2>1, <1>1 DEF IInv, Exchanged
    <3>3. QED
      BY <2>1, <3>1, <3>2, <1>4
  <2>2. CASE ins.key # key
    <3>1. PICK w \in Slots, k \in Slots :
            /\ k < w /\ slot = At(key, w) /\ \A j \in 0 .. w - 1 : Taken(table[At(key, j)])
            /\ table[At(key, k)].key = key /\ table[At(key, k)].value = val
      BY <2>2, <1>1 DEF IInv, Exchanged
    <3>2. /\ At(key, k) \in Slots /\ At(key, k) # slot
          /\ table'[At(key, k)].key = key /\ table'[At(key, k)].value = val
      <4>1. k # w /\ cap > 0
        BY <3>1, <1>2 DEF Slots
      <4>2. At(key, k) \in Slots /\ At(key, k) # slot
        BY <4>1, <3>1, <1>2, AtFacts
      <4>3. QED BY <4>2, <3>1, <1>4
    <3>3. Taken(table'[At(key, k)])
      BY <3>1, <3>2, <1>2, <1>4 DEF Slots
    <3>4. \A s \in Slots : Taken(table'[s]) /\ table'[s].key = key => s = At(key, k)
      BY <3>2, <3>3, <1>1, <1>4 DEF TableInv, Unique, Slots, Taken
    <3>5. QED
      BY <3>2, <3>4
  <2>3. QED BY <2>1, <2>2
<1>9. \A s \in Slots : Taken(table'[s]) => Right(table'[s].key, table'[s].value)
  BY <1>1, <1>2, <1>4 DEF IInv, Current
<1>10. Current'
  <2>1. \A s \in Slots : Taken(table'[s]) => Right(table[s].key, table[s].value)'
    BY <1>1, <1>6, <1>8, <1>9 DEF Right
  <2>2. (\A s \in Slots : Taken(table[s]) => Right(table[s].key, table[s].value))'
    BY <2>1, <1>1 DEF Slots
  <2>3. ASSUME NEW i \in 1 .. Len(work), Taken(work[i])
        PROVE  Right(work[i].key, work[i].value)'
    <3>1. work # <<>>
      BY <2>3
    <3>2. \A m : Last(m) => Last(m)'
      BY <3>1, <1>1 DEF Last
    <3>3. QED
      BY <2>3, <3>2, <1>1 DEF IInv, Current, Right
  <2>4. QED
    BY <2>2, <2>3, <1>1, <1>6 DEF Current
<1>11. Covered'
  <2>1. \A m : (Listed(m)' <=> Listed(m)) /\ (Waiting(m)' <=> Waiting(m))
    BY <1>1 DEF Listed, Waiting
  <2>2. \A m : InTable(m) \/ ins.key = m => InTable(m)'
    BY <1>1, <1>2, <1>4 DEF InTable, Slots, Taken
  <2>3. \A m \in Name : Listed(m) => InTable(m) \/ Waiting(m) \/ ins.key = m
    BY <1>2 DEF IInv, Covered
  <2>4. \A s \in Slots : Taken(table'[s]) => Listed(table'[s].key)
    BY <1>1, <1>2, <1>4 DEF IInv, Covered
  <2>5. (\A s \in Slots : Taken(table[s]) => Listed(table[s].key))'
    BY <2>1, <2>4, <1>1 DEF Slots
  <2>6. (\A i \in 1 .. Len(work) : Taken(work[i]) => Listed(work[i].key))'
    BY <2>1, <1>1 DEF IInv, Covered
  <2>7. QED
    BY <2>1, <2>2, <2>3, <2>5, <2>6, <1>6 DEF Covered
<1>12. QED
  BY <1>4, <1>6, <1>7, <1>10, <1>11 DEF IInv, TableInv

\* The slots the walk has been in, from the home of the new entry to the current one,
\* are taken; so it can go on.
LEMMA Walked ==
    ASSUME IndexAssumption, IInv, pc = "set", Taken(Here)
    PROVE  \E w \in Slots :
              /\ slot = At(key, w) /\ w + 1 \in Slots /\ Plus(slot, 1) = At(key, w + 1)
              /\ \A j \in 0 .. w : Taken(table[At(key, j)])
              /\ ins.key = key => w = ins.dist
              /\ ins.key # key => \E k \in Slots :
                    /\ k < w /\ table[At(key, k)].key = key /\ table[At(key, k)].value = val
<1>1. /\ cap \in Nat /\ cap >= 4 /\ cap > 0 /\ ins.key \in Name /\ ins.dist \in Slots /\ key \in Name
      /\ slot \in Slots /\ slot = At(ins.key, ins.dist) /\ Here = table[slot]
      /\ table \in [Slots -> Entry] /\ ins.dist \in Nat /\ hash \in [Name -> Nat]
  BY SlotType
<1>2. \E w \in Slots :
         /\ slot = At(key, w) /\ \A j \in 0 .. w - 1 : Taken(table[At(key, j)])
         /\ ins.key = key => w = ins.dist
         /\ ins.key # key => \E k \in Slots :
               /\ k < w /\ table[At(key, k)].key = key /\ table[At(key, k)].value = val
  <2>1. CASE ins.key = key
    <3>1. ASSUME NEW j \in 0 .. ins.dist - 1 PROVE Taken(table[At(key, j)])
      <4>1. table[At(key, j)].dist >= j
        BY <2>1 DEF IInv, Carried
      <4>2. At(key, j) \in Slots
        <5>1. j \in Slots BY <1>1 DEF Slots
        <5>2. QED BY <5>1, <1>1, AtFacts
      <4>3. table[At(key, j)].dist \in Int
        BY <4>2, <1>1 DEF Entry
      <4>4. QED BY <4>1, <4>3, <1>1 DEF Taken
    <3>2. QED BY <2>1, <3>1, <1>1
  <2>2. CASE ins.key # key
    BY <2>2 DEF IInv, Exchanged
  <2>3. QED BY <2>1, <2>2
<1>3. PICK w \in Slots :
         /\ slot = At(key, w) /\ \A j \in 0 .. w - 1 : Taken(table[At(key, j)])
         /\ ins.key = key => w = ins.dist
         /\ ins.key # key => \E k \in Slots :
               /\ k < w /\ table[At(key, k)].key = key /\ table[At(key, k)].value = val
  BY <1>2
<1>4. \A j \in 0 .. w : Taken(table[At(key, j)])
  <2>1. \A j \in 0 .. w : j = w \/ j \in 0 .. w - 1
    BY <1>1 DEF Slots
  <2>2. QED BY <2>1, <1>3, <1>1
<1>5. w + 1 \in Slots
  BY <1>1, <1>4, RoomAhead DEF IInv
<1>6. Plus(slot, 1) = At(key, w + 1)
  BY <1>1, <1>3, <1>5, AtFacts
<1>7. QED
  BY <1>3, <1>4, <1>5, <1>6

LEMMA ReplaceStep ==
    ASSUME IndexAssumption, IInv, Replace
    PROVE  IInv'
<1>1. /\ pc = "set" /\ Taken(Here) /\ Here.key = key /\ table' = [table EXCEPT ![slot].value = val]
      /\ Done
      /\ UNCHANGED <<hash, value, order, behind, cap, count, work, answer>>
  BY DEF Replace, list
<1>2. /\ cap \in Nat /\ cap >= 4 /\ cap > 0 /\ slot \in Slots /\ Here = table[slot] /\ Here \in Entry
      /\ table \in [Slots -> Entry] /\ hash \in [Name -> Nat] /\ key \in Name
      /\ val \in Value \cup {NoValue} /\ count \in Nat
  BY <1>1, SlotType DEF IInv, TypeOK
<1>3. ins.key = key
  <2>1. SUFFICES ASSUME ins.key # key PROVE FALSE
    OBVIOUS
  <2>2. PICK w \in Slots, k \in Slots :
          /\ slot = At(key, w) /\ \A j \in 0 .. w : Taken(table[At(key, j)])
          /\ k < w /\ table[At(key, k)].key = key
    BY <1>1, <2>1, Walked
  <2>3. k \in 0 .. w /\ k # w
    BY <2>2, <1>2 DEF Slots
  <2>4. At(key, k) \in Slots /\ At(key, k) # slot
    BY <2>2, <2>3, <1>2, AtFacts
  <2>5. Taken(table[At(key, k)])
    BY <2>2, <2>3
  <2>6. QED
    BY <2>2, <2>4, <2>5, <1>1, <1>2 DEF IInv, Unique
<1>4. /\ table' \in [Slots -> Entry]
      /\ \A s \in Slots : /\ table'[s].key = table[s].key /\ table'[s].dist = table[s].dist
                          /\ s # slot => table'[s] = table[s]
      /\ table'[slot].value = val
  BY <1>1, <1>2 DEF Entry
<1>5. \A s \in Slots : Taken(table'[s]) <=> Taken(table[s])
  BY <1>4 DEF Taken
<1>6. Slots' = Slots /\ \A n, j : At(n, j)' = At(n, j)
  BY <1>1, AtSame DEF Slots
<1>7. /\ TypeOK' /\ Control' /\ Carried' /\ Exchanged' /\ Looking' /\ Nodes'
      /\ pc' # "set"
      /\ \A m : Last(m) => Last(m)' \/ (m = key /\ val = value[key])
  BY <1>1, <1>2, <1>4, DoneStep
<1>8. Placed'
  <2>1. \A s \in Slots : Taken(table'[s]) =>
            /\ table'[s].key \in Name /\ table'[s].dist < cap
            /\ At(table'[s].key, table'[s].dist) = s
    BY <1>4, <1>5 DEF IInv, Placed
  <2>2. QED BY <2>1, <1>1, <1>6 DEF Placed, Taken
<1>9. Rich'
  <2>1. ASSUME NEW s \in Slots, Taken(table'[s]), NEW j \in 0 .. table'[s].dist
        PROVE  table'[At(table'[s].key, j)].dist >= j
    <3>1. table[At(table[s].key, j)].dist >= j
      BY <2>1, <1>4, <1>5 DEF IInv, Rich
    <3>2. table[s].key \in Name /\ table[s].dist \in Int /\ table[s].dist < cap
      BY <2>1, <1>2, <1>5 DEF IInv, Placed, Entry
    <3>3. j \in Slots
      BY <3>2, <1>2, <1>4 DEF Slots
    <3>4. At(table[s].key, j) \in Slots
      BY <3>2, <3>3, <1>2, AtFacts
    <3>5. QED BY <3>1, <3>4, <1>4
  <2>2. QED BY <2>1, <1>6 DEF Rich, Taken
<1>10. Unique'
  <2>1. \A s, t \in Slots :
          Taken(table'[s]) /\ Taken(table'[t]) /\ table'[s].key = table'[t].key => s = t
    BY <1>4, <1>5 DEF IInv, Unique
  <2>2. QED BY <2>1, <1>6 DEF Unique, Taken
<1>11. Counted'
  <2>1. Occupied' = Occupied
    BY <1>5, <1>6 DEF Occupied, Slots, Taken
  <2>2. QED BY <2>1, <1>1, <1>7 DEF IInv, Counted
<1>12. \A s \in Slots : Taken(table'[s]) /\ table'[s].key = key => s = slot
  BY <1>1, <1>2, <1>4, <1>5 DEF IInv, Unique
<1>13. Current'
  <2>1. Right(key, val)
    BY <1>1 DEF IInv, Current
  <2>2. \A s \in Slots : Taken(table'[s]) => Right(table'[s].key, table'[s].value)
    <3>1. table'[slot].key = key /\ table'[slot].value = val
      BY <1>1, <1>2, <1>4
    <3>2. \A s \in Slots : s # slot /\ Taken(table'[s]) => Right(table'[s].key, table'[s].value)
      BY <1>4, <1>5 DEF IInv, Current
    <3>3. QED BY <2>1, <3>1, <3>2
  <2>3. \A s \in Slots : Taken(table'[s]) => Right(table[s].key, table[s].value)'
    BY <2>2, <1>1, <1>4, <1>7, <1>12 DEF Right
  <2>4. (\A s \in Slots : Taken(table[s]) => Right(table[s].key, table[s].value))'
    BY <2>3, <1>6
  <2>5. ASSUME NEW i \in 1 .. Len(work), Taken(work[i])
        PROVE  Right(work[i].key, work[i].value)'
    <3>1. work # <<>>
      BY <2>5
    <3>2. \A m : Last(m) => Last(m)'
      BY <3>1, <1>1 DEF Last
    <3>3. QED
      BY <2>5, <3>2, <1>1 DEF IInv, Current, Right
  <2>6. QED
    BY <2>4, <2>5, <1>1, <1>7 DEF Current
<1>14. Covered'
  <2>1. \A m : (Listed(m)' <=> Listed(m)) /\ (Waiting(m)' <=> Waiting(m))
    BY <1>1 DEF Listed, Waiting
  <2>2. \A m : InTable(m) => InTable(m)'
    BY <1>4, <1>5, <1>6 DEF InTable
  <2>3. InTable(key)
    BY <1>1, <1>2 DEF InTable
  <2>4. \A m \in Name : Listed(m) => InTable(m) \/ Waiting(m)
    BY <2>3, <1>2, <1>3 DEF IInv, Covered
  <2>5. \A s \in Slots : Taken(table'[s]) => Listed(table'[s].key)
    BY <1>4, <1>5 DEF IInv, Covered
  <2>6. (\A s \in Slots : Taken(table[s]) => Listed(table[s].key))'
    BY <2>1, <2>5, <1>6
  <2>7. (\A i \in 1 .. Len(work) : Taken(work[i]) => Listed(work[i].key))'
    BY <2>1, <1>1 DEF IInv, Covered
  <2>8. QED
    BY <2>1, <2>2, <2>4, <2>6, <2>7, <1>7 DEF Covered
<1>15. QED
  BY <1>7, <1>8, <1>9, <1>10, <1>11, <1>13, <1>14 DEF IInv

LEMMA DisplaceStep ==
    ASSUME IndexAssumption, IInv, Displace
    PROVE  IInv'
<1>1. /\ pc = "set" /\ Taken(Here) /\ Here.key # key /\ Here.dist < ins.dist
      /\ table' = [table EXCEPT ![slot] = ins]
      /\ ins' = Farther(Here) /\ slot' = Plus(slot, 1)
      /\ UNCHANGED <<hash, value, order, behind, cap, count, work, key, val, probe, pc, answer>>
  BY DEF Displace, list
<1>2. /\ cap \in Nat /\ cap >= 4 /\ cap > 0 /\ ins.key \in Name /\ ins \in Entry /\ ins.dist \in Slots
      /\ slot \in Slots /\ Here = table[slot] /\ Here \in Entry /\ Here.dist \in Int
      /\ table \in [Slots -> Entry] /\ ins.dist \in Nat /\ hash \in [Name -> Nat] /\ key \in Name
  BY <1>1, SlotType
<1>3. /\ TableInv' /\ table' \in [Slots -> Entry]
      /\ table'[slot] = ins /\ \A s \in Slots : s # slot => table'[s] = table[s]
      /\ \A s \in Slots : table'[s].dist >= table[s].dist /\ table'[s].dist \in Int
  BY <1>1, Raise
<1>4. /\ ins' \in Entry /\ ins'.key = Here.key /\ ins'.value = Here.value
      /\ ins'.dist = Here.dist + 1 /\ Here.dist >= 0
  BY <1>1, <1>2 DEF Farther, Entry, Taken
<1>5. Slots' = Slots /\ \A n, j : At(n, j)' = At(n, j)
  BY <1>1, AtSame DEF Slots
<1>6. /\ Here.key \in Name /\ Here.dist \in Slots /\ Here.dist + 1 \in Slots
      /\ slot = At(Here.key, Here.dist) /\ slot' = At(Here.key, Here.dist + 1) /\ slot' \in Slots
  <2>1. Here.key \in Name /\ At(Here.key, Here.dist) = slot
    BY <1>1, <1>2 DEF IInv, Placed
  <2>2. Here.dist \in Slots /\ Here.dist + 1 \in Slots
    BY <1>1, <1>2, <1>4 DEF Slots
  <2>3. /\ Plus(At(Here.key, Here.dist), 1) = At(Here.key, Here.dist + 1)
        /\ At(Here.key, Here.dist + 1) \in Slots
    BY <2>1, <2>2, <1>2, AtFacts
  <2>4. QED
    BY <2>1, <2>2, <2>3, <1>1
<1>7. \A s \in Slots : Taken(table'[s]) <=> Taken(table[s])
  BY <1>1, <1>2, <1>3 DEF Taken, Entry
<1>8. TypeOK'
  BY <1>1, <1>2, <1>3, <1>4, <1>6 DEF IInv, TypeOK, Slots, Entry
<1>9. Control'
  BY <1>1 DEF IInv, Control
<1>10. Counted'
  <2>1. Occupied' = Occupied
    BY <1>5, <1>7 DEF Occupied, Slots, Taken
  <2>2. QED BY <2>1, <1>1 DEF IInv, Counted
<1>11. Carried'
  <2>1. \A j \in 0 .. Here.dist : table[At(Here.key, j)].dist >= j
    BY <1>1, <1>2 DEF IInv, Rich
  <2>2. ASSUME NEW j \in 0 .. ins'.dist - 1 PROVE table'[At(ins'.key, j)].dist >= j
    <3>1. j \in 0 .. Here.dist
      BY <1>4, <1>2
    <3>2. j \in Slots
      BY <3>1, <1>6, <1>2 DEF Slots
    <3>3. At(Here.key, j) \in Slots /\ table[At(Here.key, j)].dist \in Int
      BY <3>2, <1>2, <1>6, AtFacts DEF Entry
    <3>4. QED
      BY <2>1, <3>1, <3>3, <1>3, <1>4
  <2>3. QED
    BY <2>2, <1>4, <1>5, <1>6 DEF Carried
<1>12. \A s \in Slots : Taken(table[s]) => table[s].key # ins.key
  BY <1>1, Absent
<1>13. Exchanged'
  <2>1. ASSUME NEW s \in Slots, Taken(table'[s]) PROVE table'[s].key # ins'.key
    <3>1. CASE s = slot
      BY <3>1, <1>1, <1>2, <1>3, <1>4, <1>12
    <3>2. CASE s # slot
      BY <3>2, <2>1, <1>1, <1>2, <1>3, <1>4 DEF IInv, Unique
    <3>3. QED BY <3>1, <3>2
  <2>2. PICK w \in Slots :
          /\ slot = At(key, w) /\ w + 1 \in Slots /\ Plus(slot, 1) = At(key, w + 1)
          /\ \A j \in 0 .. w : Taken(table[At(key, j)])
          /\ ins.key # key => \E k \in Slots :
                /\ k < w /\ table[At(key, k)].key = key /\ table[At(key, k)].value = val
    BY <1>1, Walked
  <2>3. \A j \in 0 .. (w + 1) - 1 : Taken(table'[At(key, j)])
    <3>1. \A j \in 0 .. (w + 1) - 1 : j \in 0 .. w /\ j \in Slots
      BY <1>2 DEF Slots
    <3>2. \A j \in Slots : At(key, j) \in Slots
      BY <1>2, AtFacts
    <3>3. QED BY <3>1, <3>2, <2>2, <1>7
  <2>4. \E k \in Slots : k < w + 1 /\ table'[At(key, k)].key = key /\ table'[At(key, k)].value = val
    <3>1. CASE ins.key = key
      <4>1. w < w + 1 /\ table'[At(key, w)] = ins
        BY <2>2, <1>2, <1>3 DEF Slots
      <4>2. ins.value = val
        BY <3>1, <1>1 DEF IInv, Exchanged
      <4>3. QED BY <3>1, <4>1, <4>2
    <3>2. CASE ins.key # key
      <4>1. PICK k \in Slots :
              k < w /\ table[At(key, k)].key = key /\ table[At(key, k)].value = val
        BY <3>2, <2>2
      <4>2. k # w /\ k < w + 1
        BY <4>1, <1>2 DEF Slots
      <4>3. At(key, k) \in Slots /\ At(key, k) # slot
        BY <4>2, <2>2, <1>2, AtFacts
      <4>4. QED BY <4>1, <4>2, <4>3, <1>3
    <3>3. QED BY <3>1, <3>2
  <2>5. ins'.key # key'
    BY <1>1, <1>4
  <2>6. (\A s \in Slots : Taken(table[s]) => table[s].key # ins.key)'
    BY <2>1, <1>5
  <2>7. /\ slot' = At(key, w + 1)'
        /\ (\A j \in 0 .. (w + 1) - 1 : Taken(table[At(key, j)]))'
    BY <2>2, <2>3, <1>1, <1>5
  <2>8. PICK k \in Slots' :
            k < w + 1 /\ (table[At(key, k)].key = key)' /\ (table[At(key, k)].value = val)'
    BY <2>4, <1>1, <1>5
  <2>9. QED
    BY <2>2, <2>5, <2>6, <2>7, <2>8, <1>5 DEF Exchanged
<1>14. Looking'
  BY <1>1 DEF Looking
<1>15. Current'
  <2>1. \A m, u : Right(m, u) => Right(m, u)'
    BY <1>1 DEF Right, Last
  <2>2. \A s \in Slots : Taken(table'[s]) => Right(table'[s].key, table'[s].value)
    BY <1>1, <1>2, <1>3 DEF IInv, Current
  <2>3. (\A s \in Slots : Taken(table[s]) => Right(table[s].key, table[s].value))'
    BY <2>1, <2>2, <1>5
  <2>4. (\A i \in 1 .. Len(work) : Taken(work[i]) => Right(work[i].key, work[i].value))'
    BY <2>1, <1>1 DEF IInv, Current
  <2>5. Right(key, val)' /\ Right(ins.key, ins.value)'
    BY <2>1, <1>1, <1>2, <1>4 DEF IInv, Current
  <2>6. QED BY <2>3, <2>4, <2>5 DEF Current
<1>16. Covered'
  <2>1. \A m : (Listed(m)' <=> Listed(m)) /\ (Waiting(m)' <=> Waiting(m))
    BY <1>1 DEF Listed, Waiting
  <2>2. \A m : InTable(m) \/ ins.key = m => InTable(m)' \/ ins'.key = m
    <3>1. \A s \in Slots : Taken(table[s]) =>
              \/ s = slot /\ ins'.key = table[s].key
              \/ Taken(table'[s]) /\ table'[s].key = table[s].key
      BY <1>1, <1>2, <1>3, <1>4, <1>7
    <3>2. Taken(table'[slot]) /\ table'[slot].key = ins.key
      BY <1>1, <1>2, <1>3, <1>7
    <3>3. QED BY <3>1, <3>2, <1>2, <1>5 DEF InTable
  <2>3. \A m \in Name : Listed(m) => InTable(m) \/ Waiting(m) \/ ins.key = m
    BY <1>2 DEF IInv, Covered
  <2>4. \A s \in Slots : Taken(table'[s]) => Listed(table'[s].key)
    BY <1>1, <1>2, <1>3, <1>7 DEF IInv, Covered
  <2>5. (\A s \in Slots : Taken(table[s]) => Listed(table[s].key))'
    BY <2>1, <2>4, <1>5
  <2>6. (\A i \in 1 .. Len(work) : Taken(work[i]) => Listed(work[i].key))'
    BY <2>1, <1>1 DEF IInv, Covered
  <2>7. Listed(ins.key)' /\ Listed(key)'
    BY <2>1, <1>1, <1>2, <1>4 DEF IInv, Covered
  <2>8. QED
    BY <2>1, <2>2, <2>3, <2>5, <2>6, <2>7, <1>1 DEF Covered
<1>17. Nodes'
  BY <1>1 DEF IInv, Nodes, Listed
<1>18. QED
  BY <1>3, <1>8, <1>9, <1>10, <1>11, <1>13, <1>14, <1>15, <1>16, <1>17 DEF IInv, TableInv

LEMMA AdvanceStep ==
    ASSUME IndexAssumption, IInv, Advance
    PROVE  IInv'
<1>1. /\ pc = "set" /\ Taken(Here) /\ Here.key # key /\ Here.dist >= ins.dist
      /\ ins' = Farther(ins) /\ slot' = Plus(slot, 1)
      /\ UNCHANGED <<hash, value, order, behind, cap, table, count, work, key, val, probe, pc,
                     answer>>
  BY DEF Advance, list, index
<1>2. /\ cap \in Nat /\ cap >= 4 /\ cap > 0 /\ ins.key \in Name /\ ins \in Entry /\ ins.dist \in Slots
      /\ slot \in Slots /\ slot = At(ins.key, ins.dist) /\ Here = table[slot] /\ Here \in Entry
      /\ table \in [Slots -> Entry] /\ ins.dist \in Nat /\ hash \in [Name -> Nat] /\ key \in Name
  BY <1>1, SlotType
<1>3. /\ ins' \in Entry /\ ins'.key = ins.key /\ ins'.value = ins.value /\ ins'.dist = ins.dist + 1
  BY <1>1, <1>2 DEF Farther, Entry
<1>4. Slots' = Slots /\ \A n, j : At(n, j)' = At(n, j)
  BY <1>1, AtSame DEF Slots
<1>5. \A j \in 0 .. ins.dist : table[At(ins.key, j)].dist >= j /\ Taken(table[At(ins.key, j)])
  <2>1. \A j \in 0 .. ins.dist : j \in Slots /\ (j = ins.dist \/ j \in 0 .. ins.dist - 1)
    BY <1>2 DEF Slots
  <2>2. \A j \in Slots : At(ins.key, j) \in Slots /\ table[At(ins.key, j)].dist \in Int
    BY <1>2, AtFacts DEF Entry
  <2>3. \A j \in 0 .. ins.dist - 1 : table[At(ins.key, j)].dist >= j
    BY <1>1 DEF IInv, Carried
  <2>4. \A j \in 0 .. ins.dist : table[At(ins.key, j)].dist >= j
    BY <2>1, <2>3, <1>1, <1>2
  <2>5. QED
    BY <2>1, <2>2, <2>4 DEF Taken
<1>6. ins.dist + 1 \in Slots
  BY <1>2, <1>5, RoomAhead DEF IInv
<1>7. slot' = At(ins.key, ins.dist + 1) /\ slot' \in Slots
  <2>1. /\ Plus(At(ins.key, ins.dist), 1) = At(ins.key, ins.dist + 1)
        /\ At(ins.key, ins.dist + 1) \in Slots
    BY <1>2, <1>6, AtFacts
  <2>2. QED BY <2>1, <1>1, <1>2
<1>8. TypeOK'
  BY <1>1, <1>3, <1>7 DEF IInv, TypeOK, Slots, Entry
<1>9. Control'
  BY <1>1 DEF IInv, Control
<1>10. Placed' /\ Rich' /\ Unique'
  BY <1>1, SameTable DEF IInv, TableInv
<1>11. Counted'
  BY <1>1 DEF IInv, Counted, Occupied, Taken
<1>12. Carried'
  <2>1. \A j \in 0 .. ins'.dist - 1 : table'[At(ins'.key, j)].dist >= j
    BY <1>1, <1>2, <1>3, <1>5
  <2>2. QED
    BY <2>1, <1>2, <1>3, <1>4, <1>6, <1>7 DEF Carried
<1>13. Exchanged'
  <2>1. CASE ins.key = key
    <3>1. \A j \in 0 .. ins'.dist - 1 : j = ins.dist \/ j \in 0 .. ins.dist - 1
      BY <1>2, <1>3
    <3>2. \A j \in 0 .. ins'.dist - 1 : table[At(key, j)].key # key
      BY <2>1, <3>1, <1>1, <1>2 DEF IInv, Exchanged
    <3>3. ins'.value = val
      BY <2>1, <1>1, <1>3 DEF IInv, Exchanged
    <3>4. QED
      BY <2>1, <3>2, <3>3, <1>1, <1>3, <1>4 DEF Exchanged
  <2>2. CASE ins.key # key
    <3>1. PICK w \in Slots :
            /\ w + 1 \in Slots /\ Plus(slot, 1) = At(key, w + 1)
            /\ \A j \in 0 .. w : Taken(table[At(key, j)])
            /\ \E k \in Slots :
                  /\ k < w /\ table[At(key, k)].key = key /\ table[At(key, k)].value = val
      BY <2>2, <1>1, Walked
    <3>2. PICK k \in Slots : k < w /\ table[At(key, k)].key = key /\ table[At(key, k)].value = val
      BY <3>1
    <3>3. k < w + 1 /\ \A j \in 0 .. (w + 1) - 1 : Taken(table[At(key, j)])
      BY <3>1, <3>2, <1>2 DEF Slots
    <3>4. /\ slot' = At(key, w + 1)'
          /\ (\A j \in 0 .. (w + 1) - 1 : Taken(table[At(key, j)]))'
          /\ (table[At(key, k)].key = key)' /\ (table[At(key, k)].value = val)'
      BY <3>1, <3>2, <3>3, <1>1, <1>4
    <3>5. (\A s \in Slots : Taken(table[s]) => table[s].key # ins.key)'
      BY <2>2, <1>1, <1>3, <1>4 DEF IInv, Exchanged
    <3>6. ins'.key # key'
      BY <2>2, <1>1, <1>3
    <3>7. QED
      BY <3>1, <3>3, <3>4, <3>5, <3>6, <1>4 DEF Exchanged
  <2>3. QED BY <2>1, <2>2
<1>14. Looking'
  BY <1>1 DEF Looking
<1>15. Current'
  <2>1. \A m, u : Right(m, u) => Right(m, u)'
    BY <1>1 DEF Right, Last
  <2>2. (\A s \in Slots : Taken(table[s]) => Right(table[s].key, table[s].value))'
    BY <2>1, <1>1, <1>4 DEF IInv, Current
  <2>3. (\A i \in 1 .. Len(work) : Taken(work[i]) => Right(work[i].key, work[i].value))'
    BY <2>1, <1>1 DEF IInv, Current
  <2>4. Right(key, val)' /\ Right(ins.key, ins.value)'
    BY <2>1, <1>1, <1>3 DEF IInv, Current
  <2>5. QED BY <2>2, <2>3, <2>4 DEF Current
<1>16. Covered'
  BY <1>1, <1>3 DEF IInv, Covered, Listed, InTable, Waiting, Slots, Taken
<1>17. Nodes'
  BY <1>1 DEF IInv, Nodes, Listed
<1>18. QED
  BY <1>8, <1>9, <1>10, <1>11, <1>12, <1>13, <1>14, <1>15, <1>16, <1>17 DEF IInv

-----------------------------------------------------------------------------
(* env_get                                                                 *)

LEMMA SameIndex ==
    ASSUME IInv, UNCHANGED <<hash, value, order, behind, cap, table, count, work>>,
           pc # "set", pc' # "set"
    PROVE  /\ Placed' /\ Rich' /\ Unique' /\ Counted' /\ Carried' /\ Exchanged'
           /\ Current' /\ Covered'
<1>1. Placed' /\ Rich' /\ Unique' /\ Counted'
  BY SameTable, SameCount DEF IInv, TableInv
<1>2. Carried' /\ Exchanged'
  BY DEF Carried, Exchanged
<1>3. Current'
  <2>1. \A m, u : Right(m, u) => Right(m, u)'
    BY DEF Right, Last
  <2>2. (\A s \in Slots : Taken(table[s]) => Right(table[s].key, table[s].value))'
    BY <2>1 DEF IInv, Current, Slots
  <2>3. (\A i \in 1 .. Len(work) : Taken(work[i]) => Right(work[i].key, work[i].value))'
    BY <2>1 DEF IInv, Current
  <2>4. QED BY <2>2, <2>3 DEF Current
<1>4. Covered'
  BY DEF IInv, Covered, Listed, InTable, Waiting, Slots, Taken
<1>5. QED
  BY <1>1, <1>2, <1>3, <1>4

\* A name that is neither in the table nor on its way there is not in the list.
LEMMA NotListed ==
    ASSUME IInv, pc # "set", work = <<>>, cap > 0, NEW n \in Name, ~ InTable(n)
    PROVE  ~ Listed(n)
  BY DEF IInv, Covered, Waiting

LEMMA GetStep ==
    ASSUME IndexAssumption, IInv, NEW n \in Name, Get(n)
    PROVE  IInv'
<1>1. /\ pc = "idle" /\ key' = n
      /\ UNCHANGED <<hash, value, order, behind, cap, table, count, work, val, ins, probe, answer>>
      /\ \/ cap > 0 /\ count > 0 /\ slot' = Home(n) /\ pc' = "look"
         \/ ~ (cap > 0 /\ count > 0) /\ slot' = slot /\ pc' = "scan"
  BY DEF Get, list, index
<1>2. work = <<>> /\ slot = 0 /\ cap \in Nat /\ hash \in [Name -> Nat]
  BY <1>1, Hashed DEF IInv, TypeOK, Control
<1>3. /\ Placed' /\ Rich' /\ Unique' /\ Counted' /\ Carried' /\ Exchanged'
      /\ Current' /\ Covered'
  BY <1>1, SameIndex
<1>4. CASE pc' = "look"
  <2>1. cap > 0 /\ slot' = Home(n)
    BY <1>1, <1>4
  <2>2. Home(n) \in Slots
    BY <1>2, <2>1 DEF Home, Slots
  <2>3. probe' = 0
    BY <1>1 DEF IInv, Nodes
  <2>4. TypeOK' /\ Control' /\ Nodes'
    BY <1>1, <1>2, <1>4, <2>1, <2>2 DEF IInv, TypeOK, Control, Nodes, Listed, Points, Slots, Entry
  <2>5. Looking'
    BY <1>1, <1>2, <2>1, <2>2, <2>3 DEF Looking, Home, Slots
  <2>6. QED
    BY <1>3, <2>4, <2>5 DEF IInv
<1>5. CASE pc' = "scan"
  <2>1. slot' = slot /\ ~ (cap > 0 /\ count > 0)
    BY <1>1, <1>5
  <2>2. TypeOK' /\ Control' /\ Looking'
    BY <1>1, <1>2, <1>5, <2>1 DEF IInv, TypeOK, Control, Looking, Points, Entry
  <2>3. cap > 0 => ~ Listed(n)
    <3>1. SUFFICES ASSUME cap > 0 PROVE ~ Listed(n)
      OBVIOUS
    <3>2. Cardinality(Occupied) = 0
      BY <3>1, <2>1, <1>2 DEF IInv, Counted, TypeOK
    <3>3. IsFiniteSet(Occupied)
      <4>1. IsFiniteSet(0 .. cap - 1)
        BY <1>2, FS_Interval
      <4>2. QED BY <4>1, FS_Subset DEF Occupied
    <3>4. ~ InTable(n)
      BY <3>2, <3>3, FS_EmptySet DEF InTable, Occupied, Slots
    <3>5. QED
      BY <3>1, <3>4, <1>1, <1>2, NotListed
  <2>4. Nodes'
    BY <2>3, <1>1 DEF IInv, Nodes, Listed
  <2>5. QED
    BY <1>3, <2>2, <2>4 DEF IInv
<1>6. QED
  BY <1>1, <1>4, <1>5

LEMMA LookType ==
    ASSUME IndexAssumption, IInv, pc = "look"
    PROVE  /\ cap \in Nat /\ cap > 0 /\ hash \in [Name -> Nat] /\ key \in Name
           /\ probe \in Slots /\ probe \in Nat /\ work = <<>>
           /\ At(key, probe) \in Slots /\ There = table[At(key, probe)]
           /\ There \in Entry /\ There.dist \in Int
<1>1. /\ cap \in Nat /\ cap > 0 /\ hash \in [Name -> Nat] /\ key \in Name
      /\ probe \in Slots /\ work = <<>> /\ slot = Home(key)
  BY Hashed DEF IInv, TypeOK, Control, Looking
<1>2. At(key, probe) \in Slots
  BY <1>1, AtFacts
<1>3. There = table[At(key, probe)]
  BY <1>1 DEF There, At
<1>4. table[At(key, probe)] \in Entry
  BY <1>2 DEF IInv, TypeOK, Slots
<1>5. QED
  BY <1>1, <1>2, <1>3, <1>4 DEF Entry, Slots

LEMMA MissStep ==
    ASSUME IndexAssumption, IInv, Miss
    PROVE  IInv'
<1>1. /\ pc = "look" /\ There.dist < probe /\ pc' = "scan"
      /\ UNCHANGED <<hash, value, order, behind, cap, table, count, work, key, val, ins, slot, probe,
                     answer>>
  BY DEF Miss, list, index, call
<1>2. /\ cap \in Nat /\ cap > 0 /\ key \in Name /\ probe \in Slots /\ probe \in Nat /\ work = <<>>
      /\ There = table[At(key, probe)] /\ There.dist \in Int
  BY <1>1, LookType
<1>3. /\ Placed' /\ Rich' /\ Unique' /\ Counted' /\ Carried' /\ Exchanged'
      /\ Current' /\ Covered'
  BY <1>1, SameIndex
<1>4. TypeOK' /\ Control' /\ Looking'
  BY <1>1, <1>2 DEF IInv, TypeOK, Control, Looking, Points, Entry
<1>5. ~ InTable(key)
  <2>1. SUFFICES ASSUME NEW s \in Slots, Taken(table[s]), table[s].key = key PROVE FALSE
    BY DEF InTable
  <2>2. table[s].dist \in Int /\ 0 <= table[s].dist /\ At(key, table[s].dist) = s
    BY <2>1 DEF IInv, TypeOK, Entry, Taken, Placed, Slots
  <2>3. CASE table[s].dist < probe
    <3>1. table[s].dist \in 0 .. probe - 1
      BY <2>2, <2>3, <1>2
    <3>2. QED
      BY <3>1, <2>1, <2>2, <1>1 DEF IInv, Looking
  <2>4. CASE table[s].dist >= probe
    <3>1. probe \in 0 .. table[s].dist
      BY <2>2, <2>4, <1>2
    <3>2. table[At(key, probe)].dist >= probe
      BY <3>1, <2>1 DEF IInv, Rich
    <3>3. QED
      BY <3>2, <1>1, <1>2
  <2>5. QED BY <2>2, <2>3, <2>4, <1>2
<1>6. Nodes'
  BY <1>1, <1>2, <1>5, NotListed DEF IInv, Nodes, Listed
<1>7. QED
  BY <1>3, <1>4, <1>6 DEF IInv

LEMMA LookOnStep ==
    ASSUME IndexAssumption, IInv, LookOn
    PROVE  IInv'
<1>1. /\ pc = "look" /\ There.dist >= probe /\ There.key # key /\ probe' = probe + 1
      /\ UNCHANGED <<hash, value, order, behind, cap, table, count, work, key, val, ins, slot, pc,
                     answer>>
  BY DEF LookOn, list, index
<1>2. /\ cap \in Nat /\ cap > 0 /\ key \in Name /\ probe \in Slots /\ probe \in Nat /\ work = <<>>
      /\ There = table[At(key, probe)] /\ There.dist \in Int /\ hash \in [Name -> Nat]
  BY <1>1, LookType
<1>3. /\ Placed' /\ Rich' /\ Unique' /\ Counted' /\ Carried' /\ Exchanged'
      /\ Current' /\ Covered'
  BY <1>1, SameIndex
<1>4. \A j \in 0 .. probe : table[At(key, j)].dist >= j /\ table[At(key, j)].key # key
  <2>1. \A j \in 0 .. probe : j = probe \/ j \in 0 .. probe - 1
    BY <1>2
  <2>2. QED
    BY <2>1, <1>1, <1>2 DEF IInv, Looking
<1>5. probe + 1 \in Slots
  <2>1. \A j \in 0 .. probe : Taken(table[At(key, j)])
    <3>1. \A j \in 0 .. probe : j \in Slots
      BY <1>2 DEF Slots
    <3>2. \A j \in Slots : At(key, j) \in Slots /\ table[At(key, j)].dist \in Int
      BY <1>2, AtFacts DEF IInv, TypeOK, Slots, Entry
    <3>3. QED
      BY <3>1, <3>2, <1>4, <1>2 DEF Taken
  <2>2. QED
    BY <2>1, <1>2, RoomAhead DEF IInv
<1>6. TypeOK' /\ Control' /\ Nodes'
  BY <1>1, <1>2 DEF IInv, TypeOK, Control, Nodes, Listed, Entry
<1>7. Looking'
  <2>1. \A j \in 0 .. probe' - 1 : table[At(key, j)].dist >= j /\ table[At(key, j)].key # key
    BY <1>1, <1>2, <1>4
  <2>2. slot' = Home(key)' /\ probe' \in Slots' /\ \A n, j : At(n, j)' = At(n, j)
    BY <1>1, <1>5, AtSame DEF IInv, Looking, Home, Slots
  <2>3. QED
    BY <2>1, <2>2, <1>1 DEF Looking
<1>8. QED
  BY <1>3, <1>6, <1>7 DEF IInv

LEMMA ReturnStep ==
    ASSUME IndexAssumption, IInv, Hit \/ Scan
    PROVE  IInv'
<1>1. /\ pc \in {"look", "scan"} /\ pc' = "idle"
      /\ key' = NoName /\ val' = NoValue /\ ins' = Empty /\ slot' = 0 /\ probe' = 0
      /\ UNCHANGED <<hash, value, order, behind, cap, table, count, work>>
  BY DEF Hit, Scan, Return, Forget, list, index
<1>2. /\ Placed' /\ Rich' /\ Unique' /\ Counted' /\ Carried' /\ Exchanged'
      /\ Current' /\ Covered'
  BY <1>1, SameIndex
<1>3. answer' \in [name : Name \cup {NoName}, value : Value \cup {NoValue}]
  <2>1. CASE Hit
    BY <2>1, LookType DEF Hit, Return, Entry
  <2>2. CASE Scan
    BY <2>2 DEF Scan, Return, IInv, TypeOK, Control
  <2>3. QED BY <2>1, <2>2
<1>4. TypeOK' /\ Control' /\ Looking' /\ Nodes'
  BY <1>1, <1>3, SMTT(30) DEF IInv, TypeOK, Control, Looking, Nodes, Listed, Points, Entry, Empty
<1>5. QED
  BY <1>2, <1>4 DEF IInv

-----------------------------------------------------------------------------
(* The theorems                                                            *)

LEMMA InitInv == ASSUME IndexAssumption, Init PROVE IInv
<1>1. cap = 0 /\ work = <<>> /\ pc = "idle" /\ Len(work) = 0 /\ Slots = {}
  BY DEF Init, Slots
<1>2. TypeOK
  BY <1>1 DEF Init, TypeOK, Points, Entry, Empty, NoAnswer
<1>3. Control /\ Counted /\ Carried /\ Exchanged /\ Looking
  BY <1>1 DEF Init, Control, Counted, Carried, Exchanged, Looking
<1>4. Placed /\ Rich /\ Unique /\ Current /\ Covered
  BY <1>1 DEF Placed, Rich, Unique, Current, Covered
<1>5. Nodes
  BY <1>1 DEF Init, Nodes, Listed
<1>6. QED
  BY <1>2, <1>3, <1>4, <1>5 DEF IInv

LEMMA StepInv == ASSUME IndexAssumption, IInv, [Next]_vars PROVE IInv'
<1>1. CASE UNCHANGED vars
  <2>1. UNCHANGED <<hash, value, order, behind, cap, table, count, work, key, val, ins, slot, probe,
                    pc, answer>>
    BY <1>1 DEF vars, list, index, call
  <2>2. TypeOK' /\ Control' /\ Nodes'
    BY <2>1 DEF IInv, TypeOK, Control, Nodes, Listed, Entry
  <2>3. Placed' /\ Rich' /\ Unique'
    BY <2>1, SameTable DEF IInv, TableInv
  <2>4. Counted' /\ Carried'
    BY <2>1 DEF IInv, Counted, Carried, Occupied, Taken, Slots, At, Plus, Home
  <2>5. Exchanged' /\ Looking'
    BY <2>1 DEF IInv, Exchanged, Looking, Slots, At, Plus, Home, Taken
  <2>6. Current'
    BY <2>1 DEF IInv, Current, Right, Last, Slots, Taken
  <2>7. Covered'
    BY <2>1 DEF IInv, Covered, Listed, InTable, Waiting, Slots, Taken
  <2>8. QED
    BY <2>2, <2>3, <2>4, <2>5, <2>6, <2>7 DEF IInv
<1>2. CASE Step
  BY <1>2, SkipStep, GrowStep, BeginStep, PlaceStep, ReplaceStep, DisplaceStep, AdvanceStep,
     MissStep, LookOnStep, ReturnStep DEF Step
<1>3. ASSUME NEW n \in Name, Get(n) PROVE IInv'
  BY <1>3, GetStep
<1>4. ASSUME NEW n \in Name, NEW v \in Value, Start(n, v) PROVE IInv'
  <2>1. CASE Rewrite(n, v)
    <3>1. /\ pc = "idle" /\ Hold(n, v) /\ Sync(n, v) /\ behind' = behind \ {n}
          /\ value[n] # NoValue /\ order' = order /\ UNCHANGED <<hash, call>>
      BY <2>1 DEF Rewrite
    <3>2. QED BY <3>1, SyncStep
  <2>2. CASE WriteSlot(n, v)
    BY <2>2, WriteSlotStep
  <2>3. CASE Insert(n, v) /\ Sync(n, v)
    <3>1. /\ pc = "idle" /\ Hold(n, v) /\ Sync(n, v) /\ behind' = behind
          /\ value[n] = NoValue /\ order' = <<n>> \o order /\ UNCHANGED <<hash, call>>
      BY <2>3 DEF Insert
    <3>2. QED BY <3>1, SyncStep
  <2>4. CASE Insert(n, v) /\ Promote
    BY <2>4, PromoteStep
  <2>5. QED
    BY <1>4, <2>1, <2>2, <2>3, <2>4 DEF Start, Define, DefineConst
<1>5. QED
  BY <1>1, <1>2, <1>3, <1>4 DEF Next

THEOREM Invariant == Spec => []IInv
<1>1. Init => IInv
  BY InitInv, IndexAssumption
<1>2. IInv /\ [Next]_vars => IInv'
  BY StepInv, IndexAssumption
<1>3. QED
  BY <1>1, <1>2, PTL DEF Spec

\* Every variable of the list, the table and the running call has its type.
THEOREM TypeCorrect == Spec => []TypeOK
<1>1. IInv => TypeOK
  BY DEF IInv
<1>2. QED
  BY <1>1, Invariant, PTL

\* envmap_get never misses a name of the list, whatever the names hash to and however
\* the table was filled.
THEOREM MissesAreRight == Spec => []MissIsRight
<1>1. IInv => MissIsRight
  BY DEF IInv, Nodes, Listed, MissIsRight
<1>2. QED
  BY <1>1, Invariant, PTL

\* envmap_set always has a free slot to come to.
THEOREM AlwaysRoom == Spec => []RoomToPlace
<1>1. IInv => RoomToPlace
  BY Free DEF IInv, Control, RoomToPlace, Slots
<1>2. QED
  BY <1>1, Invariant, PTL

\* Between calls the table holds every name of the list once, and no other.
THEOREM EachNameOnce == Spec => []OneEntryPerName
<1>1. IInv => OneEntryPerName
  <2>1. SUFFICES ASSUME IInv, pc = "idle", cap > 0, NEW n \in Name
                 PROVE  Cardinality({s \in Occupied : table[s].key = n})
                            = IF value[n] = NoValue THEN 0 ELSE 1
    BY DEF OneEntryPerName
  <2>2. InTable(n) <=> Listed(n)
    BY <2>1, NotListed DEF IInv, Control, Covered, InTable
  <2>3. CASE Listed(n)
    <3>1. PICK s \in Slots : Taken(table[s]) /\ table[s].key = n
      BY <2>2, <2>3 DEF InTable
    <3>2. {t \in Occupied : table[t].key = n} = {s}
      BY <3>1, <2>1 DEF IInv, Unique, Occupied, Slots
    <3>3. QED
      BY <3>2, <2>3, FS_Singleton DEF Listed
  <2>4. CASE ~ Listed(n)
    <3>1. {t \in Occupied : table[t].key = n} = {}
      BY <2>2, <2>4 DEF InTable, Occupied, Slots
    <3>2. QED
      BY <3>1, <2>4, FS_EmptySet DEF Listed
  <2>5. QED BY <2>3, <2>4
<1>2. QED
  BY <1>1, Invariant, PTL

\* What a lookup answers from the index is what the list holds, unless a loop wrote it.
LEMMA HitIsRight ==
    ASSUME IndexAssumption, IInv, Hit
    PROVE  /\ key \in Name /\ answer' = [name |-> key, value |-> There.value]
           /\ There.value \in Value \cup {NoValue}
           /\ There.value = value[key] \/ key \in behind
<1>1. /\ pc = "look" /\ There.dist >= probe /\ There.key = key
      /\ answer' = [name |-> key, value |-> There.value]
  BY DEF Hit, Return
<1>2. /\ key \in Name /\ probe \in Nat /\ work = <<>> /\ There \in Entry /\ There.dist \in Int
      /\ At(key, probe) \in Slots /\ There = table[At(key, probe)]
  BY <1>1, LookType
<1>3. Taken(There) /\ Right(key, There.value)
  BY <1>1, <1>2 DEF Taken, IInv, Current
<1>4. QED
  BY <1>1, <1>2, <1>3 DEF Right, Last, Entry

\* The list and its index keep the promise of a store.
THEOREM KeepsStore == Spec => StoreIsKept
<1>1. Init => Scope!Init
  BY DEF Init, Scope!Init, NoAnswer, Scope!NoAnswer
<1>2. ASSUME IndexAssumption, IInv, [Next]_vars PROVE [Scope!Next]_(Scope!vars)
  <2>1. CASE UNCHANGED <<value, behind, answer>>
    BY <2>1 DEF Scope!vars
  <2>2. CASE Hit
    BY <2>2, <1>2, HitIsRight DEF Hit, list, Scope!Next, Scope!Answer
  <2>3. CASE Scan
    <3>1. /\ key \in Name /\ answer' = [name |-> key, value |-> value[key]]
          /\ UNCHANGED <<value, behind>> /\ value[key] \in Value \cup {NoValue}
      BY <2>3, <1>2 DEF Scan, Return, list, IInv, TypeOK, Control
    <3>2. QED
      BY <3>1 DEF Scope!Next, Scope!Answer
  <2>4. ASSUME NEW n \in Name, NEW v \in Value, Start(n, v) PROVE Scope!Next
    <3>1. /\ value' = [value EXCEPT ![n] = v] /\ answer' = NoAnswer
          /\ behind' \in {behind, behind \cup {n}, behind \ {n}}
      BY <2>4 DEF Start, Rewrite, WriteSlot, Define, DefineConst, Insert, Hold
    <3>2. Scope!Write(n, v) \/ Scope!LoopWrite(n, v)
      BY <3>1 DEF Scope!Write, Scope!LoopWrite, Scope!Hold, NoAnswer, Scope!NoAnswer
    <3>3. QED
      BY <3>2 DEF Scope!Next
  <2>5. QED
    BY <1>2, <2>1, <2>2, <2>3, <2>4
       DEF Next, Step, vars, list, Skip, Grow, Begin, Place, Replace, Displace, Advance, Miss,
           LookOn, Get
<1>3. QED
  BY <1>1, <1>2, Invariant, IndexAssumption, PTL DEF Spec, StoreIsKept, Scope!Spec

-----------------------------------------------------------------------------
(* What the loops leave stale, and nothing else                            *)

\* A new answer is current, unless it is about the variable of a loop.
AnswerOK ==
    answer' \notin {answer, NoAnswer} =>
        answer'.value = value[answer'.name] \/ answer'.name \in LoopName

\* Only the variables of for loops over arrays and strings are ever behind.
THEOREM OnlyLoopsAreBehind == Spec => [](behind \subseteq LoopName)
<1>1. Init => behind \subseteq LoopName
  BY DEF Init
<1>2. behind \subseteq LoopName /\ [Next]_vars => (behind \subseteq LoopName)'
  BY DEF Next, Step, Start, Rewrite, WriteSlot, Define, DefineConst, Insert, vars, list, Skip, Grow,
         Begin, Place, Replace, Displace, Advance, Get, Miss, Hit, LookOn, Scan
<1>3. QED
  BY <1>1, <1>2, PTL DEF Spec

LEMMA AnswersStep ==
    ASSUME IndexAssumption, IInv, behind \subseteq LoopName, [Next]_vars
    PROVE  AnswerOK
<1>1. CASE Hit
  <2>1. /\ key \in Name /\ answer' = [name |-> key, value |-> There.value]
        /\ There.value = value[key] \/ key \in behind
    BY <1>1, HitIsRight
  <2>2. QED BY <2>1 DEF AnswerOK
<1>2. CASE Scan
  <2>1. answer' = [name |-> key, value |-> value[key]]
    BY <1>2 DEF Scan, Return
  <2>2. QED BY <2>1 DEF AnswerOK
<1>3. CASE answer' \in {answer, NoAnswer}
  BY <1>3 DEF AnswerOK
<1>4. ASSUME NEW n \in Name, NEW v \in Value, Start(n, v) PROVE answer' = NoAnswer
  BY <1>4 DEF Start, Rewrite, WriteSlot, Define, DefineConst, Insert, Hold
<1>5. Hit \/ Scan \/ answer' \in {answer, NoAnswer}
  BY <1>4 DEF Next, Step, vars, Skip, Grow, Begin, Place, Replace, Displace, Advance, Miss, LookOn, Get
<1>6. QED
  BY <1>1, <1>2, <1>3, <1>5

\* A lookup answers what was written last, whichever of the table and the list it asked,
\* of every name that is no variable of a for loop over an array or a string.
THEOREM OtherAnswersAreCurrent == Spec => [][AnswerOK]_vars
<1>1. IndexAssumption /\ IInv /\ behind \subseteq LoopName /\ [Next]_vars => [AnswerOK]_vars
  BY AnswersStep
<1>2. QED
  BY <1>1, Invariant, OnlyLoopsAreBehind, IndexAssumption, PTL DEF Spec

\* Without such loops every answer is current: they are all there is to mend
\* (src/src/interpreter.c:4974, src/src/interpreter.c:5003).
THEOREM CurrentWithoutLoops == ASSUME LoopName = {} PROVE Spec => AnswersAreCurrent
<1>1. IndexAssumption /\ IInv /\ behind \subseteq LoopName /\ [Next]_vars =>
          [answer' \notin {answer, NoAnswer} => answer'.value = value[answer'.name]]_vars
  BY AnswersStep DEF AnswerOK
<1>2. QED
  BY <1>1, Invariant, OnlyLoopsAreBehind, IndexAssumption, PTL DEF Spec, AnswersAreCurrent

-----------------------------------------------------------------------------
(* The probing loops of one call end: neither walk comes round             *)

\* How far the walk of envmap_set is from the home of the new name.
Far == IF slot >= Home(key) THEN slot - Home(key) ELSE slot - Home(key) + cap

\* Each turn of a loop is one slot farther, and less than the table away.
Onward ==
    /\ pc = "set" /\ pc' = "set" => cap' = cap /\ key' = key /\ Far' = Far + 1 /\ Far' < cap
    /\ pc = "look" /\ pc' = "look" => probe' = probe + 1 /\ probe' < cap

LEMMA FarIs ==
    ASSUME cap \in Nat, hash \in [Name -> Nat], key \in Name, NEW w \in Slots
    PROVE  slot = At(key, w) => Far = w
<1>1. cap > 0
  BY DEF Slots
<1>2. Home(key) \in Slots
  BY <1>1 DEF Home, Slots
<1>3. QED
  BY <1>2 DEF Far, At, Plus, Slots

LEMMA SetGoesOn ==
    ASSUME IndexAssumption, IInv, Displace \/ Advance
    PROVE  cap' = cap /\ key' = key /\ Far' = Far + 1 /\ Far' < cap
<1>1. /\ pc = "set" /\ Taken(Here) /\ slot' = Plus(slot, 1)
      /\ UNCHANGED <<hash, cap, key>>
  BY DEF Displace, Advance, list, index, call
<1>2. cap \in Nat /\ hash \in [Name -> Nat] /\ key \in Name
  BY <1>1, SlotType
<1>3. PICK w \in Slots : slot = At(key, w) /\ w + 1 \in Slots /\ Plus(slot, 1) = At(key, w + 1)
  BY <1>1, Walked
<1>4. Far = w
  BY <1>2, <1>3, FarIs
<1>5. Home(key) \in Slots /\ Home(key)' = Home(key)
  BY <1>1, <1>2, <1>3 DEF Home, Slots
<1>6. Far' = w + 1
  BY <1>1, <1>2, <1>3, <1>5 DEF Far, At, Plus, Slots
<1>7. QED
  BY <1>1, <1>2, <1>3, <1>4, <1>6 DEF Slots

LEMMA LookGoesOn ==
    ASSUME IndexAssumption, IInv, LookOn
    PROVE  probe' = probe + 1 /\ probe' < cap
<1>1. pc = "look" /\ pc' = "look" /\ probe' = probe + 1 /\ cap' = cap
  BY DEF LookOn, index
<1>2. probe' \in Slots'
  BY <1>1, LookOnStep DEF IInv, Looking
<1>3. QED
  BY <1>1, <1>2, LookType DEF Slots

\* The loops of envmap_set and envmap_get, which have no bound but what is in the table,
\* turn less often than the table has slots (src/src/gc/env_hashmap.c:47).
THEOREM WalksDoNotComeRound == Spec => [][Onward]_vars
<1>1. ASSUME IndexAssumption, IInv, Next PROVE Onward
  <2>1. CASE Displace \/ Advance
    <3>1. pc = "set"
      BY <2>1 DEF Displace, Advance
    <3>2. QED BY <1>1, <2>1, <3>1, SetGoesOn, Zenon DEF Onward
  <2>2. CASE LookOn
    <3>1. pc = "look"
      BY <2>2 DEF LookOn
    <3>2. QED BY <1>1, <2>2, <3>1, LookGoesOn, Zenon DEF Onward
  <2>3. CASE Skip \/ Grow \/ Begin \/ Place \/ Replace \/ Miss \/ Hit \/ Scan
    <3>1. pc \in {"load", "scan"} \/ pc' \in {"idle", "load", "scan"}
      BY <2>3 DEF Skip, Grow, Begin, Place, Replace, Done, Miss, Hit, Scan, Return
    <3>2. QED BY <3>1 DEF Onward
  <2>4. ASSUME NEW n \in Name, Get(n) \/ \E v \in Value : Start(n, v) PROVE pc = "idle"
    BY <2>4 DEF Get, Start, Rewrite, WriteSlot, Define, DefineConst, Insert
  <2>5. CASE pc = "idle"
    BY <2>5 DEF Onward
  <2>6. QED
    BY <1>1, <2>1, <2>2, <2>3, <2>4, <2>5 DEF Next, Step
<1>2. IndexAssumption /\ IInv /\ [Next]_vars => [Onward]_vars
  BY <1>1
<1>3. QED
  BY <1>2, Invariant, IndexAssumption, PTL DEF Spec
=============================================================================
