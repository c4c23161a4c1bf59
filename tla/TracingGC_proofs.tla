--------------------------- MODULE TracingGC_proofs ---------------------------
(* Type correctness of the collector for every program, and safety of the    *)
(* collector for the programs SafeProgram describes: their threads allocate  *)
(* and collect while the others are at rest, and only read beside one that   *)
(* collects.                                                                 *)
EXTENDS TracingGC, TLAPS

USE HeapAssumption

Colors == {"free", "white", "gray", "black"}

\* What the walk up the scope chains in gc_mark_env reaches.
LEMMA ChainFacts ==
    ASSUME NEW c, NEW E
    PROVE  /\ \A e \in Chain(c, E) : e \in Env /\ c[e] = "white"
           /\ \A e \in E \cap Env : c[e] = "white" => e \in Chain(c, E)
           /\ \A e \in Chain(c, E) :
                 up[e] \in Env /\ c[up[e]] = "white" => up[e] \in Chain(c, E)
BY DEF Chain

\* What gc_mark_env and gc_mark_value do to the colors: only white nodes change,
\* objects turn gray, scopes black, what R names is marked, and with a scope its
\* values and its parent are.
LEMMA MarkFromFacts ==
    ASSUME NEW c \in [Node -> Colors], NEW R, NEW d, d = MarkFrom(c, R),
           slots \in [Node -> [Slot -> Obj \cup {Null}]],
           up \in [Node -> Env \cup {Null}]
    PROVE  /\ d \in [Node -> Colors]
           /\ \A n \in Node : c[n] # "white" => d[n] = c[n]
           /\ \A o \in Obj : d[o] = c[o] \/ (c[o] = "white" /\ d[o] = "gray")
           /\ \A e \in Env : d[e] = c[e] \/ (c[e] = "white" /\ d[e] = "black")
           /\ \A n \in R \cap Node : d[n] # "white"
           /\ \A e \in Env : d[e] # c[e] => \A n \in Children(e) : d[n] # "white"
<1> DEFINE M == Chain(c, R)
           b == [n \in Node |-> IF n \in M THEN "black" ELSE c[n]]
           S == R \cup UNION {Values(e) : e \in M}
<1>0. Obj \cap Env = {} /\ Obj \subseteq Node /\ Env \subseteq Node /\ Node = Obj \cup Env
  BY DEF Node
<1>1. M \subseteq Env /\ (\A e \in M : c[e] = "white")
  BY ChainFacts
<1>2. \A e \in R \cap Env : c[e] = "white" => e \in M
  BY ChainFacts
<1>3. \A e \in M : up[e] \in Env /\ c[up[e]] = "white" => up[e] \in M
  BY ChainFacts
<1>4. d = [n \in Node |-> IF n \in S \cap Obj /\ b[n] = "white" THEN "gray" ELSE b[n]]
  BY DEF MarkFrom, Shade
<1> HIDE DEF M
<1>5. \A n \in Obj : d[n] = IF n \in S /\ c[n] = "white" THEN "gray" ELSE c[n]
  BY <1>0, <1>1, <1>4
<1>6. \A e \in Env : d[e] = IF e \in M THEN "black" ELSE c[e]
  BY <1>0, <1>1, <1>4
<1>7. d \in [Node -> Colors]
  BY <1>4 DEF Colors
<1>8. ASSUME NEW e \in Env, d[e] # c[e], NEW n \in Children(e) PROVE d[n] # "white"
  <2>1. e \in M
    BY <1>6, <1>8
  <2>2. CASE n \in Values(e)
    <3>1. n \in Obj /\ n \in S
      BY <2>1, <2>2, <1>0 DEF Values
    <3>2. QED BY <3>1, <1>5
  <2>3. CASE n = up[e] /\ up[e] # Null
    <3>1. n \in Env
      BY <2>3, <1>0
    <3>2. QED BY <3>1, <2>3, <2>1, <1>3, <1>6
  <2>4. QED BY <1>8, <2>2, <2>3 DEF Children
<1>9. \A n \in R \cap Node : d[n] # "white"
  BY <1>0, <1>2, <1>5, <1>6
<1>10. QED BY <1>0, <1>1, <1>5, <1>6, <1>7, <1>8, <1>9

\* MarkFrom and RootScan give a coloring of the shape TypeOK asks for.
LEMMA MarkFromType ==
    ASSUME TypeOK, NEW c \in [Node -> Colors], \A e \in Env : c[e] # "gray", NEW R
    PROVE  /\ MarkFrom(c, R) \in [Node -> Colors]
           /\ \A e \in Env : MarkFrom(c, R)[e] # "gray"
BY MarkFromFacts DEF TypeOK

LEMMA RootScanType ==
    ASSUME TypeOK
    PROVE  /\ RootScan(color) \in [Node -> Colors]
           /\ \A e \in Env : RootScan(color)[e] # "gray"
<1> DEFINE c == [n \in Node |-> IF n \in Obj /\ color[n] # "free" THEN "white" ELSE color[n]]
<1>1. c \in [Node -> Colors] /\ \A e \in Env : c[e] # "gray"
  BY DEF TypeOK, Colors, Node
<1>2. RootScan(color) = MarkFrom(c, Roots)
  BY DEF RootScan
<1> HIDE DEF c
<1>3. QED BY <1>1, <1>2, MarkFromType

LEMMA ShadeChildrenType ==
    ASSUME TypeOK, NEW c \in [Node -> Colors], \A e \in Env : c[e] # "gray", NEW o \in Obj
    PROVE  /\ ShadeChildren(c, o) \in [Node -> Colors]
           /\ \A e \in Env : ShadeChildren(c, o)[e] # "gray"
<1> DEFINE b == [c EXCEPT ![o] = "black"]
<1>1. b \in [Node -> Colors] /\ \A e \in Env : b[e] # "gray"
  BY DEF Colors, Node
<1>2. ShadeChildren(c, o) = MarkFrom(b, Values(o) \cup {up[o]})
  BY DEF ShadeChildren
<1> HIDE DEF b
<1>3. QED BY <1>1, <1>2, MarkFromType

LEMMA StartCycleType ==
    ASSUME TypeOK, NEW t \in running, StartCycle(t)
    PROVE  TypeOK'
BY DEF TypeOK, StartCycle, Phases, Entries, heap, threads

\* A step of the collecting thread.
LEMMA CollectorType ==
    ASSUME TypeOK, NEW t \in Thread, CollectorStep(t)
    PROVE  TypeOK'
<1>0. t # Null
  OBVIOUS
<1>1. CASE EnableBarrier(t)
  BY <1>0, <1>1 DEF TypeOK, EnableBarrier, Phases, heap, threads
<1>2. ASSUME NEW o \in Obj, MarkStep(t, o) PROVE TypeOK'
  BY <1>0, <1>2, ShadeChildrenType DEF TypeOK, MarkStep, cycle, Colors, threads
<1>3. CASE Remark(t)
  BY <1>0, <1>3 DEF TypeOK, Remark, Phases, Entries, heap, threads
<1>4. CASE RemarkDone(t)
  BY <1>0, <1>4 DEF TypeOK, RemarkDone, Phases, heap, threads
<1>5. ASSUME NEW o \in Obj, SweepStep(t, o) PROVE TypeOK'
  BY <1>0, <1>5 DEF TypeOK, SweepStep, Sweep, Node, threads
<1>6. CASE FinishCycle(t)
  BY <1>0, <1>6 DEF TypeOK, FinishCycle, SweptEnvs, Phases, Node, threads
<1>7. ASSUME NEW o \in Obj, Whiten(t, o) PROVE TypeOK'
  BY <1>0, <1>7 DEF TypeOK, Whiten, Node, threads
<1>8. ASSUME NEW R, color' = MarkFrom(color, R), walk' \subseteq Entries, Walks(t),
             UNCHANGED <<slots, up, phase, barrier, cursor, collector, enabled, pinning, threads, temps, held>>
      PROVE TypeOK'
  <2>1. color' \in [Node -> Colors] /\ \A e \in Env : color'[e] # "gray"
    BY <1>8, MarkFromType DEF TypeOK, Colors
  <2>2. phase' \in {"ROOT_SCAN", "REMARK"}
    BY <1>8 DEF Walks
  <2>3. QED BY <1>0, <1>8, <2>1, <2>2 DEF TypeOK, Colors, threads
<1>9. CASE ScanGlobal(t)
  <2>1. walk' \subseteq Entries
    BY <1>9 DEF ScanGlobal, Entries, TypeOK
  <2>2. QED BY <1>8, <1>9, <2>1 DEF ScanGlobal
<1>10. ASSUME NEW u \in Thread, ScanThread(t, u) PROVE TypeOK'
  <2>1. walk' \subseteq Entries
    BY <1>10 DEF ScanThread, Entries, TypeOK
  <2>2. phase' \in {"ROOT_SCAN", "REMARK"}
    BY <1>10 DEF ScanThread, Walks
  <2>3. QED BY <1>0, <1>10, <2>1, <2>2 DEF ScanThread, TypeOK, heap, threads
<1>11. ASSUME NEW u \in Thread, NEW n \in Node, ScanRoot(t, u, n) PROVE TypeOK'
  <2>1. walk' \subseteq Entries
    BY <1>11 DEF ScanRoot, TypeOK
  <2>2. QED BY <1>8, <1>11, <2>1 DEF ScanRoot
<1>12. QED BY <1>1, <1>2, <1>3, <1>4, <1>5, <1>6, <1>7, <1>9, <1>10, <1>11 DEF CollectorStep

LEMMA GcStepType ==
    ASSUME TypeOK, NEW t \in Thread, GcStep(t)
    PROVE  TypeOK'
<1>1. running = {t} /\ collector # t
  BY DEF GcStep, MayDo
<1>2. collector = Null /\ phase \in {"IDLE", "CONCURRENT_MARK"} /\ cursor = {} /\ walk = {}
  BY <1>1 DEF TypeOK
<1>3. color' \in [Node -> Colors] /\ (\A e \in Env : color'[e] # "gray")
  <2>1. ASSUME NEW o \in Obj, color' = ShadeChildren(color, o) PROVE <1>3
    BY <2>1, ShadeChildrenType DEF TypeOK, Colors
  <2>2. ASSUME NEW o \in Obj, color' = ShadeChildren(RootScan(color), o) PROVE <1>3
    BY <2>2, ShadeChildrenType, RootScanType
  <2>3. CASE color' = RootScan(color)
    BY <2>3, RootScanType
  <2>4. QED BY <2>1, <2>2, <2>3 DEF GcStep, Gray
<1>4. phase' \in Phases /\ barrier' \in BOOLEAN /\ phase' \in {"IDLE", "CONCURRENT_MARK"}
  BY <1>2 DEF GcStep, TypeOK, Phases
<1>5. UNCHANGED <<slots, up, cursor, walk, collector, enabled, pinning, running, starting, temps, held>>
  BY DEF GcStep, threads
<1>6. QED BY <1>2, <1>3, <1>4, <1>5 DEF TypeOK, Colors

LEMMA BarrierType ==
    ASSUME TypeOK, NEW old
    PROVE  /\ Barrier(old) \in [Node -> Colors]
           /\ \A e \in Env : Barrier(old)[e] # "gray"
BY DEF TypeOK, Barrier, Shade, Colors, Node

LEMMA PutType ==
    ASSUME TypeOK, NEW t \in Thread, NEW n \in Node, NEW s \in Slot, NEW v \in Obj \cup {Null},
           Put(t, n, s, v),
           color' \in [Node -> Colors], \A e \in Env : color'[e] # "gray"
    PROVE  TypeOK'
BY DEF TypeOK, Put, cycle, Colors, threads

\* A thread begins: its arguments are objects.
LEMMA BeginType ==
    ASSUME TypeOK, NEW u \in Thread, NEW e \in Env, NEW b, Begin(u, e, b)
    PROVE  TypeOK'
<1>1. b \in [Slot -> Obj \cup {Null}]
  BY DEF Begin, TypeOK
<1>2. QED BY <1>1 DEF TypeOK, Begin, cycle, Node

\* A step of the program.
LEMMA MutatorType ==
    ASSUME TypeOK, NEW t \in Thread, Mutator(t)
    PROVE  TypeOK'
<1>1. ASSUME NEW o \in Obj, NEW e \in Env \cup {Null}, Alloc(t, o, e) PROVE TypeOK'
  BY <1>1 DEF TypeOK, MayDo, Alloc, NoSlots, cycle, Node, threads
<1>2. ASSUME NEW n \in Node, PushTemp(t, n) PROVE TypeOK'
  BY <1>2 DEF TypeOK, GoesOn, PushTemp, heap, cycle, threads
<1>3. ASSUME NEW n \in Node, PopTemp(t, n) PROVE TypeOK'
  BY <1>3 DEF TypeOK, PopTemp, heap, cycle, threads
<1>4. ASSUME NEW o \in Obj, Discard(t, o) PROVE TypeOK'
  BY <1>4 DEF TypeOK, GoesOn, Discard, heap, cycle, threads
<1>5. ASSUME NEW e \in Env, NEW p \in Env, Call(t, e, p) PROVE TypeOK'
  BY <1>5 DEF TypeOK, MayDo, Call, NoSlots, cycle, Node, threads
<1>6. ASSUME NEW n \in Node, NEW s \in Slot, Load(t, n, s) PROVE TypeOK'
  <2>1. slots[n][s] \in Node
    BY <1>6 DEF TypeOK, Load, Node
  <2>2. QED BY <1>6, <2>1 DEF TypeOK, Load, heap, cycle, threads
<1>7. ASSUME NEW e \in Env, NEW s \in Slot, NEW v \in Obj \cup {Null},
             EnvDefine(t, e, s, v) \/ EnvAssign(t, e, s, v) PROVE TypeOK'
  BY <1>7, BarrierType, PutType DEF EnvDefine, EnvAssign, Node
<1>8. ASSUME NEW o \in Obj, NEW s \in Slot, NEW v \in Obj, ArrayPush(t, o, s, v) PROVE TypeOK'
  BY <1>8, PutType DEF ArrayPush, Node, TypeOK, Colors
<1>9. ASSUME NEW o \in Obj, NEW s \in Slot, NEW v \in Obj \cup {Null}, ArraySet(t, o, s, v)
      PROVE TypeOK'
  BY <1>9, BarrierType, PutType DEF ArraySet, Node
<1>10. ASSUME NEW o \in Obj, NEW s \in Slot, ArrayPop(t, o, s) PROVE TypeOK'
  <2>1. slots[o][s] \in Obj
    BY <1>10 DEF TypeOK, ArrayPop, Node
  <2>2. QED BY <1>10, <2>1 DEF TypeOK, MayDo, ArrayPop, cycle, Node, threads
<1>11. CASE Pin(t) \/ Unpin(t)
  BY <1>11 DEF TypeOK, Pin, Unpin, MayDo, heap, cycle, threads
<1>12. ASSUME NEW b \in BOOLEAN, SetEnabled(t, b) PROVE TypeOK'
  BY <1>12 DEF TypeOK, SetEnabled, heap, cycle, threads
<1>13. ASSUME NEW u \in Thread, NEW v \in Obj \cup {Null}, Spawn(t, u, v) PROVE TypeOK'
  BY <1>13 DEF TypeOK, Spawn, heap, cycle, Node
<1>14. ASSUME NEW e \in Env, NEW b \in [Slot -> held[t] \cup {Null}], Begin(t, e, b) PROVE TypeOK'
  BY <1>14, BeginType
<1>15. QED
  BY <1>1, <1>2, <1>3, <1>4, <1>5, <1>6, <1>7, <1>8, <1>9, <1>10, <1>11, <1>12, <1>13, <1>14
     DEF Mutator

LEMMA InitType ==
    ASSUME Init
    PROVE  TypeOK
<1>1. slots \in [Node -> [Slot -> Obj \cup {Null}]] /\ up \in [Node -> Env \cup {Null}]
  BY DEF Init, NoSlots
<1>2. color \in [Node -> {"free", "white", "gray", "black"}] /\ \A e \in Env : color[e] # "gray"
  BY DEF Init, Node
<1>3. temps \in [Thread -> SUBSET Node] /\ held \in [Thread -> SUBSET Node]
  BY DEF Init
<1>4. QED BY <1>1, <1>2, <1>3 DEF Init, TypeOK, Phases

\* Every program, with any number of threads and whatever it asks the collector for,
\* keeps the collector's state well formed: no scope on the mark stack, a cursor only
\* while gc_collect sweeps, no phase beyond marking outside gc_collect.
THEOREM TypeCorrect == Spec => []TypeOK
<1>1. Init => TypeOK
  BY InitType
<1>2. TypeOK /\ [Next]_vars => TypeOK'
  <2> SUFFICES ASSUME TypeOK, [Next]_vars PROVE TypeOK'
    OBVIOUS
  <2>1. ASSUME NEW t \in Thread, Collect(t) \/ AutoCollect(t) PROVE TypeOK'
    <3>1. t \in running /\ StartCycle(t)
      BY <2>1 DEF Collect, AutoCollect, MayDo
    <3>2. QED BY <3>1, StartCycleType
  <2>2. CASE UNCHANGED vars
    BY <2>2 DEF TypeOK, vars
  <2>3. QED
    BY <2>1, <2>2, MutatorType, CollectorType, GcStepType DEF Next
<1>3. QED BY <1>1, <1>2, PTL DEF Spec

-----------------------------------------------------------------------------
(* Safety.  Reachable(LiveRoots) is what the program can get at; every step   *)
(* of a safe program only ever moves such nodes around.                       *)

\* The invariant but for what threads and pins are up to.
GraphInv == TypeOK /\ WalkInv /\ ColorInv /\ HeapInv /\ MarkInv

LEMMA GraphOf == IInv => GraphInv
  BY DEF IInv, GraphInv

LEMMA ReachableIn ==
    ASSUME NEW R, NEW S \in SUBSET Node, R \subseteq S, Closed(S)
    PROVE  Reachable(R) \subseteq S
BY DEF Reachable

LEMMA AccessibleIsReachable ==
    ASSUME TypeOK, NEW t \in running
    PROVE  /\ Accessible(t) \subseteq Reachable(LiveRoots)
           /\ LiveRoots \subseteq Reachable(LiveRoots)
           /\ \A n \in Reachable(LiveRoots) : Children(n) \subseteq Reachable(LiveRoots)
<1>1. LiveRoots \subseteq Node
  BY DEF TypeOK, LiveRoots, Roots, Node
<1>2. LiveRoots \subseteq Reachable(LiveRoots)
  BY <1>1 DEF Reachable
<1>3. \A n \in Reachable(LiveRoots) : Children(n) \subseteq Reachable(LiveRoots)
  <2> SUFFICES ASSUME NEW n \in Reachable(LiveRoots), NEW m \in Children(n)
               PROVE  m \in Reachable(LiveRoots)
    OBVIOUS
  <2>1. m \in Node
    BY DEF Reachable, Children, Values, TypeOK, Node
  <2>2. QED BY <2>1 DEF Reachable, Closed
<1>4. temps[t] \subseteq LiveRoots /\ held[t] \subseteq LiveRoots /\ Global \in LiveRoots
  BY DEF LiveRoots, Roots
<1>5. \A e \in temps[t] \cap Env : {up[e]} \ {Null} \subseteq Children(e)
  BY DEF Children
<1>6. Accessible(t) \subseteq Reachable(LiveRoots)
  BY <1>2, <1>3, <1>4, <1>5 DEF Accessible, Locals
<1>7. QED BY <1>2, <1>3, <1>6

\* Steps that leave the heap and the cycle alone, root only reachable nodes and take no root
\* from the walk that has not come to it.
LEMMA RootsMove ==
    ASSUME GraphInv, UNCHANGED <<color, slots, up, phase, cursor>>,
           phase = "ROOT_SCAN" => Ahead \subseteq Ahead', LiveRoots' \subseteq Reachable(LiveRoots)
    PROVE  ColorInv' /\ HeapInv' /\ MarkInv'
<1>1. Kept' = Kept /\ Closed(Kept)'
  BY DEF GraphInv, HeapInv, Kept, Closed, Children, Values
<1>2. Kept \in SUBSET Node
  BY DEF Kept
<1>3. LiveRoots' \subseteq Kept'
  BY <1>1, <1>2, ReachableIn DEF GraphInv, HeapInv
<1>4. ASSUME Marking', NEW X \in SUBSET Node, Markable(X)', Ahead' \subseteq X
      PROVE  LiveRoots' \subseteq X /\ Closed(X)'
  <2>0. Ahead \subseteq X
    BY <1>4 DEF Ahead
  <2>1. Marking /\ Markable(X) /\ Ahead \subseteq X
    BY <1>4, <2>0 DEF Marking, Markable, NonWhite, Children, Values
  <2>2. LiveRoots \subseteq X /\ Closed(X)
    BY <2>1 DEF GraphInv, MarkInv
  <2>3. Closed(X)'
    BY <2>2 DEF Closed, Children, Values
  <2>4. QED BY <2>2, <2>3, ReachableIn
<1>5. QED BY <1>1, <1>3, <1>4 DEF GraphInv, ColorInv, HeapInv, MarkInv

\* A slot of a node takes a reachable value; while a mark is under way the slot was empty.
LEMMA SlotFilled ==
    ASSUME GraphInv, NEW n \in Node, NEW s \in Slot, NEW v,
           v = Null \/ v \in Reachable(LiveRoots),
           phase = "IDLE" \/ slots[n][s] = Null, phase # "ROOT_SCAN",
           slots' = [slots EXCEPT ![n][s] = v],
           UNCHANGED <<color, up, phase, cursor, running, temps, held>>
    PROVE  ColorInv' /\ HeapInv' /\ MarkInv'
<1>1. \A m \in Node : Children(m)' \subseteq Children(m) \cup ({v} \ {Null})
  BY DEF Children, Values, GraphInv, TypeOK
<1>2. slots[n][s] = Null => \A m \in Node : Children(m) \subseteq Children(m)'
  BY DEF Children, Values, GraphInv, TypeOK
<1>3. Kept' = Kept /\ Kept \in SUBSET Node /\ LiveRoots' = LiveRoots
  BY DEF Kept, LiveRoots, Roots
<1>4. ASSUME NEW S \in SUBSET Node, LiveRoots \subseteq S, Closed(S) PROVE Closed(S)'
  <2>1. v = Null \/ v \in S
    BY <1>4, ReachableIn
  <2>2. QED BY <2>1, <1>1, <1>4 DEF Closed
<1>5. HeapInv'
  BY <1>3, <1>4 DEF GraphInv, HeapInv
<1>6. ASSUME Marking', NEW X \in SUBSET Node, Markable(X)' PROVE LiveRoots' \subseteq X /\ Closed(X)'
  <2>1. Marking /\ slots[n][s] = Null /\ Ahead = {}
    BY <1>6 DEF Marking, Ahead
  <2>2. Markable(X)
    BY <2>1, <1>2, <1>6 DEF Markable, NonWhite
  <2>3. LiveRoots \subseteq X /\ Closed(X)
    BY <2>1, <2>2 DEF GraphInv, MarkInv
  <2>4. QED BY <2>3, <1>3, <1>4
<1>7. QED BY <1>5, <1>6 DEF GraphInv, ColorInv, MarkInv

\* In a safe program only loads, pausing and resuming happen beside a cycle.
LEMMA WorksIdle ==
    ASSUME SafeProgram, IInv, NEW t \in Thread,
           (\E op \in Operations \ {"load", "toggle"} : MayDo(t, op)) \/ GoesOn(t)
    PROVE  t \in running /\ t \notin starting
           /\ collector = Null /\ phase = "IDLE" /\ barrier = FALSE
<1>1. t \in running /\ t \notin starting /\ collector = Null
  BY DEF MayDo, GoesOn, SafeProgram
<1>2. QED BY <1>1 DEF IInv, ThreadInv

\* While no cycle is under way the invariant is about the heap and the threads.
LEMMA IdleInv ==
    ASSUME IInv, TypeOK', HeapInv', UNCHANGED <<phase, barrier, collector>>, phase = "IDLE",
           \A n \in Node : color'[n] \in {"free", "white"},
           running \subseteq running',
           \A u \in Thread \ running' : temps'[u] = temps[u] /\ held'[u] = held[u]
    PROVE  IInv'
BY DEF IInv, ThreadInv, WalkInv, ColorInv, MarkInv, Marking

\* A new node whose children are kept and that one thread holds.
LEMMA NewNode ==
    ASSUME IInv, NEW t \in running, NEW n \in Node, color[n] = "free", phase = "IDLE",
           color' = [color EXCEPT ![n] = "white"], UNCHANGED <<phase, running, temps>>,
           Children(n)' \subseteq Kept,
           \A m \in Node : m # n => Children(m)' = Children(m),
           \A u \in Thread : held'[u] \subseteq held[u] \cup {n}
    PROVE  HeapInv' /\ \A m \in Node : color'[m] \in {"free", "white"}
<1>1. Kept' = Kept \cup {n} /\ n \notin Kept
  BY DEF Kept, IInv, TypeOK
<1>2. LiveRoots' \subseteq LiveRoots \cup {n}
  BY DEF LiveRoots, Roots, IInv, TypeOK
<1>3. \A m \in Kept : Children(m)' = Children(m)
  BY <1>1 DEF Kept
<1>4. HeapInv'
  BY <1>1, <1>2, <1>3 DEF IInv, HeapInv, Closed
<1>5. \A m \in Node : color'[m] \in {"free", "white"}
  BY DEF IInv, ColorInv, TypeOK
<1>6. QED BY <1>4, <1>5

LEMMA AllocSafe ==
    ASSUME SafeProgram, IInv, NEW t \in Thread, NEW o \in Obj, NEW e \in Env \cup {Null},
           Alloc(t, o, e)
    PROVE  IInv'
<1>1. t \in running /\ phase = "IDLE" /\ UNCHANGED <<phase, barrier, collector, running, temps>>
  BY WorksIdle DEF Alloc, Operations, cycle, threads
<1>2. TypeOK' /\ o \in Node
  BY MutatorType DEF Mutator, IInv, Node
<1>3. e = Null \/ e \in Kept
  BY <1>1 DEF Alloc, IInv, HeapInv, LiveRoots, Roots
<1>4. Children(o)' \subseteq Kept
  BY <1>3 DEF Alloc, Children, Values, NoSlots, IInv, TypeOK, Node
<1>5. \A m \in Node : m # o => Children(m)' = Children(m)
  BY DEF Alloc, Children, Values, IInv, TypeOK
<1>6. color[o] = "free" /\ color' = [color EXCEPT ![o] = "white"]
      /\ held' = [held EXCEPT ![t] = @ \cup {o}]
  BY <1>1 DEF Alloc
<1>7. \A u \in Thread : held'[u] \subseteq held[u] \cup {o}
  BY <1>6 DEF IInv, TypeOK
<1>8. HeapInv' /\ \A m \in Node : color'[m] \in {"free", "white"}
  BY <1>1, <1>2, <1>4, <1>5, <1>6, <1>7, NewNode
<1>9. \A u \in Thread \ running' : temps'[u] = temps[u] /\ held'[u] = held[u]
  BY <1>1, <1>6 DEF IInv, TypeOK
<1>10. QED BY <1>1, <1>2, <1>8, <1>9, IdleInv

LEMMA CallSafe ==
    ASSUME SafeProgram, IInv, NEW t \in Thread, NEW e \in Env, NEW p \in Env, Call(t, e, p)
    PROVE  IInv'
<1>1. t \in running /\ phase = "IDLE" /\ UNCHANGED <<phase, barrier, collector, running, temps>>
  BY WorksIdle DEF Call, Operations, cycle, threads
<1>2. TypeOK' /\ e \in Node
  BY MutatorType DEF Mutator, IInv, Node
<1>3. p \in Kept
  <2>1. temps[t] \subseteq Kept /\ Global \in Kept
    BY <1>1 DEF IInv, HeapInv, LiveRoots, Roots
  <2>2. \A o \in temps[t] \cap Obj : {up[o]} \ {Null} \subseteq Kept
    BY <2>1 DEF IInv, HeapInv, Closed, Children
  <2>3. QED BY <2>1, <2>2 DEF Call
<1>4. Children(e)' \subseteq Kept
  BY <1>3 DEF Call, Children, Values, NoSlots, IInv, TypeOK, Node
<1>5. \A m \in Node : m # e => Children(m)' = Children(m)
  BY DEF Call, Children, Values, IInv, TypeOK
<1>6. color[e] = "free" /\ color' = [color EXCEPT ![e] = "white"]
      /\ held' = [held EXCEPT ![t] = @ \cup {e}]
  BY DEF Call
<1>7. \A u \in Thread : held'[u] \subseteq held[u] \cup {e}
  BY <1>6 DEF IInv, TypeOK
<1>8. HeapInv' /\ \A m \in Node : color'[m] \in {"free", "white"}
  BY <1>1, <1>2, <1>4, <1>5, <1>6, <1>7, NewNode
<1>9. \A u \in Thread \ running' : temps'[u] = temps[u] /\ held'[u] = held[u]
  BY <1>1, <1>6 DEF IInv, TypeOK
<1>10. QED BY <1>1, <1>2, <1>8, <1>9, IdleInv

\* The scope of a new thread holds what the spawning thread passed.
LEMMA BeginSafe ==
    ASSUME SafeProgram, IInv, NEW u \in Thread, NEW e \in Env, NEW b, Begin(u, e, b)
    PROVE  IInv'
<1>1. u \in running /\ phase = "IDLE" /\ UNCHANGED <<phase, barrier, collector, running, temps>>
  BY DEF Begin, IInv, ThreadInv, TypeOK, cycle
<1>2. TypeOK' /\ e \in Node
  BY BeginType DEF IInv, Node
<1>3. Global \in Kept /\ held[u] \subseteq Kept
  BY <1>1 DEF IInv, HeapInv, LiveRoots, Roots
<1>4. Children(e)' \subseteq Kept
  BY <1>3 DEF Begin, Children, Values, IInv, TypeOK, Node
<1>5. \A m \in Node : m # e => Children(m)' = Children(m)
  BY DEF Begin, Children, Values, IInv, TypeOK
<1>6. color[e] = "free" /\ color' = [color EXCEPT ![e] = "white"]
      /\ held' = [held EXCEPT ![u] = {e}]
  BY DEF Begin
<1>7. \A w \in Thread : held'[w] \subseteq held[w] \cup {e}
  BY <1>6 DEF IInv, TypeOK
<1>8. HeapInv' /\ \A m \in Node : color'[m] \in {"free", "white"}
  BY <1>1, <1>2, <1>4, <1>5, <1>6, <1>7, NewNode
<1>9. \A w \in Thread \ running' : temps'[w] = temps[w] /\ held'[w] = held[w]
  BY <1>1, <1>6 DEF IInv, TypeOK
<1>10. QED BY <1>1, <1>2, <1>8, <1>9, IdleInv

LEMMA PopSafe ==
    ASSUME SafeProgram, IInv, NEW t \in Thread, NEW o \in Obj, NEW s \in Slot, ArrayPop(t, o, s)
    PROVE  IInv'
<1>1. t \in running /\ phase = "IDLE" /\ UNCHANGED <<color, phase, barrier, collector, running, temps>>
  BY WorksIdle DEF ArrayPop, Operations, cycle, threads
<1>2. TypeOK'
  BY MutatorType DEF Mutator, IInv
<1>3. Kept' = Kept /\ Kept \in SUBSET Node
  BY DEF ArrayPop, Kept, cycle
<1>4. \A n \in Node : Children(n)' \subseteq Children(n)
  BY DEF ArrayPop, Children, Values, IInv, TypeOK, Node
<1>5. LiveRoots' \subseteq LiveRoots \cup {slots[o][s]}
  BY <1>1 DEF ArrayPop, LiveRoots, Roots, IInv, TypeOK
<1>6. slots[o][s] \in Kept
  <2>1. o \in Kept
    BY <1>1, <1>3, AccessibleIsReachable, ReachableIn DEF ArrayPop, IInv, HeapInv
  <2>2. slots[o][s] \in Children(o)
    BY DEF ArrayPop, Children, Values
  <2>3. QED BY <2>1, <2>2 DEF IInv, HeapInv, Closed
<1>7. HeapInv'
  BY <1>3, <1>4, <1>5, <1>6 DEF IInv, HeapInv, Closed
<1>8. \A n \in Node : color'[n] \in {"free", "white"}
  BY <1>1 DEF IInv, ColorInv
<1>9. \A u \in Thread \ running' : temps'[u] = temps[u] /\ held'[u] = held[u]
  BY <1>1 DEF ArrayPop, IInv, TypeOK
<1>10. QED BY <1>1, <1>2, <1>7, <1>8, <1>9, IdleInv

LEMMA PutSafe ==
    ASSUME SafeProgram, IInv, NEW t \in Thread, NEW n \in Node, NEW s \in Slot,
           NEW v \in Obj \cup {Null}, Put(t, n, s, v), TypeOK',
           color' = color \/ color' = Barrier(slots[n][s])
    PROVE  IInv'
<1>1. t \in running /\ phase = "IDLE" /\ barrier = FALSE
      /\ UNCHANGED <<up, phase, barrier, cursor, collector, running, temps, held>>
  BY WorksIdle DEF Put, Operations, cycle, threads
<1>2. v = Null \/ v \in Reachable(LiveRoots)
  BY <1>1, AccessibleIsReachable DEF Put, Accessible, IInv
<1>3. color' = color
  BY <1>1 DEF Barrier
<1>4. HeapInv'
  BY <1>1, <1>2, <1>3, GraphOf, SlotFilled DEF Put
<1>5. QED BY <1>1, <1>3, <1>4, IdleInv DEF IInv, ColorInv

\* A load is what a thread may do at any step of another's collection: what it roots is
\* reachable from what the walk has come to or will come to.
LEMMA LoadSafe ==
    ASSUME SafeProgram, IInv, NEW t \in Thread, NEW n \in Node, NEW s \in Slot, Load(t, n, s)
    PROVE  IInv'
<1>1. /\ t \in running
      /\ UNCHANGED <<color, slots, up, phase, barrier, cursor, walk, collector, running, held>>
      /\ temps' = [temps EXCEPT ![t] = @ \cup {slots[n][s]}]
  BY DEF Load, MayDo, heap, cycle, threads
<1>2. slots[n][s] \in Reachable(LiveRoots)
  <2>1. n \in Reachable(LiveRoots)
    BY <1>1, AccessibleIsReachable DEF Load, IInv
  <2>2. slots[n][s] \in Children(n)
    BY DEF Load, Children, Values
  <2>3. QED BY <1>1, <2>1, <2>2, AccessibleIsReachable DEF IInv
<1>3. LiveRoots' \subseteq Reachable(LiveRoots)
  <2>1. LiveRoots' \subseteq LiveRoots \cup {slots[n][s]}
    BY <1>1 DEF LiveRoots, Roots, IInv, TypeOK
  <2>2. QED BY <1>1, <1>2, <2>1, AccessibleIsReachable DEF IInv
<1>4. \A u \in Thread : temps[u] \subseteq temps'[u] /\ (u # t => temps'[u] = temps[u])
  BY <1>1 DEF IInv, TypeOK
<1>5. phase = "ROOT_SCAN" => Ahead \subseteq Ahead'
  <2>1. running \subseteq Thread
    BY DEF IInv, TypeOK
  <2>2. Roots \subseteq Roots'
    BY <1>1, <1>4, <2>1 DEF Roots
  <2>3. QED BY <1>1, <1>4, <2>2 DEF Ahead
<1>6. ColorInv' /\ HeapInv' /\ MarkInv'
  BY <1>1, <1>3, <1>5, GraphOf, RootsMove
<1>7. WalkInv'
  BY <1>1, <1>4 DEF IInv, WalkInv
<1>8. ThreadInv'
  BY <1>1, <1>4 DEF IInv, ThreadInv, AtRest
<1>9. TypeOK'
  BY MutatorType DEF Mutator, IInv
<1>10. QED BY <1>6, <1>7, <1>8, <1>9 DEF IInv

\* Rooting, unrooting and discarding values.
LEMMA RootingSafe ==
    ASSUME SafeProgram, IInv, NEW t \in Thread,
           \/ \E n \in Node : PushTemp(t, n) \/ PopTemp(t, n)
           \/ \E o \in Obj : Discard(t, o)
    PROVE  IInv'
<1>1. t \in running /\ phase = "IDLE"
  BY WorksIdle DEF PushTemp, Discard, PopTemp
<1>2. UNCHANGED <<color, slots, up, phase, barrier, cursor, collector, running>>
  BY DEF PushTemp, Discard, PopTemp, heap, cycle, threads
<1>3. TypeOK'
  BY MutatorType DEF Mutator, IInv
<1>4. \A u \in Thread : /\ temps'[u] \cup held'[u] \subseteq temps[u] \cup held[u]
                        /\ u # t => temps'[u] = temps[u] /\ held'[u] = held[u]
  <2>1. temps \in [Thread -> SUBSET Node] /\ held \in [Thread -> SUBSET Node]
    BY DEF IInv, TypeOK
  <2>2. QED BY <2>1 DEF PushTemp, Discard, PopTemp
<1>5. LiveRoots' \subseteq LiveRoots
  BY <1>2, <1>4 DEF LiveRoots, Roots, IInv, TypeOK
<1>6. HeapInv'
  BY <1>1, <1>2, <1>5, AccessibleIsReachable, GraphOf, RootsMove DEF IInv
<1>7. QED BY <1>1, <1>2, <1>3, <1>4, <1>6, IdleInv DEF IInv, ColorInv

\* What the invariant is about, but for the threads, has not changed.
LEMMA GraphSame ==
    ASSUME GraphInv, TypeOK', UNCHANGED <<color, slots, up, phase, cursor, walk, running, temps, held>>
    PROVE  GraphInv'
<1>1. LiveRoots' = LiveRoots /\ Kept' = Kept /\ Ahead' = Ahead
  BY DEF LiveRoots, Roots, Kept, Ahead
<1>2. \A n : Children(n)' = Children(n)
  BY DEF Children, Values
<1>3. WalkInv' /\ ColorInv'
  BY DEF GraphInv, WalkInv, ColorInv
<1>4. HeapInv'
  BY <1>1, <1>2 DEF GraphInv, HeapInv, Closed
<1>5. MarkInv'
  BY <1>1, <1>2 DEF GraphInv, MarkInv, Marking, Markable, NonWhite, Closed
<1>6. QED BY <1>3, <1>4, <1>5 DEF GraphInv

\* Pins and pauses.
LEMMA PinSafe ==
    ASSUME SafeProgram, IInv, NEW t \in Thread,
           Pin(t) \/ Unpin(t) \/ \E b \in BOOLEAN : SetEnabled(t, b)
    PROVE  IInv'
<1>1. UNCHANGED <<color, slots, up, phase, barrier, cursor, walk, collector, running, temps, held>>
  BY DEF Pin, Unpin, SetEnabled, heap, cycle, threads
<1>2. TypeOK'
  BY MutatorType DEF Mutator, IInv
<1>3. ThreadInv'
  BY <1>1 DEF IInv, ThreadInv, AtRest
<1>4. QED BY <1>1, <1>2, <1>3, GraphOf, GraphSame DEF IInv, GraphInv

LEMMA SpawnSafe ==
    ASSUME SafeProgram, IInv, NEW t \in Thread, NEW u \in Thread, NEW v \in Obj \cup {Null},
           Spawn(t, u, v)
    PROVE  IInv'
<1>1. t \in running /\ phase = "IDLE"
      /\ UNCHANGED <<color, slots, up, phase, barrier, cursor, collector, temps>>
  BY WorksIdle DEF Spawn, Operations, heap, cycle
<1>2. TypeOK'
  BY MutatorType DEF Mutator, IInv
<1>3. /\ temps[u] = {} /\ u \notin running /\ running' = running \cup {u}
      /\ held' = [held EXCEPT ![u] = {v} \ {Null}] /\ {v} \ {Null} \subseteq temps[t] \cup held[t]
  BY DEF Spawn, IInv, ThreadInv, Locals
<1>4. LiveRoots' \subseteq LiveRoots
  BY <1>1, <1>3 DEF LiveRoots, Roots, IInv, TypeOK
<1>5. HeapInv'
  BY <1>1, <1>4, AccessibleIsReachable, GraphOf, RootsMove DEF IInv
<1>6. \A w \in Thread \ running' : temps'[w] = temps[w] /\ held'[w] = held[w]
  BY <1>1, <1>3 DEF IInv, TypeOK
<1>7. QED BY <1>1, <1>2, <1>3, <1>5, <1>6, IdleInv DEF IInv, ColorInv

LEMMA MutatorSafe ==
    ASSUME SafeProgram, IInv, NEW t \in Thread, Mutator(t)
    PROVE  IInv'
<1>0. TypeOK'
  BY MutatorType DEF IInv
<1>1. ASSUME NEW e \in Env, NEW s \in Slot, NEW v \in Obj \cup {Null},
             EnvDefine(t, e, s, v) \/ EnvAssign(t, e, s, v) PROVE IInv'
  BY <1>0, <1>1, PutSafe DEF EnvDefine, EnvAssign, Node
<1>2. ASSUME NEW o \in Obj, NEW s \in Slot, NEW v \in Obj, ArrayPush(t, o, s, v) PROVE IInv'
  BY <1>0, <1>2, PutSafe DEF ArrayPush, Node
<1>3. ASSUME NEW o \in Obj, NEW s \in Slot, NEW v \in Obj \cup {Null}, ArraySet(t, o, s, v) PROVE IInv'
  BY <1>0, <1>3, PutSafe DEF ArraySet, Node
<1>4. QED
  BY <1>1, <1>2, <1>3, AllocSafe, CallSafe, PopSafe, LoadSafe, RootingSafe, PinSafe, SpawnSafe,
     BeginSafe
     DEF Mutator

-----------------------------------------------------------------------------
(* The collector's own steps.                                                *)

\* Marking, in terms of a coloring c of the heap as it is: what is allocated, what is
\* marked, the sets the marker could end up with, and that those of them that hold P, what
\* is still to be marked, hold all that is live.
AllocatedIn(c)   == {n \in Node : c[n] # "free"}
MarkedIn(c)      == {n \in Node : c[n] \in {"gray", "black"}}
MarkableIn(c, X) == MarkedIn(c) \subseteq X /\ \A n \in X : c[n] # "black" => Children(n) \subseteq X
Leads(c, P)      == \A X \in SUBSET Node : MarkableIn(c, X) /\ P \subseteq X
                                              => LiveRoots \subseteq X /\ Closed(X)
Allocated(c)     == LiveRoots \subseteq AllocatedIn(c) /\ Closed(AllocatedIn(c))

\* Marking goes on: gray nodes whose children are all in R have turned black in b, and
\* R is marked.  Whatever the marker could end up with afterwards, it could before.
LEMMA MarkMore ==
    ASSUME TypeOK, NEW c \in [Node -> Colors], NEW b \in [Node -> Colors], NEW R, NEW P,
           Allocated(c), Leads(c, P),
           \A n \in Node : b[n] = c[n]
                           \/ (c[n] = "gray" /\ b[n] = "black" /\ Children(n) \subseteq R)
    PROVE  /\ MarkFrom(b, R) \in [Node -> Colors]
           /\ AllocatedIn(MarkFrom(b, R)) = AllocatedIn(c) /\ Leads(MarkFrom(b, R), P)
<1> DEFINE d == MarkFrom(b, R)
<1>0. slots \in [Node -> [Slot -> Obj \cup {Null}]] /\ up \in [Node -> Env \cup {Null}]
  BY DEF TypeOK
<1>1. /\ d \in [Node -> Colors]
      /\ \A n \in Node : b[n] # "white" => d[n] = b[n]
      /\ \A o \in Obj : d[o] = b[o] \/ (b[o] = "white" /\ d[o] = "gray")
      /\ \A e \in Env : d[e] = b[e] \/ (b[e] = "white" /\ d[e] = "black")
      /\ \A n \in R \cap Node : d[n] # "white"
      /\ \A e \in Env : d[e] # b[e] => \A n \in Children(e) : d[n] # "white"
  BY <1>0, MarkFromFacts
<1> HIDE DEF d
<1>2. \A n \in Node : Children(n) \subseteq Node
  BY <1>0 DEF Children, Values, Node
<1>3. \A n \in Node : d[n] = "free" <=> c[n] = "free"
  BY <1>1 DEF Node
<1>4. \A n \in Node : c[n] \in {"gray", "black"} => d[n] \in {"gray", "black"}
  BY <1>1
<1>5. ASSUME NEW X \in SUBSET Node, MarkableIn(d, X), P \subseteq X
      PROVE  LiveRoots \subseteq X /\ Closed(X)
  <2>1. MarkedIn(d) \subseteq X /\ \A n \in X : d[n] # "black" => Children(n) \subseteq X
    BY <1>5 DEF MarkableIn
  <2>2. MarkedIn(c) \subseteq X
    BY <1>4, <2>1 DEF MarkedIn
  <2>3. ASSUME NEW n \in X, c[n] # "black" PROVE Children(n) \subseteq X
    <3>1. CASE d[n] # "black"
      BY <2>1, <3>1
    <3>2. CASE d[n] = "black"
      <4>1. c[n] # "free"
        BY <1>3, <3>2
      <4>2. \A m \in Children(n) : d[m] # "free"
        BY <1>2, <1>3, <4>1 DEF Allocated, AllocatedIn, Closed
      <4>3. \A m \in Children(n) : d[m] # "white"
        <5>1. CASE b[n] = "black"
          BY <1>1, <1>2, <2>3, <5>1
        <5>2. CASE b[n] # "black"
          BY <1>1, <3>2, <5>2 DEF Node
        <5>3. QED BY <5>1, <5>2
      <4>4. Children(n) \subseteq MarkedIn(d)
        BY <1>1, <1>2, <4>2, <4>3 DEF MarkedIn, Colors
      <4>5. QED BY <2>1, <4>4
    <3>3. QED BY <3>1, <3>2
  <2>4. QED BY <1>5, <2>2, <2>3 DEF MarkableIn, Leads
<1>6. QED BY <1>1, <1>3, <1>5 DEF AllocatedIn, Leads, d

\* Marking begins, with nothing marked and no live value outside the roots.
LEMMA MarkRoots ==
    ASSUME TypeOK, NEW c \in [Node -> Colors], \A n \in Node : c[n] \in {"free", "white"},
           Allocated(c), LiveRoots = Roots
    PROVE  /\ MarkFrom(c, Roots) \in [Node -> Colors]
           /\ AllocatedIn(MarkFrom(c, Roots)) = AllocatedIn(c) /\ Leads(MarkFrom(c, Roots), {})
<1> DEFINE d == MarkFrom(c, Roots)
<1>0. slots \in [Node -> [Slot -> Obj \cup {Null}]] /\ up \in [Node -> Env \cup {Null}]
  BY DEF TypeOK
<1>1. /\ d \in [Node -> Colors]
      /\ \A n \in Node : c[n] # "white" => d[n] = c[n]
      /\ \A o \in Obj : d[o] = c[o] \/ (c[o] = "white" /\ d[o] = "gray")
      /\ \A e \in Env : d[e] = c[e] \/ (c[e] = "white" /\ d[e] = "black")
      /\ \A n \in Roots \cap Node : d[n] # "white"
      /\ \A e \in Env : d[e] # c[e] => \A n \in Children(e) : d[n] # "white"
  BY <1>0, MarkFromFacts
<1> HIDE DEF d
<1>2. \A n \in Node : Children(n) \subseteq Node
  BY <1>0 DEF Children, Values, Node
<1>3. \A n \in Node : d[n] = "free" <=> c[n] = "free"
  BY <1>1 DEF Node
<1>4. ASSUME NEW X \in SUBSET Node, MarkableIn(d, X) PROVE LiveRoots \subseteq X /\ Closed(X)
  <2>1. MarkedIn(d) \subseteq X /\ \A n \in X : d[n] # "black" => Children(n) \subseteq X
    BY <1>4 DEF MarkableIn
  <2>2. Roots \subseteq MarkedIn(d)
    BY <1>1, <1>3 DEF Allocated, AllocatedIn, MarkedIn, Colors
  <2>3. ASSUME NEW n \in X, d[n] = "black" PROVE Children(n) \subseteq X
    <3>1. n \in Env /\ c[n] = "white"
      BY <1>1, <2>3 DEF Node
    <3>2. \A m \in Children(n) : d[m] # "white" /\ d[m] # "free"
      BY <1>1, <1>2, <1>3, <2>3, <3>1 DEF Allocated, AllocatedIn, Closed
    <3>3. Children(n) \subseteq MarkedIn(d)
      BY <1>1, <1>2, <3>2 DEF MarkedIn, Colors
    <3>4. QED BY <2>1, <3>3
  <2>4. QED BY <2>1, <2>2, <2>3 DEF Closed, LiveRoots
<1>5. QED BY <1>1, <1>3, <1>4 DEF AllocatedIn, Leads, d

\* A step that only marks takes a coloring that leads to all that is live to another.
LEMMA MarkingStep ==
    ASSUME GraphInv, phase # "SWEEP", phase' # "SWEEP",
           AllocatedIn(color') = AllocatedIn(color), Leads(color', Ahead'),
           UNCHANGED <<slots, up, running, temps, held>>
    PROVE  HeapInv' /\ MarkInv'
<1>1. \A n : Children(n)' = Children(n)
  BY DEF Children, Values
<1>2. Kept = AllocatedIn(color) /\ Kept' = AllocatedIn(color')
  BY DEF Kept, AllocatedIn
<1>3. LiveRoots' = LiveRoots
  BY DEF LiveRoots, Roots
<1>4. HeapInv'
  BY <1>1, <1>2, <1>3 DEF GraphInv, HeapInv, Closed
<1>5. \A X \in SUBSET Node : (Markable(X)' <=> MarkableIn(color', X)) /\ (Closed(X)' <=> Closed(X))
  BY <1>1 DEF Markable, MarkableIn, NonWhite, MarkedIn, Closed
<1>6. MarkInv'
  BY <1>3, <1>5 DEF MarkInv, Leads
<1>7. QED BY <1>4, <1>6

\* The invariant says of the colors what the lemmas above ask for.
LEMMA GraphColors ==
    ASSUME GraphInv, phase # "SWEEP"
    PROVE  color \in [Node -> Colors] /\ Allocated(color) /\ (Marking => Leads(color, Ahead))
<1>1. color \in [Node -> Colors]
  BY DEF GraphInv, TypeOK, Colors
<1>2. Kept = AllocatedIn(color)
  BY DEF Kept, AllocatedIn
<1>3. \A X \in SUBSET Node : Markable(X) <=> MarkableIn(color, X)
  BY DEF Markable, MarkableIn, NonWhite, MarkedIn
<1>4. QED BY <1>1, <1>2, <1>3 DEF GraphInv, HeapInv, MarkInv, Allocated, Leads

\* The walk over the roots visits a node that is allocated: it need not be visited again.
LEMMA VisitLeads ==
    ASSUME TypeOK, NEW c \in [Node -> Colors], Allocated(c), NEW P, Leads(c, P),
           NEW n \in AllocatedIn(c), NEW Q, P \subseteq Q \cup {n}
    PROVE  /\ AllocatedIn(MarkFrom(c, {n})) = AllocatedIn(c) /\ Leads(MarkFrom(c, {n}), Q)
<1> DEFINE d == MarkFrom(c, {n})
<1>1. d \in [Node -> Colors] /\ AllocatedIn(d) = AllocatedIn(c) /\ Leads(d, P)
  <2> DEFINE R == {n}
  <2>1. \A m \in Node : c[m] = c[m] \/ (c[m] = "gray" /\ c[m] = "black" /\ Children(m) \subseteq R)
    OBVIOUS
  <2> HIDE DEF R
  <2>2. /\ MarkFrom(c, R) \in [Node -> Colors]
        /\ AllocatedIn(MarkFrom(c, R)) = AllocatedIn(c) /\ Leads(MarkFrom(c, R), P)
    BY <2>1, MarkMore
  <2>3. QED BY <2>2 DEF R
<1>2. d[n] # "white" /\ n \in Node
  <2> DEFINE R == {n}
  <2>1. n \in R /\ n \in Node
    BY DEF AllocatedIn
  <2> HIDE DEF R
  <2>2. slots \in [Node -> [Slot -> Obj \cup {Null}]] /\ up \in [Node -> Env \cup {Null}]
    BY DEF TypeOK
  <2>3. \A m \in R \cap Node : MarkFrom(c, R)[m] # "white"
    BY <2>2, MarkFromFacts
  <2>4. QED BY <2>1, <2>3 DEF R
<1> HIDE DEF d
<1>3. n \in MarkedIn(d)
  <2>1. d[n] # "free"
    BY <1>1 DEF AllocatedIn
  <2>2. QED BY <1>1, <1>2, <2>1 DEF MarkedIn, Colors
<1>4. \A X : MarkableIn(d, X) /\ Q \subseteq X => P \subseteq X
  BY <1>3 DEF MarkableIn
<1>5. Leads(d, Q)
  BY <1>1, <1>4 DEF Leads
<1>6. QED BY <1>1, <1>5 DEF d

\* What gc_begin_cycle does to the colors when nothing runs beside it.
LEMMA RootScanLeads ==
    ASSUME GraphInv, phase = "IDLE", \A t \in running : held[t] = {}
    PROVE  /\ RootScan(color) \in [Node -> Colors]
           /\ AllocatedIn(RootScan(color)) = AllocatedIn(color) /\ Leads(RootScan(color), {})
<1>1. \A n \in Node : color[n] \in {"free", "white"}
  BY DEF GraphInv, ColorInv
<1>2. [n \in Node |-> IF n \in Obj /\ color[n] # "free" THEN "white" ELSE color[n]] = color
  BY <1>1 DEF GraphInv, TypeOK, Node
<1>3. RootScan(color) = MarkFrom(color, Roots)
  BY <1>2 DEF RootScan
<1>4. LiveRoots = Roots
  BY DEF LiveRoots
<1>5. QED BY <1>1, <1>3, <1>4, GraphColors, MarkRoots DEF GraphInv

\* What gc_shade_children does to the colors.
LEMMA ShadeChildrenLeads ==
    ASSUME TypeOK, NEW c \in [Node -> Colors], Allocated(c), Leads(c, {}), NEW o \in Obj, c[o] = "gray"
    PROVE  /\ ShadeChildren(c, o) \in [Node -> Colors]
           /\ AllocatedIn(ShadeChildren(c, o)) = AllocatedIn(c) /\ Leads(ShadeChildren(c, o), {})
<1> DEFINE b == [c EXCEPT ![o] = "black"]
           R == Values(o) \cup {up[o]}
<1>1. b \in [Node -> Colors]
  BY DEF Colors, Node
<1>2. \A n \in Node : b[n] = c[n] \/ (c[n] = "gray" /\ b[n] = "black" /\ Children(n) \subseteq R)
  BY DEF Children
<1>3. ShadeChildren(c, o) = MarkFrom(b, R)
  BY DEF ShadeChildren
<1> DEFINE P == {}
<1> HIDE DEF b, R, P
<1>4. Leads(c, P)
  BY DEF P
<1>5. /\ MarkFrom(b, R) \in [Node -> Colors]
      /\ AllocatedIn(MarkFrom(b, R)) = AllocatedIn(c) /\ Leads(MarkFrom(b, R), P)
  BY <1>1, <1>2, <1>4, MarkMore
<1>6. QED BY <1>3, <1>5 DEF P

\* A cycle begins: nothing is marked, and all roots are ahead.
LEMMA StartGraph ==
    ASSUME GraphInv, NEW t \in running, StartCycle(t), phase = "IDLE",
           \A u \in running : held[u] = {}
    PROVE  GraphInv'
<1>1. /\ phase' = "ROOT_SCAN" /\ walk' = {<<Null, Global>>}
      /\ cursor' = {o \in Obj : color[o] # "free"}
      /\ UNCHANGED <<color, slots, up, running, temps, held>>
  BY DEF StartCycle, heap, threads
<1>2. TypeOK' /\ color \in [Node -> Colors] /\ Allocated(color)
  BY StartCycleType, GraphColors DEF GraphInv
<1>3. \A n \in Node : color[n] \in {"free", "white"}
  BY DEF GraphInv, ColorInv
<1>4. WalkInv'
  BY <1>1, <1>3 DEF WalkInv
<1>5. ColorInv'
  BY <1>1 DEF ColorInv
<1>6. Ahead' = Roots /\ LiveRoots = Roots
  BY <1>1 DEF Ahead, LiveRoots, Roots
<1>7. Leads(color', Ahead')
  <2>1. ASSUME NEW X \in SUBSET Node, MarkableIn(color, X) PROVE Closed(X)
    BY <1>3, <2>1 DEF MarkableIn, Closed
  <2>2. QED BY <1>1, <1>6, <2>1 DEF Leads
<1>8. HeapInv' /\ MarkInv'
  BY <1>1, <1>7, MarkingStep
<1>9. QED BY <1>2, <1>4, <1>5, <1>8 DEF GraphInv

LEMMA StartCycleSafe ==
    ASSUME SafeProgram, IInv, NEW t \in Thread, Collect(t) \/ AutoCollect(t)
    PROVE  IInv'
<1>1. StartCycle(t) /\ t \in running /\ collector = Null /\ Evaluating(t)
  BY DEF Collect, AutoCollect, MayDo
<1>2. phase = "IDLE" /\ phase' = "ROOT_SCAN" /\ barrier' = barrier /\ collector' = t
  BY <1>1 DEF StartCycle, IInv, ThreadInv
<1>3. \A u \in running : held[u] = {}
  <2>1. held[t] = {}
    BY <1>1 DEF Collect, AutoCollect, MayDo, Evaluating, SafeProgram
  <2>2. \A u \in running \ {t} : AtRest(u)
    BY <1>1 DEF Collect, AutoCollect, MayDo, SafeProgram
  <2>3. QED BY <2>1, <2>2 DEF AtRest
<1>4. GraphInv'
  BY <1>1, <1>2, <1>3, GraphOf, StartGraph
<1>5. UNCHANGED <<running, temps, held>>
  BY <1>1 DEF StartCycle, threads
<1>6. ThreadInv'
  <2>1. \A u \in running' : AtRest(u)'
    BY <1>3, <1>5 DEF AtRest
  <2>2. t # Null
    OBVIOUS
  <2>3. QED BY <1>2, <1>5, <2>1, <2>2 DEF IInv, ThreadInv
<1>7. QED BY <1>4, <1>6 DEF IInv, GraphInv

\* When nothing is gray, what is marked is closed and holds the roots.
LEMMA NothingGray ==
    ASSUME GraphInv, Marking, Ahead = {}, Gray(color) = {}
    PROVE  /\ NonWhite = {n \in Node : color[n] = "black"}
           /\ LiveRoots \subseteq NonWhite
           /\ Closed(NonWhite)
<1>1. NonWhite = {n \in Node : color[n] = "black"}
  BY DEF NonWhite, Gray, GraphInv, TypeOK, Node
<1>2. Markable(NonWhite) /\ NonWhite \in SUBSET Node
  BY <1>1 DEF Markable, NonWhite
<1>3. QED BY <1>1, <1>2 DEF GraphInv, MarkInv

\* A step of the collecting thread.
\* The walk visits a node: the first time, one that is ahead.
LEMMA VisitSafe ==
    ASSUME GraphInv, Marking, phase # "SWEEP", phase' = phase, NEW n, color' = MarkFrom(color, {n}),
           phase = "ROOT_SCAN" => n \in LiveRoots /\ Ahead \subseteq Ahead' \cup {n},
           UNCHANGED <<slots, up, running, temps, held>>
    PROVE  ColorInv' /\ HeapInv' /\ MarkInv'
<1>1. color \in [Node -> Colors] /\ Allocated(color) /\ Leads(color, Ahead)
  BY GraphColors
<1>2. AllocatedIn(color') = AllocatedIn(color) /\ Leads(color', Ahead')
  <2>1. CASE phase = "ROOT_SCAN"
    <3>1. n \in AllocatedIn(color)
      BY <1>1, <2>1 DEF Allocated
    <3>2. QED BY <1>1, <2>1, <3>1, VisitLeads DEF GraphInv
  <2>2. CASE phase # "ROOT_SCAN"
    <3>1. Ahead = {} /\ Ahead' = {}
      BY <2>2 DEF Ahead
    <3>2. QED BY <1>1, <3>1, MarkMore DEF GraphInv
  <2>3. QED BY <2>1, <2>2
<1>3. HeapInv' /\ MarkInv'
  BY <1>2, MarkingStep
<1>4. ColorInv'
  BY DEF ColorInv, Marking
<1>5. QED BY <1>3, <1>4

\* The three steps of the walk.
LEMMA WalkGraph ==
    ASSUME GraphInv, NEW t \in Thread,
           \/ ScanGlobal(t)
           \/ \E u \in Thread : ScanThread(t, u)
           \/ \E u \in Thread, n \in Node : ScanRoot(t, u, n)
    PROVE  GraphInv'
<1>0. TypeOK' /\ UNCHANGED <<slots, up, running, temps, held, phase, cursor>>
  BY CollectorType DEF GraphInv, CollectorStep, ScanGlobal, ScanThread, ScanRoot, heap, threads
<1>1. phase \in {"ROOT_SCAN", "REMARK"} /\ (phase = "ROOT_SCAN" => cursor = {})
  BY DEF ScanGlobal, ScanThread, ScanRoot, Walks
<1>2. Marking /\ Marking' /\ phase # "SWEEP" /\ \A u \in Thread : u # Null
  BY <1>0, <1>1 DEF Marking
<1>3. CASE ScanGlobal(t)
  <2>1. color' = MarkFrom(color, {Global}) /\ walk' = running \X {Null}
    BY <1>3 DEF ScanGlobal
  <2>2. running \subseteq Thread /\ Global \in Node
    BY DEF GraphInv, TypeOK, Node
  <2>3. WalkInv'
    BY <1>0, <1>1, <1>2, <2>1, <2>2 DEF WalkInv, Node
  <2>4. phase = "ROOT_SCAN" => Ahead \subseteq Ahead' \cup {Global}
    <3>1. Ahead \subseteq Roots \/ phase # "ROOT_SCAN"
      BY <1>3 DEF ScanGlobal, Ahead
    <3>2. <<Null, Global>> \notin walk' /\ \A u \in running : <<u, Null>> \in walk'
      BY <1>2, <2>1, <2>2
    <3>3. phase = "ROOT_SCAN" => \A u \in running : temps[u] \subseteq Ahead'
      <4>1. \A u \in Thread : temps[u] \subseteq Node
        BY DEF GraphInv, TypeOK
      <4>2. phase = "ROOT_SCAN" =>
              Ahead' = {n \in Node : \E u \in Thread : \/ <<u, Null>> \in walk' /\ n \in temps[u]
                                                      \/ <<u, n>> \in walk'}
        BY <1>0, <3>2 DEF Ahead
      <4>3. QED BY <2>2, <3>2, <4>1, <4>2
    <3>4. QED BY <3>1, <3>3 DEF Roots
  <2>5. Global \in LiveRoots
    BY DEF LiveRoots, Roots
  <2>6. ColorInv' /\ HeapInv' /\ MarkInv'
    BY <1>0, <1>2, <2>1, <2>4, <2>5, VisitSafe
  <2>7. QED BY <1>0, <2>3, <2>6 DEF GraphInv
<1>4. ASSUME NEW u \in Thread, ScanThread(t, u) PROVE GraphInv'
  <2>1. <<u, Null>> \in walk /\ walk' = (walk \ {<<u, Null>>}) \cup {u} \X temps[u] /\ color' = color
    BY <1>4 DEF ScanThread, heap
  <2>2. temps[u] \subseteq Node
    BY DEF GraphInv, TypeOK
  <2>3. phase = "ROOT_SCAN" => u \in running /\ <<Null, Global>> \notin walk
    BY <1>2, <2>1 DEF GraphInv, WalkInv
  <2>4. WalkInv'
    BY <1>0, <1>1, <1>2, <2>1, <2>2, <2>3 DEF GraphInv, WalkInv
  <2>5. phase = "ROOT_SCAN" => Ahead \subseteq Ahead'
    <3>1. <<Null, Global>> \notin walk => <<Null, Global>> \notin walk'
      BY <1>2, <2>1
    <3>2. \A v \in Thread : <<v, Null>> \in walk => v = u \/ <<v, Null>> \in walk'
      BY <2>1
    <3>3. \A v \in Thread, n \in Node : <<v, n>> \in walk => <<v, n>> \in walk'
      BY <2>1 DEF Node
    <3>4. \A n \in temps[u] : <<u, n>> \in walk'
      BY <2>1
    <3>5. QED BY <1>0, <2>2, <2>3, <3>1, <3>2, <3>3, <3>4 DEF Ahead
  <2>6. Ahead \subseteq Ahead'
    BY <2>5 DEF Ahead
  <2>7. Leads(color', Ahead') /\ AllocatedIn(color') = AllocatedIn(color)
    <3>1. Leads(color, Ahead)
      BY <1>2, GraphColors
    <3>2. QED BY <2>1, <2>6, <3>1 DEF Leads
  <2>8. HeapInv' /\ MarkInv'
    BY <1>0, <1>2, <2>7, MarkingStep
  <2>9. ColorInv'
    BY <1>0, <1>1 DEF ColorInv
  <2>10. QED BY <1>0, <2>4, <2>8, <2>9 DEF GraphInv
<1>5. ASSUME NEW u \in Thread, NEW n \in Node, ScanRoot(t, u, n) PROVE GraphInv'
  <2>1. <<u, n>> \in walk /\ walk' = walk \ {<<u, n>>}
    BY <1>5 DEF ScanRoot
  <2>2. PICK m \in temps[u] \cup {Null} \cup {n} :
             color' = MarkFrom(color, {m}) /\ (n \in temps[u] => m = n)
    BY <1>5 DEF ScanRoot
  <2>3. phase = "ROOT_SCAN" => /\ u \in running /\ n \in temps[u] /\ <<Null, Global>> \notin walk
                               /\ cursor = {}
    BY <1>1, <1>2, <2>1 DEF GraphInv, WalkInv, Node
  <2>4. WalkInv'
    BY <1>0, <1>1, <1>2, <2>1, <2>3 DEF GraphInv, WalkInv
  <2>5. phase = "ROOT_SCAN" => m \in LiveRoots /\ Ahead \subseteq Ahead' \cup {m}
    <3>1. phase = "ROOT_SCAN" => m = n /\ n \in LiveRoots
      BY <2>2, <2>3 DEF LiveRoots, Roots
    <3>2. <<Null, Global>> \notin walk => <<Null, Global>> \notin walk'
      BY <2>1
    <3>3. \A v \in Thread : <<v, Null>> \in walk => <<v, Null>> \in walk'
      BY <2>1 DEF Node
    <3>4. \A v \in Thread, k \in Node : <<v, k>> \in walk => k = n \/ <<v, k>> \in walk'
      BY <2>1
    <3>5. phase = "ROOT_SCAN" => Ahead \subseteq Ahead' \cup {n}
      BY <1>0, <2>3, <3>2, <3>3, <3>4 DEF Ahead
    <3>6. QED BY <3>1, <3>5
  <2>6. ColorInv' /\ HeapInv' /\ MarkInv'
    BY <1>0, <1>2, <2>2, <2>5, VisitSafe
  <2>7. QED BY <1>0, <2>4, <2>6 DEF GraphInv
<1>6. QED BY <1>3, <1>4, <1>5

\* A step of the collecting thread.
LEMMA CollectorGraph ==
    ASSUME GraphInv, NEW t \in Thread, CollectorStep(t)
    PROVE  GraphInv'
<1>0. TypeOK' /\ t # Null
  BY CollectorType DEF GraphInv
<1>1. CASE EnableBarrier(t)
  <2>1. /\ Marking /\ Marking' /\ phase = "ROOT_SCAN" /\ phase' = "CONCURRENT_MARK" /\ walk = {}
        /\ UNCHANGED <<color, slots, up, running, temps, held>>
    BY <1>1 DEF EnableBarrier, Marking, heap, threads
  <2>2. Ahead = {} /\ Ahead' = {}
    BY <2>1 DEF Ahead
  <2>3. Leads(color', Ahead')
    BY <2>1, <2>2, GraphColors
  <2>4. HeapInv' /\ MarkInv'
    BY <2>1, <2>3, MarkingStep
  <2>5. ColorInv' /\ WalkInv'
    BY <2>1 DEF ColorInv, WalkInv
  <2>6. QED BY <1>0, <2>4, <2>5 DEF GraphInv
<1>2. ASSUME NEW o \in Obj, MarkStep(t, o) PROVE GraphInv'
  <2>1. /\ phase \in {"CONCURRENT_MARK", "REMARK"} /\ phase' = phase /\ color[o] = "gray"
        /\ color' = ShadeChildren(color, o) /\ UNCHANGED <<slots, up, running, temps, held>>
    BY <1>2 DEF MarkStep, cycle, threads
  <2>2. Marking /\ phase # "SWEEP" /\ phase # "IDLE" /\ Ahead = {} /\ Ahead' = {}
    BY <2>1 DEF Marking, Ahead
  <2>3. HeapInv' /\ MarkInv'
    BY <2>1, <2>2, GraphColors, ShadeChildrenLeads, MarkingStep DEF GraphInv
  <2>4. ColorInv' /\ WalkInv'
    BY <2>1, <2>2 DEF ColorInv, WalkInv
  <2>5. QED BY <1>0, <2>3, <2>4 DEF GraphInv
<1>3. CASE Remark(t)
  <2>1. /\ phase = "CONCURRENT_MARK" /\ phase' = "REMARK"
        /\ UNCHANGED <<color, slots, up, running, temps, held>>
    BY <1>3 DEF Remark, heap, threads
  <2>2. Marking /\ Ahead = {} /\ Ahead' = {}
    BY <2>1 DEF Marking, Ahead
  <2>3. Leads(color', Ahead')
    BY <2>1, <2>2, GraphColors
  <2>4. HeapInv' /\ MarkInv'
    BY <2>1, <2>3, MarkingStep
  <2>5. ColorInv' /\ WalkInv'
    BY <2>1 DEF ColorInv, WalkInv
  <2>6. QED BY <1>0, <2>4, <2>5 DEF GraphInv
<1>4. CASE RemarkDone(t)
  <2>1. /\ Marking /\ Ahead = {} /\ Gray(color) = {} /\ phase' = "SWEEP"
        /\ cursor' = {o \in Obj : color[o] # "free"}
    BY <1>4 DEF RemarkDone, Marking, Ahead
  <2>2. NonWhite = {n \in Node : color[n] = "black"} /\ LiveRoots \subseteq NonWhite /\ Closed(NonWhite)
    BY <2>1, NothingGray
  <2>3. UNCHANGED <<color, slots, up, collector, enabled, pinning, running, temps, held>>
    BY <1>4 DEF RemarkDone, heap, threads
  <2>4. Kept' = NonWhite
    BY <2>1, <2>2, <2>3 DEF Kept, GraphInv, TypeOK, Node, Gray
  <2>5. HeapInv'
    BY <2>2, <2>3, <2>4 DEF HeapInv, LiveRoots, Roots, Closed, Children, Values
  <2>6. ColorInv' /\ WalkInv' /\ MarkInv'
    BY <2>1, <2>3 DEF ColorInv, WalkInv, MarkInv, Marking, Gray
  <2>7. QED BY <1>0, <2>5, <2>6 DEF GraphInv
<1>5. ASSUME NEW o \in Obj, SweepStep(t, o) PROVE GraphInv'
  <2>1. UNCHANGED <<slots, up, phase, barrier, collector, enabled, pinning, running, temps, held>>
    BY <1>5 DEF SweepStep, threads
  <2>2. phase = "SWEEP" /\ o \in cursor /\ cursor' = cursor \ {o} /\ color' = Sweep(color, o)
    BY <1>5 DEF SweepStep
  <2>3. color[o] # "gray" /\ color \in [Node -> Colors] /\ o \notin Env /\ o \in Node
    BY <2>2 DEF GraphInv, ColorInv, TypeOK, Colors, Node
  <2>4. /\ \A n \in Node : n # o => color'[n] = color[n]
        /\ color'[o] = IF color[o] = "white" THEN "free" ELSE "white"
    BY <2>2, <2>3 DEF Sweep
  <2>5. o \notin cursor' /\ color[o] # "free"
    BY <2>2 DEF GraphInv, ColorInv
  <2>6. o \in Kept' <=> o \in Kept
    BY <2>1, <2>2, <2>3, <2>4, <2>5 DEF Kept
  <2>7. Kept' = Kept
    <3>1. ASSUME NEW n \in Node, n # o PROVE n \in Kept' <=> n \in Kept
      BY <3>1, <2>1, <2>2, <2>4 DEF Kept
    <3>2. Kept \subseteq Node /\ Kept' \subseteq Node
      BY DEF Kept
    <3>3. QED BY <3>1, <3>2, <2>6
  <2>8. HeapInv'
    BY <2>1, <2>7 DEF GraphInv, HeapInv, LiveRoots, Roots, Closed, Children, Values
  <2>9. ColorInv' /\ WalkInv' /\ MarkInv'
    BY <2>1, <2>2, <2>3, <2>4 DEF GraphInv, ColorInv, WalkInv, MarkInv, Marking, Node
  <2>10. QED BY <1>0, <2>8, <2>9 DEF GraphInv
<1>6. CASE FinishCycle(t)
  <2>1. UNCHANGED <<slots, up, barrier, cursor, enabled, pinning, running, temps, held>>
    BY <1>6 DEF FinishCycle, threads
  <2>2. phase = "SWEEP" /\ phase' = "IDLE" /\ cursor = {} /\ color' = SweptEnvs(color) /\ collector' = Null
    BY <1>6 DEF FinishCycle
  <2>3. /\ \A o \in Obj : color'[o] = color[o] /\ color[o] \in {"free", "white"}
        /\ \A e \in Env : color'[e] = IF color[e] = "black" THEN "white" ELSE "free"
    BY <2>2 DEF SweptEnvs, GraphInv, ColorInv, TypeOK, Node
  <2>4. Kept' = Kept
    BY <2>2, <2>3 DEF Kept, GraphInv, TypeOK, Node
  <2>5. HeapInv'
    BY <2>1, <2>4 DEF GraphInv, HeapInv, LiveRoots, Roots, Closed, Children, Values
  <2>6. ColorInv' /\ WalkInv' /\ MarkInv'
    BY <2>2, <2>3 DEF ColorInv, WalkInv, MarkInv, Marking, Node
  <2>7. QED BY <1>0, <2>5, <2>6 DEF GraphInv
<1>7. ASSUME NEW o \in Obj, Whiten(t, o) PROVE GraphInv'
  <2>1. /\ phase = "ROOT_SCAN" /\ o \in cursor /\ color' = [color EXCEPT ![o] = "white"]
        /\ cursor' = cursor \ {o} /\ UNCHANGED <<slots, up, phase, walk, running, temps, held>>
    BY <1>7 DEF Whiten, threads
  <2>2. color' = color
    BY <2>1 DEF GraphInv, WalkInv, TypeOK, Node
  <2>3. Marking /\ Ahead' = Ahead
    BY <2>1 DEF Marking, Ahead, Roots
  <2>4. HeapInv' /\ MarkInv'
    BY <2>1, <2>2, <2>3, GraphColors, MarkingStep
  <2>5. ColorInv' /\ WalkInv'
    BY <2>1, <2>2 DEF GraphInv, ColorInv, WalkInv
  <2>6. QED BY <1>0, <2>4, <2>5 DEF GraphInv
<1>8. QED BY <1>1, <1>2, <1>3, <1>4, <1>5, <1>6, <1>7, WalkGraph DEF CollectorStep

\* What a step of the collecting thread leaves alone, and how far it takes the cycle.
LEMMA CollectorFrame ==
    ASSUME NEW t \in Thread, CollectorStep(t)
    PROVE  /\ UNCHANGED <<slots, up, pinning, running, starting, temps, held>>
           /\ collector = t
           /\ \/ collector' = Null /\ phase = "SWEEP" /\ phase' = "IDLE" /\ barrier' = barrier
              \/ /\ collector' = t /\ phase' = phase /\ phase # "IDLE" /\ barrier' = barrier
              \/ collector' = t /\ phase' = "CONCURRENT_MARK" /\ barrier' = TRUE
              \/ collector' = t /\ phase = "CONCURRENT_MARK" /\ phase' = "REMARK" /\ barrier' = barrier
              \/ collector' = t /\ phase' = "SWEEP" /\ barrier' = FALSE
BY DEF CollectorStep, Whiten, ScanGlobal, ScanThread, ScanRoot, Walks, EnableBarrier, MarkStep,
       Remark, RemarkDone, SweepStep, FinishCycle, cycle, heap, threads

LEMMA CollectorSafe ==
    ASSUME SafeProgram, IInv, NEW t \in Thread, CollectorStep(t)
    PROVE  IInv'
<1>1. GraphInv'
  BY CollectorGraph, GraphOf
<1>2. UNCHANGED <<pinning, running, temps, held>>
  BY CollectorFrame
<1>3. collector = t /\ t # Null /\ (phase' = "IDLE" <=> collector' = Null)
      /\ (barrier' <=> phase' \in {"CONCURRENT_MARK", "REMARK"})
  BY CollectorFrame DEF IInv, ThreadInv
<1>4. \A u \in running' : AtRest(u)'
  BY <1>2, <1>3 DEF IInv, ThreadInv, AtRest
<1>5. ThreadInv'
  BY <1>2, <1>3, <1>4 DEF IInv, ThreadInv
<1>6. QED BY <1>1, <1>5 DEF IInv, GraphInv

-----------------------------------------------------------------------------
(* From the steps to the specification.                                      *)

LEMMA InitGraph == Init => GraphInv
<1> SUFFICES ASSUME Init PROVE GraphInv
  OBVIOUS
<1>1. TypeOK
  BY InitType
<1>2. \A n \in Node : Children(n) = {}
  BY DEF Init, Children, Values, NoSlots
<1>3. LiveRoots = {Global} /\ Global \in Kept
  BY DEF Init, LiveRoots, Roots, Kept, Node
<1>4. HeapInv
  BY <1>2, <1>3 DEF HeapInv, Closed, Kept
<1>5. ColorInv /\ WalkInv /\ MarkInv
  BY DEF Init, ColorInv, WalkInv, MarkInv, Marking, Node
<1>6. QED BY <1>1, <1>4, <1>5 DEF GraphInv

LEMMA GraphStutters == GraphInv /\ UNCHANGED vars => GraphInv'
<1> SUFFICES ASSUME GraphInv, UNCHANGED vars PROVE GraphInv'
  OBVIOUS
<1>1. TypeOK'
  BY DEF vars, GraphInv, TypeOK
<1>2. QED BY <1>1, GraphSame DEF vars

\* What is kept is closed and holds what is live: nothing live is released.
LEMMA GraphSafe == GraphInv => NoDangling
<1> SUFFICES ASSUME GraphInv PROVE NoDangling
  OBVIOUS
<1>1. Live = Reachable(LiveRoots) /\ Kept \in SUBSET Node
  BY DEF Live, LiveRoots, Kept
<1>2. Live \subseteq Kept
  BY <1>1, ReachableIn DEF GraphInv, HeapInv
<1>3. QED BY <1>2 DEF NoDangling, Kept

LEMMA SafeInv == SafeProgram => (Spec => []IInv)
<1> SUFFICES ASSUME SafeProgram PROVE Spec => []IInv
  OBVIOUS
<1>1. Init => IInv
  <2>1. Init => ThreadInv
    BY DEF Init, ThreadInv
  <2>2. QED BY <2>1, InitGraph DEF IInv, GraphInv
<1>2. IInv /\ [Next]_vars => IInv'
  <2> SUFFICES ASSUME IInv, [Next]_vars PROVE IInv'
    OBVIOUS
  <2>1. ASSUME NEW t \in Thread, GcStep(t) PROVE FALSE
    BY <2>1 DEF GcStep, MayDo, SafeProgram
  <2>2. ASSUME UNCHANGED vars PROVE IInv'
    <3>1. ThreadInv'
      BY <2>2 DEF vars, IInv, ThreadInv, AtRest
    <3>2. QED BY <2>2, <3>1, GraphOf, GraphStutters DEF IInv, GraphInv
  <2>3. QED
    BY <2>1, <2>2, MutatorSafe, StartCycleSafe, CollectorSafe DEF Next
<1>3. QED BY <1>1, <1>2, PTL DEF Spec

\* For the programs SafeProgram describes, whatever the heap, the number of threads and
\* the moment of each collection, gc_sweep_step and env_sweep_unmarked never release
\* what a running thread can still reach.
THEOREM CollectorIsSafe == SafeProgram => (Spec => []NoDangling)
<1>1. IInv => NoDangling
  BY GraphOf, GraphSafe
<1>2. QED BY <1>1, SafeInv, PTL
=============================================================================
