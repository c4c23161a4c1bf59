-------------------------- MODULE GCMarking_proofs --------------------------
(***************************************************************************)
(* What a collection releases, and what the write barrier is for.          *)
(*                                                                         *)
(* First, that a whole gc_collect releases exactly the garbage, while one  *)
(* thread runs: what is marked is reachable, so what is kept is what is    *)
(* live.  (With several threads a value may lose its last reference while  *)
(* it is being marked, and stay until the next cycle.)                     *)
(*                                                                         *)
(* Then, for programs of one thread that mark in steps (gc.step), that the *)
(* marker never loses a live value; and for those and the safe programs,   *)
(* that every live value that is not marked yet is reachable from a marked *)
(* one that is still to be scanned.                                        *)
(***************************************************************************)
EXTENDS TracingGC_proofs

USE HeapAssumption

-----------------------------------------------------------------------------
(* A whole collection.                                                       *)

\* One thread, and only reachable nodes marked or, from the sweep on, kept.
ExactInv ==
    /\ running = {Main}
    /\ Marking => NonWhite \subseteq Reachable(LiveRoots)
    /\ phase = "SWEEP" => Kept \subseteq Reachable(LiveRoots)

\* Within a closed set, marking from members marks members.
LEMMA MarkWithin ==
    ASSUME TypeOK, NEW c \in [Node -> Colors], NEW R, NEW X \in SUBSET Node, Closed(X),
           MarkedIn(c) \subseteq X, R \subseteq X \cup {Null}
    PROVE  MarkedIn(MarkFrom(c, R)) \subseteq X
<1> DEFINE M == Chain(c, R)
           b == [n \in Node |-> IF n \in M THEN "black" ELSE c[n]]
           S == R \cup UNION {Values(e) : e \in M}
           U == {e \in Env : c[e] = "white"}
<1>0. Obj \cap Env = {} /\ Node = Obj \cup Env /\ Null \notin Node
  BY DEF Node
<1>1. M \subseteq U \cap X
  <2>1. U \cap X \in SUBSET U /\ R \cap U \subseteq U \cap X
    BY <1>0
  <2>2. \A e \in U \cap X : up[e] \in U => up[e] \in U \cap X
    BY <1>0 DEF Closed, Children
  <2>3. \A e \in M : \A Q \in SUBSET U : R \cap U \subseteq Q /\ (\A f \in Q : up[f] \in U => up[f] \in Q)
                                         => e \in Q
    BY DEF Chain
  <2>4. QED BY <2>1, <2>2, <2>3
<1>2. S \subseteq X \cup {Null}
  <2>1. \A e \in M : Values(e) \subseteq X
    BY <1>1 DEF Closed, Children
  <2>2. QED BY <2>1
<1>3. MarkFrom(c, R) = [n \in Node |-> IF n \in S \cap Obj /\ b[n] = "white" THEN "gray" ELSE b[n]]
  BY DEF MarkFrom, Shade
<1> HIDE DEF M, S
<1>4. \A n \in Node : MarkFrom(c, R)[n] = c[n] \/ n \in M \/ n \in S
  BY <1>3
<1>5. QED BY <1>0, <1>1, <1>2, <1>4 DEF MarkedIn

\* What is live is closed.
LEMMA LiveClosed ==
    ASSUME TypeOK
    PROVE  /\ Reachable(LiveRoots) \in SUBSET Node /\ Closed(Reachable(LiveRoots))
           /\ LiveRoots \subseteq Reachable(LiveRoots)
<1>1. LiveRoots \subseteq Node
  BY DEF TypeOK, LiveRoots, Roots, Node
<1>2. \A n \in Node : Children(n) \subseteq Node
  BY DEF TypeOK, Children, Values, Node
<1>3. LiveRoots \subseteq Reachable(LiveRoots) /\ Reachable(LiveRoots) \in SUBSET Node
  BY <1>1 DEF Reachable
<1>4. Closed(Reachable(LiveRoots))
  <2> SUFFICES ASSUME NEW n \in Reachable(LiveRoots), NEW m \in Children(n)
               PROVE  m \in Reachable(LiveRoots)
    BY DEF Closed
  <2>1. m \in Node
    BY <1>2, <1>3
  <2>2. QED BY <2>1 DEF Reachable, Closed
<1>5. QED BY <1>3, <1>4

\* As long as the heap and the roots stay what they are, so does what is live.
LEMMA SameLive ==
    ASSUME UNCHANGED <<slots, up, running, temps, held>>
    PROVE  Reachable(LiveRoots)' = Reachable(LiveRoots)
<1>1. \A n : Children(n)' = Children(n)
  BY DEF Children, Values
<1>2. LiveRoots' = LiveRoots
  BY DEF LiveRoots, Roots
<1>3. QED BY <1>1, <1>2 DEF Reachable, Closed

\* At the start of a cycle nothing is marked.
LEMMA StartExact ==
    ASSUME IInv, ExactInv, NEW t \in Thread, Collect(t) \/ AutoCollect(t)
    PROVE  ExactInv'
<1>1. StartCycle(t) /\ collector = Null
  BY DEF Collect, AutoCollect
<1>2. phase = "IDLE" /\ phase' = "ROOT_SCAN" /\ UNCHANGED <<color, running>>
  BY <1>1 DEF StartCycle, IInv, ThreadInv, heap, threads
<1>3. NonWhite' = {}
  BY <1>2 DEF NonWhite, IInv, ColorInv
<1>4. QED BY <1>2, <1>3 DEF ExactInv

\* Marking marks what the marked leads to, and sweeping keeps no more than was kept.
LEMMA CollectorExact ==
    ASSUME IInv, ExactInv, NEW t \in Thread, CollectorStep(t)
    PROVE  ExactInv'
<1> DEFINE L == Reachable(LiveRoots)
<1>0. TypeOK /\ L \in SUBSET Node /\ Closed(L) /\ LiveRoots \subseteq L /\ color \in [Node -> Colors]
  BY LiveClosed DEF IInv, TypeOK, Colors
<1>1. UNCHANGED <<slots, up, running, temps, held>>
  BY CollectorFrame
<1>2. L' = L
  BY <1>1, SameLive
<1>3. running' = {Main}
  BY <1>1 DEF ExactInv
<1>4. NonWhite = MarkedIn(color) /\ NonWhite' = MarkedIn(color')
  BY DEF NonWhite, MarkedIn
<1>5. CASE EnableBarrier(t)
  <2>1. Marking /\ phase' = "CONCURRENT_MARK" /\ color' = color
    BY <1>5 DEF EnableBarrier, Marking, heap
  <2>2. QED BY <1>2, <1>3, <1>4, <2>1 DEF ExactInv
<1>6. ASSUME NEW o \in Obj, MarkStep(t, o) PROVE ExactInv'
  <2> DEFINE b == [color EXCEPT ![o] = "black"]
             R == Values(o) \cup {up[o]}
  <2>1. Marking /\ phase' # "SWEEP" /\ color[o] = "gray" /\ color' = MarkFrom(b, R)
    BY <1>6 DEF MarkStep, Marking, ShadeChildren, cycle
  <2>2. o \in L
    BY <1>4, <2>1 DEF ExactInv, MarkedIn, Node
  <2>3. R \subseteq L \cup {Null}
    BY <1>0, <2>2 DEF Closed, Children
  <2>4. b \in [Node -> Colors] /\ MarkedIn(b) \subseteq L
    BY <1>0, <1>4, <2>1, <2>2 DEF ExactInv, MarkedIn, Colors
  <2> HIDE DEF b, R, L
  <2>5. MarkedIn(color') \subseteq L
    BY <1>0, <2>1, <2>3, <2>4, MarkWithin
  <2>6. QED BY <1>2, <1>3, <1>4, <2>1, <2>5 DEF ExactInv, L
<1>7. ASSUME Marking, phase' # "SWEEP", NonWhite' \subseteq NonWhite PROVE ExactInv'
  BY <1>2, <1>3, <1>7 DEF ExactInv
<1>8. CASE RemarkDone(t)
  <2>1. /\ Marking /\ Gray(color) = {} /\ phase' = "SWEEP" /\ color' = color
        /\ cursor' = {o \in Obj : color[o] # "free"}
    BY <1>8 DEF RemarkDone, Marking, heap
  <2>2. Kept' \subseteq NonWhite
    BY <1>0, <2>1 DEF Kept, NonWhite, Node, Colors
  <2>3. QED BY <1>2, <1>3, <2>1, <2>2 DEF ExactInv, Marking
<1>9. ASSUME NEW o \in Obj, SweepStep(t, o) PROVE ExactInv'
  <2>1. /\ phase = "SWEEP" /\ phase' = "SWEEP" /\ o \in cursor /\ cursor' = cursor \ {o}
        /\ color' = Sweep(color, o)
    BY <1>9 DEF SweepStep
  <2>2. \A n \in Node : n # o => color'[n] = color[n]
    BY <1>0, <2>1 DEF Sweep
  <2>3. color'[o] # "free" => color[o] # "white" /\ color[o] # "free"
    BY <1>0, <2>1 DEF Sweep, Node, IInv, ColorInv
  <2>4. Kept' \subseteq Kept
    BY <2>1, <2>2, <2>3 DEF Kept
  <2>5. QED BY <1>2, <1>3, <2>1, <2>4 DEF ExactInv, Marking
<1>10. CASE FinishCycle(t)
  BY <1>3, <1>10 DEF FinishCycle, ExactInv, Marking
<1>11. CASE Remark(t)
  BY <1>4, <1>7, <1>11 DEF Remark, Marking, heap
<1>12. ASSUME NEW o \in Obj, Whiten(t, o) PROVE ExactInv'
  <2>1. Marking /\ phase' # "SWEEP" /\ color' = [color EXCEPT ![o] = "white"]
    BY <1>12 DEF Whiten, Marking
  <2>2. NonWhite' \subseteq NonWhite
    BY <1>0, <2>1 DEF NonWhite
  <2>3. QED BY <1>7, <2>1, <2>2
<1>13. ASSUME NEW u \in Thread, ScanThread(t, u) PROVE ExactInv'
  BY <1>4, <1>7, <1>13 DEF ScanThread, Walks, Marking, heap
<1>14. ASSUME Walks(t), phase' = phase, NEW m \in LiveRoots \cup {Null}, color' = MarkFrom(color, {m})
       PROVE  ExactInv'
  <2> DEFINE R == {m}
  <2>1. Marking /\ phase' # "SWEEP" /\ MarkedIn(color) \subseteq L /\ R \subseteq L \cup {Null}
    BY <1>0, <1>4, <1>14 DEF Walks, Marking, ExactInv
  <2>2. color' = MarkFrom(color, R)
    BY <1>14
  <2> HIDE DEF L, R
  <2>3. MarkedIn(color') \subseteq L
    BY <1>0, <2>1, <2>2, MarkWithin
  <2>4. QED BY <1>2, <1>3, <1>4, <2>1, <2>3 DEF ExactInv, L
<1>15. CASE ScanGlobal(t)
  <2>1. Global \in LiveRoots \cup {Null}
    BY DEF LiveRoots, Roots
  <2>2. Walks(t) /\ phase' = phase /\ color' = MarkFrom(color, {Global})
    BY <1>15 DEF ScanGlobal
  <2>3. QED BY <1>14, <2>1, <2>2
<1>16. ASSUME NEW u \in Thread, NEW n \in Node, ScanRoot(t, u, n) PROVE ExactInv'
  <2>1. Walks(t) /\ phase' = phase
    BY <1>16 DEF ScanRoot
  <2>2. PICK m \in temps[u] \cup {Null} : color' = MarkFrom(color, {m})
    BY <1>16 DEF ScanRoot
  <2>3. m \in LiveRoots \cup {Null}
    BY DEF IInv, ThreadInv, LiveRoots, Roots
  <2>4. QED BY <1>14, <2>1, <2>2, <2>3
<1>17. QED
  BY <1>5, <1>6, <1>8, <1>9, <1>10, <1>11, <1>12, <1>13, <1>15, <1>16 DEF CollectorStep

\* No thread ends.
LEMMA RunningGrows ==
    ASSUME [Next]_vars
    PROVE  running \subseteq running'
<1>1. ASSUME NEW t \in Thread, Mutator(t) PROVE running \subseteq running'
  BY <1>1 DEF Mutator, Alloc, PushTemp, PopTemp, Discard, Call, Load, EnvDefine, EnvAssign,
              ArrayPush, ArraySet, Put, ArrayPop, Pin, Unpin, SetEnabled, Spawn, Begin, threads
<1>2. ASSUME NEW t \in Thread, Collect(t) \/ AutoCollect(t) \/ GcStep(t) PROVE running' = running
  BY <1>2 DEF Collect, AutoCollect, StartCycle, GcStep, threads
<1>3. ASSUME NEW t \in Thread, CollectorStep(t) PROVE running' = running
  BY <1>3, CollectorFrame
<1>4. QED BY <1>1, <1>2, <1>3 DEF Next, vars

\* The program runs between cycles only.
LEMMA MutatorExact ==
    ASSUME IInv, ExactInv, NEW t \in Thread, Mutator(t), running' = {Main}
    PROVE  ExactInv'
<1>1. t \in running /\ (collector # t \/ collector = Null)
  BY DEF Mutator, Alloc, PushTemp, PopTemp, Discard, Call, Load, EnvDefine, EnvAssign, ArrayPush,
         ArraySet, Put, ArrayPop, Pin, Unpin, SetEnabled, Spawn, Begin, MayDo, GoesOn, IInv, TypeOK
<1>2. phase = "IDLE"
  BY <1>1 DEF IInv, TypeOK, ThreadInv, ExactInv
<1>3. ASSUME NEW u \in Thread, NEW v \in Obj \cup {Null}, Spawn(t, u, v) PROVE FALSE
  BY <1>1, <1>3 DEF Spawn, ExactInv
<1>4. phase' = phase
  BY <1>3 DEF Mutator, Alloc, PushTemp, PopTemp, Discard, Call, Load, EnvDefine, EnvAssign,
              ArrayPush, ArraySet, Put, ArrayPop, Pin, Unpin, SetEnabled, Begin, cycle
<1>5. QED BY <1>2, <1>4 DEF ExactInv, Marking

\* Threads only ever begin: a thread that is alone was alone before.
LEMMA NextExact ==
    ASSUME SafeProgram, IInv, running = {Main} => ExactInv, [Next]_vars, running' = {Main}
    PROVE  ExactInv'
<1>0. ExactInv
  <2>1. running \subseteq running' /\ Main \in running
    BY RunningGrows DEF IInv, ThreadInv
  <2>2. QED BY <2>1
<1>1. ASSUME NEW t \in Thread, GcStep(t) PROVE FALSE
  BY <1>1 DEF GcStep, MayDo, SafeProgram
<1>2. CASE UNCHANGED vars
  <2>1. Reachable(LiveRoots)' = Reachable(LiveRoots)
    BY <1>2, SameLive DEF vars
  <2>2. Kept' = Kept /\ NonWhite' = NonWhite
    BY <1>2 DEF vars, Kept, NonWhite
  <2>3. QED BY <1>0, <1>2, <2>1, <2>2 DEF vars, ExactInv, Marking
<1>3. QED BY <1>0, <1>1, <1>2, MutatorExact, StartExact, CollectorExact DEF Next

\* What is allocated when env_sweep_unmarked is done.
LEMMA FinishExact ==
    ASSUME IInv, ExactInv, NEW t \in Thread, FinishCycle(t)
    PROVE  {n \in Node : color'[n] # "free"} = Live
<1>1. phase = "SWEEP" /\ cursor = {} /\ color' = SweptEnvs(color)
  BY DEF FinishCycle
<1>2. {n \in Node : color'[n] # "free"} = Kept
  BY <1>1 DEF Kept, SweptEnvs, Node, IInv, TypeOK
<1>3. Live = Reachable(LiveRoots) /\ Kept \in SUBSET Node
  BY DEF Live, LiveRoots, Kept
<1>4. Reachable(LiveRoots) \subseteq Kept
  BY <1>3, ReachableIn DEF IInv, HeapInv
<1>5. QED BY <1>1, <1>2, <1>3, <1>4 DEF ExactInv

\* For a safe program, whatever its heap: when gc_collect is over and no second thread has
\* been spawned, no garbage is left, cycles, closures and scopes included, and nothing that
\* is live is gone.
THEOREM CollectionFreesAllGarbage == SafeProgram => (Spec => CollectionIsExact)
<1> SUFFICES ASSUME SafeProgram PROVE Spec => CollectionIsExact
  OBVIOUS
<1> DEFINE Exact == running = {Main} => ExactInv
<1>1. Spec => []IInv
  BY SafeInv
<1>2. Init => Exact
  BY DEF Init, ExactInv, Marking
<1>3. IInv /\ Exact /\ [Next]_vars => Exact'
  BY NextExact
<1>4. IInv /\ Exact /\ [Next]_vars =>
          [\A t \in Thread : FinishCycle(t) /\ running = {t} =>
               {n \in Node : color'[n] # "free"} = Live]_vars
  BY FinishExact DEF IInv, ThreadInv
<1>5. QED BY <1>1, <1>2, <1>3, <1>4, PTL DEF Spec, CollectionIsExact

-----------------------------------------------------------------------------
(* The write barrier.                                                        *)

\* A program that marks in steps between its own.  It has one thread, calls no function,
\* which would create a scope, and pops no array, which has no barrier.
SteppedProgram == SoloOps \subseteq {"alloc", "load", "define", "store", "toggle", "gcstep"}

\* Its marking may be left where it is, with the barrier up and no collector.
StepInv ==
    /\ GraphInv
    /\ running = {Main} /\ starting = {} /\ pinning = {}
    /\ barrier <=> phase \in {"CONCURRENT_MARK", "REMARK"}
    /\ collector # Null => phase # "IDLE" /\ held[Main] = {}

-----------------------------------------------------------------------------
(* The program's steps, while nothing or a mark is under way.                *)

\* A set the marker could end up with, less what is not allocated.
LEMMA WithinKept ==
    ASSUME GraphInv, phase = "CONCURRENT_MARK", NEW X \in SUBSET Node, NonWhite \subseteq X,
           \A n \in X \cap Kept : color[n] # "black" => Children(n) \subseteq X
    PROVE  LiveRoots \subseteq X \cap Kept /\ Closed(X \cap Kept)
<1> DEFINE Y == X \cap Kept
<1>1. NonWhite \subseteq Kept
  BY DEF NonWhite, Kept
<1>2. \A n \in Kept : Children(n) \subseteq Kept
  BY DEF GraphInv, HeapInv, Closed
<1>3. Y \in SUBSET Node /\ Markable(Y)
  BY <1>1, <1>2 DEF Markable
<1>4. QED BY <1>3 DEF GraphInv, MarkInv, Marking, Ahead

\* gc_alloc while a mark is under way: the new object is black and holds what is live.
LEMMA AllocMarks ==
    ASSUME GraphInv, NEW t \in running, NEW o \in Obj, color[o] = "free",
           NEW e \in (temps[t] \cap Env) \cup {Null}, phase \in {"IDLE", "CONCURRENT_MARK"},
           color' = [color EXCEPT ![o] = IF phase = "CONCURRENT_MARK" THEN "black" ELSE "white"],
           slots' = [slots EXCEPT ![o] = NoSlots], up' = [up EXCEPT ![o] = e],
           held' = [held EXCEPT ![t] = @ \cup {o}], UNCHANGED <<phase, cursor, running, temps>>
    PROVE  ColorInv' /\ HeapInv' /\ MarkInv'
<1>0. o \in Node /\ Obj \cap Env = {} /\ t \in Thread
  BY DEF Node, GraphInv, TypeOK
<1>1. Kept' = Kept \cup {o} /\ o \notin Kept
  BY <1>0 DEF Kept, GraphInv, TypeOK
<1>2. LiveRoots' = LiveRoots \cup {o}
  BY <1>0 DEF LiveRoots, Roots, GraphInv, TypeOK
<1>3. e = Null \/ e \in LiveRoots
  BY DEF LiveRoots, Roots
<1>4. Children(o)' \subseteq LiveRoots
  BY <1>0, <1>3 DEF Children, Values, NoSlots, GraphInv, TypeOK
<1>5. \A n \in Node : n # o => Children(n)' = Children(n) /\ color'[n] = color[n]
  BY DEF Children, Values, GraphInv, TypeOK
<1>6. HeapInv'
  BY <1>1, <1>2, <1>4, <1>5 DEF GraphInv, HeapInv, Closed, Kept
<1>7. ColorInv'
  BY <1>0 DEF GraphInv, ColorInv, TypeOK
<1>8. ASSUME Marking', NEW X \in SUBSET Node, Markable(X)'
      PROVE  LiveRoots' \subseteq X /\ Closed(X)'
  <2>1. Marking /\ phase = "CONCURRENT_MARK" /\ color'[o] = "black"
    BY <1>0, <1>8 DEF Marking, GraphInv, TypeOK
  <2>2. NonWhite' \subseteq X /\ \A n \in X : color'[n] # "black" => Children(n)' \subseteq X
    BY <1>8 DEF Markable
  <2>3. NonWhite \subseteq X /\ o \in X
    BY <1>0, <1>5, <2>1, <2>2 DEF NonWhite
  <2>4. \A n \in X \cap Kept : color[n] # "black" => Children(n) \subseteq X
    BY <1>1, <1>5, <2>2
  <2>5. LiveRoots \subseteq X \cap Kept /\ Closed(X \cap Kept)
    BY <2>1, <2>3, <2>4, WithinKept
  <2>6. ASSUME NEW n \in X PROVE Children(n)' \subseteq X
    <3>1. CASE n = o
      BY <1>4, <2>5, <3>1
    <3>2. CASE n # o /\ color'[n] = "black"
      <4>1. n \in Kept
        BY <1>5, <2>1, <3>2 DEF Kept
      <4>2. QED BY <1>5, <2>5, <3>2, <4>1 DEF Closed
    <3>3. CASE color'[n] # "black"
      BY <2>2, <3>3
    <3>4. QED BY <3>1, <3>2, <3>3
  <2>7. QED BY <1>2, <2>3, <2>5, <2>6 DEF Closed
<1>9. QED BY <1>6, <1>7, <1>8 DEF MarkInv

\* GC_WRITE_BARRIER: a slot is overwritten while a mark is under way, and what it held is
\* shaded: it, and what only it led to, stays within reach of the marker.
LEMMA StoreMarks ==
    ASSUME GraphInv, phase = "CONCURRENT_MARK", NEW n \in Node, NEW s \in Slot, NEW v,
           v = Null \/ v \in Reachable(LiveRoots),
           slots' = [slots EXCEPT ![n][s] = v], color' = Shade(color, {slots[n][s]}),
           UNCHANGED <<up, phase, cursor, running, temps, held>>
    PROVE  ColorInv' /\ HeapInv' /\ MarkInv'
<1> DEFINE old == slots[n][s]
<1>0. Marking /\ old \in Obj \cup {Null} /\ Obj \subseteq Node
      /\ color \in [Node -> {"free", "white", "gray", "black"}]
  BY DEF Marking, GraphInv, TypeOK, Node
<1>1. \A m \in Node : color'[m] = IF m = old /\ m \in Obj /\ color[m] = "white"
                                  THEN "gray" ELSE color[m]
  BY DEF Shade
<1>2. \A m \in Node : /\ Children(m)' \subseteq Children(m) \cup ({v} \ {Null})
                      /\ Children(m) \subseteq Children(m)' \cup ({old} \cap Children(m))
  <2>1. up' = up /\ \A m \in Node, r \in Slot : slots'[m][r] = IF m = n /\ r = s THEN v ELSE slots[m][r]
    BY DEF GraphInv, TypeOK
  <2> HIDE DEF old
  <2>2. slots[n][s] = old
    BY DEF old
  <2>3. ASSUME NEW m \in Node
        PROVE  /\ Values(m)' \subseteq Values(m) \cup ({v} \ {Null})
               /\ Values(m) \subseteq Values(m)' \cup ({old} \cap Values(m))
    BY <2>1, <2>2 DEF Values
  <2>4. \A m \in Node : Children(m)' \subseteq Children(m) \cup ({v} \ {Null})
    BY <2>1, <2>3 DEF Children
  <2>5. \A m \in Node : Children(m) \subseteq Children(m)' \cup ({old} \cap Children(m))
    BY <2>1, <2>3 DEF Children
  <2>6. QED BY <2>4, <2>5
<1> HIDE DEF old
<1>3. Kept' = Kept /\ LiveRoots' = LiveRoots /\ Kept \in SUBSET Node
  <2>1. \A m \in Node : color'[m] = "free" <=> color[m] = "free"
    BY <1>1
  <2>2. phase # "SWEEP" /\ phase' # "SWEEP"
    OBVIOUS
  <2>3. Kept' = Kept /\ Kept \in SUBSET Node
    BY <2>1, <2>2 DEF Kept
  <2>4. LiveRoots' = LiveRoots
    BY DEF LiveRoots, Roots
  <2>5. QED BY <2>3, <2>4
<1>4. ASSUME NEW S \in SUBSET Node, LiveRoots \subseteq S, Closed(S)
      PROVE  v = Null \/ v \in S
  BY <1>4, ReachableIn
<1>5. HeapInv'
  <2>1. v = Null \/ v \in Kept
    BY <1>3, <1>4 DEF GraphInv, HeapInv
  <2>2. QED BY <1>2, <1>3, <2>1 DEF GraphInv, HeapInv, Closed
<1>6. ColorInv'
  BY DEF ColorInv
<1>7. ASSUME NEW X \in SUBSET Node, Markable(X)'
      PROVE  LiveRoots' \subseteq X /\ Closed(X)'
  <2>1. NonWhite' \subseteq X /\ \A m \in X : color'[m] # "black" => Children(m)' \subseteq X
    BY <1>7 DEF Markable
  <2>2. NonWhite \subseteq X
    BY <1>1, <2>1 DEF NonWhite
  <2>3. ASSUME NEW m \in X \cap Kept, color[m] # "black" PROVE Children(m) \subseteq X
    <3>1. color'[m] # "black"
      BY <1>1, <2>3
    <3>2. old \in Children(m) => old \in X
      <4>1. Children(m) \subseteq Kept
        BY DEF GraphInv, HeapInv, Closed
      <4>2. old \in Children(m) => color[old] # "free" /\ old \in Node /\ old # Null
        BY <4>1 DEF Kept, Children, Values
      <4>3. old \in Children(m) => color'[old] \in {"gray", "black"}
        BY <1>0, <1>1, <4>2
      <4>4. QED BY <2>1, <4>2, <4>3 DEF NonWhite
    <3>3. QED BY <1>2, <2>1, <3>1, <3>2
  <2>4. LiveRoots \subseteq X \cap Kept /\ Closed(X \cap Kept)
    BY <1>0, <2>2, <2>3, WithinKept
  <2>5. v = Null \/ v \in X
    BY <1>3, <1>4, <2>4
  <2>6. ASSUME NEW m \in X PROVE Children(m)' \subseteq X
    <3>1. CASE color'[m] = "black"
      <4>1. m \in Kept
        BY <1>0, <1>1, <3>1 DEF Kept, Marking
      <4>2. Children(m) \subseteq X
        BY <2>4, <4>1 DEF Closed
      <4>3. QED BY <1>2, <2>5, <4>2
    <3>2. CASE color'[m] # "black"
      BY <2>1, <3>2
    <3>3. QED BY <3>1, <3>2
  <2>7. QED BY <1>3, <2>4, <2>6 DEF Closed
<1>8. QED BY <1>5, <1>6, <1>7 DEF MarkInv

\* While the program runs, nothing or a mark is under way.
LEMMA ProgramRuns ==
    ASSUME StepInv, NEW t \in running, collector # t
    PROVE  /\ collector = Null /\ phase \in {"IDLE", "CONCURRENT_MARK"} /\ cursor = {}
           /\ (barrier <=> phase = "CONCURRENT_MARK")
BY DEF StepInv, GraphInv, TypeOK

LEMMA PutMarks ==
    ASSUME StepInv, NEW t \in Thread, NEW n \in Node, NEW s \in Slot,
           NEW v \in Obj \cup {Null}, Put(t, n, s, v),
           color' = Barrier(slots[n][s]) \/ (slots[n][s] = Null /\ color' = color)
    PROVE  ColorInv' /\ HeapInv' /\ MarkInv'
<1>1. t \in running /\ phase \in {"IDLE", "CONCURRENT_MARK"} /\ (barrier <=> phase = "CONCURRENT_MARK")
  BY ProgramRuns DEF Put, MayDo
<1>2. v = Null \/ v \in Reachable(LiveRoots)
  BY <1>1, AccessibleIsReachable DEF Put, Accessible, StepInv, GraphInv
<1>3. GraphInv /\ slots' = [slots EXCEPT ![n][s] = v]
      /\ UNCHANGED <<up, phase, cursor, running, temps, held>>
  BY DEF Put, cycle, threads, StepInv
<1>4. CASE phase = "CONCURRENT_MARK" /\ slots[n][s] # Null
  <2>1. color' = Shade(color, {slots[n][s]})
    BY <1>1, <1>4 DEF Barrier
  <2>2. QED BY <1>2, <1>3, <1>4, <2>1, StoreMarks
<1>5. CASE phase = "IDLE" \/ slots[n][s] = Null
  <2>1. color' = color
    BY <1>1, <1>5 DEF Barrier, Shade, StepInv, GraphInv, TypeOK, Node
  <2>2. QED BY <1>1, <1>2, <1>3, <1>5, <2>1, SlotFilled
<1>6. QED BY <1>1, <1>4, <1>5

LEMMA MutatorMarks ==
    ASSUME SteppedProgram, StepInv, NEW t \in Thread, Mutator(t)
    PROVE  StepInv'
<1>0. TypeOK' /\ TypeOK /\ GraphInv
  BY MutatorType DEF StepInv, GraphInv
<1>1. t \in running /\ collector # t
  BY DEF Mutator, Alloc, PushTemp, PopTemp, Discard, Call, Load, EnvDefine, EnvAssign, ArrayPush,
         ArraySet, Put, ArrayPop, Pin, Unpin, SetEnabled, Spawn, Begin, MayDo, GoesOn, StepInv
<1>2. /\ pinning = {} /\ starting = {} /\ collector = Null
      /\ phase \in {"IDLE", "CONCURRENT_MARK"}
      /\ (barrier <=> phase = "CONCURRENT_MARK")
  BY <1>1, ProgramRuns DEF StepInv
<1>3. \A op : MayDo(t, op) => op \in {"alloc", "load", "define", "store", "toggle", "gcstep"}
  <2>1. \A u \in running \ {t} : AtRest(u)
    BY <1>1 DEF StepInv
  <2>2. QED BY <1>2, <2>1 DEF MayDo, SteppedProgram
<1>4. ASSUME UNCHANGED <<cycle, pinning, threads>>, ColorInv' /\ HeapInv' /\ MarkInv'
      PROVE  StepInv'
  <2>1. UNCHANGED <<phase, barrier, collector, pinning, running, starting>>
    BY <1>4 DEF cycle, threads
  <2>2. WalkInv'
    BY <1>2, <2>1 DEF WalkInv
  <2>3. QED BY <1>0, <1>2, <1>4, <2>1, <2>2 DEF StepInv, GraphInv
<1>5. ASSUME NEW o \in Obj, NEW e \in Env \cup {Null}, Alloc(t, o, e) PROVE StepInv'
  <2>1. /\ color[o] = "free" /\ e \in (temps[t] \cap Env) \cup {Null}
        /\ color' = [color EXCEPT ![o] = IF phase = "CONCURRENT_MARK" THEN "black" ELSE "white"]
        /\ slots' = [slots EXCEPT ![o] = NoSlots] /\ up' = [up EXCEPT ![o] = e]
        /\ held' = [held EXCEPT ![t] = @ \cup {o}]
        /\ UNCHANGED <<phase, cursor, running, temps, cycle, pinning, threads>>
    BY <1>2, <1>5 DEF Alloc, cycle, threads
  <2>2. ColorInv' /\ HeapInv' /\ MarkInv'
    BY <1>0, <1>1, <1>2, <2>1, AllocMarks
  <2>3. QED BY <1>4, <2>1, <2>2
<1>6. ASSUME \/ \E n \in Node : PushTemp(t, n) \/ PopTemp(t, n)
             \/ \E o \in Obj : Discard(t, o)
      PROVE  StepInv'
  <2>0. UNCHANGED <<color, slots, up, phase, cursor, running, cycle, pinning, threads>>
    BY <1>6 DEF PushTemp, Discard, PopTemp, heap, cycle, threads
  <2>1. LiveRoots' \subseteq LiveRoots
    <3>1. \A u \in running : temps'[u] \cup held'[u] \subseteq temps[u] \cup held[u]
      <4>1. temps \in [Thread -> SUBSET Node] /\ held \in [Thread -> SUBSET Node] /\ running \subseteq Thread
        BY <1>0 DEF TypeOK
      <4>2. QED BY <4>1, <1>1, <1>6 DEF PushTemp, Discard, PopTemp
    <3>2. QED BY <2>0, <3>1 DEF LiveRoots, Roots
  <2>2. ColorInv' /\ HeapInv' /\ MarkInv'
    BY <1>0, <1>1, <1>2, <2>0, <2>1, AccessibleIsReachable, RootsMove
  <2>3. QED BY <1>4, <2>0, <2>2
<1>7. ASSUME NEW n \in Node, NEW s \in Slot, Load(t, n, s) PROVE StepInv'
  <2>1. /\ UNCHANGED <<color, slots, up, phase, cursor, running, cycle, pinning, threads>>
        /\ LiveRoots' \subseteq LiveRoots \cup {slots[n][s]}
    BY <1>0, <1>1, <1>7 DEF Load, LiveRoots, Roots, TypeOK, heap, cycle, threads
  <2>2. slots[n][s] \in Reachable(LiveRoots)
    <3>1. n \in Reachable(LiveRoots) /\ slots[n][s] \in Children(n)
      BY <1>0, <1>1, <1>7, AccessibleIsReachable DEF Load, Children, Values
    <3>2. QED BY <1>0, <1>1, <3>1, AccessibleIsReachable
  <2>3. ColorInv' /\ HeapInv' /\ MarkInv'
    BY <1>0, <1>1, <1>2, <2>1, <2>2, AccessibleIsReachable, RootsMove
  <2>4. QED BY <1>4, <2>1, <2>3
<1>8. ASSUME NEW n \in Node, NEW s \in Slot, NEW v \in Obj \cup {Null}, Put(t, n, s, v),
             color' = Barrier(slots[n][s]) \/ (slots[n][s] = Null /\ color' = color)
      PROVE  StepInv'
  BY <1>4, <1>8, PutMarks DEF Put, StepInv
<1>9. ASSUME NEW b \in BOOLEAN, SetEnabled(t, b) PROVE StepInv'
  <2>1. /\ UNCHANGED <<color, slots, up, phase, cursor, running, cycle, pinning, threads>>
        /\ LiveRoots' = LiveRoots
    BY <1>9 DEF SetEnabled, LiveRoots, Roots, heap, cycle, threads
  <2>2. ColorInv' /\ HeapInv' /\ MarkInv'
    BY <1>0, <1>1, <1>2, <2>1, AccessibleIsReachable, RootsMove
  <2>3. QED BY <1>4, <2>1, <2>2
<1>10. ASSUME \/ \E u \in Thread, v \in Obj \cup {Null} : Spawn(t, u, v)
              \/ \E e \in Env, b \in [Slot -> held[t] \cup {Null}] : Begin(t, e, b)
       PROVE  FALSE
  BY <1>2, <1>3, <1>10 DEF Spawn, Begin
<1>11. ASSUME \/ \E e, p \in Env : Call(t, e, p)
              \/ \E o \in Obj, s \in Slot : ArrayPop(t, o, s)
              \/ Pin(t) \/ Unpin(t)
       PROVE  FALSE
  BY <1>2, <1>3, <1>11 DEF Call, ArrayPop, Pin, Unpin
<1>12. Env \subseteq Node /\ Obj \subseteq Node
  BY DEF Node
<1>13. QED
  BY <1>5, <1>6, <1>7, <1>8, <1>9, <1>10, <1>11, <1>12
     DEF Mutator, EnvDefine, EnvAssign, ArrayPush, ArraySet

-----------------------------------------------------------------------------
(* The collector's steps.                                                    *)

\* gc_alloc at a threshold starts a whole cycle.
LEMMA AutoCollectMarks ==
    ASSUME StepInv, NEW t \in Thread, AutoCollect(t)
    PROVE  StepInv'
<1>1. /\ StartCycle(t) /\ t \in running /\ phase = "IDLE" /\ held[t] = {}
      /\ running = {t} /\ t = Main
  BY DEF AutoCollect, MayDo, Evaluating, StepInv
<1>2. barrier = FALSE /\ GraphInv /\ pinning = {} /\ starting = {}
  BY <1>1 DEF StepInv, GraphInv, TypeOK
<1>3. phase' = "ROOT_SCAN" /\ UNCHANGED <<barrier, pinning, running, starting, temps, held>>
  BY <1>1 DEF StartCycle, threads
<1>4. GraphInv'
  BY <1>1, <1>2, StartGraph
<1>5. QED BY <1>1, <1>2, <1>3, <1>4 DEF StepInv

LEMMA CycleMarks ==
    ASSUME StepInv, NEW t \in Thread, CollectorStep(t)
    PROVE  StepInv'
<1>1. GraphInv'
  BY CollectorGraph DEF StepInv
<1>2. /\ collector = t /\ t # Null /\ UNCHANGED <<pinning, running, starting, temps, held>>
      /\ (collector' = Null \/ phase' # "IDLE")
      /\ (barrier' <=> phase' \in {"CONCURRENT_MARK", "REMARK"})
  BY CollectorFrame DEF StepInv
<1>3. QED BY <1>1, <1>2 DEF StepInv

\* gc.step: the next gray object, or the roots and the first of what they name.
LEMMA GcStepMarks ==
    ASSUME SteppedProgram, StepInv, NEW t \in Thread, GcStep(t)
    PROVE  StepInv'
<1>1. running = {t} /\ collector # t /\ held[t] = {}
  BY DEF GcStep, MayDo, Evaluating, StepInv
<1>2. /\ t = Main /\ collector = Null /\ pinning = {} /\ starting = {} /\ GraphInv /\ TypeOK
      /\ phase \in {"IDLE", "CONCURRENT_MARK"} /\ (barrier <=> phase = "CONCURRENT_MARK")
  BY <1>1, ProgramRuns DEF StepInv, GraphInv
<1>3. UNCHANGED <<slots, up, cursor, collector, pinning, running, starting, temps, held>>
  BY DEF GcStep, threads
<1>4. /\ phase' = "CONCURRENT_MARK" /\ barrier' = TRUE
      /\ AllocatedIn(color') = AllocatedIn(color) /\ Leads(color', {})
  <2>1. CASE Gray(color) # {}
    <3>1. PICK o \in Obj : color[o] = "gray" /\ color' = ShadeChildren(color, o)
      BY <2>1 DEF GcStep, Gray
    <3>2. phase = "CONCURRENT_MARK"
      BY <1>2, <3>1 DEF GraphInv, ColorInv, Node
    <3>3. UNCHANGED <<phase, barrier>>
      BY <2>1 DEF GcStep
    <3>4. color \in [Node -> Colors] /\ Allocated(color) /\ Leads(color, {})
      BY <1>2, <3>2, GraphColors DEF Marking, Ahead
    <3>5. QED BY <1>2, <3>1, <3>2, <3>3, <3>4, ShadeChildrenLeads
  <2>2. CASE Gray(color) = {}
    <3> DEFINE c == RootScan(color)
    <3>1. phase = "IDLE"
      BY <1>1, <1>2, <2>2 DEF GcStep, MayDo, SteppedProgram
    <3>2. /\ phase' = "CONCURRENT_MARK" /\ barrier' = TRUE
          /\ color' = c \/ \E o \in Gray(c) : color' = ShadeChildren(c, o)
      BY <2>2 DEF GcStep
    <3>3. c \in [Node -> Colors] /\ AllocatedIn(c) = AllocatedIn(color) /\ Leads(c, {})
      BY <1>1, <1>2, <3>1, RootScanLeads
    <3>4. Allocated(c)
      BY <1>2, <3>1, <3>3, GraphColors DEF Allocated
    <3> HIDE DEF c
    <3>5. \A o \in Gray(c) : o \in Obj /\ c[o] = "gray"
      BY DEF Gray
    <3>6. QED BY <1>2, <3>2, <3>3, <3>4, <3>5, ShadeChildrenLeads
  <2>3. QED BY <2>1, <2>2
<1>5. HeapInv' /\ MarkInv'
  <2>1. Ahead' = {}
    BY <1>4 DEF Ahead
  <2>2. QED BY <1>2, <1>3, <1>4, <2>1, MarkingStep
<1>6. TypeOK' /\ ColorInv' /\ WalkInv'
  BY <1>2, <1>4, GcStepType DEF ColorInv, WalkInv
<1>7. QED BY <1>2, <1>3, <1>4, <1>5, <1>6 DEF StepInv, GraphInv

LEMMA StepInvHolds == SteppedProgram => (Spec => []StepInv)
<1> SUFFICES ASSUME SteppedProgram PROVE Spec => []StepInv
  OBVIOUS
<1>1. Init => StepInv
  BY InitGraph DEF Init, StepInv
<1>2. StepInv /\ [Next]_vars => StepInv'
  <2> SUFFICES ASSUME StepInv, [Next]_vars PROVE StepInv'
    OBVIOUS
  <2>1. ASSUME NEW t \in Thread, Collect(t) PROVE FALSE
    <3>1. \A u \in running \ {t} : AtRest(u)
      BY <2>1 DEF Collect, MayDo, StepInv
    <3>2. QED BY <2>1, <3>1 DEF Collect, MayDo, SteppedProgram
  <2>2. CASE UNCHANGED vars
    BY <2>2, GraphStutters DEF vars, StepInv
  <2>3. QED BY <2>1, <2>2, MutatorMarks, AutoCollectMarks, CycleMarks, GcStepMarks DEF Next
<1>3. QED BY <1>1, <1>2, PTL DEF Spec

-----------------------------------------------------------------------------
(* The theorems.                                                             *)

\* What the invariant says of every set the marker could end up with, it says of the least.
LEMMA GraphProtects == GraphInv => GrayProtected
<1> SUFFICES ASSUME GraphInv, phase = "CONCURRENT_MARK", NEW n \in Live, NEW S \in SUBSET Node,
                    {m \in Node : color[m] \in {"gray", "black"}} \subseteq S,
                    \A m \in S : (IF color[m] = "black" THEN {} ELSE Children(m)) \subseteq S
             PROVE  n \in S
  BY DEF GrayProtected, Live, Reachable
<1>1. Markable(S) /\ Marking
  BY DEF Markable, NonWhite, Marking
<1>2. LiveRoots \subseteq S /\ Closed(S)
  BY <1>1 DEF GraphInv, MarkInv, Ahead
<1>3. QED BY <1>2, ReachableIn DEF Live, LiveRoots

\* For the safe programs, and those of one thread that mark in steps without calling a
\* function or popping an array: while gc_mark_step has work,
\* every live object it has not come to is reachable from one on the mark stack, past
\* stores (GC_WRITE_BARRIER), allocations and root changes in any order.
THEOREM BarrierProtects == SafeProgram \/ SteppedProgram => (Spec => []GrayProtected)
<1>1. CASE SafeProgram
  <2>1. IInv => GrayProtected
    BY GraphOf, GraphProtects
  <2>2. Spec => []IInv
    BY <1>1, SafeInv
  <2>3. QED BY <2>1, <2>2, PTL
<1>2. CASE SteppedProgram
  <2>1. StepInv => GrayProtected
    BY GraphProtects DEF StepInv
  <2>2. Spec => []StepInv
    BY <1>2, StepInvHolds
  <2>3. QED BY <2>1, <2>2, PTL
<1>3. QED BY <1>1, <1>2

\* For the programs of one thread that mark in steps, whatever the order of the program's
\* steps and gc.step's, and of the whole cycles gc_alloc starts before the first: nothing
\* live is released.
THEOREM SteppingIsSafe == SteppedProgram => (Spec => []NoDangling)
<1> SUFFICES ASSUME SteppedProgram PROVE Spec => []NoDangling
  OBVIOUS
<1>1. StepInv => NoDangling
  BY GraphSafe DEF StepInv
<1>2. QED BY <1>1, StepInvHolds, PTL
=============================================================================
