------------------------------ MODULE TracingGC ------------------------------
(***************************************************************************)
(* The tracing collector of SageGC (src/src/gc.c) with the scope chains it *)
(* sweeps (src/src/env.c) and the interpreter threads that run against it. *)
(*                                                                         *)
(* The heap is a graph over Node == Obj \cup Env.  An object or a scope    *)
(* has value slots (array elements, dict values, instance fields, variable *)
(* values) and one lexical link "up": a scope's parent, a function's       *)
(* closure.  color is the header's color field, "free" for an identity     *)
(* that is in no list; a scope's `marked` flag is its color: "white" is    *)
(* marked = 0 and "black" is marked = 1.  The mark stack holds exactly the *)
(* gray objects, so it is not a variable of its own (Gray below).          *)
(***************************************************************************)
EXTENDS Naturals, FiniteSets

CONSTANTS Obj,       \* identities of heap objects (GCHeader blocks)
          Env,       \* identities of scopes (Env blocks)
          Slot,      \* value slots of an object or a scope
          Thread,    \* interpreter threads
          Main,      \* the thread that starts the program
          Global,    \* g_global_env
          Null,      \* no object, no scope, no thread; a value with no heap part
          SoloOps,   \* what a thread of the program does while the others are at rest
          SharedOps, \* what it does while another is not: see AtRest
          BesideOps  \* what it does while another is inside gc_collect

\* What a program may ask for.  "collectPinned" is gc.collect() evaluated inside a literal
\* or an argument list; "gcstep" is gc.step() up to the end of one mark and "restep" a
\* gc.step() after it; "evaluate" is going on with what is begun: rooting a value or a
\* scope, dropping one, ending a literal, returning.
Operations == {"alloc", "call", "load", "define", "store", "pop", "pin", "toggle",
               "collect", "collectPinned", "gcstep", "restep", "spawn", "evaluate"}

ASSUME HeapAssumption ==
    /\ Obj \cap Env = {}
    /\ Null \notin Obj \cup Env \cup Thread
    /\ Global \in Env
    /\ Main \in Thread
    /\ SoloOps \subseteq Operations
    /\ SharedOps \cup BesideOps \subseteq Operations \ {"gcstep", "restep"}

Node   == Obj \cup Env
Phases == {"IDLE", "ROOT_SCAN", "CONCURRENT_MARK", "REMARK", "SWEEP"}

VARIABLES
    color,      \* Node -> "free" | "white" | "gray" | "black"
    slots,      \* Node -> (Slot -> Obj or Null)
    up,         \* Node -> Env or Null
    phase,      \* gc.phase
    barrier,    \* gc.barrier_active
    enabled,    \* gc.enabled
    pinning,    \* threads inside gc_pin .. gc_unpin; pin_count > 0 iff non-empty
    cursor,     \* objects the whitening loop or gc_sweep_step has still to visit
    walk,       \* what gc_mark_all_roots has still to visit: see Entries
    collector,  \* the thread inside gc_collect (holds gc_mutex and the cycle mutex)
    running,    \* threads in the registry
    temps,      \* per thread: its gc_root_stack and its AST_GC_PUSH'ed values
    held,       \* per thread: nodes only a C local of the interpreter refers to
    starting    \* threads spawned whose scope is not created yet

heap    == <<color, slots, up>>
cycle   == <<phase, barrier, cursor, walk, collector>>
threads == <<running, starting>>
vars    == <<color, slots, up, phase, barrier, enabled, pinning, cursor, walk,
             collector, running, temps, held, starting>>

NoSlots == [s \in Slot |-> Null]

Init ==
    /\ color = [n \in Node |-> IF n = Global THEN "white" ELSE "free"]
    /\ slots = [n \in Node |-> NoSlots]
    /\ up = [n \in Node |-> Null]
    /\ phase = "IDLE"
    /\ barrier = FALSE
    /\ enabled = TRUE
    /\ pinning = {}
    /\ cursor = {}
    /\ walk = {}
    /\ collector = Null
    /\ running = {Main}
    /\ starting = {}
    /\ temps = [t \in Thread |-> {}]
    /\ held = [t \in Thread |-> {}]

-----------------------------------------------------------------------------
(* Marking.  Each operator takes the colors before and gives those after. *)

Values(n) == {slots[n][s] : s \in Slot} \ {Null}

\* gc_try_shade: a white object turns gray and goes on the mark stack.
Shade(c, S) ==
    [n \in Node |-> IF n \in S \cap Obj /\ c[n] = "white" THEN "gray" ELSE c[n]]

\* The scopes gc_mark_env visits from the scopes in E: each scope chain up to,
\* and not past, the first scope that is already marked.
Chain(c, E) ==
    LET Unmarked == {e \in Env : c[e] = "white"}
        IsChain(S) == /\ E \cap Unmarked \subseteq S
                      /\ \A e \in S : up[e] \in Unmarked => up[e] \in S
    IN  {e \in Unmarked : \A S \in SUBSET Unmarked : IsChain(S) => e \in S}

\* gc_mark_env marks a scope and shades its values; gc_mark_value shades.
MarkFrom(c, R) ==
    LET M == Chain(c, R)
    IN  Shade([n \in Node |-> IF n \in M THEN "black" ELSE c[n]],
              R \cup UNION {Values(e) : e \in M})

Gray(c) == {o \in Obj : c[o] = "gray"}

\* Mutant of ShadeChildren: a function's closure is forgotten.
ShadeNoClosure(c, o) == MarkFrom([c EXCEPT ![o] = "black"], Values(o))

\* gc_shade_children: the object's values and closure, then the object is black.
ShadeChildren(c, o) ==
    MarkFrom([c EXCEPT ![o] = "black"], Values(o) \cup {up[o]})

\* gc_mark_all_roots: the global scope and every registered thread's roots.
Roots == {Global} \cup UNION {temps[t] : t \in running}

\* gc_begin_cycle up to the barrier, when nothing runs beside it: objects turn white,
\* scope marks are kept, the roots are marked.
RootScan(c) ==
    MarkFrom([n \in Node |-> IF n \in Obj /\ c[n] # "free" THEN "white" ELSE c[n]],
             Roots)

-----------------------------------------------------------------------------
(* The collection cycle, run by the thread inside gc_collect.              *)

\* A thread is at rest when every value and scope of its own is rooted.  The scope of a
\* call is not between env_create and interpret, nor are a new thread's arguments.
AtRest(u) == held[u] = {}

MayDo(t, op) ==
    /\ t \in running \ starting
    /\ collector # t
    /\ op \in (IF collector # Null THEN BesideOps
               ELSE IF \A u \in running \ {t} : AtRest(u) THEN SoloOps
               ELSE SharedOps)

\* The thread goes on with what it has begun.
GoesOn(t) ==
    /\ t \in running \ starting
    /\ collector # t
    /\ collector # Null => "evaluate" \in BesideOps

\* A thread with a value only in a C local roots, stores or discards it before it
\* evaluates anything else; a pinned region (a literal or a call's arguments being
\* built) goes on evaluating with such values.
Evaluating(t) == held[t] = {} \/ (t \in pinning /\ held[t] \subseteq Obj)

\* gc_begin_cycle begins: the whitening loop is ahead, and the walk over the roots, which
\* begins at the global scope.
StartCycle(t) ==
    /\ collector' = t
    /\ phase' = "ROOT_SCAN"
    /\ cursor' = {o \in Obj : color[o] # "free"}
    /\ walk' = {<<Null, Global>>}
    /\ UNCHANGED <<heap, barrier, enabled, pinning, threads, temps, held>>

\* gc.collect() / gc_collect(): only `enabled` and the cycle mutex are looked at.
Collect(t) ==
    /\ MayDo(t, IF t \in pinning THEN "collectPinned" ELSE "collect")
    /\ Evaluating(t)
    /\ enabled
    /\ collector = Null
    /\ StartCycle(t)

\* gc_alloc at a threshold: gc_should_collect, then gc_collect.
AutoCollect(t) ==
    /\ MayDo(t, "alloc")
    /\ Evaluating(t)
    /\ enabled /\ pinning = {} /\ phase = "IDLE"
    /\ collector = Null
    /\ StartCycle(t)

\* One turn of the whitening loop.
Whiten(t, o) ==
    /\ collector = t
    /\ phase = "ROOT_SCAN"
    /\ o \in cursor
    /\ color' = [color EXCEPT ![o] = "white"]
    /\ cursor' = cursor \ {o}
    /\ UNCHANGED <<slots, up, phase, barrier, walk, collector, enabled, pinning, threads, temps, held>>

\* gc_mark_all_roots runs with the other threads, at the start of a cycle and in the
\* remark.  An entry <<Null, Global>> stands for the global scope, <<u, Null>> for the
\* stacks of thread u when the walk gets to it, <<u, n>> for root n of u.
Entries == {<<Null, Global>>} \cup Thread \X (Node \cup {Null})

Walks(t) ==
    /\ collector = t
    /\ phase = "REMARK" \/ (phase = "ROOT_SCAN" /\ cursor = {})

ScanGlobal(t) ==
    /\ Walks(t)
    /\ <<Null, Global>> \in walk
    /\ color' = MarkFrom(color, {Global})
    /\ walk' = running \X {Null}
    /\ UNCHANGED <<slots, up, phase, barrier, cursor, collector, enabled, pinning, threads, temps, held>>

\* gc_mark_thread_roots reads where the stacks of a registered thread end ...
ScanThread(t, u) ==
    /\ Walks(t)
    /\ <<u, Null>> \in walk
    /\ walk' = (walk \ {<<u, Null>>}) \cup {u} \X temps[u]
    /\ UNCHANGED <<heap, phase, barrier, cursor, collector, enabled, pinning, threads, temps, held>>

\* ... and visits each entry.  One that has left the stack meanwhile may have been
\* overwritten by another.
ScanRoot(t, u, n) ==
    /\ Walks(t)
    /\ <<u, n>> \in walk
    /\ \E m \in (IF n \in temps[u] THEN {n} ELSE temps[u] \cup {Null}) :
           color' = MarkFrom(color, {m})
    /\ walk' = walk \ {<<u, n>>}
    /\ UNCHANGED <<slots, up, phase, barrier, cursor, collector, enabled, pinning, threads, temps, held>>

\* The end of gc_begin_cycle.
EnableBarrier(t) ==
    /\ collector = t
    /\ phase = "ROOT_SCAN"
    /\ cursor = {} /\ walk = {}
    /\ barrier' = TRUE
    /\ phase' = "CONCURRENT_MARK"
    /\ UNCHANGED <<heap, enabled, pinning, cursor, walk, collector, threads, temps, held>>

\* gc_mark_step, and the drain loop of gc_remark, one gray object at a time.
MarkStep(t, o) ==
    /\ collector = t
    /\ phase \in {"CONCURRENT_MARK", "REMARK"}
    /\ walk = {}
    /\ color[o] = "gray"
    /\ color' = ShadeChildren(color, o)
    /\ UNCHANGED <<slots, up, cycle, enabled, pinning, threads, temps, held>>

\* gc_remark: the roots are walked again, past the scopes that are marked already ...
Remark(t) ==
    /\ collector = t
    /\ phase = "CONCURRENT_MARK"
    /\ Gray(color) = {}
    /\ phase' = "REMARK"
    /\ walk' = {<<Null, Global>>}
    /\ UNCHANGED <<heap, barrier, cursor, collector, enabled, pinning, threads, temps, held>>

\* ... and when the stack is empty the barrier goes down and the sweep starts.
RemarkDone(t) ==
    /\ collector = t
    /\ phase = "REMARK"
    /\ walk = {} /\ Gray(color) = {}
    /\ barrier' = FALSE
    /\ phase' = "SWEEP"
    /\ cursor' = {o \in Obj : color[o] # "free"}
    /\ UNCHANGED <<heap, walk, collector, enabled, pinning, threads, temps, held>>

\* gc_sweep_step: a white object is released, another is white for the next cycle.
Sweep(c, o) == [c EXCEPT ![o] = IF c[o] = "white" THEN "free" ELSE "white"]

SweepStep(t, o) ==
    /\ collector = t
    /\ phase = "SWEEP"
    /\ o \in cursor
    /\ color' = Sweep(color, o)
    /\ cursor' = cursor \ {o}
    /\ UNCHANGED <<slots, up, phase, barrier, walk, collector, enabled, pinning, threads, temps, held>>

\* Mutant of SweptEnvs: marks are cleared (env_clear_marks) and no scope is released.
OnlyClearMarks(c) == [n \in Node |-> IF n \in Obj \/ c[n] = "free" THEN c[n] ELSE "white"]

\* env_sweep_unmarked: an unmarked scope is released, a marked one is unmarked.
SweptEnvs(c) ==
    [n \in Node |-> IF n \in Obj THEN c[n]
                    ELSE IF c[n] = "black" THEN "white" ELSE "free"]

\* Mutant of FinishCycle: one gc_sweep_step instead of a loop to gc_sweep_complete().
FinishEarly(t) ==
    /\ collector = t
    /\ phase = "SWEEP"
    /\ color' = SweptEnvs(color)
    /\ phase' = "IDLE"
    /\ collector' = Null
    /\ UNCHANGED <<slots, up, barrier, cursor, walk, enabled, pinning, threads, temps, held>>

FinishCycle(t) ==
    /\ collector = t
    /\ phase = "SWEEP"
    /\ cursor = {}
    /\ color' = SweptEnvs(color)
    /\ phase' = "IDLE"
    /\ collector' = Null
    /\ UNCHANGED <<slots, up, barrier, cursor, walk, enabled, pinning, threads, temps, held>>

CollectorStep(t) ==
    \/ \E o \in Obj : Whiten(t, o)
    \/ ScanGlobal(t)
    \/ \E u \in Thread : ScanThread(t, u)
    \/ \E u \in Thread, n \in Node : ScanRoot(t, u, n)
    \/ EnableBarrier(t)
    \/ \E o \in Obj : MarkStep(t, o)
    \/ Remark(t)
    \/ RemarkDone(t)
    \/ \E o \in Obj : SweepStep(t, o)
    \/ FinishCycle(t)

-----------------------------------------------------------------------------
(* gc.step(1) of a program that calls it while it has one thread: no look at *)
(* `enabled` or pins, and no remark.  Its                                    *)
(* sweep branch is not an action: gc_collect runs the cursor to the end and  *)
(* nothing else sets it, so a lone thread always finds gc_sweep_complete().  *)

GcStep(t) ==
    /\ running = {t}
    /\ MayDo(t, IF phase = "IDLE" \/ Gray(color) # {} THEN "gcstep" ELSE "restep")
    /\ Evaluating(t)
    /\ \/ /\ Gray(color) # {}
          /\ \E o \in Gray(color) : color' = ShadeChildren(color, o)
          /\ UNCHANGED <<phase, barrier>>
       \/ /\ Gray(color) = {}
          /\ LET c == RootScan(color)
             IN  \/ Gray(c) = {} /\ color' = c
                 \/ \E o \in Gray(c) : color' = ShadeChildren(c, o)
          /\ phase' = "CONCURRENT_MARK"
          /\ barrier' = TRUE
    /\ UNCHANGED <<slots, up, cursor, walk, collector, enabled, pinning, threads, temps, held>>

-----------------------------------------------------------------------------
(* The mutators: what the interpreter's threads do to the heap.            *)

Locals(t) == temps[t] \cup held[t]

\* Scopes and objects whose slots the thread's code can name.
Accessible(t) ==
    Locals(t) \cup {Global} \cup ({up[e] : e \in temps[t] \cap Env} \ {Null})

\* gc_alloc and the constructor around it; e is the closure a function captures.
Alloc(t, o, e) ==
    /\ MayDo(t, "alloc")
    /\ Evaluating(t)
    /\ collector = Null
    /\ color[o] = "free"
    /\ e \in (temps[t] \cap Env) \cup {Null}
    /\ color' = [color EXCEPT ![o] = IF phase \in {"CONCURRENT_MARK", "REMARK"}
                                     THEN "black" ELSE "white"]
    /\ slots' = [slots EXCEPT ![o] = NoSlots]
    /\ up' = [up EXCEPT ![o] = e]
    /\ held' = [held EXCEPT ![t] = @ \cup {o}]
    /\ UNCHANGED <<cycle, enabled, pinning, threads, temps>>

\* AST_GC_PUSH of a value the interpreter is about to evaluate past, and the push of a
\* call's scope at the head of interpret.
PushTemp(t, n) ==
    /\ GoesOn(t)
    /\ n \in held[t]
    /\ held' = [held EXCEPT ![t] = @ \ {n}]
    /\ temps' = [temps EXCEPT ![t] = @ \cup {n}]
    /\ UNCHANGED <<heap, cycle, enabled, pinning, threads>>

\* AST_GC_POP, and the end of interpret for a scope.
PopTemp(t, n) ==
    /\ GoesOn(t)
    /\ n \in temps[t]
    /\ temps' = [temps EXCEPT ![t] = @ \ {n}]
    /\ UNCHANGED <<heap, cycle, enabled, pinning, threads, held>>

\* A value is discarded.
Discard(t, o) ==
    /\ GoesOn(t)
    /\ o \in held[t]
    /\ held' = [held EXCEPT ![t] = @ \ {o}]
    /\ UNCHANGED <<heap, cycle, enabled, pinning, threads, temps>>

\* env_create for a call (or block), before interpret pushes the scope as a root.
Call(t, e, p) ==
    /\ MayDo(t, "call")
    /\ Evaluating(t)
    /\ color[e] = "free"
    /\ p \in ((temps[t] \cap Env) \cup {Global} \cup {up[o] : o \in temps[t] \cap Obj}) \ {Null}
    /\ color' = [color EXCEPT ![e] = "white"]
    /\ slots' = [slots EXCEPT ![e] = NoSlots]
    /\ up' = [up EXCEPT ![e] = p]
    /\ held' = [held EXCEPT ![t] = @ \cup {e}]
    /\ UNCHANGED <<cycle, enabled, pinning, threads, temps>>

\* A variable or an element is read and rooted.
Load(t, n, s) ==
    /\ MayDo(t, "load")
    /\ Evaluating(t)
    /\ n \in Accessible(t)
    /\ slots[n][s] # Null
    /\ temps' = [temps EXCEPT ![t] = @ \cup {slots[n][s]}]
    /\ UNCHANGED <<heap, cycle, enabled, pinning, threads, held>>

\* Mutant of Barrier: a store with no barrier.
NoBarrier(old) == color

\* GC_WRITE_BARRIER(old): the value about to be overwritten is shaded.
Barrier(old) == IF barrier THEN Shade(color, {old}) ELSE color

\* A slot takes a value: one with nothing in it is new, another is overwritten.
Put(t, n, s, v) ==
    /\ MayDo(t, IF slots[n][s] = Null THEN "define" ELSE "store")
    /\ n \in Accessible(t)
    /\ v \in (Locals(t) \cap Obj) \cup {Null}
    /\ v # slots[n][s]
    /\ slots' = [slots EXCEPT ![n][s] = v]
    /\ UNCHANGED <<up, cycle, enabled, pinning, threads, temps, held>>

\* env_define: a new variable is linked in, an existing one overwritten.
EnvDefine(t, e, s, v) ==
    /\ e \in Locals(t) \cup {Global}
    /\ Put(t, e, s, v)
    /\ color' = Barrier(slots[e][s])

\* env_assign: a variable somewhere up the scope chain takes a value.
EnvAssign(t, e, s, v) ==
    /\ slots[e][s] # Null
    /\ Put(t, e, s, v)
    /\ color' = Barrier(slots[e][s])

\* array_push: one more element.
ArrayPush(t, o, s, v) ==
    /\ slots[o][s] = Null
    /\ Put(t, o, s, v)
    /\ UNCHANGED color

\* array_set: an element is overwritten.
ArraySet(t, o, s, v) ==
    /\ slots[o][s] # Null
    /\ Put(t, o, s, v)
    /\ color' = Barrier(slots[o][s])

\* pop(): the last element leaves the array, with no barrier.
ArrayPop(t, o, s) ==
    /\ MayDo(t, "pop")
    /\ Evaluating(t)
    /\ o \in Accessible(t) \cap Obj
    /\ slots[o][s] # Null
    /\ held' = [held EXCEPT ![t] = @ \cup {slots[o][s]}]
    /\ slots' = [slots EXCEPT ![o][s] = Null]
    /\ UNCHANGED <<color, up, cycle, enabled, pinning, threads, temps>>

\* gc_pin before a literal or an argument list is built, gc_unpin after it.
Pin(t) ==
    /\ MayDo(t, "pin")
    /\ Evaluating(t) /\ t \notin pinning
    /\ pinning' = pinning \cup {t}
    /\ UNCHANGED <<heap, cycle, enabled, threads, temps, held>>

Unpin(t) ==
    /\ t \in pinning /\ GoesOn(t)
    /\ pinning' = pinning \ {t}
    /\ UNCHANGED <<heap, cycle, enabled, threads, temps, held>>

\* gc.pause / gc.resume, and entering and leaving a @manual block.
SetEnabled(t, b) ==
    /\ MayDo(t, "toggle")
    /\ enabled # b
    /\ enabled' = b
    /\ UNCHANGED <<heap, cycle, pinning, threads, temps, held>>

\* thread.spawn(f, v) of a global function: the arguments are copied to a start record,
\* which is no root.
Spawn(t, u, v) ==
    /\ MayDo(t, "spawn")
    /\ Evaluating(t)
    /\ u \in Thread \ running
    /\ v \in (Locals(t) \cap Obj) \cup {Null}
    /\ running' = running \cup {u}
    /\ starting' = starting \cup {u}
    /\ held' = [held EXCEPT ![u] = {v} \ {Null}]
    /\ UNCHANGED <<heap, cycle, enabled, pinning, temps>>

\* The new thread, under gc_mutex, creates its scope and binds the parameters to the
\* arguments.  interpret roots the scope later: PushTemp.
Begin(u, e, b) ==
    /\ u \in starting
    /\ collector = Null
    /\ color[e] = "free"
    /\ b \in [Slot -> held[u] \cup {Null}]
    /\ color' = [color EXCEPT ![e] = "white"]
    /\ slots' = [slots EXCEPT ![e] = b]
    /\ up' = [up EXCEPT ![e] = Global]
    /\ held' = [held EXCEPT ![u] = {e}]
    /\ starting' = starting \ {u}
    /\ UNCHANGED <<cycle, enabled, pinning, running, temps>>

Mutator(t) ==
    \/ \E o \in Obj : \E e \in Env \cup {Null} : Alloc(t, o, e)
    \/ \E n \in Node : PushTemp(t, n)
    \/ \E n \in Node : PopTemp(t, n)
    \/ \E o \in Obj : Discard(t, o)
    \/ \E e, p \in Env : Call(t, e, p)
    \/ \E n \in Node, s \in Slot : Load(t, n, s)
    \/ \E e \in Env, s \in Slot, v \in Obj \cup {Null} : EnvDefine(t, e, s, v)
    \/ \E e \in Env, s \in Slot, v \in Obj \cup {Null} : EnvAssign(t, e, s, v)
    \/ \E o \in Obj, s \in Slot, v \in Obj : ArrayPush(t, o, s, v)
    \/ \E o \in Obj, s \in Slot, v \in Obj \cup {Null} : ArraySet(t, o, s, v)
    \/ \E o \in Obj, s \in Slot : ArrayPop(t, o, s)
    \/ Pin(t)
    \/ Unpin(t)
    \/ \E b \in BOOLEAN : SetEnabled(t, b)
    \/ \E u \in Thread, v \in Obj \cup {Null} : Spawn(t, u, v)
    \/ \E e \in Env, b \in [Slot -> held[t] \cup {Null}] : Begin(t, e, b)

Next == \E t \in Thread :
    Mutator(t) \/ Collect(t) \/ AutoCollect(t) \/ CollectorStep(t) \/ GcStep(t)

Spec == Init /\ [][Next]_vars

-----------------------------------------------------------------------------
(* Properties.                                                             *)

TypeOK ==
    /\ color \in [Node -> {"free", "white", "gray", "black"}]
    /\ \A e \in Env : color[e] # "gray"
    /\ slots \in [Node -> [Slot -> Obj \cup {Null}]]
    /\ up \in [Node -> Env \cup {Null}]
    /\ phase \in Phases
    /\ barrier \in BOOLEAN
    /\ enabled \in BOOLEAN
    /\ pinning \subseteq running
    /\ running \subseteq Thread
    /\ collector \in running \cup {Null}
    /\ cursor \subseteq Obj
    /\ phase \notin {"ROOT_SCAN", "SWEEP"} => cursor = {}
    /\ walk \subseteq Entries
    /\ phase \notin {"ROOT_SCAN", "REMARK"} => walk = {}
    /\ collector = Null => phase \in {"IDLE", "CONCURRENT_MARK"}
    /\ temps \in [Thread -> SUBSET Node]
    /\ held \in [Thread -> SUBSET Node]
    /\ starting \subseteq running
    /\ \A u \in starting : held[u] \subseteq Obj

Children(n) == Values(n) \cup ({up[n]} \ {Null})

\* What can be reached from R: the least set that holds R and the children of
\* each of its members.
Closed(S)    == \A n \in S : Children(n) \subseteq S
Reachable(R) == {n \in Node : \A S \in SUBSET Node : R \subseteq S /\ Closed(S) => n \in S}

\* Everything the running threads can still get at.
Live == Reachable(Roots \cup UNION {held[t] : t \in running})

\* No object and no scope is released while a thread can still reach it: gc_sweep_step and
\* env_sweep_unmarked free garbage only.  The programs it is stated of are the run's three
\* kinds, and in general those of SafeProgram below.
NoDangling == \A n \in Live : color[n] # "free"

\* A whole gc_collect while one thread runs releases all the garbage there is: what is
\* allocated when the cycle ends is what the program can reach (no floating garbage, no
\* leaked scope).
CollectionIsExact ==
    [][ \A t \in Thread : FinishCycle(t) /\ running = {t} => {n \in Node : color'[n] # "free"} = Live ]_vars

\* The snapshot-at-the-beginning invariant of the write barrier: while a mark is
\* under way, a reachable object that is still white can be reached from a gray one
\* through white objects, so the marker has not lost it.  The programs are NoDangling's.
GrayProtected ==
    phase = "CONCURRENT_MARK" =>
        LET Step(n) == IF color[n] = "black" THEN {} ELSE Children(n)
            Found == {n \in Node : \A S \in SUBSET Node :
                        ({m \in Node : color[m] \in {"gray", "black"}} \subseteq S
                         /\ \A m \in S : Step(m) \subseteq S) => n \in S}
        IN  Live \subseteq Found
-----------------------------------------------------------------------------
(* The inductive invariant behind NoDangling, for the programs the collector  *)
(* is safe for.                                                               *)

\* Such a program never calls gc.step and never collects inside a literal.  Its threads
\* allocate and collect only while the others are at rest.  While one is inside gc_collect
\* the others read on and pause or resume the collector, and otherwise wait.  The code
\* keeps no thread to that: gc_mutex stops those that allocate, and no other.
SafeProgram ==
    /\ SoloOps \cap {"gcstep", "restep", "collectPinned"} = {}
    /\ SharedOps \cap {"alloc", "collect", "collectPinned"} = {}
    /\ BesideOps \subseteq {"load", "toggle"}

LiveRoots == Roots \cup UNION {held[t] : t \in running}

\* What the current cycle, if it has got as far as the sweep, will not release.
Kept == {n \in Node : /\ color[n] # "free"
                      /\ ~ (phase = "SWEEP" /\ color[n] = "white" /\ n \in Env \cup cursor)}

NonWhite == {n \in Node : color[n] \in {"gray", "black"}}

\* A set the marker could still end up with: it holds what is marked, and the
\* children of its members that have not been scanned.
Markable(X) == NonWhite \subseteq X /\ \A n \in X : color[n] # "black" => Children(n) \subseteq X

Marking == phase \in {"ROOT_SCAN", "CONCURRENT_MARK", "REMARK"}

ThreadInv ==
    /\ Main \in running
    /\ \A t \in Thread \ running : temps[t] = {} /\ held[t] = {}
    /\ collector = Null <=> phase = "IDLE"
    /\ barrier <=> phase \in {"CONCURRENT_MARK", "REMARK"}
    /\ phase # "IDLE" => \A t \in running : AtRest(t)

\* What the walk over the roots has still to come to, the first time.
Ahead ==
    IF phase # "ROOT_SCAN" THEN {}
    ELSE IF <<Null, Global>> \in walk THEN Roots
    ELSE {n \in Node : \E u \in Thread : \/ <<u, Null>> \in walk /\ n \in temps[u]
                                         \/ <<u, n>> \in walk}

WalkInv ==
    phase = "ROOT_SCAN" =>
        /\ <<Null, Global>> \in walk =>
              walk = {<<Null, Global>>} /\ \A n \in Node : color[n] \in {"free", "white"}
        /\ \A o \in cursor : <<Null, Global>> \in walk /\ color[o] # "free"
        /\ \A u \in Thread, n \in Node \cup {Null} :
              <<u, n>> \in walk => u \in running /\ n \in temps[u] \cup {Null}

ColorInv ==
    /\ phase = "IDLE" => \A n \in Node : color[n] \in {"free", "white"}
    /\ phase = "SWEEP" => \A o \in Obj : /\ color[o] # "gray"
                                         /\ o \in cursor => color[o] # "free"
                                         /\ o \notin cursor => color[o] # "black"

HeapInv == LiveRoots \subseteq Kept /\ Closed(Kept)

MarkInv == Marking => \A X \in SUBSET Node : Markable(X) /\ Ahead \subseteq X =>
                                                LiveRoots \subseteq X /\ Closed(X)

IInv == TypeOK /\ ThreadInv /\ WalkInv /\ ColorInv /\ HeapInv /\ MarkInv
=============================================================================
