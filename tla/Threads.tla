------------------------------ MODULE Threads ------------------------------
(***************************************************************************)
(* Thread handles: thread.spawn, thread.join and await (stdlib.c,          *)
(* interpreter.c, vm.c) over pthreads.                                     *)
(*                                                                         *)
(* A handle (ThreadValue) points to the start record (SageThreadData) that *)
(* the thread reads its function and arguments from and writes its result  *)
(* to.  Nobody locks it.  The collector knows nothing of it: what only the *)
(* record refers to is garbage to it.  (That its marker takes a handle for *)
(* an object and colours the memory in front of it is left out.)           *)
(*                                                                         *)
(* What the program does with handles is a parameter:                      *)
(*    "join", "await"  it asks for results, one way or the other,          *)
(*    "again"    it asks again for what it has awaited,                    *)
(*    "rejoin"   it uses a handle that it has joined,                      *)
(*    "share"    it uses handles in other threads than spawned them,       *)
(*    "careless" it allocates, which may collect, and asks again, whatever *)
(*               no variable keeps, and before a thread it has spawned has *)
(*               begun its function,                                       *)
(*    "abandon"  a function, or the program, ends before the threads it    *)
(*               has spawned.                                              *)
(***************************************************************************)
CONSTANTS Handle, \* one for each thread that may be spawned, which has its name
          Main,   \* the thread that runs main
          Value,  \* what functions return
          Null,
          Kept,   \* handles whose function, arguments and result variables refer to too, or
                  \* that have none on the heap
          Uses    \* what the program does

Thread == Handle \cup {Main}

ASSUME ThreadsAssumption ==
    /\ Main \notin Handle
    /\ Null \notin Thread \cup Value
    /\ "pending" \notin Value /\ "pending" # Null
    /\ Kept \subseteq Handle
    /\ Uses \subseteq {"join", "await", "again", "rejoin", "share", "careless", "abandon"}

VARIABLES
    stage,   \* per handle: how far its thread is
    owner,   \* per handle: the thread that spawned it
    joined,  \* per handle: the way that tv->joined was set, "no" while it is not
    record,  \* per handle: tv->data, "held" once allocated, "freed" once NULL
    result,  \* per handle: td->result, Null for val_nil()
    lost,    \* what the collector has released: functions ("func"), the scopes of calls and results
    joiner,  \* per handle: the thread in pthread_join, as pthreads has noted it
    call,    \* per thread: the join or await it is in
    answer,  \* per thread: what its last join or await returned
    exited,  \* main has shut the heap down
    fault    \* memory that is gone has been used

vars == <<stage, owner, joined, record, result, lost, joiner, call, answer, exited, fault>>
program == <<owner, exited>>
records == <<joined, record, joiner>>
calls   == <<call, answer>>

Idle == [way |-> "none", h |-> Null, at |-> "none"]
Calls == {Idle} \cup [way : {"join", "await"}, h : Handle, at : {"waiting", "back"}]

Init ==
    /\ stage = [h \in Handle |-> "unused"]
    /\ owner = [h \in Handle |-> Null]
    /\ joined = [h \in Handle |-> "no"]
    /\ record = [h \in Handle |-> "none"]
    /\ result = [h \in Handle |-> Null]
    /\ lost = {}
    /\ joiner = [h \in Handle |-> Null]
    /\ call = [t \in Thread |-> Idle]
    /\ answer = [t \in Thread |-> Null]
    /\ exited = FALSE
    /\ fault = FALSE

-----------------------------------------------------------------------------
(* The program: what a thread that runs its function may do next.            *)

Runs(t) == IF t = Main THEN ~ exited ELSE stage[t] = "running" /\ ~ exited
Acts(t) == ~ fault /\ Runs(t) /\ call[t] = Idle

Children(t) == {h \in Handle : owner[h] = t}

\* A function that keeps to it has asked for the result of every thread it spawned.
MayEnd(t) == Acts(t) /\ ("abandon" \in Uses \/ \A h \in Children(t) : joined[h] # "no")

MayAsk(t, h, way) ==
    /\ Acts(t)
    /\ way \in Uses \cap {"join", "await"}
    /\ stage[h] # "unused"
    /\ owner[h] = t \/ "share" \in Uses
    /\ joined[h] # "no" => h \in Kept \/ "careless" \in Uses
    /\ joined[h] = "await" => "again" \in Uses
    /\ joined[h] = "join" => "rejoin" \in Uses

\* thread_spawn_native.  (When pthread_create fails it takes all of it back.)
Spawn(t, h) ==
    /\ Acts(t)
    /\ stage[h] = "unused"
    /\ stage' = [stage EXCEPT ![h] = "created"]
    /\ owner' = [owner EXCEPT ![h] = t]
    /\ record' = [record EXCEPT ![h] = "held"]
    /\ UNCHANGED <<joined, result, lost, joiner, calls, exited, fault>>

\* What only a record, or only the C stack of a thread, refers to.
Unrooted ==
    {<<"func", h>> : h \in {h \in Handle \ Kept : stage[h] \in {"created", "entered"}}}
      \cup {<<"scope", h>> : h \in {h \in Handle : stage[h] = "scoped"}}
      \cup {<<"result", h>> : h \in {h \in Handle \ Kept : stage[h] \in {"returned", "ended"}}}

\* A collection releases that.  When a careful program allocates, every thread it has
\* spawned is joined, or has what is kept and has told that it runs its function.
Collect(t) ==
    /\ Acts(t)
    /\ "careless" \in Uses
       \/ \A h \in Handle : \/ stage[h] = "unused" \/ joined[h] # "no"
                            \/ h \in Kept /\ stage[h] \notin {"created", "entered", "scoped"}
    /\ lost' = lost \cup Unrooted
    /\ UNCHANGED <<stage, program, records, result, calls, fault>>

\* The end of main: gc_shutdown releases the whole heap, threads or not.
Exit ==
    /\ MayEnd(Main)
    /\ exited' = TRUE
    /\ UNCHANGED <<stage, owner, records, result, lost, calls, fault>>

-----------------------------------------------------------------------------
(* The thread of handle h: sage_thread_entry.                                *)

\* What it needs next is gone: its record, its function or arguments, its scope, or the heap.
Misused(h) ==
    \/ stage[h] \in {"created", "entered", "running"} /\ record[h] = "freed"
    \/ stage[h] \in {"created", "entered"} /\ <<"func", h>> \in lost
    \/ stage[h] = "scoped" /\ <<"scope", h>> \in lost
    \/ stage[h] \in {"created", "entered", "scoped", "running"} /\ exited

Moves(h, from, to) ==
    /\ ~ fault /\ stage[h] = from
    /\ IF Misused(h) THEN fault' = TRUE /\ UNCHANGED stage
                      ELSE stage' = [stage EXCEPT ![h] = to] /\ UNCHANGED fault
    /\ UNCHANGED <<program, records, lost, calls>>

\* It reads its function, and gc_register_thread makes its stacks roots.
Enter(h) == Moves(h, "created", "entered") /\ UNCHANGED result

\* Under the lock of the collector a scope is made and takes the arguments.
Begin(h) == Moves(h, "entered", "scoped") /\ UNCHANGED result

\* interpret makes the scope a root, and the body runs in it.
Interpret(h) == Moves(h, "scoped", "running") /\ UNCHANGED result

\* td->result = res.value
Return(h) ==
    /\ exited \/ MayEnd(h)
    /\ Moves(h, "running", "returned")
    /\ \E v \in Value : result' = [result EXCEPT ![h] = v]

\* gc_unregister_thread and the end of the thread.
End(h) == Moves(h, "returned", "ended") /\ UNCHANGED result

-----------------------------------------------------------------------------
(* thread_join_native, EXPR_AWAIT and BC_OP_AWAIT in thread t.               *)

\* pthread_join (external) refuses at once, which nobody looks at: when it is the
\* calling thread, when that one waits for the caller, and after or during a join.
Refuses(t, h) == h = t \/ joiner[h] # Null \/ (t \in Handle /\ joiner[t] = h)

\* The result is read from the record, which a join frees after its wait.
Answers(t, h) ==
    /\ IF record[h] = "freed" \/ <<"result", h>> \in lost
       THEN fault' = TRUE /\ UNCHANGED answer
       ELSE answer' = [answer EXCEPT ![t] = result[h]] /\ UNCHANGED fault
    /\ UNCHANGED <<stage, program, result, lost, joiner>>

\* tv->joined was set: "return cached result".
AskJoined(t, h) ==
    /\ \E way \in {"join", "await"} : MayAsk(t, h, way)
    /\ joined[h] # "no"
    /\ Answers(t, h)
    /\ UNCHANGED <<joined, record, call>>

Ask(t, h, way) ==
    /\ MayAsk(t, h, way)
    /\ joined[h] = "no"
    /\ call' = [call EXCEPT ![t] = [way |-> way, h |-> h, at |-> IF Refuses(t, h) THEN "back" ELSE "waiting"]]
    /\ joiner' = IF Refuses(t, h) THEN joiner ELSE [joiner EXCEPT ![h] = t]
    /\ UNCHANGED <<stage, program, joined, record, result, lost, answer, fault>>

\* Mutant of Wake: the wait is over as soon as the function runs.
WakeEarly(t) ==
    /\ ~ fault /\ call[t].at = "waiting" /\ stage[call[t].h] # "created"
    /\ call' = [call EXCEPT ![t].at = "back"]
    /\ UNCHANGED <<stage, program, records, result, lost, answer, fault>>

\* pthread_join returns.
Wake(t) ==
    /\ ~ fault /\ call[t].at = "waiting" /\ stage[call[t].h] = "ended"
    /\ call' = [call EXCEPT ![t].at = "back"]
    /\ UNCHANGED <<stage, program, records, result, lost, answer, fault>>

\* Mutant of Frees: an await frees the record too.
FreesAlways(way) == TRUE
Frees(way) == way = "join"

Take(t) ==
    LET h == call[t].h
    IN  /\ ~ fault /\ call[t].at = "back"
        /\ Answers(t, h)
        /\ joined' = [joined EXCEPT ![h] = call[t].way]
        /\ record' = IF Frees(call[t].way) THEN [record EXCEPT ![h] = "freed"] ELSE record
        /\ call' = [call EXCEPT ![t] = Idle]

-----------------------------------------------------------------------------
Next ==
    \/ \E t \in Thread :
         \/ \E h \in Handle : \/ Spawn(t, h)
                              \/ AskJoined(t, h)
                              \/ \E way \in {"join", "await"} : Ask(t, h, way)
         \/ Collect(t) \/ Wake(t) \/ Take(t)
    \/ \E h \in Handle : Enter(h) \/ Begin(h) \/ Interpret(h) \/ Return(h) \/ End(h)
    \/ Exit

Spec == Init /\ [][Next]_vars

-----------------------------------------------------------------------------
Typed ==
    /\ stage \in [Handle -> {"unused", "created", "entered", "scoped", "running", "returned", "ended"}]
    /\ owner \in [Handle -> Thread \cup {Null}]
    /\ joined \in [Handle -> {"no", "join", "await"}]
    /\ record \in [Handle -> {"none", "held", "freed"}]
    /\ result \in [Handle -> Value \cup {Null}]
    /\ lost \subseteq {"func", "scope", "result"} \X Handle
    /\ joiner \in [Handle -> Thread \cup {Null}]
    /\ call \in [Thread -> Calls]
    /\ answer \in [Thread -> Value \cup {Null}]
    /\ exited \in BOOLEAN /\ fault \in BOOLEAN

\* A record is allocated with its thread and freed under a joined handle only.
RecordsFollow ==
    \A h \in Handle : /\ record[h] = "none" <=> stage[h] = "unused"
                      /\ record[h] = "freed" => joined[h] # "no"

\* Calls are about threads there are, and pthreads knows of every wait.
WaitsAreNoted ==
    \A t \in Thread : /\ call[t].at # "none" => record[call[t].h] # "none"
                      /\ call[t].at = "waiting" => joiner[call[t].h] = t

(* The types, and what the marks of a handle say of its record and its joiner,  *)
(* whatever the program does with it.                                           *)
TypeOK == Typed /\ RecordsFollow /\ WaitsAreNoted

\* A program that asks for every result, in the thread that spawned the other one and
\* not after it has joined it, that keeps what it asks for again, and that collects
\* nothing between a spawn and the word of the new thread that it runs.
CarefulProgram == Uses \cap {"rejoin", "share", "careless", "abandon"} = {}

(***************************************************************************)
(* No thread and no join uses a record that a join has freed, a function,  *)
(* scope or result that the collector has released, or the heap after its  *)
(* end:                                                                    *)
(* not even the threads of threads, which main knows nothing of.  (The     *)
(* frees of thread_join_native and gc_shutdown against sage_thread_entry.) *)
(***************************************************************************)
NoMisuse == ~ fault

(***************************************************************************)
(* A handle is a future: a join or an await, the first or a later one,     *)
(* returns what the function returned, once it has ended.                  *)
(* (thread_join_native, EXPR_AWAIT, BC_OP_AWAIT.)                          *)
(***************************************************************************)
Promised(h) == IF stage[h] = "unused" THEN Null
               ELSE IF stage[h] \in {"returned", "ended"} THEN result[h] ELSE "pending"

F == INSTANCE Future WITH
       cell   <- [h \in Handle |-> Promised(h)],
       asking <- [t \in Thread |-> call[t].h]
IsFuture == F!Spec
=============================================================================
