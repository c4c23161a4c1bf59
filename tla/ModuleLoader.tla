---------------------------- MODULE ModuleLoader ----------------------------
(***************************************************************************)
(* import: the module cache of src/src/module.c and what loading a module  *)
(* does to it.  A thread keeps one frame per import it is in the middle    *)
(* of.  Of the statements of a module only its imports matter here, in the *)
(* order they execute; any other statement may throw.  In the REPL, a text *)
(* that the parser refuses and a misused next() drop the line that was     *)
(* typed, with all imports it is in the middle of.                         *)
(***************************************************************************)
EXTENDS Naturals, Sequences, FiniteSets

CONSTANTS Thread,    \* threads that execute import statements
          Module,    \* module names that programs import
          Files,     \* those resolve_module_path finds
          Bodies,    \* the programs: for each module the imports it executes
          Faults,    \* those whose statements may throw and whose files may vanish
          Fatal,     \* those whose text may be refused or whose statements misuse next()
          None,      \* no name
          MaxDepth   \* bound of this model on imports inside imports

ASSUME LoaderAssumption ==
    /\ Files \subseteq Module
    /\ None \notin Module
    /\ Bodies \subseteq [Module -> Seq([name : Module, caught : BOOLEAN])]
    /\ Faults \subseteq Module /\ Fatal \subseteq Module
    /\ MaxDepth \in Nat

VARIABLES
    body,      \* the program
    entries,   \* the module cache; the last one is cache->modules
    stack,     \* per thread: the imports it is in
    lexer,     \* the source the lexer and the parser are in, None = the main program
    outcome,   \* per thread: the last import statement it completed outside modules
    done,      \* history: names in the order in which is_loaded was set
    stranded   \* history: the entries of the imports that were dropped

vars == <<body, entries, stack, lexer, outcome, done, stranded>>

Points == {"find", "insert", "loaded?", "loading?", "mark", "open", "scan", "run",
           "unmark", "leave"}

\* What load_module and execute_module know: the entry (0 until there is one), the
\* statement they are at, the saved lexer, and whether no statement has thrown.
Frame == [name : Module, pc : Points, entry : Nat, at : Nat,
          saved : Module \cup {None}, ok : BOOLEAN]

NewFrame(m) ==
    [name |-> m, pc |-> "find", entry |-> 0, at |-> 1, saved |-> None, ok |-> TRUE]

NewEntry(m) == [name |-> m, loaded |-> FALSE, loading |-> FALSE, parsed |-> None]

Init ==
    /\ body \in Bodies
    /\ entries = <<>>
    /\ stack = [t \in Thread |-> <<>>]
    /\ lexer = None
    /\ outcome = [t \in Thread |-> [name |-> None, ok |-> TRUE]]
    /\ done = <<>>
    /\ stranded = {}

Depth(t) == Len(stack[t])
Top(t) == stack[t][Depth(t)]
At(t, point) == Depth(t) > 0 /\ Top(t).pc = point

\* The thread goes on in the same import.
Go(t, frame) == stack' = [stack EXCEPT ![t][Depth(t)] = frame]

\* The statement list a module runs is the one that was parsed for its entry.
Program(frame) == body[entries[frame.entry].parsed]

\* Mutant of Resume: the statement after a failed import executes.
ResumeAnyway(frame, ok) == [frame EXCEPT !.at = @ + 1]

\* What the failed or completed import was to the module that executed it: an uncaught
\* exception ends that module too.
Resume(frame, ok) ==
    IF ok \/ Program(frame)[frame.at].caught
    THEN [frame EXCEPT !.at = @ + 1]
    ELSE [frame EXCEPT !.pc = "unmark", !.ok = FALSE]

\* import_all, import_from, ... return to the statement that called them.
Return(t, ok) ==
    LET below == Depth(t) - 1
        rest == SubSeq(stack[t], 1, below)
    IN IF below = 0
       THEN /\ stack' = [stack EXCEPT ![t] = <<>>]
            /\ outcome' = [outcome EXCEPT ![t] = [name |-> Top(t).name, ok |-> ok]]
       ELSE /\ stack' = [stack EXCEPT ![t] = [rest EXCEPT ![below] = Resume(@, ok)]]
            /\ UNCHANGED outcome

-----------------------------------------------------------------------------
(* load_module *)

\* An import statement of the program, or of a function it calls.
Import(t, m) ==
    /\ stack[t] = <<>>
    /\ stack' = [stack EXCEPT ![t] = <<NewFrame(m)>>]
    /\ UNCHANGED <<body, stranded, entries, lexer, outcome, done>>

Cached(m) == {i \in DOMAIN entries : entries[i].name = m}

\* find_module: the list is searched from its head, under module_mutex.
Find(t) ==
    /\ At(t, "find")
    /\ \E i \in Cached(Top(t).name) :
        /\ \A j \in Cached(Top(t).name) : j <= i
        /\ Go(t, [Top(t) EXCEPT !.pc = "loaded?", !.entry = i])
    /\ UNCHANGED <<body, stranded, entries, lexer, outcome, done>>

Resolve(t) ==
    /\ At(t, "find") /\ Cached(Top(t).name) = {} /\ Top(t).name \in Files
    /\ Go(t, [Top(t) EXCEPT !.pc = "insert"])
    /\ UNCHANGED <<body, stranded, entries, lexer, outcome, done>>

NotFound(t) ==
    /\ At(t, "find") /\ Cached(Top(t).name) = {} /\ Top(t).name \notin Files
    /\ Return(t, FALSE)
    /\ UNCHANGED <<body, stranded, entries, lexer, done>>

\* The new entry becomes the head of the list, under module_mutex.
Insert(t) ==
    /\ At(t, "insert")
    /\ entries' = Append(entries, NewEntry(Top(t).name))
    /\ Go(t, [Top(t) EXCEPT !.pc = "loaded?", !.entry = Len(entries) + 1])
    /\ UNCHANGED <<body, stranded, lexer, outcome, done>>

-----------------------------------------------------------------------------
(* execute_module; is_loaded and is_loading are read and written without a lock *)

Entry(t) == entries[Top(t).entry]

AlreadyLoaded(t) ==
    /\ At(t, "loaded?") /\ Entry(t).loaded
    /\ Return(t, TRUE)
    /\ UNCHANGED <<body, stranded, entries, lexer, done>>

\* Mutant of NotLoaded: is_loading is set before it is looked at.
MarkFirst(t) ==
    /\ At(t, "loaded?") /\ ~ Entry(t).loaded
    /\ entries' = [entries EXCEPT ![Top(t).entry].loading = TRUE]
    /\ Go(t, [Top(t) EXCEPT !.pc = "loading?", !.saved = lexer])
    /\ UNCHANGED <<body, stranded, lexer, outcome, done>>

\* Mutant of NotLoaded: the cache is not asked.
ReloadAlways(t) ==
    /\ At(t, "loaded?")
    /\ Go(t, [Top(t) EXCEPT !.pc = "loading?", !.saved = lexer])
    /\ UNCHANGED <<body, stranded, entries, lexer, outcome, done>>

NotLoaded(t) ==
    /\ At(t, "loaded?") /\ ~ Entry(t).loaded
    /\ Go(t, [Top(t) EXCEPT !.pc = "loading?", !.saved = lexer])
    /\ UNCHANGED <<body, stranded, entries, lexer, outcome, done>>

\* Mutant of Circular: the thread waits for the mark to go away.
WaitForMark(t) ==
    /\ At(t, "loading?") /\ Entry(t).loading
    /\ Go(t, [Top(t) EXCEPT !.pc = "loaded?"])
    /\ UNCHANGED <<body, stranded, entries, lexer, outcome, done>>

Circular(t) ==
    /\ At(t, "loading?") /\ Entry(t).loading
    /\ Return(t, FALSE)
    /\ UNCHANGED <<body, stranded, entries, lexer, done>>

NotLoading(t) ==
    /\ At(t, "loading?") /\ ~ Entry(t).loading
    /\ Go(t, [Top(t) EXCEPT !.pc = "mark"])
    /\ UNCHANGED <<body, stranded, entries, lexer, outcome, done>>

Mark(t) ==
    /\ At(t, "mark")
    /\ entries' = [entries EXCEPT ![Top(t).entry].loading = TRUE]
    /\ Go(t, [Top(t) EXCEPT !.pc = IF Entry(t).parsed = None THEN "open" ELSE "run"])
    /\ UNCHANGED <<body, stranded, lexer, outcome, done>>

Unreadable(t) ==
    /\ At(t, "open") /\ Top(t).name \in Faults
    /\ entries' = [entries EXCEPT ![Top(t).entry].loading = FALSE]
    /\ Return(t, FALSE)
    /\ UNCHANGED <<body, stranded, lexer, done>>

\* init_lexer and parser_init: one lexer and one parser for all threads.
Open(t) ==
    /\ At(t, "open")
    /\ lexer' = Top(t).name
    /\ Go(t, [Top(t) EXCEPT !.pc = "scan"])
    /\ UNCHANGED <<body, stranded, entries, outcome, done>>

\* The statements are those of the source the lexer is in.
Scan(t) ==
    /\ At(t, "scan") /\ lexer # None
    /\ entries' = [entries EXCEPT ![Top(t).entry].parsed = lexer]
    /\ Go(t, [Top(t) EXCEPT !.pc = "run"])
    /\ UNCHANGED <<body, stranded, lexer, outcome, done>>

\* sage_error_exit jumps back to the loop of the REPL, which reads another line; a
\* program that is not typed there ends.  Nobody returns from the imports under way.
ErrorExit(t) ==
    /\ \/ At(t, "scan") /\ lexer \in Fatal
       \/ At(t, "run") /\ Top(t).name \in Fatal
    /\ stack' = [stack EXCEPT ![t] = <<>>]
    /\ stranded' = stranded \cup {stack[t][k].entry : k \in 1 .. Depth(t)}
    /\ lexer' = None
    /\ outcome' = [outcome EXCEPT ![t] = [name |-> stack[t][1].name, ok |-> FALSE]]
    /\ UNCHANGED <<body, entries, done>>

RunImport(t) ==
    /\ At(t, "run") /\ Top(t).at <= Len(Program(Top(t)))
    /\ Depth(t) < MaxDepth
    /\ stack' = [stack EXCEPT ![t] = Append(@, NewFrame(Program(Top(t))[Top(t).at].name))]
    /\ UNCHANGED <<body, stranded, entries, lexer, outcome, done>>

\* A statement throws, or an imported name is missing in the module that has it.
Throw(t) ==
    /\ At(t, "run") /\ Top(t).name \in Faults
    /\ Go(t, [Top(t) EXCEPT !.pc = "unmark", !.ok = FALSE])
    /\ UNCHANGED <<body, stranded, entries, lexer, outcome, done>>

EndOfModule(t) ==
    /\ At(t, "run") /\ Top(t).at > Len(Program(Top(t)))
    /\ Go(t, [Top(t) EXCEPT !.pc = "unmark"])
    /\ UNCHANGED <<body, stranded, entries, lexer, outcome, done>>

\* Mutant of Unmark: is_loading is reset on the way out of a module that succeeded only.
UnmarkLoaded(t) ==
    /\ At(t, "unmark")
    /\ entries' = [entries EXCEPT ![Top(t).entry].loading = ~ Top(t).ok]
    /\ Go(t, [Top(t) EXCEPT !.pc = "leave"])
    /\ UNCHANGED <<body, stranded, lexer, outcome, done>>

Unmark(t) ==
    /\ At(t, "unmark")
    /\ entries' = [entries EXCEPT ![Top(t).entry].loading = FALSE]
    /\ Go(t, [Top(t) EXCEPT !.pc = "leave"])
    /\ UNCHANGED <<body, stranded, lexer, outcome, done>>

\* Mutant of Leave: the lexer and the parser stay at the end of the module.
KeepLexer(t) ==
    /\ At(t, "leave")
    /\ entries' = [entries EXCEPT ![Top(t).entry].loaded = @ \/ Top(t).ok]
    /\ done' = IF Top(t).ok THEN Append(done, Top(t).name) ELSE done
    /\ Return(t, Top(t).ok)
    /\ UNCHANGED <<body, stranded, lexer>>

Leave(t) ==
    /\ At(t, "leave")
    /\ entries' = [entries EXCEPT ![Top(t).entry].loaded = @ \/ Top(t).ok]
    /\ done' = IF Top(t).ok THEN Append(done, Top(t).name) ELSE done
    /\ lexer' = Top(t).saved
    /\ Return(t, Top(t).ok)
    /\ UNCHANGED <<body, stranded>>

\* What a thread that is in an import does next.
Load(t) ==
    \/ Find(t) \/ Resolve(t) \/ NotFound(t) \/ Insert(t)
    \/ AlreadyLoaded(t) \/ NotLoaded(t) \/ Circular(t) \/ NotLoading(t) \/ Mark(t)
    \/ Unreadable(t) \/ Open(t) \/ Scan(t) \/ ErrorExit(t)
    \/ RunImport(t) \/ Throw(t) \/ EndOfModule(t) \/ Unmark(t) \/ Leave(t)

Next == \E t \in Thread :
    \/ \E m \in Module : Import(t, m)
    \/ Load(t)

Spec == Init /\ [][Next]_vars

\* Every thread is scheduled.
LiveSpec == Spec /\ \A t \in Thread : WF_vars(Load(t))

-----------------------------------------------------------------------------
(* Properties.                                                             *)

\* The frames of a thread are one inside the other: all but the last are at an import
\* statement of the module they run.
FrameOK(t, k) ==
    LET f == stack[t][k] IN
    /\ f.pc \in {"find", "insert"} <=> f.entry = 0
    /\ f.entry \in 0 .. Len(entries)
    /\ f.entry > 0 => entries[f.entry].name = f.name
    /\ f.pc \in {"run", "unmark", "leave"} => entries[f.entry].parsed # None
    /\ k < Depth(t) => f.pc = "run" /\ f.at \in DOMAIN Program(f)

TypeOK ==
    /\ body \in Bodies
    /\ entries \in Seq([name : Files, loaded : BOOLEAN, loading : BOOLEAN,
                        parsed : Files \cup {None}])
    /\ stack \in [Thread -> Seq(Frame)]
    /\ \A t \in Thread : \A k \in 1 .. Depth(t) : FrameOK(t, k)
    /\ lexer \in Files \cup {None}
    /\ outcome \in [Thread -> [name : Module \cup {None}, ok : BOOLEAN]]
    /\ done \in Seq(Files)
    /\ stranded \subseteq DOMAIN entries

\* A module is marked as loading exactly while its import is under way, or for ever if it
\* was dropped in the REPL: however an import ends otherwise, the next one finds no mark
\* that nobody will take away.
LoadingIsOnStack == \A i \in DOMAIN entries :
    entries[i].loading <=>
        \/ i \in stranded
        \/ \E t \in Thread : \E k \in 1 .. Depth(t) :
              /\ stack[t][k].entry = i
              /\ stack[t][k].pc \in {"open", "scan", "run", "unmark"}

\* No module is executed to its end twice, however often and from wherever it is imported.
LoadedOnce == \A i, j \in DOMAIN done : done[i] = done[j] => i = j

\* No module is loaded before everything it imports without catching the failure: what is
\* loaded is in dependency order, so nothing on a cycle ever is.
ImportsFirst ==
    /\ \A i \in DOMAIN done : \A s \in DOMAIN body[done[i]] :
          \/ body[done[i]][s].caught
          \/ \E j \in 1 .. i - 1 : done[j] = body[done[i]][s].name
    /\ \A i \in DOMAIN entries :
          entries[i].loaded => \E j \in DOMAIN done : done[j] = entries[i].name

\* When an import statement of the main program is over, the lexer and the parser are
\* where it left them: the program is parsed statement by statement as it executes.  After
\* a dropped line the main program is what is typed next.
LexerRestored == \A t \in Thread : stack[t] = <<>> => lexer = None

\* The modules that importing m imports, directly or through others.
Reach(m) ==
    LET Direct(x) == {body[x][i].name : i \in DOMAIN body[x]}
        Closed(S) == \A x \in S : Direct(x) \subseteq S
    IN {x \in Module : \A S \in SUBSET Module : Closed(S) /\ Direct(m) \subseteq S => x \in S}

\* An import fails only for a module that leads to a cycle, to a name without a file, to a
\* module that throws, or to one that may drop the line, which is refused as a cycle from
\* then on.  Whatever else was imported before it, failed attempts included, is no cause.
FailureHasCause == \A t \in Thread :
    ~ outcome[t].ok =>
        \E x \in {outcome[t].name} \cup Reach(outcome[t].name) :
            x \notin Files \/ x \in Reach(x) \/ x \in Faults \/ x \in Fatal

\* Every import comes to an end, cycles included.
ImportsEnd == \A t \in Thread : stack[t] # <<>> ~> stack[t] = <<>>
=============================================================================
