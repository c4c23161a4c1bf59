# A verification project for SageTree

SageTree is an interpreter, virtual machine and compiler for the Sage language, written in
C. This directory holds TLA+ models of its parts, the TLC configurations that check them on
small instances, and TLAPS proofs of what matters most for instances of every size. Paths
below are relative to the repository.

1. [The system](#1-the-system): its components, their state, and what is hard about them
2. [Modules and correspondence to the code](#2-modules-and-correspondence-to-the-code)
3. [Runs](#3-runs): what each one checks, its bounds, what it shows
4. [Proofs](#4-proofs)
5. [Where the code departs from what is said of it](#5-where-the-code-departs-from-what-is-said-of-it)
6. [What is not modelled](#6-what-is-not-modelled)
7. [Plan](#7-plan)

## 1. The system

| Component | Source (`src/`) | State | Operations | Modules |
|---|---|---|---|---|
| tracing collector (SageGC) | `src/gc.c` | object list with a color per header, mark stack, phase, barrier flag, sweep cursor, `enabled`, `pin_count`, thread registry | `gc_collect`, `gc.step`, `gc_alloc`, write barrier, pin, pause | TracingGC |
| scopes | `src/env.c` | a list of variables per scope, an index over it when there are many, parent link, `marked`, one global list of all scopes | `env_create`, `env_define`, `env_assign`, `env_get`, `env_sweep_unmarked` | TracingGC, EnvIndex, Values |
| scope index | `src/gc/env_hashmap.c` | Robin Hood hash table from names to values | set, get, grow | EnvIndex |
| values | `src/value.c` | arrays, dictionaries, instances, functions, strings, blocks behind pointers | push, set, get, equality, text | Values, Memory |
| interpreter | `src/interpreter.c` | scopes, recursion depth, loop and gas counters, generator resume state, rooted temporaries | one case per statement and expression, built-in functions | Interp, Natives |
| bytecode VM | `src/vm/` | value stack, frames, scope, instruction pointer | compile a statement, run it | Bytecode, MossVM |
| bytecode artifacts | `src/vm/program.c` | a text file of a compiled program; no count of its lines, no sum | write a program, read one | ArtifactFile |
| lexer, parser | `src/lexer.c`, `src/parser.c` | position, indentation stack, open brackets, parser depth | next token, next statement | Lexer, Parser, Printer, Frontend |
| passes, type checker | `src/pass.c`, `src/typecheck.c`, `src/constfold.c`, `src/dce.c`, `src/inline.c` | a tree, and per pass an environment or a table | rewrite a program | Passes |
| ownership checker | `src/safety.c` | scopes of variables with an ownership state, diagnostics | walk a program | OwnershipContext, Ownership, OwnershipWalk |
| C backend | `src/compiler.c` | tables of procedures, classes and slots; in the compiled program: frames of slots, contexts of `try`, a heap with a collector | emit a C program, which then runs | CRuntime, CBackend |
| threads | `src/stdlib.c`, `src/sage_thread.c` | handle, start record, `joined` flag | spawn, join, async/await, mutex | Threads, Future; TracingGC (as far as the heap sees them) |
| channels | `src/stdlib.c` | linked queue, count, capacity, closed flag, a mutex, two conditions | new, send, recv, try_recv, close | Channel, Fifo |
| module loader | `src/module.c` | cache list, per module `is_loaded`, `is_loading`, syntax tree, scope; one global lexer and parser | import in four forms | ModuleLoader |
| reference counting (ARC/ORC) | `src/gc.c` | a count per object, a buffer of possible cycle roots | `arc_retain`, `arc_release`, trial deletion; the interpreter calls none of them | - |
| other back ends | `src/aot.c`, `src/codegen.c`, `src/jit.c`, `runtime/` | text being written | emit | - |
| wrappers | `src/net.c`, `src/socket_module.c`, `src/lilybox/`, ... | operating-system handles | one call each | - |
| tools | `src/main.c`, `src/lsp.c`, `src/linter.c`, `src/formatter.c` | session | commands | - |

**How they interact.** A text goes through the lexer and the parser, statement by statement.
By default (`sage file`) each statement is compiled to bytecode and run by the VM, which hands
what it does not compile to the interpreter; `--runtime ast` runs the interpreter alone; the
compilers first run the passes, among them the type checker and the ownership checker, and then
emit. The interpreter and the VM share values, scopes and the collector. Every value comes from
`gc_alloc`, which may run a whole collection first. The collector finds live values through what
the interpreter tells it: the global scope, each registered thread's stack of scopes and of pushed
temporaries, and the module scopes. A value a C local alone refers to is invisible to it; `gc_pin`
around the construction of literals and argument lists is there to keep automatic collections
away. Scopes are not in the collected heap: the collector marks them and `env_sweep_unmarked`
frees the others. `thread.spawn` runs `interpret` in a new thread on the same heap and the same
scopes, with no lock around reads and writes. `import` re-enters the lexer, the parser and
`interpret` from inside a statement. Channels carry values between threads under a mutex of their
own. A compiled program has nothing of this at hand: it brings a runtime with a collector of its
own, whose roots are the slots of the functions that run.

**What is hard, and what correctness means.**

* *Collector.* The marker, the write barrier, allocation in the middle of a mark, root
  scanning and sweeping are separate steps that several callers (`gc.collect`, automatic
  collection, `gc.step`) drive through one phase variable. Correct: nothing reachable is
  released; after a full collection nothing else is left; during a mark every reachable white
  object can still be found from a gray one.
* *Threads and the heap.* No thread is stopped while another collects. Correct: the above, in
  every interleaving.
* *Channels.* One signal per value, waiters that are overtaken by threads which never slept,
  close while others sleep, spurious wakeups. Correct: the channel is a first-in first-out
  queue, and no thread sleeps beside work it could do.
* *Module loader.* Imports inside imports, cycles, exceptions half way, retries, several
  threads, the exit of the REPL from the middle of an import. Correct: a module is executed once, after
  what it imports; every import ends, fails for a reason, and, unless it was dropped, leaves no mark
  behind; the program that was being parsed goes on where it was.
* *Scopes.* A list and an index over it, in which entries displace one another. Correct: no name
  is lost or doubled, a search that stops early is right to stop, and a lookup answers what was
  written last.
* *Front end.* Layout by indentation that brackets suspend, look-ahead that is taken back by hand,
  a depth counter given back on every way out. Correct: what is written is what is read, lines nest
  as they are indented, and one refused text changes nothing for the next.
* *Passes.* Each looks into some kinds of nodes and not into others. Correct: a program prints
  after a pass what it printed before.
* *Ownership checker.* One walk in text order stands for all paths of the program. Correct: an
  accepted program never uses a value that was moved, and what is reported can happen.
* *Bytecode VM.* The compiler may give a statement up in the middle and leave it to the
  interpreter. Correct: the VM prints what the interpreter prints, and a statement leaves the stack
  and the scope as it found them. (Neither is so of every program: section 5.)
* *Bytecode artifacts.* A file with nothing to say that it is whole, left where it belongs by a writer that is
  killed, meets a full disk or gives up in the middle, or that never opened it. Correct: what is loaded is the whole
  program of the writer that opened the file last, and a file written without an error is loaded.
* *C backend.* The order of evaluation, the roots of temporaries, jumps out of functions and `try`
  blocks are those of C. Correct: a compiled program prints what the interpreter prints, and
  uses no object its collector took and no context it left.
* *Thread handles.* A start record that the new thread, `join` and `await` share without a lock, and
  whose contents the collector does not see. Correct: it is freed once, after the thread and every
  join are through with it, and whoever asks gets the result, having waited for it.

`PROJECT.json` lists each hazard at its line with the properties that watch it.

## 2. Modules and correspondence to the code

There are two families. *Protocols* (TracingGC, Threads, Channel, ModuleLoader, EnvIndex, ArtifactFile, OwnershipWalk) are state
machines whose actions are the steps at which something else can get between; they are what is
proved about. *Evaluators* (everything from Ast on) give the meaning of a tree, of bytecode or of a
compiled program as operators, and put a small state machine on top that runs a program statement by
statement, instruction by instruction or turn by turn; they are checked against one another. An
`MC` module adds what TLC is to run: programs, heaps, threads.

### TracingGC (`MCTracingGC`, `TracingGC_proofs`, `GCMarking_proofs`)

The heap is a graph over objects and scopes. `color` is the header's color (and, for scopes,
`marked`: white is 0, black is 1); "free" is an identity that is in no list. `slots` are
elements, fields or variables; `up` is a scope's parent or a function's closure. The mark
stack always holds exactly the gray objects, so it is the set `Gray` and has no variable.
`temps` is what a thread has told the collector about, `held` what only a C local refers to.

| Code | Action |
|---|---|
| `gc_collect`, and `gc_alloc` at a threshold, enter `gc_begin_cycle` | `Collect`, `AutoCollect` |
| its whitening loop, one turn; barrier up | `Whiten`; `EnableBarrier` |
| `gc_mark_all_roots`: the global scope, then each registered thread's stacks, entry by entry | `ScanGlobal`, `ScanThread`, `ScanRoot` |
| `gc_mark_step`, `gc_shade_children` | `MarkStep` |
| `gc_remark`: the roots again, barrier down | `Remark` (then the walk and `MarkStep`), `RemarkDone` |
| `gc_sweep_step`; `env_sweep_unmarked` and the end of the cycle | `SweepStep`; `FinishCycle` |
| `gc_mod_step` (`gc.step`) | `GcStep` |
| `gc_alloc`, `env_create` | `Alloc`, `Call` |
| `env_define`, `env_assign`, `array_push`, `array_set`, `pop` | `EnvDefine`, `EnvAssign`, `ArrayPush`, `ArraySet`, `ArrayPop` |
| `AST_GC_PUSH` and the push of a scope in `interpret`, their pops, discarding a value | `PushTemp`, `PopTemp`, `Discard` |
| reading a variable or an element | `Load` |
| `gc_pin`, `gc_unpin`, pause and resume | `Pin`, `Unpin`, `SetEnabled` |
| `thread.spawn`; the new thread makes its scope and binds the arguments, under `gc_mutex` | `Spawn`; `Begin` |

Choices worth knowing:

* `gc_collect` is several actions, one per point at which another thread can get between: each turn
  of the whitening loop, the global scope, the reading of a thread's stacks and the visit to each entry
  of them, each gray object, each turn of the sweep. One step is the visit to one root with the scopes above it,
  and the scanning of one object. A single-threaded program is inside it until it ends
  (`collector = t` disables the mutator).
* An entry read from a thread's stack that has left it by the time it is visited may have been
  overwritten by another root of the thread, or by nothing (`ScanRoot`).
* A scope is in no root from `env_create` until `interpret` pushes it: `Call` and `Begin` leave it in `held`,
  and `PushTemp` roots it. The arguments of a thread that has not begun are in its start record only
  (`held` of a thread in `starting`). A thread is *at rest* (`AtRest`) when all it has is rooted.
* Byte thresholds are abstracted: any allocation may find itself over one (`AutoCollect`).
* `pin_count` is the set of threads inside a pinned region; a region is not nested.
* Three sets say what a program does: `SoloOps` while all other threads are at rest, `SharedOps` while one is
  not, `BesideOps` while another is inside `gc_collect` (where `"evaluate"` is rooting, dropping and returning). The
  run uses them to ask about one class of programs at a time. `SafeProgram` states the class the safety theorem is
  about: its threads allocate and collect while the others are at rest, and beside a collection they only
  read. The code keeps no thread to that, and the traces of threads that do otherwise are in section 5.
* Where it matters whether `gc.collect()` is evaluated inside a literal or an argument list, that is an
  operation of its own (`"collectPinned"`); so is a `gc.step()` after the end of a mark (`"restep"`), as
  opposed to one up to there (`"gcstep"`). `GcStep` is of a program that has one thread, so its `RootScan` is
  one step.
* No thread allocates while another has a value that only a C local refers to: an allocation may
  collect, and `gc_mutex` does not wait for the other thread's value to be rooted.
* `Load` reads and roots in one step: the programs are taken to be race-free otherwise.
* The sweep branch of `gc.step` is not an action. `gc_collect` runs the cursor to its end, and
  nothing else sets it, so a lone thread always finds the sweep complete.
* A freed identity keeps its old slots until it is allocated again, which nothing reads.

### Threads, Future (`MCThreads`, `Threads_proofs`)

A handle stands for the thread it was returned for. `stage` is how far `sage_thread_entry` is,
`record` and `result` are the start record (`SageThreadData`), `joined` the flag of the handle and how
it was set, `lost` what the collector has released: what only the record refers to, and the scope of a
call, which is in no root between `Begin` and `Interpret` (`Unrooted`); `joiner` is what pthreads knows. `Uses` says what the program does with handles; a step that needs what is gone sets
`fault`.

| Code | Action |
|---|---|
| `thread_spawn_native`, also for `spawn:` blocks and calls of async procedures | `Spawn` |
| `sage_thread_entry`: read the record and register; make a scope and bind the arguments; store the result; unregister | `Enter`; `Begin`; `Return`; `End` |
| `interpret`, which makes the scope a root (`src/interpreter.c:4519-4525`) | `Interpret` |
| `thread_join_native`, `EXPR_AWAIT`, `BC_OP_AWAIT`: the flag is set; it is not | `AskJoined`; `Ask`, `Wake`, `Take` |
| `gc_mark_all_roots`, which knows nothing of records; `gc_shutdown` | `Collect`; `Exit` |

Only a join frees the record (`Frees`); an await keeps it for ever. The flag is read before the wait and
written after it, with no lock. What `pthread_join` does when a thread is joined twice, joins itself or
its joiner is undefined in POSIX; `Refuses` is what the GNU C library does, which is to return an
error that nobody looks at. `Future` is what a handle promises: the result, once there, never changes, and
whoever asks for it gets it. `Threads` implements it for the programs of `CarefulProgram`. They collect
only when every thread they have spawned is joined, or has told, through a channel say, that it runs its function.

### Channel, Fifo (`MCChannel`, `Channel_proofs`)

Each operation holds `ch->mu` except while it sleeps, so what it does between taking the mutex
and giving it back or sleeping is one action. A thread's `pc` is where it is: about to take
the mutex (`send`, `recv`, `try`, `close`), asleep in `pthread_cond_wait` (`onFull`,
`onEmpty`), or awake and about to take it again (`sendAgain`, `recvAgain`). A signal chooses
any one sleeper; `Spurious` wakes one for nothing. `len` and `is_closed` read one field under
the mutex and change nothing. `Fifo` is what the program that uses a channel sees: requests
and replies over a bounded queue, with no waiting and no conditions. `Channel` implements it
under the mapping that forgets whether a thread in a call is asleep.

### ModuleLoader (`MCModuleLoader`, `ModuleLoader_proofs`)

`entries` is the cache (the last one is the head of the list), `stack` the imports each thread
is in the middle of: one frame per activation of `execute_module`, with its statement position
and the lexer state it saved. `body` is the program, as the imports each module executes and
whether it catches their failure; `Faults` are the modules whose other statements may throw, or
whose file may be gone. `find_module` and the insertion hold `module_mutex` and are
one action each; `is_loaded` and `is_loading` are read and written with no lock, so each read
and each write is an action (`AlreadyLoaded`/`NotLoaded`, `Circular`/`NotLoading`, `Mark`,
`Unmark`, `Leave`). `lexer` is the source the one global lexer is in. `Throw` is any statement
that throws, `Unreadable` a file that has gone since it was resolved. `done` is a history
variable. Writing `is_loaded` and restoring the lexer, adjacent and by one thread, are one
action.

`ErrorExit` is `sage_error_exit` (`include/repl.h:24`): a text that the parser refuses
(`src/parser.c:23`) or a misused `next()` (`src/interpreter.c:1280`) in a module of `Fatal`. In the REPL it
jumps to the loop in `src/main.c:1409`: every import under way is dropped with its marks, which the history
variable `stranded` remembers, and the next line is read by a lexer of its own. A program from a file ends
there, which is a behaviour of the model too: nothing has to follow. A jump made by another thread than the
one that typed the line is undefined in C and not modelled, nor is `:reset`, which makes a new cache. What
the parser read of the refused text stays in `module->ast` and never executes, so that `parsed` does not
record it.

### EnvIndex, ScopeStore (`MCEnvIndex`, `EnvIndex_proofs`)

One scope. `value` and `order` are its list, `table`, `cap` and `count` the index, `work` the
entries still to be put into it by the call at hand (one, or the old table or the list while it is
copied), and `key`, `ins`, `slot`, `probe` the locals of the probing loops.

| Code | Action |
|---|---|
| `env_define` of a new name; `env_define_const`, with the promotion past the threshold | `Define`; `DefineConst` |
| definition of a name that is there, `env_assign` | `Rewrite` |
| a loop over an array or a string writes the node of its variable | `WriteSlot` |
| `envmap_grow` | `Grow`, `Skip` |
| `envmap_set`: one turn of its loop each | `Begin`, `Place`, `Replace`, `Displace`, `Advance` |
| `env_get`; `envmap_get`: one turn each; the list | `Get`; `Hit`, `Miss`, `LookOn`; `Scan` |

`ScopeStore` is what a scope promises: a lookup answers what was written last, except perhaps for
names in `behind`, those a loop wrote since. `EnvIndex` implements it. Lookups in the enclosing
scopes are the same search in another scope and are left out.

### Ast, Values, Memory, Natives, Interp

`Ast` has a record constructor for each one of `src/ast.c`. A *world* (`Values`) is a record of what
was printed, the scopes, the heap, the resume target of generators, the counters of depth and gas.
`Memory` has blocks of bytes, integers of one to eight bytes in them, and C structure layout.
`Natives` has the outcome of an evaluation (`ExecResult`: a signal, a value, a world), some
forty-five built-in functions and the built-in methods. `Interp` evaluates: `Eval(e, en, st)` and
`Exec(s, en, st)` are the two big switches of `src/interpreter.c`, with one operator per case that
does something of its own; `Then` is how every case goes on, or does not, after evaluating a part.
The order of evaluation, the errors that are only reported and give nil, the exceptions that stop,
which scope a name is defined in, and what generators do on re-entry are those of the code.

Restrictions: integers only (no floating point, bit operations or overflow: TLC's integers are used
on small numbers), dictionaries of at most one key are listed or printed, `StrLess` orders the strings
the programs compare, the interpolation of strings is left out, and so are threads and imports, which
the protocol modules are about.

### Bytecode, MossVM (`MCMossVM`)

`Bytecode` compiles a statement to a sequence of instructions: `CompileStmt` and `CompileExpr` with
their early stops; what was emitted before a stop stays. `MossVM` runs them, an action per group of
instructions of the `switch` in `vm_execute_chunk`, and beside it lets `Interp` run the same statement
when the machine starts it (`ast` is its world). A script leaves what does not compile to the
interpreter (`OpExecAstStmt`); an artifact is refused unless all of it compiles and can be written.
A jump operand that was never patched is kept as such (`patched`). Calls of the machine into the
interpreter are one step. The history variable `apart` notes an instruction that met operands with which
the interpreter does something else (`MeansTheSame`: where the machine throws and the interpreter has nil,
`__eq__`, a division by zero, a negative index of a tuple, a wrong number of arguments).

`VMAgrees` and `Balanced` say what they say of *tidy* programs: no `break` in the body of a `for`, neither its own nor that
of a loop inside it, and no expression given up after something was emitted for it. For the output the program must besides
have nothing that is known to be meant otherwise (`Common`: `defer`, a division by a literal 0, an assignment to what
cannot be assigned, a `match` left by a jump, `super` in an `init`), and no instruction may have been noted. The
conditions are on the program and on the operands, never on what the machine did; without any one of them
the run finds the difference (section 5).

### ArtifactFile (`MCArtifactFile`, `ArtifactFile_proofs`)

A program is tables of functions and of chunks; each of these (`Unit`) has its parameters, constants and code.
The file is a sequence of lines: a keyword with a count, or a text in hexadecimal digits. A program is compiled first
(`Compile`); only then is the file opened for it, which empties it (`Open`), or is not, because `fopen` fails or the
process is killed before it (`NotOpened`): the former file stays. `writer` is a cursor over
the program the file was opened for (`built`), one line per `Write`; `LineAt` is the line it prints and `After` where the
loops of `bytecode_program_write_file` go on. A constant that is neither a number nor a string makes it give up
(`Close`). `Break` is a process that is killed, or a write or flush that fails: some end of the lines, and perhaps of
one line, is missing. `reader` is the line that is looked at, as what, the counts that were announced and what has
been read, with one action per line that `bytecode_program_read_file` asks for; a line that is not the one it needs
ends in `Refuse`.

Digits stand for their bytes and numerals for their numbers; a numeral that was cut is a smaller one, or another
float. Line and column numbers of the code are not stored. Texts are shorter than two gigabytes, as
their lengths are read into an `int`. The two processes do not use the file at the same time.

### Lexer, Parser, Printer, Frontend (`MCFrontend`)

A text is a sequence of pieces (a blank, an end of line, a sign, a word, a number, a quoted string, a
comment): how characters make a word is left out, layout and brackets are not. `Lexer` turns it into
tokens; `Parser` has one operator per function of `src/parser.c`, on a state that is passed along, and
after an error every operator returns what it is given, which is what the jump out of the parser does.
`Printer` is the reference: it writes a tree as a text in a plain and in a terse style, from the
grammar comments and the language specification. `Frontend` reads texts one after another: `Submit`
types one, `ParseNext` reads a statement of it. What is static in the code (parser depth, the counters
of destructuring) outlives a text.

Three forms cannot be written and are avoided in the printed programs: an empty block (`end`) is not
followed by `else`, `elif`, `catch` or `finally`; an expression statement that begins with
`comptime(` stands in parentheses; and a statement that begins with `match` is a match statement.

### Passes (`MCPasses`)

`Next` runs the passes of a level in the order of `src/pass.c`, each a statement at a time:
`TypeCheck`, `Fold`, `CollectUses` and `RemoveDead`, `CollectCandidates` and `Inline`. What
a program means is what `Interp` prints for it. Memory that is read after it was freed, or before it
was written, is a node of its own (`Freed`, `Garbage`), and the variable `stale` records that
a freed return expression was read.

### OwnershipContext, Ownership, OwnershipWalk (`MCOwnership`, `OwnershipWalk_proofs`)

`OwnershipContext` is what the checker knows, scopes with their variables and the diagnostics so far, and its
checks of one name (`safety_declare`, `safety_lookup`, `safety_check_use`, `safety_check_move`, the end of a `let`).
The other two put a run beside it.

`Ownership` is the walk over whole programs: `AnalyzeStmt` and `AnalyzeExpr`, over the `ctx`. When the program is accepted it runs along any path (`todo`): branches,
loops of up to `MaxTurns` turns, exceptions at any call, over variables that know whether their value
was moved.

`OwnershipWalk` has no program. The text is any text, read piece by piece, and each action is what the
checker and the run do with the next piece: both meet a use (`Use`) or an argument (`Pass`), or only the checker does,
because the run skips it (`ReadUse`, `ReadPass`); a scope is entered by both (`Enter`) or read only (`ReadEnter`);
an exception, a return or a break takes the run out of a scope that the checker goes on reading
(`Escape`); an assignment gives a name a value and tells the checker nothing (`Restore`); a `let` declares its name
before its initialiser is read (`BeginLet`, `EndLet`). `owned` holds the scopes of the run, `skipped` counts
those of the checker that the run is not in, `misused` says whether it used or moved a value that was gone, and the
history variable `exact` whether it has done all that was read. What changes the order of a run (calls,
further turns of a loop, `defer`) is in `Ownership` only. In both, a run has the scopes of the text; section 5
says where the interpreter has fewer.

### CRuntime, CBackend (`MCCBackend`)

`CRuntime` is the runtime a compiled program brings along: objects, mark and sweep, frames of slots,
contexts of `try`, helpers. An object that was swept is `Freed`, and using one, or a context or frame
that was left, sets `wild`. `CBackend` first collects names as the compiler does (phases `symbols`,
`globals`), decides what is emitted and what the C compiler then accepts (`emit`), and runs the
result statement by statement (`run`): `CEval` and `CExec` evaluate with the C compiler's freedom
to evaluate arguments from the last (`rtl`), and call the helpers of the runtime. Three sets of
programs are told apart:

* `Portable`: programs whose meaning the backend is meant to keep, that is, those that avoid what
  it is known to treat otherwise (section 5): declarations first, no effects in operands whose order
  would show, one catch per try, no jump out of a try, no names bound twice.
* `Disciplined`: programs in which at most one operand of anything is a temporary, tries are in the
  main program, and objects are written by their own methods.
* a run in which a helper meets a value it treats in another way than the interpreter does
  (`differs`), or an access is outside of a block (`astray`), is not compared.

Left out: imports, integer literals (`src/compiler.c:1818` emits the wrong member of the node, so
programs make their numbers with `len`), classes inside procedures, floating point, pointer fields.

## 3. Runs

All twelve run in a few minutes together; the largest has some 700,000 states.

| Run | Question |
|---|---|
| `collector` | a program of one thread with all operations but gc.step and pauses; one of two threads that allocate, collect and spawn while the other is at rest, and read at every step of the other's collection; or one that marks with gc.step between its stores: types, nothing reachable is released, a collection by the only thread releases all the garbage, the barrier keeps every reachable object findable |
| `threads` | a careful program with up to three threads, in rows or in a tree: nothing is used after it is gone, implements `Future` |
| `channel` | three threads: no lost wakeup, implements `Fifo`; with fair scheduling nobody waits for ever beside work |
| `loader` | one thread, some eighty import graphs, exceptions and vanishing files in one module, a refused text in another: dependency order, once each, no mark left behind but by a dropped import, the lexer comes back, failures have a cause, every import ends |
| `index` | one scope whose names collide: no name lost or doubled, a search that stops early is right, there is always room, every call ends, implements `ScopeStore` |
| `index_stale` | expects a violation: see section 5 |
| `mossvm` | programs over all that the bytecode compiler translates: the machine prints what the interpreter prints, and stack and scope are balanced, under the conditions of section 2 |
| `artifact` | programs are written over one another, by writers that may break off anywhere, and read back: what is loaded is the whole program of the last writer that opened the file, which is the one compiled last unless its file could not be opened; what was written whole is never refused |
| `ownership` | programs of two or three statements: an accepted one never uses a moved value on any path; what is reported of straight-line programs is real. Beside a run of any text: a silent checker vouches for the run, and what it reports of a run that does all it reads is true |
| `passes` | programs at each level: folding, dead code elimination and inlining keep the output under their conditions; warnings are about values of another kind |
| `frontend` | programs, layouts and short texts, each after a refused one: what is written is what is read, lines nest as they are indented, nothing is dropped unread |
| `compiled` | compiled programs under early and late collections and both orders of evaluation: portable ones print what the interpreter prints, disciplined ones never use what was collected or left |

**Bounds, and why they are enough.**

* *TracingGC.* Two scopes, one slot each, two threads; two objects, or three (`Spare`) and no calls for a
  program that marks in steps. One slot makes chains, self-references and cycles of two; three objects are what a barrier violation
  needs (a scanned one, a white one, and the one that led to it). A scope beside the global one gives
  a call and a closure over it, or the scope of a thread that begins. Automatic collection at every allocation
  makes up for the small heap.
  A stepping program has one thread and makes no call, because a scope created during a mark is unmarked until a
  remark, which gc.step never runs. `MCTracingGC` joins the three kinds of programs (`program`), each an
  instance of TracingGC with operations of its own. Two objects suffice for threads that only read beside a collection:
  one is loaded from the other after the stacks were read. (A thread that also drops needs a chain of
  three to escape both walks, and is outside the run and the theorem: see section 5.) The theorems cover any heap and any number of threads.
* *Threads.* Three handles are three threads of main, a thread of a thread of a thread, or one beside a
  row of two, with collections between a spawn and the join once the thread runs. One of them has a function
  and a result that no variable keeps. Two results show whose
  answer one gets. The theorems cover any number.
* *Channel.* Three threads are two sleepers of one kind and a waker, or a sleeper, a waker and
  a thief that takes what the sleeper was woken for; the theorems of section 4 cover any
  number. Two values show order. Capacities 0, 1 and 2 cover unbounded, the tightest bound,
  and one where a send and a receive need not alternate. `MaxQueue` bounds an unbounded queue
  only.
* *ModuleLoader.* Three modules and a name without a file: cycles of length one, two and three,
  diamonds, and a module off the cycle that leads to it. One module has up to two imports, the first
  caught or not, so a failed import can be repeated and passed by; the module that may throw or vanish is the one
  the others lead to, and the one that leads to it is the one whose text may be refused. `MaxDepth` is 4, which one thread never meets with three modules (`BoundIsNotMet` in section 4).
* *EnvIndex.* Four names and a threshold of 1 pass the promotion and one growth of the table (from 4
  slots to 8); one, two or three of them hash to the first slot and the others to the last of
  both tables, so that probing wraps and chains run into one another. The theorems cover any
  number of names and any hash function.
* *MossVM.* 196 programs: each of 26 expressions as a printed value, a binding, a condition and in
  the bodies of both loops, then the statements that need programs of their own, loops in loops left from
  within and from without, and artifacts; and for every condition of `VMAgrees` and `Balanced` a program that
  does not meet it and prints something else or leaves its stack otherwise: breaks under a `for`, expressions
  given up after a call or a jump, operands the two take differently. `note(v)`, which prints its argument,
  makes the order of evaluation visible. 24 places of the stack are enough; only the jump without a target fills them.
* *ArtifactFile.* Programs without anything, with functions only, chunks only and both, with and without
  parameters and constants of each kind (one that cannot be written among them), and with empty texts. Every prefix of their
  files is met, and every way to cut a line. Two bytes and two numbers show what was mixed up. The theorems cover
  every program.
* *Ownership.* Pairs of 60-odd statements and triples of a dozen, over two variables: the moves,
  uses and rebinding of one name on the two sides of a branch, a loop, a `catch` or a scope. Beside them
  (`walking`), every text of two interchangeable names, up to three scopes deep with three variables in them, two in any
  one, that reports one thing: shadowing within a scope and across two, and a let over each. The theorems cover
  every text.
* *Passes.* Some two hundred programs: what a pass rewrites, in the positions it looks into
  and those it does not, each followed by statements that show the result; and for each condition of the
  properties programs that do not meet it (`Edges`), which change their output: without any one of these
  conditions TLC finds the property violated.
* *Frontend.* Each operator under each other on both sides; each form of expression around each
  other; each statement with four bodies; in two styles; all layouts of five words at up to four
  indentations and of four lines with brackets; stairs beyond the deepest indentation, here 7; all texts
  of up to three words or signs out of sixteen. Two texts of a session: the first is refused in the
  middle of brackets or of a block.
* *CBackend.* Some 2,300 initial states: each program, a collector that starts at the first object or
  at the sixth, both orders of evaluation. Four contexts of `try` (`MaxTryDepth`) let programs reach
  the limit.
* *Evaluators.* `MaxRecursionDepth` 30, `MaxLoopIterations` 20 and `MaxDefers` 4 stand for the
  large limits of `src/interpreter.c`; no program of the runs is meant to reach them.

**Fairness.** `Channel`: weak fairness of each thread's `Run`, which says that a runnable thread is
scheduled and gets an available mutex; nothing is assumed of spurious wakeups, so no sleeper is
rescued by one. Which sleeper a signal picks is not fair either, so what is promised is that *some*
waiter goes on. `ModuleLoader`: weak fairness of each thread's next step, that is, the thread is
scheduled; which step it takes (a statement throws or does not) is left open. `EnvIndex`: weak fairness
of `Step`, a call that has started keeps running.

Nothing in `ArtifactFile` is fair: its properties are about every file there may be.

**Deadlock** is checked except where a program comes to its end (`collector`, whose stepping
programs cannot drop an object or begin a second cycle, and the runs of `Threads`, `Ownership`, `Passes`,
`Frontend` and `CBackend`). A bytecode program that has ended repeats its last state.

## 4. Proofs

Eight modules hold 36 theorems and the lemmas they rest on. The type invariants of `EnvIndex`,
`ModuleLoader`, `ArtifactFile`, `Channel` and `Threads` are proved and not among the runs. Assumptions on the constants are the
named `ASSUME`s of each module; nothing is assumed about their size except that `Thread` of a channel
and `Name` of a scope are finite. What a theorem says of some programs only has their definition as
its hypothesis; section 5 names what happens to the others.

**TracingGC_proofs.** `TypeCorrect`: `Spec => []TypeOK`, for every program. Beyond types it
says that no scope is ever gray and that `cursor`, `phase` and `collector` agree.

`CollectorIsSafe`: `SafeProgram => (Spec => []NoDangling)`. `NoDangling` alone is not
inductive: a state can have no dangling reference and yet be about to sweep a reachable white
object. `IInv` adds

* `HeapInv`: what a cycle that has reached its sweep will not release (`Kept`) holds all roots
  and is closed under references;
* `MarkInv`: while marking, every set the marker could still end with (`Markable`) holds
  all roots and is closed. Quantifying over the sets avoids reachability, hence induction over
  paths: at the end of the remark nothing is gray, the marked set is itself such a set, and so
  it is closed and holds the roots;
* `WalkInv` and `Ahead`: while the roots are walked the first time, `MarkInv` is about the sets that also hold what the
  walk has still to come to (`Ahead`): the roots when it begins, then the stacks not read and the entries
  not visited. A visit takes a node from `Ahead` and marks it; a load by another thread adds to the roots a node
  that is reachable already;
* `ColorInv`: which colors a phase admits, so that a new cycle starts with unmarked scopes;
* `ThreadInv`: during a cycle every thread is at rest, the collecting one included, and the barrier is up from the
  end of the root scan to the end of the remark.

All but the last, with the types, are `GraphInv`, which says nothing of threads and pins, and most lemmas are about
it alone: they say what a load, a store, an allocation or a mark does to a heap in which `GraphInv`
holds, so that the proofs of the two other classes of programs below share them. The remark's second walk needs no
invariant of its own: for these programs it finds nothing that the first did not lead to.

**GCMarking_proofs**, what a cycle releases. `CollectionFreesAllGarbage`: `SafeProgram => (Spec => CollectionIsExact)`. That what
is kept is live needs the converse of `HeapInv`: while one thread runs, what is marked is reachable,
and so is what the sweep keeps (`ExactInv`). `MarkWithin` is the lemma: within a closed set,
marking from members marks members. With the reachable nodes as the closed set there is no induction over
paths here either. With several threads the statement is false (a value may lose its last reference while
it is marked), so it is about collections by the only thread.

**GCMarking_proofs**, the barrier. `BarrierProtects`: `SafeProgram \/ SteppedProgram => (Spec => []GrayProtected)`, and
`SteppingIsSafe`: `SteppedProgram => (Spec => []NoDangling)`. A `SteppedProgram` marks with gc.step
between its own steps and has one thread, so `ThreadInv` does not hold of it: a mark goes on with no collector and
with values in C locals. `StepInv` is `GraphInv` with what does hold. `GrayProtected` follows from `MarkInv`: the
nodes that can be found from a marked one through nodes not yet scanned are a `Markable` set.

**Threads_proofs.** `TypeCorrect`: `Spec => []TypeOK`, for every program, also one that makes each of
the mistakes; `CarefulIsSafe`: `CarefulProgram => (Spec => []NoMisuse)`; `HandlesAreFutures`:
`CarefulProgram => (Spec => IsFuture)`, with one step per action that is an action of `Future` or a stutter.
`IInv` adds to the types

* `OwnersRun`: whoever spawned a thread that is not joined yet still runs. So when main ends, every
  thread has, although main knows only of its own;
* `IsTree`: no set of threads spawned itself. It makes that conclusion possible without induction over the
  ancestors: the set of all threads that still run would be such a set;
* `JoinedEnded`, `CallsAreOwn`: a joined thread has ended, only a join frees its record, a call is about a thread
  of the caller and the only one about it, so no wait is refused and none reads a freed record;
* `LostIsDone`: what the collector releases is not used again; no function and no scope is released before
  its time.

**Channel_proofs.** `TypeCorrect`; `WakeupsSuffice`: `Spec => []NoLostWakeup`, inductive
together with `TypeOK`, by counting threads at each point; `ChannelIsFifo`: `Spec => F!Spec`,
with one step per action that is either an action of `Fifo` or a stutter.

**ModuleLoader_proofs.** `TypeCorrect`: `OneImporter => (Spec => []TypeOK)`, and `LoadsInOrder`:
`OneImporter => (Spec => []ImportsFirst)`, for every program, every depth of nesting and with or
without faults. `OneImporter` says that at most one thread executes imports: with two, the shared
lexer and the unlocked `is_loading` let an entry be parsed again, from another module's source, while it
executes, and TLC finds both invariants violated (section 5). `ImportsFirst`
is about what is done and says nothing of imports under way, so the invariant `Inv` adds

* `Stacks`: in every frame that runs, the uncaught imports before the current statement are
  done (`Before`); a frame that ended without a failure has them all; and every frame but the last
  stands at the import statement that the next one executes (`Waits`), so that the end of the one is
  the progress of the other;
* `OwnSource`: an entry is parsed from its own source, as the lexer is in it while it is scanned;
* `LoadedDone`: what the cache says is loaded is done, which is what `AlreadyLoaded` relies on.

The proof has a lemma for each way a step changes the stack (`GoStep`, `ReturnStep`, `BeginStep`) and
one for each group of actions. The cache only grows and `done` is only added to (`Grows`, `Adds`), so
the frames below the last are not disturbed (`StackKept`).

The second part of the module is what an import leaves behind, for the same programs:
`MarksMatchStack` (`LoadingIsOnStack`), `RunsOnce` (`LoadedOnce`), `LexerComesBack` (`LexerRestored`)
and `FailuresAreCaused` (`FailureHasCause`). To `Inv` they add `CacheInv`:

* `MarksMatch`, `Apart`: `is_loading` is set for an entry exactly while one frame, and only one, is between
  setting and clearing it, or when the exit of the REPL dropped it (`stranded`); no frame is between them for an
  entry that was dropped;
* `NotYet`, `Inserting`: a frame past the test of `is_loaded` has an entry that is not loaded, and one about to
  insert finds no entry of that name in the cache;
* `LexerOf`: the first frame has saved the lexer of the main program and gives it back;
* `OneEntry`, `LoadedOf`, `Once`: a name has one entry, and is done once and loaded when it is done;

and for the causes `CauseInv`: every module on the stack is reached from those below it, so that one
which is on it twice leads to itself, and a frame that is to fail has a cause; and `StrandedInv`: so has what
was dropped, since each module on the stack leads to the last, which is in `Fatal`. `Reach` is the least set
closed under imports, so that `CauseCarried` (what leads to a module with a cause has that cause) needs
no induction.

From the same invariants, how deep imports go: `NestingIsBounded`, never deeper than the number of files and one, since the
modules being executed have different entries (`Apart`), so that the frames map into the files one to one (`Different`); and
`BoundIsNotMet`, a `MaxDepth` above the number of files is never met. So the bound of the runs (`MaxDepth` 4, three files)
leaves nothing out.

**EnvIndex_proofs.** For every set of names, every hash function, every threshold and table size:
`TypeCorrect`; `MissesAreRight`: a probe that stops early never misses a name the index holds;
`AlwaysRoom`: an insertion meets a free slot; `EachNameOnce`: between calls the index holds each name
of the list once and no other; and `KeepsStore`: `Spec => Scope!Spec`, a scope implements `ScopeStore`.
None of them is inductive alone. `IInv` adds

* `Placed`, `Rich`: an entry is as far from its home as its `dist` says, and on the way there no slot
  holds an entry nearer to its own home than the place is to this one's. This is the order that
  displacement keeps and the reason why a search may stop early;
* `Carried`, `Exchanged`: the same of the entry that is being carried along, and that until the first
  exchange no slot passed holds the new name, while after it the new name has its slot already;
* `Counted`: `count` counts the taken slots and a quarter of them is free while one is looked for;
* `Unique`, `Covered`, `Current`: table, carried entry and `work` together hold the names of the list,
  each once in the table, with the values of the list except for names in `behind` and for the one
  still to be entered last;
* `Looking`: what a lookup has passed is not the name.

What the loops over arrays and strings leave stale (section 5) is all there is: `OnlyLoopsAreBehind`, only their
variables are ever `behind`; `OtherAnswersAreCurrent`, a lookup of any other name answers what was written
last; and `CurrentWithoutLoops`, when there are no such loops `AnswersAreCurrent`, which `index_stale` violates, holds.

`WalksDoNotComeRound` is the safety half of `CallsEnd` at every size: each turn of a probing loop is one slot farther from
where it began, and less than the table away, because a slot ahead is free (`RoomAhead`). That the loop is turned at
all, and that a table does not grow for ever, is left to the run.

**ArtifactFile_proofs.** For all programs, however long, and every place at which the writer may break off:
`Typed` (`TypeOK`), `LoadsWhatWasBuilt` (`LoadedIsBuilt`: an accepted file is the whole program it was opened for last, and
an older program only if it was not opened for the last one) and `AcceptsWhatWasWritten` (`WrittenIsAccepted`).
The reader does not know what the writer had in mind, so the invariant (`Invariant`: `Spec => []IInv`) says that there is
a path of cursors along which the lines of the file were written, the last line perhaps cut, and that

* `Synced`: as long as the reader goes on, it stands at a line as what the cursor of that line says, with the counts of
  the tables it is in, and what it has read is the part of the program before that cursor;
* a reader that has passed a cut line has nothing to read but the end of the file.

`ReadMeets` says what the line under the reader is, `ReadMoves` that reader and cursor go on to the same place, and
`CutIsNotAccepted` that the line after which the reader accepts is `endchunk`, or a count of zero, which when cut are
not themselves any more. Paths are of any length, so TLC does not enumerate them; the runs check the three
properties.

**OwnershipWalk_proofs.** For any number of names, any text, any depth of scopes and length of their lists of
variables: `SilenceVouches` (`SilenceIsSafe`) and `AlarmsAreTrue` (`MoveAlarmsAreReal`). Neither is inductive: both are
about the past of the run and say nothing of what the checker will find when it looks a name up next. The invariant
(`Invariant`: `Spec => []IInv`) is `Fits`, of a context and the scopes of a run:

* `Aligned`: leaving out the `skipped` innermost ones, the scopes of the checker are those of the run, each name is bound
  in the same ones, and as much of a Copy type here as there. A run in the middle of a `let` has not bound its name and
  the checker has, so the newest variable is left out then (`Bound`), and `LetOK` says it is the variable of the let;
* `Silent`: if nothing has been reported, nothing was misused, and whatever is gone in the run is marked as moved
  in the checker. The other way round need not hold, as the checker also marks what the run skips;
* `Real`: if the run has done all that was read and misused nothing, nothing is `skipped`, no move was reported, and
  what the checker has marked is gone.

The lemmas about looking a name up say that the two find it in corresponding scopes (`Aligned` makes the innermost scope that
knows it the same), including while a variable of the same name is about to be bound. There is one lemma
for each way a step changes the two: a mark, a binding, a scope that is entered, left or escaped from, a diagnostic.

**Only model-checked.** What needs fairness: `Progress`, `ImportsEnd`, `CallsEnd`. And everything about
the evaluators (`MossVM`, `Ownership`, `Passes`, `Frontend`, `CBackend`), which are recursive over trees:
recursive operators and structural induction are outside what the prover handles. For `Ownership` that leaves what
`OwnershipWalk` does not have: that the pieces of a text are read in the order that `AnalyzeStmt` says, and runs with
calls, several turns of a loop and `defer` (`AcceptedIsSafe`, `AlarmsAreReal`). Every other property
of a passing run is the statement of a theorem.

## 5. Where the code departs from what is said of it

**With a run.** `index_stale`: a `for` loop over an array or a string writes the node of its variable
and not the index (`src/interpreter.c:5003`, `:4974`), although `src/env.c:227` says of the two "Keep map
in sync (critical: map is read first by env_get)". The counterexample defines two names, so that
the second promotes the scope, lets the loop write one of them and looks it up.

**Found while modelling.** Each of the following is a small change of a configuration away, or is what
a restriction of section 2 or a condition of a property is there for.

*Collector and threads.*
* `pop()` takes a reference out of an array without the write barrier (`src/interpreter.c:786`):
  with `"pop"` among the `SteppedOps` of `collector`, `GrayProtected` is violated.
* A cycle that gc.step started leaves its marks on scopes, `gc_begin_cycle` resets objects only
  (`src/gc.c:617`), and the next `gc.collect()` skips those scopes and frees what they hold: `GrayProtected` and
  `NoDangling` with `"collect"` among the `SteppedOps`. A `gc.step()` after the end of a mark starts another one under
  the marks of the first (`"restep"`): `GrayProtected`. A scope that a call creates during a mark is unmarked
  and nothing gray leads to it (`"call"`): `GrayProtected`.
* An explicit `gc.collect()` does not look at the pin count (`src/gc.c:771`): `NoDangling` with
  `"collectPinned"` among the `PlainOps` of `collector`. A `gc.step()` in a
  pinned region, likewise, marks without what a C local refers to: `GrayProtected` with `"pin"` added
  to `SteppedOps`.
* The phases called stop-the-world (`src/gc.c:495`, `:607`) stop nobody. With `"define"` and `"evaluate"` beside
  `"load"` in `BesideLoads`, `NoDangling` is violated: the walk has marked the global scope, another thread
  defines a variable in it to a value and drops its own reference before its stack is read; the remark stops at scopes that are
  marked (`src/gc.c:662`), so neither walk sees the value, and the sweep frees it. `"store"` in the place of
  `"define"` does the same. With `"call"`, a scope created during another thread's collection has no mark and is in no
  root, and is freed in use (`src/env.c:43`).
* A new thread's scope exists from `src/stdlib.c:1197` and is a root from `src/interpreter.c:4519`. With `"collect"`
  (or `"alloc"`) in `ReaderOps`, another thread collects in between, `env_sweep_unmarked` frees the scope
  (`src/gc.c:802`), and the thread runs in it: `NoDangling`. The same goes for its arguments before it begins, which
  only its start record refers to.
* gc.step never sweeps: `src/stdlib.c:1374` begins no cycle that ends.

*Thread handles.* Each of these violates `NoMisuse` when it is added to the `Uses` of `threads`.
* `"rejoin"`: `thread.join` frees the record, sets it to null and keeps no copy of the result. A second join or an
  await reads through the null pointer (`src/stdlib.c:1269`), under the comment "Already joined, return
  cached result".
* `"share"`: two threads that join one handle both free its record; a refused wait answers before the function has
  ended (`IsFuture`).
* `"careless"`: functions, arguments and results that only a record refers to are in no root, so a collection between
  a spawn and the thread's start, or between its end and the join, releases them (`src/gc.c:489`). Whatever
  variables keep, the new thread's scope is in no root either from where it is made (`src/stdlib.c:1197`) until `interpret`
  has it (`src/interpreter.c:4519`); the sweep of scopes frees it in between (`src/gc.c:802`).
* `"abandon"`: a `spawn:` block is "fire-and-forget" (`src/interpreter.c:4714`), and main shuts the heap down
  without waiting for any thread (`src/main.c:2152`).

*Module loader with two threads* (`Thread = {t1, t2}`): importing what another thread is loading is
reported as a cycle (`src/module.c:230`); two first imports of one module make two entries,
executed in two scopes (`src/module.c:321`); a module executes the statements of another one that is
being parsed meanwhile (`src/module.c:252`).

*Module loader in the REPL.* A syntax error in a module, or a misused `next()` there, jumps past the line that
clears `is_loading` (`src/module.c:286`). Every later import of that module, and of those that were importing
it, is refused as a circular dependency (`src/module.c:230`) although nothing is circular and the text may have
been mended since; `LoadingIsOnStack` and `FailureHasCause` name this cause. The pin of `src/module.c:270` is
not taken back either, so that automatic collections stay off for the session.

*Scopes.* A scope is only promoted when its ninth name comes from `env_define_const`; if it comes from
`env_define` the scope never gets an index, whatever `include/env.h:16` says. The fallback of
`src/env.c:166` for names the index does not hold finds nothing, as `MissIsRight` shows.

*Interpreter.* A `yield` inside a loop over a range yields nothing; inside a loop over an array the generator
restarts its loop for ever. Deferred statements run at each yield and again at the end.
`values_equal` does not end on cyclic arrays. The scope of a match guard (`src/interpreter.c:5410`) and the
string a loop walks over are in no root. `string_replace` with an empty text to replace does not
end (`src/value.c:593`). The arguments of an enumeration constructor are evaluated more than once.
`struct_get` and `struct_set` check no bounds, nor do `mem_read` and `mem_write` in a block of size 0.

*Bytecode VM.* `break` out of a `for` loop leaves the scope twice, and the statement throws
(`src/vm/bytecode.c:718`). `break` out of a `while` jumps to where its condition is popped, which is gone by then
(`src/vm/bytecode.c:642-644`): nothing comes of it in a `while`, but inside a `for` it pops the index of the `for`, which then
throws. An `and` or
`or` that is given up in the middle leaves a jump without a target, which goes to the start of the chunk
(`src/vm/bytecode.c:285`), and operands emitted before a statement is given up run twice: `print note(1) + (nil ?? 2)` prints 1 twice. A statement left to
the interpreter loses its `break` and `continue`. `defer` in a compiled block runs at once. Procedures
recurse without a limit of depth, and burn no gas. `let` names and parameters can be assigned; `1 / 0` is 0
where the interpreter gives nil; a wrong number of arguments throws where the interpreter gives nil. An
artifact with an integer literal, or a loop over an array, cannot be written. When the file of an artifact cannot be opened
(`src/vm/program.c:465`), or its writer is killed before that, an older one stays and is accepted: nothing in it says of
which source it is.

*Front end.* `return` as the last word of a file without an end of line is refused. Blanks at the end of the
file are an indentation. A blank line with a tab, and a comment line at another indentation,
close a block. A stray `elif` is an `if`. Two statements may stand on one line, `if c: stmt` may not.
`**` is documented and not a token. A trait method without a body (`src/parser.c:1773`) is refused. The
arguments of a call lose their names. `1_000` is two tokens. Statements ahead of a syntax error have
already run, and after an error in the REPL the parser depth is not taken back.

*Passes.* Dead code elimination drops methods and `init` when their names are never read as variables
(`src/dce.c:14`), `let`s that are only assigned, `let`s whose value would throw or runs an overloaded operator, and
what follows a top-level `return`, `break` or `continue`, which the interpreter executes (`src/dce.c:239`).
Dropping a `yield` that cannot be reached makes a generator a plain procedure: dead code elimination does it
after a `return`, and folding with `if false:` and `while false:` (`src/constfold.c:244`, `265`). Inlining repeats
and reorders arguments, drops one that would throw, captures names, inlines calls ahead of the definition and
calls of an earlier or a later procedure of the same name, copies kinds of nodes it does not know without their
fields, and keeps pointers to expressions it has freed (`src/inline.c:266`). The type checker infers Bool for bit
operations. The conditions of `FoldKeepsOutput` (`KeepsYields`), `DceKeepsOutput` (`LooksEverywhere`, `KeepsYields`, nothing
after a top-level terminator) and `InlineKeepsOutput` (`IsPlain`) exclude these. Depth limits are left out: a call
at the last level of recursion fails unless it is inlined.

*Ownership checker.* A loop is analysed once, so a move in its body is not seen by its next turn
(`src/safety.c:681`); deferred statements are analysed where they stand; an assignment does not give a moved
name a value again; a block, a branch and the body of a `while` are scopes for the checker (`src/safety.c:667`) and
not for the interpreter (`src/interpreter.c:4648`), so that a name bound in one, which the program may still use after it,
is unknown to the checker there; integers are not Copy, against the comment at `src/safety.c:653`; diagnostics keep a pointer to a
buffer of the stack (`src/safety.c:218`). Nothing calls the borrow functions, although `README.md:73` speaks of
detected aliasing. The runs' loops move only what their bodies bind.

*C backend.* Integer literals are emitted from the wrong member (`src/compiler.c:1818`). `raise` alone raises
"exception", not nil. `match` with cases does not link. A stored element has no value. Both
sides of `and` and `or` are evaluated. A `try` without `catch` swallows; a `finally` is skipped when the
catch raises; a `return` or `break` out of a try leaves its context behind; frames of functions left by `raise`
stay linked. Temporaries are in no root. `struct`, `enum`, `trait` and `impl` are dropped. `type()` and
`str()` give other texts, `dict_delete` a truth value, and numbers of more than six digits an exponent.
Compiled code checks no bounds of raw memory and frees the handle with the block.

## 6. What is not modelled

* *Reference counting.* Nothing in the interpreter calls `arc_retain` or `arc_release`: every count stays at
  the one it is created with, and the trial deletion has nothing to delete. `src/gc/sagegc.c` is not called.
* *Mutexes, atomics and semaphores*: one call of the C library each. *The marker on thread handles*: it takes a
  handle, which comes from `malloc`, for a collected object and colors the bytes in front of it
  (`src/gc.c:386`, `:446`); what is there is up to the allocator.
* *The limit of the temporary root stack, nested pins, byte accounting* of the collector.
* *Inline caches* in the syntax tree: they depend on the identity of nodes and on addresses used again.
* *Floating point, bit operations, overflow,* the interpolation of strings, and the built-in functions
  for files, processes, time and mathematics. What they compute is text and numbers.
* *Imports in the evaluators and the compilers*, native modules, path resolution beyond whether there is a
  file.
* *The VM's native module.*
* *The LLVM, assembly and ahead-of-time backends, `src/jit.c` and `runtime/`*: writers of text in other
  languages, and a library of helpers without a state of its own.
* *Wrappers* around sockets, foreign functions and the sandbox; *tools* for editors; the *library*
  written in Sage itself.

## 7. Plan

Most important first; done parts are marked.

1. **TracingGC** (done): collector, scopes as heap nodes, threads; all four properties proved.
2. **Channel** implementing **Fifo** (done; safety and refinement proved).
3. **ModuleLoader** (done; safety proved for a single importing thread).
4. **EnvIndex** implementing **ScopeStore** (done; safety and refinement proved).
5. **Interp** and **MossVM** (done): agreement of the two ways to run a program.
6. **Lexer**, **Parser**, **Printer**, **Frontend** (done).
7. **Passes** and **Ownership** (done); **OwnershipWalk** (done, proved).
8. **CRuntime** and **CBackend** (done): agreement with the interpreter.
9. **Threads** implementing **Future** (done, proved): spawn, join, await.
10. **ArtifactFile** (done, proved): artifacts that are written and read back.
11. **RootStack**: the bounded temporary stack and nested pins, composed with TracingGC;
    and **Channel** composed with it: a queued value is in no root.
12. Floating point as an uninterpreted sort in Values, which would let the constant folder and the
    compiled programs be checked on their literals.
13. Proofs about parts of the evaluators that need no recursion: the runtime of compiled programs
    (frames and contexts), the value stack of the VM.
14. A run with the interpreter's own scopes beside the ownership checker: fewer than the checker's (section 5).
