----------------------------- MODULE MCTracingGC -----------------------------
(* TracingGC on small heaps, under three kinds of programs.                  *)
EXTENDS TracingGC, TLC

CONSTANT Spare \* bound: an object that only a program that marks in steps has
VARIABLE program \* which kind of program runs

\* A program of several threads.  While a thread of it is not at rest the others only
\* read, add and go on with what they have begun; while one collects they read.
ThreadedOps == {"alloc", "load", "define", "collect", "spawn"}
ReaderOps   == {"load", "define"}
BesideLoads == {"load"}

\* A program of one thread that never calls gc.step, nor gc.collect from inside a
\* literal or an argument list.
PlainOps == Operations \ {"gcstep", "restep", "collectPinned", "toggle", "spawn"}
Plain == INSTANCE TracingGC WITH SoloOps <- PlainOps

\* A program of one thread that marks in steps and never pops an array; one scope, since
\* a scope a call creates is unmarked until a remark that gc.step never runs.
SteppedOps == {"alloc", "load", "define", "store", "toggle", "gcstep"}
Stepped == INSTANCE TracingGC WITH SoloOps <- SteppedOps

AnyInit == Init /\ program \in {"threaded", "plain", "stepping"}
AnyNext ==
    /\ UNCHANGED program
    /\ \/ program = "threaded" /\ Next /\ color'[Spare] = "free"
       \/ program = "plain" /\ Plain!Next /\ color'[Spare] = "free"
       \/ program = "stepping" /\ Stepped!Next
AnySpec == AnyInit /\ [][AnyNext]_<<vars, program>>

Symmetry == Permutations(Obj \ {Spare}) \cup Permutations(Env \ {Global})
=============================================================================
