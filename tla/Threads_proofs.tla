--------------------------- MODULE Threads_proofs ---------------------------
(***************************************************************************)
(* Proofs about thread handles, for any number of threads and values: the  *)
(* types, whatever the program does with its handles; and, for a careful   *)
(* program, that nothing is used after it is gone and that a handle is a   *)
(* future.                                                                 *)
(*                                                                         *)
(* A careful program has a tree of threads: a thread has ended before the  *)
(* one that spawned it ends.  So the records of the threads that run are   *)
(* there, main ends last, and a wait is never refused.                     *)
(***************************************************************************)
EXTENDS Threads, TLAPS

Way == {"join", "await"}
Stages == {"unused", "created", "entered", "scoped", "running", "returned", "ended"}

-----------------------------------------------------------------------------
(* The inductive invariant of careful programs.                              *)

\* Whoever spawned a thread that is not joined yet still runs.
OwnersRun ==
    \A h \in Handle : /\ owner[h] = Null <=> stage[h] = "unused"
                      /\ owner[h] \in Handle => stage[owner[h]] # "unused"
                      /\ stage[h] # "unused" /\ joined[h] = "no" => Runs(owner[h])

\* No threads spawned each other: a set that holds the owners of its members is empty.
IsTree ==
    \A S \in SUBSET Handle :
        (\A h \in S : stage[h] # "unused" /\ owner[h] \in S) => S = {}

\* A joined thread has ended, and only a join frees its record.
JoinedEnded ==
    \A h \in Handle : /\ joined[h] # "no" => stage[h] = "ended"
                      /\ record[h] = "freed" => joined[h] = "join"
                      /\ stage[h] \in {"returned", "ended"} => result[h] \in Value

\* A call is about a thread of the caller, and the only one about it.
CallsAreOwn ==
    /\ \A t \in Thread : call[t] # Idle =>
          /\ owner[call[t].h] = t
          /\ joined[call[t].h] = "no"
          /\ call[t].at = "back" => stage[call[t].h] = "ended"
    /\ \A h \in Handle : joiner[h] # Null =>
          /\ joiner[h] = owner[h]
          /\ joined[h] # "no" \/ call[owner[h]].h = h

\* Nothing is released that is used again.
LostIsDone ==
    \A h \in Handle : /\ <<"func", h>> \notin lost /\ <<"scope", h>> \notin lost
                      /\ <<"result", h>> \in lost => h \notin Kept /\ joined[h] # "no"

IInv ==
    /\ TypeOK /\ ~ fault
    /\ OwnersRun /\ IsTree /\ JoinedEnded /\ CallsAreOwn /\ LostIsDone

-----------------------------------------------------------------------------
(* Types.                                                                    *)

\* A call that is not idle is about a handle.
LEMMA CallKinds ==
    ASSUME NEW c \in Calls
    PROVE  /\ c # Idle <=> c.at # "none"
           /\ c # Idle <=> c.h \in Handle
           /\ c # Idle => c.way \in Way /\ c.at \in {"waiting", "back"}
           /\ c = Idle => c.h = Null
           /\ Null \notin Handle
  BY ThreadsAssumption DEF Calls, Idle, Way, Thread

LEMMA TypesAtInit ==
    ASSUME Init
    PROVE  TypeOK
  BY ThreadsAssumption, CallKinds
     DEF Init, TypeOK, Typed, RecordsFollow, WaitsAreNoted, Thread, Calls, Idle

LEMMA AnswerTypes ==
    ASSUME Typed, NEW t \in Thread, NEW h \in Handle, Answers(t, h)
    PROVE  /\ answer' \in [Thread -> Value \cup {Null}] /\ fault' \in BOOLEAN
           /\ UNCHANGED <<stage, owner, exited, result, lost, joiner>>
  BY DEF Typed, Answers, program

LEMMA TypedStep ==
    ASSUME TypeOK, [Next]_vars
    PROVE  Typed'
<1> USE DEF TypeOK
<1>1. ASSUME NEW t \in Thread, NEW h \in Handle, Spawn(t, h)
      PROVE  Typed'
  BY <1>1 DEF Typed, Spawn, calls, Thread
<1>2. ASSUME NEW t \in Thread, Collect(t)
      PROVE  Typed'
  <2>1. lost' \subseteq {"func", "scope", "result"} \X Handle
    BY <1>2, ThreadsAssumption DEF Typed, Collect, Unrooted
  <2> QED  BY <1>2, <2>1 DEF Typed, Collect, program, records, calls
<1>3. ASSUME Exit
      PROVE  Typed'
  BY <1>3 DEF Typed, Exit, records, calls
<1>4. ASSUME NEW h \in Handle, Enter(h) \/ Begin(h) \/ Interpret(h) \/ Return(h) \/ End(h)
      PROVE  Typed'
  <2>1. result' \in [Handle -> Value \cup {Null}]
    BY <1>4 DEF Typed, Enter, Begin, Interpret, Return, End
  <2>2. PICK from \in Stages, to \in Stages : Moves(h, from, to)
    BY <1>4 DEF Enter, Begin, Interpret, Return, End, Stages
  <2>3. stage' \in [Handle -> Stages] /\ fault' \in BOOLEAN
    BY <2>2 DEF Typed, Moves, Stages
  <2> QED  BY <2>1, <2>2, <2>3 DEF Typed, Moves, program, records, calls, Stages
<1>5. ASSUME NEW t \in Thread, NEW h \in Handle, AskJoined(t, h)
      PROVE  Typed'
  <2>1. Answers(t, h) /\ UNCHANGED <<joined, record, call>>
    BY <1>5 DEF AskJoined
  <2> QED  BY <2>1, AnswerTypes DEF Typed
<1>6. ASSUME NEW t \in Thread, NEW h \in Handle, NEW way \in Way, Ask(t, h, way)
      PROVE  Typed'
  BY <1>6 DEF Typed, Ask, program, Calls, Way
<1>7. ASSUME NEW t \in Thread, Wake(t)
      PROVE  Typed'
  <2>1. call[t] \in Calls /\ call[t].at = "waiting"
    BY <1>7 DEF Typed, Wake
  <2>2. [call[t] EXCEPT !.at = "back"] \in Calls
    BY <2>1 DEF Calls, Idle
  <2> QED  BY <1>7, <2>2 DEF Typed, Wake, program, records
<1>8. ASSUME NEW t \in Thread, Take(t)
      PROVE  Typed'
  <2> DEFINE h == call[t].h
  <2>1. h \in Handle /\ call[t].way \in {"join", "await"} /\ Idle \in Calls
    BY <1>8, CallKinds DEF Typed, Take, Calls, Idle, Way
  <2>2. /\ Answers(t, h)
        /\ joined' \in [Handle -> {"no", "join", "await"}]
        /\ record' \in [Handle -> {"none", "held", "freed"}]
        /\ call' \in [Thread -> Calls]
    BY <1>8, <2>1 DEF Typed, Take
  <2> QED  BY <2>1, <2>2, AnswerTypes DEF Typed
<1>9. CASE UNCHANGED vars
  BY <1>9 DEF Typed, vars
<1> QED  BY <1>1, <1>2, <1>3, <1>4, <1>5, <1>6, <1>7, <1>8, <1>9 DEF Next, Way

LEMMA RecordsFollowStep ==
    ASSUME TypeOK, [Next]_vars
    PROVE  RecordsFollow'
<1> USE DEF TypeOK, RecordsFollow
<1>1. ASSUME NEW t \in Thread, NEW h \in Handle, Spawn(t, h)
      PROVE  RecordsFollow'
  BY <1>1 DEF Typed, Spawn
<1>2. ASSUME NEW t \in Thread, Collect(t) \/ Wake(t)
      PROVE  RecordsFollow'
  BY <1>2 DEF Collect, Wake, records
<1>3. ASSUME Exit
      PROVE  RecordsFollow'
  BY <1>3 DEF Exit, records
<1>4. ASSUME NEW h \in Handle, Enter(h) \/ Begin(h) \/ Interpret(h) \/ Return(h) \/ End(h)
      PROVE  RecordsFollow'
  <2>1. PICK from \in Stages \ {"unused"}, to \in Stages \ {"unused"} : Moves(h, from, to)
    BY <1>4 DEF Enter, Begin, Interpret, Return, End, Stages
  <2> QED  BY <2>1 DEF Typed, Moves, records
<1>5. ASSUME NEW t \in Thread, NEW h \in Handle,
             AskJoined(t, h) \/ \E way \in Way : Ask(t, h, way)
      PROVE  RecordsFollow'
  BY <1>5 DEF AskJoined, Answers, Ask
<1>6. ASSUME NEW t \in Thread, Take(t)
      PROVE  RecordsFollow'
  <2> DEFINE h == call[t].h
  <2>1. h \in Handle /\ record[h] # "none" /\ call[t].way \in Way
    BY <1>6, CallKinds DEF Typed, Take, WaitsAreNoted
  <2>2. /\ joined' = [joined EXCEPT ![h] = call[t].way]
        /\ record' = record \/ record' = [record EXCEPT ![h] = "freed"]
        /\ stage' = stage
    BY <1>6 DEF Take, Answers
  <2> HIDE DEF h
  <2> QED  BY <2>1, <2>2 DEF Typed, Way
<1>7. CASE UNCHANGED vars
  BY <1>7 DEF vars
<1> QED  BY <1>1, <1>2, <1>3, <1>4, <1>5, <1>6, <1>7 DEF Next, Way

LEMMA WaitsAreNotedStep ==
    ASSUME TypeOK, [Next]_vars
    PROVE  WaitsAreNoted'
<1> USE DEF TypeOK
\* A record that is there stays; a wait that was noted stays while it lasts.
<1>1. ASSUME NEW t \in Thread, NEW h \in Handle, Spawn(t, h)
      PROVE  WaitsAreNoted'
  <2>1. \A u \in Thread : call[u].at # "none" => call[u].h \in Handle
    BY CallKinds DEF Typed
  <2> QED  BY <1>1, <2>1 DEF Typed, WaitsAreNoted, Spawn, calls
<1>2. ASSUME NEW t \in Thread, Collect(t)
      PROVE  WaitsAreNoted'
  BY <1>2 DEF WaitsAreNoted, Collect, records, calls
<1>3. ASSUME Exit
      PROVE  WaitsAreNoted'
  BY <1>3 DEF WaitsAreNoted, Exit, records, calls
<1>4. ASSUME NEW h \in Handle, Enter(h) \/ Begin(h) \/ Interpret(h) \/ Return(h) \/ End(h)
      PROVE  WaitsAreNoted'
  BY <1>4 DEF WaitsAreNoted, Enter, Begin, Interpret, Return, End, Moves, records, calls
<1>5. ASSUME NEW t \in Thread, NEW h \in Handle, AskJoined(t, h)
      PROVE  WaitsAreNoted'
  BY <1>5 DEF WaitsAreNoted, AskJoined, Answers
<1>6. ASSUME NEW t \in Thread, NEW h \in Handle, NEW way \in Way, Ask(t, h, way)
      PROVE  WaitsAreNoted'
  <2> DEFINE c == [way |-> way, h |-> h, at |-> IF Refuses(t, h) THEN "back" ELSE "waiting"]
  <2>1. c.h = h /\ (c.at = "waiting" => ~ Refuses(t, h))
    OBVIOUS
  <2>2. call' = [call EXCEPT ![t] = c] /\ record' = record
    BY <1>6 DEF Ask
  <2> HIDE DEF c
  <2> SUFFICES ASSUME NEW u \in Thread
               PROVE  /\ call'[u].at # "none" => record'[call'[u].h] # "none"
                      /\ call'[u].at = "waiting" => joiner'[call'[u].h] = u
    BY DEF WaitsAreNoted
  <2>3. CASE u = t
    BY <1>6, <2>1, <2>2, <2>3 DEF Typed, RecordsFollow, Ask, MayAsk
  <2>4. CASE u # t
    <3>1. call'[u] = call[u]
      BY <2>2, <2>4 DEF Typed
    <3>2. call[u].at = "waiting" /\ call[u].h = h => Refuses(t, h)
      BY ThreadsAssumption DEF Refuses, Thread, WaitsAreNoted
    <3> QED  BY <1>6, <2>2, <3>1, <3>2 DEF Typed, WaitsAreNoted, Ask
  <2> QED  BY <2>3, <2>4
<1>7. ASSUME NEW t \in Thread, Wake(t)
      PROVE  WaitsAreNoted'
  <2>1. call[t] \in Calls /\ call[t].at = "waiting"
    BY <1>7 DEF Typed, Wake
  <2> DEFINE c == [call[t] EXCEPT !.at = "back"]
  <2>2. c.h = call[t].h /\ c.at = "back" /\ call' = [call EXCEPT ![t] = c]
    BY <1>7, <2>1 DEF Wake, Calls, Idle
  <2> HIDE DEF c
  <2> QED  BY <1>7, <2>1, <2>2 DEF Typed, WaitsAreNoted, Wake, records
<1>8. ASSUME NEW t \in Thread, Take(t)
      PROVE  WaitsAreNoted'
  <2>1. /\ call' = [call EXCEPT ![t] = Idle]
        /\ record' = record \/ record' = [record EXCEPT ![call[t].h] = "freed"]
        /\ joiner' = joiner
    BY <1>8 DEF Take, Answers
  <2>2. \A u \in Thread : call'[u].at # "none" => call'[u] = call[u] /\ call[u].h \in Handle
    BY <2>1, CallKinds DEF Typed, Idle
  <2> QED  BY <2>1, <2>2 DEF Typed, WaitsAreNoted
<1>9. CASE UNCHANGED vars
  BY <1>9 DEF WaitsAreNoted, vars
<1> QED  BY <1>1, <1>2, <1>3, <1>4, <1>5, <1>6, <1>7, <1>8, <1>9 DEF Next, Way

LEMMA TypesOfStep ==
    ASSUME TypeOK, [Next]_vars
    PROVE  TypeOK'
  BY TypedStep, RecordsFollowStep, WaitsAreNotedStep DEF TypeOK

(***************************************************************************)
(* Whatever the program does with its handles, the state of the handles is *)
(* of its types: a record is freed only under a joined handle, and         *)
(* pthreads knows of every wait.  (stdlib.c, interpreter.c, vm.c.)         *)
(***************************************************************************)
THEOREM TypeCorrect == Spec => []TypeOK
  BY TypesAtInit, TypesOfStep, PTL DEF Spec

-----------------------------------------------------------------------------
(* What careful programs do.                                                 *)

LEMMA InvAtInit ==
    ASSUME Init
    PROVE  IInv
  BY TypesAtInit, ThreadsAssumption
     DEF Init, IInv, OwnersRun, IsTree, JoinedEnded, CallsAreOwn, LostIsDone, Thread

\* A careful program asks for results of threads of its own, once more only with "await".
LEMMA CarefulAsk ==
    ASSUME CarefulProgram, NEW t \in Thread, NEW h \in Handle, NEW way \in Way,
           MayAsk(t, h, way)
    PROVE  /\ Runs(t) /\ call[t] = Idle
           /\ stage[h] # "unused" /\ owner[h] = t
           /\ joined[h] # "no" => h \in Kept /\ joined[h] # "join"
  BY DEF CarefulProgram, MayAsk, Acts

\* pthreads never refuses it a wait: no two threads wait for each other.
LEMMA NeverRefused ==
    ASSUME IInv, NEW t \in Thread, NEW h \in Handle,
           owner[h] = t, stage[h] # "unused", joined[h] = "no", call[t] = Idle
    PROVE  ~ Refuses(t, h)
<1>1. h # t
  <2>1. (\A g \in {h} : stage[g] # "unused" /\ owner[g] \in {h}) => {h} = {}
    BY DEF IInv, IsTree
  <2> QED  BY <2>1
<1>2. joiner[h] = Null
  BY CallKinds DEF IInv, CallsAreOwn, TypeOK, Typed
<1>3. ASSUME t \in Handle, joiner[t] = h
      PROVE  FALSE
  <2>1. owner[t] = h
    BY <1>3, ThreadsAssumption DEF IInv, CallsAreOwn, Thread
  <2>2. stage[t] # "unused"
    BY <1>3, <2>1, ThreadsAssumption DEF IInv, OwnersRun, Thread
  <2>3. {h, t} \in SUBSET Handle /\ \A g \in {h, t} : stage[g] # "unused" /\ owner[g] \in {h, t}
    BY <1>3, <2>1, <2>2
  <2>4. {h, t} = {}
    BY <2>3 DEF IInv, IsTree
  <2> QED  BY <2>4
<1> QED  BY <1>1, <1>2, <1>3 DEF Refuses

\* What a thread needs is there until it has returned.
LEMMA NeverMisused ==
    ASSUME IInv, NEW h \in Handle
    PROVE  ~ Misused(h)
  BY DEF IInv, Misused, OwnersRun, JoinedEnded, LostIsDone, Runs, Thread

\* A step of a thread: it goes on, after it has asked for everything when it returns.
LEMMA ThreadGoesOn ==
    ASSUME IInv, CarefulProgram, NEW h \in Handle, Enter(h) \/ Begin(h) \/ Interpret(h) \/ Return(h) \/ End(h)
    PROVE  \E to \in Stages :
              /\ stage[h] \notin {"unused", "ended"} /\ to # "unused"
              /\ stage[h] = "running" => \A g \in Children(h) : joined[g] # "no"
              /\ stage' = [stage EXCEPT ![h] = to]
              /\ to \in {"returned", "ended"} => result'[h] \in Value
              /\ \A g \in Handle : g # h => result'[g] = result[g]
              /\ UNCHANGED <<owner, exited, joined, record, joiner, lost, call, answer, fault>>
<1>1. ~ Misused(h)
  BY NeverMisused
<1>2. stage[h] = "running" => ~ exited
  BY DEF IInv, OwnersRun, JoinedEnded, Runs, Thread
<1>3. ASSUME NEW from \in Stages, NEW to \in Stages, Moves(h, from, to)
      PROVE  /\ stage[h] = from /\ stage' = [stage EXCEPT ![h] = to]
             /\ UNCHANGED <<owner, exited, joined, record, joiner, lost, call, answer, fault>>
  BY <1>1, <1>3 DEF Moves, program, records, calls
<1>4. CASE Enter(h) \/ Begin(h) \/ Interpret(h)
  BY <1>3, <1>4 DEF Enter, Begin, Interpret, Stages
<1>5. CASE Return(h)
  <2>1. \A g \in Children(h) : joined[g] # "no"
    BY <1>2, <1>3, <1>5 DEF Return, MayEnd, CarefulProgram, Stages
  <2>2. /\ result'[h] \in Value
        /\ \A g \in Handle : g # h => result'[g] = result[g]
    BY <1>5 DEF Return, IInv, TypeOK, Typed
  <2> QED  BY <1>3, <1>5, <2>1, <2>2 DEF Return, Stages
<1>6. CASE End(h)
  <2>1. stage[h] = "returned" /\ result'[h] \in Value
    BY <1>3, <1>6 DEF End, Stages, IInv, JoinedEnded
  <2> QED  BY <1>3, <1>6, <2>1 DEF End, Stages
<1> QED  BY <1>4, <1>5, <1>6

\* The answer to whom it is due: the result, from a record that is there.
LEMMA AnswersWell ==
    ASSUME IInv, NEW t \in Thread, NEW h \in Handle, Answers(t, h),
           joined[h] # "join", joined[h] # "no" => h \in Kept
    PROVE  /\ answer' = [answer EXCEPT ![t] = result[h]]
           /\ UNCHANGED <<fault, stage, owner, exited, result, lost, joiner>>
<1>1. record[h] # "freed" /\ <<"result", h>> \notin lost
  BY DEF IInv, JoinedEnded, LostIsDone
<1> QED  BY <1>1 DEF Answers, program

-----------------------------------------------------------------------------
(* The invariant is inductive: one lemma per kind of step.                   *)

LEMMA SpawnKeeps ==
    ASSUME IInv, NEW t \in Thread, NEW h \in Handle, Spawn(t, h)
    PROVE  OwnersRun' /\ IsTree' /\ JoinedEnded' /\ CallsAreOwn' /\ LostIsDone'
<1> USE DEF IInv, TypeOK, Typed
<1>1. /\ stage[h] = "unused" /\ owner[h] = Null /\ Runs(t) /\ t # h /\ t # Null
      /\ stage' = [stage EXCEPT ![h] = "created"]
      /\ owner' = [owner EXCEPT ![h] = t]
      /\ record' = [record EXCEPT ![h] = "held"]
      /\ UNCHANGED <<joined, result, lost, joiner, call, answer, exited, fault>>
  BY ThreadsAssumption DEF Spawn, Acts, Runs, calls, OwnersRun, Thread
<1>2. joined[h] = "no" /\ joiner[h] = Null
  BY <1>1 DEF JoinedEnded, CallsAreOwn
<1>3. \A g \in Handle : owner[g] # h
  BY <1>1 DEF OwnersRun
<1>4. OwnersRun'
  <2>1. \A u \in Thread : Runs(u) => Runs(u)' 
    BY <1>1 DEF Runs, Thread
  <2>2. t \in Handle => stage[t] # "unused"
    BY <1>1, ThreadsAssumption DEF Runs
  <2> QED  BY <1>1, <1>3, <2>1, <2>2 DEF OwnersRun, Runs
<1>5. IsTree'
  <2> SUFFICES ASSUME NEW S \in SUBSET Handle,
                      \A g \in S : stage'[g] # "unused" /\ owner'[g] \in S
               PROVE  S = {}
    BY DEF IsTree
  <2> DEFINE R == S \ {h}
  <2>1. \A g \in R : stage[g] # "unused" /\ owner[g] \in R
    BY <1>1, <1>3
  <2>2. R = {}
    BY <2>1 DEF IsTree
  <2>3. h \in S => t \in R
    BY <1>1
  <2> QED  BY <2>2, <2>3
<1>6. JoinedEnded'
  BY <1>1, <1>2 DEF JoinedEnded
<1>7. CallsAreOwn'
  <2>1. \A u \in Thread : call[u] # Idle => call[u].h \in Handle /\ call[u].h # h
    BY <1>1, CallKinds, ThreadsAssumption DEF CallsAreOwn, Thread
  <2> QED  BY <1>1, <1>2, <2>1 DEF CallsAreOwn
<1>8. LostIsDone'
  BY <1>1 DEF LostIsDone
<1> QED  BY <1>4, <1>5, <1>6, <1>7, <1>8

\* When a careful program collects, no record alone keeps what is still needed.
LEMMA CollectKeeps ==
    ASSUME IInv, CarefulProgram, NEW t \in Thread, Collect(t)
    PROVE  OwnersRun' /\ IsTree' /\ JoinedEnded' /\ CallsAreOwn' /\ LostIsDone'
<1>1. UNCHANGED <<stage, owner, exited, joined, record, joiner, result, call, answer, fault>>
  BY DEF Collect, program, records, calls
<1>2. \A h \in Handle : \/ stage[h] = "unused" \/ joined[h] # "no"
                        \/ h \in Kept /\ stage[h] \notin {"created", "entered", "scoped"}
  BY DEF CarefulProgram, Collect
<1>3. LostIsDone'
  <2> SUFFICES ASSUME NEW h \in Handle
               PROVE  /\ <<"func", h>> \notin lost' /\ <<"scope", h>> \notin lost'
                      /\ <<"result", h>> \in lost' => h \notin Kept /\ joined[h] # "no"
    BY <1>1 DEF LostIsDone
  <2>1. <<"func", h>> \notin lost' /\ <<"scope", h>> \notin lost'
    BY <1>2 DEF Collect, Unrooted, IInv, LostIsDone, JoinedEnded
  <2>2. ASSUME <<"result", h>> \in lost'
        PROVE  h \notin Kept /\ joined[h] # "no"
    BY <1>2, <2>2 DEF Collect, Unrooted, IInv, LostIsDone
  <2> QED  BY <2>1, <2>2
<1> QED  BY <1>1, <1>3 DEF IInv, OwnersRun, IsTree, JoinedEnded, CallsAreOwn, Runs

\* When main has asked for all its results, nobody is left: otherwise the threads that
\* are not joined would hold the owners of each other.
LEMMA ExitKeeps ==
    ASSUME IInv, CarefulProgram, Exit
    PROVE  OwnersRun' /\ IsTree' /\ JoinedEnded' /\ CallsAreOwn' /\ LostIsDone'
<1>1. UNCHANGED <<stage, owner, joined, record, joiner, result, lost, call, answer, fault>>
  BY DEF Exit, records, calls
<1> DEFINE S == {h \in Handle : stage[h] # "unused" /\ joined[h] = "no"}
<1>2. \A h \in S : stage[h] # "unused" /\ owner[h] \in S
  <2> TAKE h \in S
  <2>1. Runs(owner[h]) /\ owner[h] \in Thread
    BY DEF IInv, OwnersRun, TypeOK, Typed
  <2>2. owner[h] # Main
    BY DEF Exit, MayEnd, CarefulProgram, Children
  <2>3. owner[h] \in Handle /\ stage[owner[h]] = "running"
    BY <2>1, <2>2 DEF Runs, Thread
  <2> QED  BY <2>3 DEF IInv, JoinedEnded, TypeOK, Typed
<1>3. S = {}
  BY <1>2 DEF IInv, IsTree
<1> QED  BY <1>1, <1>3 DEF IInv, OwnersRun, IsTree, JoinedEnded, CallsAreOwn, LostIsDone

\* A thread returns after it has joined those it spawned.
LEMMA ThreadKeeps ==
    ASSUME IInv, CarefulProgram, NEW h \in Handle, Enter(h) \/ Begin(h) \/ Interpret(h) \/ Return(h) \/ End(h)
    PROVE  OwnersRun' /\ IsTree' /\ JoinedEnded' /\ CallsAreOwn' /\ LostIsDone'
<1> USE DEF IInv, TypeOK, Typed
<1>1. PICK to \in Stages :
         /\ stage[h] \notin {"unused", "ended"} /\ to # "unused"
         /\ stage[h] = "running" => \A g \in Children(h) : joined[g] # "no"
         /\ stage' = [stage EXCEPT ![h] = to]
         /\ to \in {"returned", "ended"} => result'[h] \in Value
         /\ \A g \in Handle : g # h => result'[g] = result[g]
         /\ UNCHANGED <<owner, exited, joined, record, joiner, lost, call, answer, fault>>
  BY ThreadGoesOn
<1>2. joined[h] = "no"
  BY <1>1 DEF JoinedEnded
<1>3. \A g \in Handle : stage'[g] = "unused" <=> stage[g] = "unused"
  BY <1>1
<1>4. OwnersRun'
  <2>1. ASSUME NEW g \in Handle, stage[g] # "unused", joined[g] = "no"
        PROVE  Runs(owner[g])'
    <3>1. Runs(owner[g]) /\ owner[g] \in Thread
      BY <2>1 DEF OwnersRun
    <3>2. owner[g] = h => stage[h] # "running"
      BY <1>1, <2>1 DEF Children
    <3>3. owner[g] # h
      BY <3>1, <3>2, ThreadsAssumption DEF Runs
    <3> QED  BY <1>1, <3>1, <3>3 DEF Runs, Thread
  <2> QED  BY <1>1, <1>3, <2>1 DEF OwnersRun
<1>5. IsTree'
  BY <1>1, <1>3 DEF IsTree
<1>6. JoinedEnded'
  BY <1>1, <1>2 DEF JoinedEnded
<1>7. CallsAreOwn'
  <2>1. \A u \in Thread : call[u] # Idle => call[u].h \in Handle
    BY CallKinds
  <2> QED  BY <1>1, <2>1 DEF CallsAreOwn
<1> QED  BY <1>1, <1>4, <1>5, <1>6, <1>7 DEF LostIsDone

LEMMA AskJoinedKeeps ==
    ASSUME IInv, CarefulProgram, NEW t \in Thread, NEW h \in Handle, AskJoined(t, h)
    PROVE  /\ answer' = [answer EXCEPT ![t] = result[h]]
           /\ call[t] = Idle /\ joined[h] # "no"
           /\ UNCHANGED <<stage, owner, exited, joined, record, result, lost, joiner, call, fault>>
<1>1. /\ call[t] = Idle /\ joined[h] # "no" /\ joined[h] # "join" /\ h \in Kept
      /\ Answers(t, h) /\ UNCHANGED <<joined, record, call>>
  BY CarefulAsk DEF AskJoined, Way
<1> QED  BY <1>1, AnswersWell

\* The wait begins, as it is not refused.
LEMMA AskKeeps ==
    ASSUME IInv, CarefulProgram, NEW t \in Thread, NEW h \in Handle, NEW way \in Way, Ask(t, h, way)
    PROVE  OwnersRun' /\ IsTree' /\ JoinedEnded' /\ CallsAreOwn' /\ LostIsDone'
<1>1. /\ Runs(t) /\ call[t] = Idle /\ joined[h] = "no"
      /\ stage[h] # "unused" /\ owner[h] = t
  BY CarefulAsk DEF Ask
<1>2. ~ Refuses(t, h)
  BY <1>1, NeverRefused
<1> DEFINE c == [way |-> way, h |-> h, at |-> "waiting"]
<1>3. /\ call' = [call EXCEPT ![t] = c]
      /\ joiner' = [joiner EXCEPT ![h] = t]
      /\ UNCHANGED <<stage, owner, exited, joined, record, result, lost, answer, fault>>
  BY <1>2 DEF Ask, program
<1>4. c.h = h /\ c.at = "waiting" /\ h # Null
  BY ThreadsAssumption DEF Thread
<1> HIDE DEF c
<1>5. CallsAreOwn'
  <2>1. ASSUME NEW g \in Handle, joiner'[g] # Null
        PROVE  joiner'[g] = owner[g] /\ (joined[g] # "no" \/ call'[owner[g]].h = g)
    <3>1. CASE g = h
      BY <1>1, <1>3, <1>4, <3>1 DEF IInv, TypeOK, Typed
    <3>2. CASE g # h
      <4>1. joiner[g] = owner[g] /\ (joined[g] # "no" \/ call[owner[g]].h = g)
        BY <1>3, <2>1, <3>2 DEF IInv, CallsAreOwn, TypeOK, Typed
      <4>2. joined[g] = "no" => owner[g] # t
        BY <1>1, <4>1, ThreadsAssumption DEF Idle, Thread
      <4> QED  BY <1>3, <3>2, <4>1, <4>2 DEF IInv, TypeOK, Typed
    <3> QED  BY <3>1, <3>2
  <2>2. ASSUME NEW u \in Thread, call'[u] # Idle
        PROVE  /\ owner[call'[u].h] = u
               /\ joined[call'[u].h] = "no"
               /\ call'[u].at = "back" => stage[call'[u].h] = "ended"
    BY <1>1, <1>3, <1>4, <2>2 DEF IInv, CallsAreOwn, TypeOK, Typed
  <2> QED  BY <1>3, <2>1, <2>2 DEF CallsAreOwn
<1> QED  BY <1>3, <1>5 DEF IInv, OwnersRun, IsTree, JoinedEnded, LostIsDone, Runs

LEMMA WakeKeeps ==
    ASSUME IInv, NEW t \in Thread, Wake(t)
    PROVE  OwnersRun' /\ IsTree' /\ JoinedEnded' /\ CallsAreOwn' /\ LostIsDone'
<1> DEFINE c == [call[t] EXCEPT !.at = "back"]
<1>1. call[t] \in Calls /\ call[t].at = "waiting" /\ call[t] # Idle
  BY DEF Wake, IInv, TypeOK, Typed, Idle
<1>2. c.h = call[t].h /\ c.at = "back" /\ call' = [call EXCEPT ![t] = c]
  BY <1>1 DEF Wake, Calls, Idle
<1> HIDE DEF c
<1>3. /\ stage[call[t].h] = "ended"
      /\ UNCHANGED <<stage, owner, exited, joined, record, joiner, result, lost, answer, fault>>
  BY DEF Wake, program, records
<1>4. \A u \in Thread : call'[u].h = call[u].h /\ (u # t => call'[u] = call[u])
  BY <1>2 DEF IInv, TypeOK, Typed
<1>5. CallsAreOwn'
  <2>1. \A g \in Handle : joiner[g] # Null => owner[g] \in Thread
    BY DEF IInv, CallsAreOwn, TypeOK, Typed
  <2>2. \A u \in Thread : call'[u] # Idle => /\ owner[call'[u].h] = u
                                             /\ joined[call'[u].h] = "no"
                                             /\ call'[u].at = "back" => stage[call'[u].h] = "ended"
    BY <1>1, <1>3, <1>4 DEF IInv, CallsAreOwn
  <2>3. \A g \in Handle : joiner[g] # Null => /\ joiner[g] = owner[g]
                                              /\ joined[g] # "no" \/ call'[owner[g]].h = g
    BY <1>4, <2>1 DEF IInv, CallsAreOwn
  <2> QED  BY <1>3, <2>2, <2>3 DEF CallsAreOwn
<1> QED  BY <1>3, <1>5 DEF IInv, OwnersRun, IsTree, JoinedEnded, LostIsDone, Runs

\* The first answer: the caller was the only one who waited.
LEMMA TakeGives ==
    ASSUME IInv, NEW t \in Thread, Take(t)
    PROVE  LET h == call[t].h
           IN  /\ call[t] # Idle /\ h \in Handle /\ call[t].way \in Way
               /\ owner[h] = t /\ joined[h] = "no" /\ stage[h] = "ended"
               /\ answer' = [answer EXCEPT ![t] = result[h]]
               /\ joined' = [joined EXCEPT ![h] = call[t].way]
               /\ record' = record \/ (call[t].way = "join" /\ record' = [record EXCEPT ![h] = "freed"])
               /\ call' = [call EXCEPT ![t] = Idle]
               /\ UNCHANGED <<stage, owner, exited, result, lost, joiner, fault>>
<1> DEFINE h == call[t].h
<1>1. call[t].at = "back" /\ Answers(t, h)
  BY DEF Take
<1>2. call[t] # Idle /\ h \in Handle /\ call[t].way \in Way
  BY <1>1, CallKinds DEF IInv, TypeOK, Typed, Idle
<1>3. owner[h] = t /\ joined[h] = "no" /\ stage[h] = "ended"
  BY <1>1, <1>2 DEF IInv, CallsAreOwn
<1>4. /\ answer' = [answer EXCEPT ![t] = result[h]]
      /\ UNCHANGED <<fault, stage, owner, exited, result, lost, joiner>>
  BY <1>1, <1>2, <1>3, AnswersWell
<1> QED  BY <1>2, <1>3, <1>4 DEF Take, Frees

LEMMA TakeKeeps ==
    ASSUME IInv, NEW t \in Thread, Take(t)
    PROVE  OwnersRun' /\ IsTree' /\ JoinedEnded' /\ CallsAreOwn' /\ LostIsDone'
<1> DEFINE h == call[t].h
<1>1. /\ call[t] # Idle /\ h \in Handle /\ call[t].way \in {"join", "await"}
      /\ owner[h] = t /\ joined[h] = "no" /\ stage[h] = "ended"
      /\ joined' = [joined EXCEPT ![h] = call[t].way]
      /\ record' = record \/ (call[t].way = "join" /\ record' = [record EXCEPT ![h] = "freed"])
      /\ call' = [call EXCEPT ![t] = Idle]
      /\ UNCHANGED <<stage, owner, exited, result, lost, joiner, fault>>
  BY TakeGives DEF Way
<1>2. joined'[h] # "no" /\ \A g \in Handle : g # h => joined'[g] = joined[g]
  BY <1>1 DEF IInv, TypeOK, Typed
<1>3. OwnersRun'
  BY <1>1, <1>2 DEF IInv, OwnersRun, Runs
<1>4. IsTree'
  BY <1>1 DEF IInv, IsTree
<1>5. JoinedEnded'
  <2>1. \A g \in Handle : record'[g] = "freed" => joined'[g] = "join"
    BY <1>1, <1>2 DEF IInv, JoinedEnded, TypeOK, Typed
  <2>2. \A g \in Handle : /\ joined'[g] # "no" => stage[g] = "ended"
                          /\ stage[g] \in {"returned", "ended"} => result[g] \in Value
    BY <1>1, <1>2 DEF IInv, JoinedEnded
  <2> HIDE DEF h
  <2> QED  BY <1>1, <2>1, <2>2 DEF JoinedEnded
<1>6. CallsAreOwn'
  <2>1. \A u \in Thread : call'[u] # Idle => u # t /\ call'[u] = call[u] /\ call[u].h \in Handle
    BY <1>1, CallKinds DEF IInv, TypeOK, Typed
  <2>2. \A u \in Thread : call'[u] # Idle => /\ owner[call'[u].h] = u
                                             /\ joined'[call'[u].h] = "no"
                                             /\ call'[u].at = "back" => stage[call'[u].h] = "ended"
    BY <1>1, <1>2, <2>1 DEF IInv, CallsAreOwn
  <2>3. ASSUME NEW g \in Handle, joiner[g] # Null
        PROVE  joiner[g] = owner[g] /\ (joined'[g] # "no" \/ call'[owner[g]].h = g)
    <3>1. joiner[g] = owner[g] /\ owner[g] \in Thread /\ (joined[g] # "no" \/ call[owner[g]].h = g)
      BY <2>3 DEF IInv, CallsAreOwn, TypeOK, Typed
    <3>2. CASE g = h
      BY <1>2, <3>1, <3>2
    <3>3. CASE g # h
      <4>1. joined[g] = "no" => owner[g] # t
        BY <3>1, <3>3
      <4> QED  BY <1>1, <1>2, <3>1, <3>3, <4>1 DEF IInv, TypeOK, Typed
    <3> QED  BY <3>2, <3>3
  <2> HIDE DEF h
  <2> QED  BY <1>1, <2>2, <2>3 DEF CallsAreOwn
<1>7. LostIsDone'
  BY <1>1, <1>2 DEF IInv, LostIsDone
<1> QED  BY <1>3, <1>4, <1>5, <1>6, <1>7

LEMMA InvStep ==
    ASSUME IInv, CarefulProgram, [Next]_vars
    PROVE  IInv'
<1> DEFINE Parts == OwnersRun /\ IsTree /\ JoinedEnded /\ CallsAreOwn /\ LostIsDone
<1>1. TypeOK'
  BY TypesOfStep DEF IInv
<1>2. ASSUME NEW t \in Thread, NEW h \in Handle, AskJoined(t, h)
      PROVE  Parts' /\ ~ fault'
  <2>1. UNCHANGED <<stage, owner, exited, joined, record, result, lost, joiner, call, fault>>
    BY <1>2, AskJoinedKeeps
  <2> QED  BY <2>1 DEF IInv, OwnersRun, IsTree, JoinedEnded, CallsAreOwn, LostIsDone, Runs
<1>3. ASSUME NEW t \in Thread, NEW h \in Handle,
             Spawn(t, h) \/ \E way \in Way : Ask(t, h, way)
      PROVE  Parts' /\ ~ fault'
  <2>1. Parts'
    BY <1>3, SpawnKeeps, AskKeeps
  <2> QED  BY <1>3, <2>1 DEF Spawn, Ask, IInv
<1>4. ASSUME NEW t \in Thread, Collect(t) \/ Wake(t) \/ Take(t)
      PROVE  Parts' /\ ~ fault'
  <2>1. Parts'
    BY <1>4, CollectKeeps, WakeKeeps, TakeKeeps
  <2>2. fault' = fault
    BY <1>4, TakeGives DEF Collect, Wake
  <2> QED  BY <2>1, <2>2 DEF IInv
<1>5. ASSUME NEW h \in Handle, Enter(h) \/ Begin(h) \/ Interpret(h) \/ Return(h) \/ End(h)
      PROVE  Parts' /\ ~ fault'
  <2>1. Parts'
    BY <1>5, ThreadKeeps
  <2>2. fault' = fault
    BY <1>5, ThreadGoesOn
  <2> QED  BY <2>1, <2>2 DEF IInv
<1>6. ASSUME Exit
      PROVE  Parts' /\ ~ fault'
  BY <1>6, ExitKeeps DEF Exit, IInv
<1>7. ASSUME UNCHANGED vars
      PROVE  Parts' /\ ~ fault'
  BY <1>7 DEF vars, IInv, OwnersRun, IsTree, JoinedEnded, CallsAreOwn, LostIsDone, Runs
<1>8. Parts' /\ ~ fault'
  <2> HIDE DEF Parts
  <2> QED  BY <1>2, <1>3, <1>4, <1>5, <1>6, <1>7 DEF Next, Way
<1> QED  BY <1>1, <1>8 DEF IInv

LEMMA CarefulInv == CarefulProgram => (Spec => []IInv)
<1> SUFFICES ASSUME CarefulProgram PROVE Spec => []IInv
  OBVIOUS
<1>1. Init => IInv
  BY InvAtInit
<1>2. IInv /\ [Next]_vars => IInv'
  BY InvStep
<1> QED  BY <1>1, <1>2, PTL DEF Spec

-----------------------------------------------------------------------------
(***************************************************************************)
(* In a careful program no thread and no join uses a record that a join    *)
(* has freed, a function, scope or result that the collector has released, *)
(* or the heap after its end.  (The frees of thread_join_native and gc_shutdown   *)
(* against sage_thread_entry.)                                             *)
(***************************************************************************)
THEOREM CarefulIsSafe == CarefulProgram => (Spec => []NoMisuse)
<1>1. IInv => NoMisuse
  BY DEF IInv, NoMisuse
<1> QED  BY <1>1, CarefulInv, PTL

-----------------------------------------------------------------------------
(* A handle is a future: every step is one of a future, or none.             *)

LEMMA FutureInit ==
    ASSUME Init
    PROVE  F!Init
  BY DEF Init, F!Init, Promised, Idle

\* The steps that a future does not see.
LEMMA FutureUnmoved ==
    ASSUME UNCHANGED answer,
           \A h \in Handle : Promised(h)' = Promised(h),
           \A t \in Thread : call'[t].h = call[t].h
    PROVE  UNCHANGED F!vars
  BY DEF F!vars

LEMMA FutureStep ==
    ASSUME IInv, CarefulProgram, [Next]_vars
    PROVE  [F!Next]_F!vars
<1> DEFINE cell == [h \in Handle |-> Promised(h)]
           asking == [t \in Thread |-> call[t].h]
<1>a. TypeOK
  BY DEF IInv
<1>1. ASSUME NEW t \in Thread, NEW h \in Handle, Spawn(t, h)
      PROVE  F!Spawn(h)
  <2>1. /\ stage[h] = "unused" /\ stage' = [stage EXCEPT ![h] = "created"]
        /\ UNCHANGED <<result, call, answer>>
    BY <1>1 DEF Spawn, calls
  <2>2. Promised(h) = Null /\ Promised(h)' = "pending"
    BY <1>a, <2>1 DEF Promised, TypeOK, Typed
  <2>3. \A g \in Handle : g # h => Promised(g)' = Promised(g)
    BY <1>a, <2>1 DEF Promised, TypeOK, Typed
  <2> QED  BY <2>1, <2>2, <2>3 DEF F!Spawn
<1>2. ASSUME NEW h \in Handle, Enter(h) \/ Begin(h) \/ Interpret(h) \/ Return(h) \/ End(h)
      PROVE  F!Fulfil(h) \/ UNCHANGED F!vars
  <2>1. PICK to \in Stages :
           /\ stage[h] \notin {"unused", "ended"} /\ to # "unused"
           /\ stage' = [stage EXCEPT ![h] = to]
           /\ to \in {"returned", "ended"} => result'[h] \in Value
           /\ \A g \in Handle : g # h => result'[g] = result[g]
           /\ UNCHANGED <<call, answer>>
    BY <1>2, ThreadGoesOn
  <2>2. \A g \in Handle : g # h => Promised(g)' = Promised(g)
    BY <1>a, <2>1 DEF Promised, TypeOK, Typed
  <2>3. CASE Return(h)
    <3>1. stage[h] = "running" /\ stage'[h] \in {"running", "returned"}
      BY <1>a, <2>3 DEF Return, Moves, TypeOK, Typed
    <3>2. stage'[h] = "returned"
      <4>1. ~ Misused(h)
        BY NeverMisused
      <4> QED  BY <1>a, <2>3, <4>1 DEF Return, Moves, TypeOK, Typed
    <3>3. Promised(h) = "pending" /\ Promised(h)' = result'[h] /\ result'[h] \in Value
      BY <1>a, <2>1, <3>1, <3>2 DEF Promised, TypeOK, Typed
    <3>4. cell' = [cell EXCEPT ![h] = result'[h]]
      BY <2>2, <3>3
    <3> QED  BY <2>1, <3>3, <3>4 DEF F!Fulfil
  <2>4. CASE ~ Return(h)
    <3>1. Promised(h)' = Promised(h)
      BY <1>a, <1>2, <2>1, <2>4, NeverMisused DEF Enter, Begin, Interpret, End, Moves, Promised, TypeOK, Typed
    <3> QED  BY <2>1, <2>2, <3>1, FutureUnmoved
  <2> QED  BY <2>3, <2>4
<1>3. ASSUME NEW t \in Thread, Collect(t) \/ Wake(t) \/ Exit
      PROVE  UNCHANGED F!vars
  <2>1. UNCHANGED <<stage, result, answer>>
    BY <1>3 DEF Collect, Wake, Exit, program, records, calls
  <2>2. \A u \in Thread : call'[u].h = call[u].h
    BY <1>3, <1>a DEF Collect, Wake, Exit, calls, TypeOK, Typed, Calls, Idle
  <2> QED  BY <2>1, <2>2, FutureUnmoved DEF Promised
<1>4. ASSUME NEW t \in Thread, NEW h \in Handle, NEW way \in Way, Ask(t, h, way)
      PROVE  F!Ask(t, h)
  <2>1. call[t] = Idle /\ stage[h] # "unused"
    BY <1>4, CarefulAsk DEF Ask
  <2>2. /\ \A u \in Thread : u # t => call'[u] = call[u]
        /\ call'[t].h = h
        /\ UNCHANGED <<stage, result, answer>>
    BY <1>4, <1>a DEF Ask, TypeOK, Typed, program
  <2>3. Promised(h) # Null
    BY <2>1, ThreadsAssumption DEF Promised, IInv, JoinedEnded
  <2>4. asking' = [asking EXCEPT ![t] = h]
    BY <2>2
  <2>5. asking[t] = Null
    BY <2>1 DEF Idle
  <2>6. cell' = cell
    BY <2>2 DEF Promised
  <2> QED  BY <2>2, <2>3, <2>4, <2>5, <2>6 DEF F!Ask
<1>5. ASSUME NEW t \in Thread, NEW h \in Handle, AskJoined(t, h)
      PROVE  F!Tell(t, h)
  <2>1. /\ answer' = [answer EXCEPT ![t] = result[h]]
        /\ call[t] = Idle /\ joined[h] # "no"
        /\ UNCHANGED <<stage, result, call>>
    BY <1>5, AskJoinedKeeps
  <2>2. Promised(h) = result[h] /\ result[h] \in Value
    BY <2>1 DEF Promised, IInv, JoinedEnded
  <2>3. asking[t] = Null /\ asking' = [asking EXCEPT ![t] = Null]
    BY <2>1 DEF Idle
  <2>4. cell' = cell
    BY <2>1 DEF Promised
  <2> QED  BY <2>1, <2>2, <2>3, <2>4 DEF F!Tell
<1>6. ASSUME NEW t \in Thread, Take(t)
      PROVE  \E h \in Handle : F!Tell(t, h)
  <2>1. PICK h \in Handle :
           /\ h = call[t].h /\ stage[h] = "ended"
           /\ answer' = [answer EXCEPT ![t] = result[h]]
           /\ call' = [call EXCEPT ![t] = Idle]
           /\ UNCHANGED <<stage, result>>
    BY <1>6, TakeGives
  <2>2. Promised(h) = result[h] /\ result[h] \in Value
    BY <2>1 DEF Promised, IInv, JoinedEnded
  <2>3. asking[t] = h /\ asking' = [asking EXCEPT ![t] = Null]
    BY <1>a, <2>1 DEF Idle, TypeOK, Typed
  <2>4. cell' = cell
    BY <2>1 DEF Promised
  <2> QED  BY <2>1, <2>2, <2>3, <2>4 DEF F!Tell
<1>7. CASE UNCHANGED vars
  BY <1>7, FutureUnmoved DEF vars, Promised
<1>8. F!Next \/ UNCHANGED F!vars
  BY <1>1, <1>2, <1>3, <1>4, <1>5, <1>6, <1>7 DEF Next, F!Next, Way, Thread
<1> QED  BY <1>8

(***************************************************************************)
(* In a careful program a handle is a future: a join or an await, the      *)
(* first or a later one, returns what the function returned, once it has   *)
(* ended.  (thread_join_native, EXPR_AWAIT, BC_OP_AWAIT.)                  *)
(***************************************************************************)
THEOREM HandlesAreFutures == CarefulProgram => (Spec => IsFuture)
<1> SUFFICES ASSUME CarefulProgram PROVE Spec => IsFuture
  OBVIOUS
<1>1. Init => F!Init
  BY FutureInit
<1>2. IInv /\ [Next]_vars => [F!Next]_F!vars
  BY FutureStep
<1> QED  BY <1>1, <1>2, CarefulInv, PTL DEF Spec, IsFuture, F!Spec
=============================================================================
