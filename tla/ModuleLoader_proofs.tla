------------------------- MODULE ModuleLoader_proofs -------------------------
(***************************************************************************)
(* Proofs about ModuleLoader for programs in which one thread executes     *)
(* import statements, whatever throws: types, that modules load in         *)
(* dependency order, what an import leaves behind, how deep imports go.    *)
(***************************************************************************)
EXTENDS ModuleLoader, FiniteSetTheorems, SequenceTheorems, TLAPS

\* One thread imports.
OneImporter == \A t, u \in Thread : t = u

Entries == Seq([name : Files, loaded : BOOLEAN, loading : BOOLEAN,
                parsed : Files \cup {None}])

-----------------------------------------------------------------------------
(* The invariant, frame by frame: e is the cache, b the program, d what is  *)
(* done, f a frame, s a stack.                                              *)

Held(d, m) == \E j \in 1 .. Len(d) : d[j] = m

\* The uncaught imports of m before statement n are done.
Before(b, d, m, n) ==
    \A i \in DOMAIN b[m] : i < n => b[m][i].caught \/ Held(d, b[m][i].name)

FrameInv(e, b, d, f) ==
    /\ f.pc \in {"find", "insert"} <=> f.entry = 0
    /\ f.entry \in 0 .. Len(e)
    /\ f.entry > 0 => e[f.entry].name = f.name
    /\ f.pc \in {"run", "unmark", "leave"} => e[f.entry].parsed = f.name
    /\ f.pc = "run" => Before(b, d, f.name, f.at)
    /\ f.pc \in {"unmark", "leave"} /\ f.ok => Before(b, d, f.name, Len(b[f.name]) + 1)
    /\ f.at > 0 /\ (f.pc \notin {"run", "unmark", "leave"} => f.at = 1)
    /\ f.pc = "insert" => f.name \in Files
    /\ f.saved \in Files \cup {None}

\* Frame f is at the import statement that frame g executes.
Waits(b, f, g) ==
    /\ f.pc = "run" /\ f.at \in DOMAIN b[f.name]
    /\ g.name = b[f.name][f.at].name

StackInv(e, b, d, s) ==
    /\ \A k \in 1 .. Len(s) : FrameInv(e, b, d, s[k])
    /\ \A k \in 1 .. Len(s) - 1 : Waits(b, s[k], s[k + 1])

VarTypes ==
    /\ body \in Bodies
    /\ entries \in Entries
    /\ stack \in [Thread -> Seq(Frame)]
    /\ lexer \in Files \cup {None}
    /\ outcome \in [Thread -> [name : Module \cup {None}, ok : BOOLEAN]]
    /\ done \in Seq(Files)
    /\ stranded \subseteq 1 .. Len(entries)

Stacks == \A t \in Thread : StackInv(entries, body, done, stack[t])

\* An entry is parsed from its own source, and the lexer is in it meanwhile.
OwnSource ==
    /\ \A i \in 1 .. Len(entries) : entries[i].parsed \in {None, entries[i].name}
    /\ \A t \in Thread : At(t, "scan") => lexer = Top(t).name

LoadedDone == \A i \in 1 .. Len(entries) : entries[i].loaded => Held(done, entries[i].name)

InOrder == \A j \in 1 .. Len(done) : \A i \in DOMAIN body[done[j]] :
    \/ body[done[j]][i].caught
    \/ \E k \in 1 .. j - 1 : done[k] = body[done[j]][i].name

Inv == VarTypes /\ Stacks /\ OwnSource /\ LoadedDone /\ InOrder

\* A program is a list of imports for every module.
LEMMA Programs ==
    ASSUME NEW b \in Bodies, NEW m \in Module
    PROVE  /\ b[m] \in Seq([name : Module, caught : BOOLEAN])
           /\ DOMAIN b[m] = 1 .. Len(b[m]) /\ Len(b[m]) \in Nat
           /\ \A i \in DOMAIN b[m] : b[m][i].name \in Module /\ b[m][i].caught \in BOOLEAN
<1> DEFINE Stmt == [name : Module, caught : BOOLEAN]
<1>1. b \in [Module -> Seq(Stmt)]
  BY LoaderAssumption
<1> HIDE DEF Stmt
<1>2. b[m] \in Seq(Stmt)
  BY <1>1
<1>3. DOMAIN b[m] = 1 .. Len(b[m]) /\ Len(b[m]) \in Nat
  BY <1>2
<1>4. \A i \in DOMAIN b[m] : b[m][i] \in Stmt
  BY <1>2, <1>3
<1>5. QED BY <1>2, <1>3, <1>4 DEF Stmt

\* The invariant says of frames what TypeOK asks of them.
LEMMA InvTypes == Inv => TypeOK
<1> SUFFICES ASSUME Inv PROVE TypeOK
  OBVIOUS
<1> USE DEF Inv
<1>1. ASSUME NEW t \in Thread, NEW k \in 1 .. Depth(t) PROVE FrameOK(t, k)
  <2> DEFINE f == stack[t][k]
  <2>1. f \in Frame /\ FrameInv(entries, body, done, f)
    BY DEF VarTypes, Stacks, StackInv, Depth
  <2>2. f.name \in Module /\ None \notin Module
    BY <2>1, LoaderAssumption DEF Frame
  <2>3. k < Depth(t) => f.pc = "run" /\ f.at \in DOMAIN body[f.name]
    BY DEF VarTypes, Stacks, StackInv, Waits, Depth
  <2>4. f.pc = "run" => Program(f) = body[f.name]
    BY <2>1 DEF FrameInv, Program
  <2>5. QED BY <2>1, <2>2, <2>3, <2>4 DEF FrameOK, FrameInv
<1>2. QED BY <1>1 DEF VarTypes, Entries, TypeOK

\* The invariant holds the order in which modules are loaded.
LEMMA InvOrder == Inv => ImportsFirst
<1> SUFFICES ASSUME Inv PROVE ImportsFirst
  OBVIOUS
<1>1. DOMAIN done = 1 .. Len(done) /\ DOMAIN entries = 1 .. Len(entries)
  BY DEF Inv, VarTypes, Entries
<1>2. QED BY <1>1 DEF Inv, InOrder, LoadedDone, Held, ImportsFirst

-----------------------------------------------------------------------------
(* What the cache and the history may do while frames rely on them.         *)

Grows(e, e2) ==
    /\ Len(e) <= Len(e2)
    /\ \A i \in 1 .. Len(e) :
        /\ e2[i].name = e[i].name
        /\ e[i].parsed # None => e2[i].parsed = e[i].parsed

Adds(d, d2) == \A m : Held(d, m) => Held(d2, m)

LEMMA FrameKept ==
    ASSUME NEW e \in Entries, NEW e2 \in Entries, NEW b \in Bodies, NEW d, NEW d2,
           NEW f \in Frame, Grows(e, e2), Adds(d, d2), FrameInv(e, b, d, f)
    PROVE  FrameInv(e2, b, d2, f)
<1>1. Len(e) \in Nat /\ Len(e2) \in Nat /\ f.entry \in Nat
  BY DEF Entries, Frame
<1>2. f.entry > 0 => /\ e2[f.entry].name = e[f.entry].name
                     /\ e[f.entry].parsed # None => e2[f.entry].parsed = e[f.entry].parsed
  <2>1. f.entry > 0 => f.entry \in 1 .. Len(e)
    BY <1>1 DEF FrameInv
  <2>2. QED BY <2>1 DEF Grows
<1>3. f.name # None
  BY LoaderAssumption DEF Frame
<1>4. \A n : Before(b, d, f.name, n) => Before(b, d2, f.name, n)
  BY DEF Before, Adds
<1>5. QED BY <1>1, <1>2, <1>3, <1>4 DEF FrameInv, Grows

LEMMA StackKept ==
    ASSUME NEW e \in Entries, NEW e2 \in Entries, NEW b \in Bodies, NEW d, NEW d2,
           NEW s \in Seq(Frame), Grows(e, e2), Adds(d, d2), StackInv(e, b, d, s)
    PROVE  StackInv(e2, b, d2, s)
<1>1. \A k \in 1 .. Len(s) : s[k] \in Frame
  OBVIOUS
<1>2. QED BY <1>1, FrameKept DEF StackInv

\* The top frame goes on.
LEMMA Goes ==
    ASSUME NEW e \in Entries, NEW e2 \in Entries, NEW b \in Bodies, NEW d, NEW d2,
           NEW s \in Seq(Frame), NEW f \in Frame, s # <<>>,
           Grows(e, e2), Adds(d, d2), StackInv(e, b, d, s),
           FrameInv(e2, b, d2, f), f.name = s[Len(s)].name
    PROVE  /\ [s EXCEPT ![Len(s)] = f] \in Seq(Frame)
           /\ Len([s EXCEPT ![Len(s)] = f]) = Len(s)
           /\ StackInv(e2, b, d2, [s EXCEPT ![Len(s)] = f])
<1> DEFINE r == [s EXCEPT ![Len(s)] = f]
<1>1. /\ r \in Seq(Frame) /\ Len(r) = Len(s) /\ Len(s) \in Nat \ {0}
      /\ r[Len(s)] = f /\ \A k \in 1 .. Len(s) - 1 : r[k] = s[k]
  OBVIOUS
<1> HIDE DEF r
<1>2. \A k \in 1 .. Len(s) : FrameInv(e2, b, d2, s[k])
  BY StackKept DEF StackInv
<1>3. \A k \in 1 .. Len(r) : FrameInv(e2, b, d2, r[k])
  <2> TAKE k \in 1 .. Len(r)
  <2>1. k = Len(s) \/ k \in 1 .. Len(s) - 1
    BY <1>1
  <2>2. QED BY <1>1, <1>2, <2>1
<1>4. \A k \in 1 .. Len(r) - 1 : Waits(b, r[k], r[k + 1])
  <2> TAKE k \in 1 .. Len(r) - 1
  <2>1. Waits(b, s[k], s[k + 1]) /\ r[k] = s[k]
    BY <1>1 DEF StackInv
  <2>2. r[k + 1].name = s[k + 1].name
    <3>1. k + 1 = Len(s) \/ k + 1 \in 1 .. Len(s) - 1
      BY <1>1
    <3>2. QED BY <1>1, <3>1
  <2>3. QED BY <2>1, <2>2 DEF Waits
<1>5. QED BY <1>1, <1>3, <1>4 DEF StackInv, r

\* A new frame for the import statement the top frame is at.
LEMMA Pushed ==
    ASSUME NEW e \in Entries, NEW b \in Bodies, NEW d, NEW s \in Seq(Frame), NEW m \in Module,
           StackInv(e, b, d, s), s # <<>> => Waits(b, s[Len(s)], NewFrame(m))
    PROVE  Append(s, NewFrame(m)) \in Seq(Frame) /\ StackInv(e, b, d, Append(s, NewFrame(m)))
<1> DEFINE f == NewFrame(m)
           r == Append(s, f)
<1>1. f \in Frame /\ FrameInv(e, b, d, f)
  BY LoaderAssumption DEF NewFrame, Frame, Points, FrameInv, Entries
<1> HIDE DEF f
<1>2. /\ r \in Seq(Frame) /\ Len(r) = Len(s) + 1 /\ Len(s) \in Nat
      /\ r[Len(r)] = f /\ \A k \in 1 .. Len(s) : r[k] = s[k]
  BY <1>1
<1>3. \A k \in 1 .. Len(r) : FrameInv(e, b, d, r[k])
  BY <1>1, <1>2 DEF StackInv
<1>4. \A k \in 1 .. Len(r) - 1 : Waits(b, r[k], r[k + 1])
  <2> TAKE k \in 1 .. Len(r) - 1
  <2>1. CASE k = Len(s)
    BY <1>2, <2>1 DEF f
  <2>2. CASE k # Len(s)
    <3>1. k \in 1 .. Len(s) - 1 /\ k + 1 \in 1 .. Len(s) /\ k \in 1 .. Len(s)
      BY <1>2, <2>2
    <3>2. QED BY <1>2, <3>1 DEF StackInv
  <2>3. QED BY <2>1, <2>2
<1>5. QED BY <1>2, <1>3, <1>4 DEF StackInv, f

\* An import that is over, as Resume sees it from the frame below.
Resumed(b, f, ok) ==
    IF ok \/ b[f.name][f.at].caught
    THEN [f EXCEPT !.at = @ + 1]
    ELSE [f EXCEPT !.pc = "unmark", !.ok = FALSE]

LEMMA ResumedFrame ==
    ASSUME NEW e, NEW b \in Bodies, NEW d, NEW f \in Frame, NEW ok \in BOOLEAN,
           FrameInv(e, b, d, f), f.pc = "run", f.at \in DOMAIN b[f.name],
           ok => Held(d, b[f.name][f.at].name)
    PROVE  /\ Resumed(b, f, ok) \in Frame /\ Resumed(b, f, ok).name = f.name
           /\ FrameInv(e, b, d, Resumed(b, f, ok))
<1> DEFINE h == Resumed(b, f, ok)
<1>1. CASE ok \/ b[f.name][f.at].caught
  <2>1. h = [f EXCEPT !.at = f.at + 1]
    BY <1>1 DEF Resumed
  <2>2. /\ h \in Frame /\ h.name = f.name /\ h.pc = f.pc /\ h.entry = f.entry /\ h.at = f.at + 1
        /\ h.saved = f.saved
    BY <2>1 DEF Frame
  <2>3. f.pc = "run" /\ Before(b, d, f.name, f.at)
    BY DEF FrameInv
  <2>4. Before(b, d, f.name, f.at + 1)
    <3>1. b[f.name][f.at].caught \/ Held(d, b[f.name][f.at].name)
      BY <1>1
    <3>2. \A i \in DOMAIN b[f.name] : i \in Nat
      BY Programs DEF Frame
    <3>3. f.at \in Nat
      BY DEF Frame
    <3>4. \A i \in DOMAIN b[f.name] : i < f.at + 1 => i < f.at \/ i = f.at
      BY <3>2, <3>3
    <3>5. QED BY <2>3, <3>1, <3>4 DEF Before
  <2>5. h.at > 0
    BY <2>2 DEF FrameInv, Frame
  <2> HIDE DEF h
  <2>6. FrameInv(e, b, d, h)
    BY <2>2, <2>3, <2>4, <2>5 DEF FrameInv
  <2>7. QED BY <2>2, <2>6 DEF h
<1>2. CASE ~ (ok \/ b[f.name][f.at].caught)
  <2>1. h = [f EXCEPT !.pc = "unmark", !.ok = FALSE]
    BY <1>2 DEF Resumed
  <2>2. /\ h \in Frame /\ h.name = f.name /\ h.pc = "unmark" /\ h.entry = f.entry /\ h.ok = FALSE
        /\ h.saved = f.saved /\ h.at = f.at
    BY <2>1 DEF Frame, Points
  <2> HIDE DEF h
  <2>3. FrameInv(e, b, d, h)
    BY <2>2 DEF FrameInv
  <2>4. QED BY <2>2, <2>3 DEF h
<1>3. QED BY <1>1, <1>2

\* The top frame returns to the one below.
LEMMA Popped ==
    ASSUME NEW e \in Entries, NEW e2 \in Entries, NEW b \in Bodies, NEW d, NEW d2,
           NEW s \in Seq(Frame), NEW ok \in BOOLEAN, NEW n, n = Len(s) - 1, n # 0, s # <<>>,
           Grows(e, e2), Adds(d, d2), StackInv(e, b, d, s),
           ok => Held(d2, s[Len(s)].name)
    PROVE  LET r == [SubSeq(s, 1, n) EXCEPT ![n] = Resumed(b, s[n], ok)]
           IN  r \in Seq(Frame) /\ Len(r) = n /\ StackInv(e2, b, d2, r)
<1> DEFINE q == SubSeq(s, 1, n)
           f == Resumed(b, s[n], ok)
<1>1. n \in Nat \ {0} /\ n < Len(s) /\ n + 1 = Len(s)
  OBVIOUS
<1>2. q \in Seq(Frame) /\ Len(q) = n /\ q # <<>> /\ \A k \in 1 .. n : q[k] = s[k]
  <2>1. 1 \in Int /\ n \in Int /\ \A i \in 1 .. n : s[i] \in Frame
    BY <1>1
  <2>2. /\ q \in Seq(Frame)
        /\ Len(q) = IF 1 <= n THEN n - 1 + 1 ELSE 0
        /\ \A k \in 1 .. n - 1 + 1 : q[k] = s[1 + k - 1]
    BY <2>1, SubSeqProperties
  <2> HIDE DEF q
  <2>3. n - 1 + 1 = n /\ \A k \in 1 .. n : 1 + k - 1 = k
    BY <1>1
  <2>4. QED BY <1>1, <2>2, <2>3
<1>3. StackInv(e2, b, d2, s)
  BY StackKept
<1> HIDE DEF q, f
<1>4. StackInv(e2, b, d2, q)
  <2>1. \A k \in 1 .. n : k \in 1 .. Len(s)
    BY <1>1
  <2>2. \A k \in 1 .. n - 1 : k \in 1 .. Len(s) - 1 /\ k \in 1 .. n /\ k + 1 \in 1 .. n
    BY <1>1
  <2>3. QED BY <1>2, <1>3, <2>1, <2>2 DEF StackInv
<1>5. n \in 1 .. Len(s) - 1 /\ n \in 1 .. n /\ n \in 1 .. Len(s)
  BY <1>1
<1>6. FrameInv(e2, b, d2, s[n]) /\ Waits(b, s[n], s[n + 1]) /\ s[n] \in Frame
  BY <1>3, <1>5 DEF StackInv
<1>7. f \in Frame /\ f.name = s[n].name /\ FrameInv(e2, b, d2, f)
  <2>1. s[n].pc = "run" /\ s[n].at \in DOMAIN b[s[n].name]
    BY <1>6 DEF Waits
  <2>2. ok => Held(d2, b[s[n].name][s[n].at].name)
    BY <1>1, <1>6 DEF Waits
  <2>3. s[n] \in Frame /\ FrameInv(e2, b, d2, s[n])
    BY <1>6
  <2>4. ASSUME NEW g \in Frame, FrameInv(e2, b, d2, g), g.pc = "run",
               g.at \in DOMAIN b[g.name], ok => Held(d2, b[g.name][g.at].name)
        PROVE  /\ Resumed(b, g, ok) \in Frame /\ Resumed(b, g, ok).name = g.name
               /\ FrameInv(e2, b, d2, Resumed(b, g, ok))
    BY <2>4, ResumedFrame
  <2>5. QED BY <2>1, <2>2, <2>3, <2>4 DEF f
<1>8. Grows(e2, e2) /\ Adds(d2, d2)
  BY DEF Grows, Adds, Entries
<1>9. f.name = q[Len(q)].name
  BY <1>2, <1>5, <1>7
<1>10. LET r == [q EXCEPT ![Len(q)] = f]
       IN  r \in Seq(Frame) /\ Len(r) = Len(q) /\ StackInv(e2, b, d2, r)
  BY <1>2, <1>4, <1>7, <1>8, <1>9, Goes
<1>11. QED BY <1>2, <1>10 DEF q, f

-----------------------------------------------------------------------------
(* The three ways a step changes the stack of the importing thread.         *)

\* What the next cache must be like beside growing.
CacheOK(e, d) == \A i \in 1 .. Len(e) :
    e[i].parsed \in {None, e[i].name} /\ (e[i].loaded => Held(d, e[i].name))

\* A cache that grows keeps the entries that were stranded.
LEMMA StrandedFits ==
    ASSUME Inv, NEW e2 \in Entries, Grows(entries, e2)
    PROVE  stranded \subseteq 1 .. Len(e2)
<1>1. entries \in Entries /\ stranded \subseteq 1 .. Len(entries) /\ Len(entries) <= Len(e2)
  BY DEF Inv, VarTypes, Grows
<1>2. Len(entries) \in Nat /\ Len(e2) \in Nat
  BY <1>1 DEF Entries
<1>3. QED BY <1>1, <1>2

LEMMA TopFrame ==
    ASSUME Inv, NEW t \in Thread, Depth(t) > 0
    PROVE  /\ stack[t] \in Seq(Frame) /\ stack[t] # <<>> /\ Depth(t) \in Nat \ {0}
           /\ Top(t) \in Frame /\ FrameInv(entries, body, done, Top(t))
           /\ StackInv(entries, body, done, stack[t])
           /\ entries \in Entries /\ body \in Bodies
           /\ Top(t).entry > 0 => Top(t).entry \in 1 .. Len(entries)
<1>1. stack[t] \in Seq(Frame) /\ StackInv(entries, body, done, stack[t])
  BY DEF Inv, VarTypes, Stacks
<1>2. stack[t] # <<>> /\ Depth(t) \in 1 .. Len(stack[t]) /\ Depth(t) \in Nat \ {0}
  BY <1>1 DEF Depth
<1>3. Top(t) \in Frame /\ FrameInv(entries, body, done, Top(t))
  BY <1>1, <1>2 DEF Top, StackInv
<1>4. Top(t).entry > 0 => Top(t).entry \in 1 .. Len(entries)
  BY <1>3 DEF FrameInv
<1>5. QED BY <1>1, <1>2, <1>3, <1>4 DEF Inv, VarTypes

\* The same import goes on.
LEMMA GoStep ==
    ASSUME Inv, OneImporter, NEW t \in Thread, NEW f, Depth(t) > 0, Go(t, f),
           f \in Frame, f.name = Top(t).name, f.pc = "scan" => lexer' = f.name,
           UNCHANGED <<body, stranded, outcome, done>>, lexer' \in Files \cup {None},
           entries' \in Entries, Grows(entries, entries'), CacheOK(entries', done),
           FrameInv(entries', body, done, f)
    PROVE  Inv'
<1> DEFINE r == [stack[t] EXCEPT ![Depth(t)] = f]
<1>1. stack[t] \in Seq(Frame) /\ stack[t] # <<>> /\ StackInv(entries, body, done, stack[t])
      /\ entries \in Entries /\ body \in Bodies
  BY TopFrame
<1>2. Adds(done, done)
  BY DEF Adds
<1>3. r \in Seq(Frame) /\ Len(r) = Len(stack[t]) /\ StackInv(entries', body, done, r)
  BY <1>1, <1>2, Goes DEF Depth, Top
<1>4. r[Depth(t)] = f
  BY <1>1 DEF Depth
<1> HIDE DEF r
<1>5. stack' = [stack EXCEPT ![t] = r] /\ stack'[t] = r /\ \A u \in Thread : u = t
  BY DEF Go, r, Inv, VarTypes, OneImporter
<1>6. VarTypes'
  BY <1>3, <1>5, StrandedFits DEF Inv, VarTypes
<1>7. Stacks'
  BY <1>3, <1>5 DEF Stacks
<1>8. OwnSource'
  <2>1. Top(t)' = f
    BY <1>3, <1>4, <1>5 DEF Top, Depth
  <2>2. QED BY <1>5, <2>1 DEF OwnSource, At, CacheOK
<1>9. LoadedDone' /\ InOrder'
  BY DEF Inv, LoadedDone, InOrder, CacheOK
<1>10. QED BY <1>6, <1>7, <1>8, <1>9 DEF Inv

\* The import is over.
LEMMA ReturnStep ==
    ASSUME Inv, OneImporter, NEW t \in Thread, NEW ok \in BOOLEAN, Depth(t) > 0, Return(t, ok),
           UNCHANGED <<body, stranded>>, lexer' \in Files \cup {None}, done' \in Seq(Files),
           Adds(done, done'), ok => Held(done', Top(t).name), InOrder',
           entries' \in Entries, Grows(entries, entries'), CacheOK(entries', done')
    PROVE  Inv'
<1> DEFINE n == Depth(t) - 1
           r == [SubSeq(stack[t], 1, n) EXCEPT ![n] = Resumed(body, stack[t][n], ok)]
<1>1. /\ stack[t] \in Seq(Frame) /\ stack[t] # <<>> /\ StackInv(entries, body, done, stack[t])
      /\ entries \in Entries /\ body \in Bodies
      /\ Depth(t) \in Nat \ {0} /\ Top(t) \in Frame
  BY TopFrame
<1>2. (\A u \in Thread : u = t) /\ stack \in [Thread -> Seq(Frame)]
  BY DEF OneImporter, Inv, VarTypes
<1>3. CASE n = 0
  <2>1. stack' = [stack EXCEPT ![t] = <<>>]
        /\ outcome' = [outcome EXCEPT ![t] = [name |-> Top(t).name, ok |-> ok]]
    BY <1>3 DEF Return
  <2>2. stack'[t] = <<>> /\ stack' \in [Thread -> Seq(Frame)]
    BY <1>2, <2>1
  <2>3. Stacks' /\ OwnSource'
    BY <1>2, <2>2 DEF Stacks, StackInv, OwnSource, At, Depth, CacheOK
  <2>4. VarTypes'
    BY <1>1, <2>1, <2>2, StrandedFits DEF Inv, VarTypes, Frame
  <2>5. QED BY <2>3, <2>4 DEF Inv, LoadedDone, CacheOK
<1>4. CASE n # 0
  <2> DEFINE f == stack[t][n]
  <2>1. n \in 1 .. Len(stack[t]) - 1 /\ n \in 1 .. Len(stack[t]) /\ n = Len(stack[t]) - 1
    <3>1. Depth(t) = Len(stack[t])
      BY DEF Depth
    <3>2. ASSUME NEW l \in Nat \ {0}, l - 1 # 0
          PROVE  l - 1 \in 1 .. l - 1 /\ l - 1 \in 1 .. l
      BY <3>2
    <3>3. n \in 1 .. Depth(t) - 1 /\ n \in 1 .. Depth(t)
      BY <1>1, <1>4, <3>2
    <3>4. QED BY <3>1, <3>3
  <2>2. f.pc = "run" /\ FrameInv(entries, body, done, f)
    BY <1>1, <2>1 DEF StackInv, Waits
  <2>3. Resume(f, ok) = Resumed(body, f, ok)
    BY <2>2 DEF FrameInv, Program, Resume, Resumed
  <2>4. r \in Seq(Frame) /\ Len(r) = n /\ StackInv(entries', body, done', r)
    <3>1. ok => Held(done', stack[t][Len(stack[t])].name)
      BY DEF Top, Depth
    <3>2. ASSUME NEW s \in Seq(Frame), NEW m, m = Len(s) - 1, m # 0, s # <<>>,
                 StackInv(entries, body, done, s), ok => Held(done', s[Len(s)].name)
          PROVE  LET p == [SubSeq(s, 1, m) EXCEPT ![m] = Resumed(body, s[m], ok)]
                 IN  p \in Seq(Frame) /\ Len(p) = m /\ StackInv(entries', body, done', p)
      BY <1>1, <3>2, Popped, SMTT(30)
    <3> HIDE DEF n
    <3>3. QED BY <1>1, <1>4, <2>1, <3>1, <3>2
  <2>5. stack' = [stack EXCEPT ![t] = r] /\ outcome' = outcome
    <3> DEFINE q == SubSeq(stack[t], 1, n)
    <3>1. q[n] = f
      <4>1. 1 \in Int /\ n \in Int /\ \A i \in 1 .. n : stack[t][i] \in Frame
        BY <1>1, <2>1
      <4>2. \A i \in 1 .. n - 1 + 1 : q[i] = stack[t][1 + i - 1]
        BY <4>1, SubSeqProperties
      <4> HIDE DEF q
      <4>3. n \in 1 .. n - 1 + 1 /\ 1 + n - 1 = n
        BY <2>1
      <4>4. q[1 * n] = stack[t][1 + n - 1]
        BY <4>2, <4>3
      <4>5. QED BY <4>3, <4>4
    <3>2. stack' = [stack EXCEPT ![t] = [q EXCEPT ![n] = Resume(q[n], ok)]] /\ outcome' = outcome
      BY <1>4 DEF Return
    <3>3. QED BY <2>3, <3>1, <3>2
  <2> HIDE DEF r
  <2>6. stack'[t] = r /\ stack' \in [Thread -> Seq(Frame)]
    BY <1>2, <2>4, <2>5
  <2>7. Stacks'
    BY <1>2, <2>4, <2>6 DEF Stacks
  <2>8. OwnSource'
    <3>1. Top(t)' = Resumed(body, f, ok)
      BY <1>1, <2>1, <2>4, <2>6 DEF Top, Depth, r
    <3>2. Top(t)'.pc # "scan"
      BY <1>1, <2>1, <2>2, <3>1 DEF Resumed, Frame
    <3>3. QED BY <1>2, <3>2 DEF OwnSource, At, CacheOK
  <2>9. VarTypes'
    BY <2>5, <2>6, StrandedFits DEF Inv, VarTypes
  <2>10. QED BY <2>7, <2>8, <2>9 DEF Inv, LoadedDone, CacheOK
<1>5. QED BY <1>3, <1>4

-----------------------------------------------------------------------------
(* The actions.                                                             *)

LEMMA EntryTypes ==
    ASSUME NEW e \in Entries, NEW i \in 1 .. Len(e)
    PROVE  /\ e[i] \in [name : Files, loaded : BOOLEAN, loading : BOOLEAN,
                        parsed : Files \cup {None}]
           /\ e[i].name \in Files /\ e[i].loaded \in BOOLEAN /\ e[i].loading \in BOOLEAN
           /\ e[i].parsed \in Files \cup {None}
<1> DEFINE R == [name : Files, loaded : BOOLEAN, loading : BOOLEAN, parsed : Files \cup {None}]
<1>1. e \in Seq(R)
  BY DEF Entries
<1> HIDE DEF R
<1>2. e[i] \in R
  BY <1>1
<1>3. QED BY <1>2 DEF R

LEMMA Same ==
    ASSUME Inv
    PROVE  /\ CacheOK(entries, done) /\ Grows(entries, entries) /\ Adds(done, done)
           /\ entries \in Entries /\ lexer \in Files \cup {None} /\ done \in Seq(Files)
BY DEF Inv, VarTypes, OwnSource, LoadedDone, CacheOK, Grows, Adds, Entries

\* An entry changes: its name stays, and what it has parsed.
LEMMA Changed ==
    ASSUME NEW e \in Entries, NEW d, NEW d2, NEW i \in 1 .. Len(e),
           NEW g \in [name : Files, loaded : BOOLEAN, loading : BOOLEAN,
                      parsed : Files \cup {None}],
           CacheOK(e, d), Adds(d, d2), g.name = e[i].name, g.parsed \in {None, g.name},
           e[i].parsed # None => g.parsed = e[i].parsed, g.loaded => Held(d2, g.name)
    PROVE  LET e2 == [e EXCEPT ![i] = g]
           IN  e2 \in Entries /\ Grows(e, e2) /\ CacheOK(e2, d2) /\ Len(e2) = Len(e) /\ e2[i] = g
<1> DEFINE e2 == [e EXCEPT ![i] = g]
<1>1. /\ e2 \in Entries /\ Len(e2) = Len(e) /\ e2[i] = g /\ Len(e) \in Nat
      /\ \A j \in 1 .. Len(e) : j # i => e2[j] = e[j]
  BY DEF Entries
<1> HIDE DEF e2
<1>2. Grows(e, e2)
  BY <1>1 DEF Grows
<1>3. CacheOK(e2, d2)
  BY <1>1 DEF CacheOK, Adds
<1>4. QED BY <1>1, <1>2, <1>3 DEF e2

\* The steps that leave the cache as it is and stay in the import.
LEMMA StayStep ==
    ASSUME Inv, OneImporter, NEW t \in Thread,
           \/ Find(t) \/ Resolve(t) \/ NotLoaded(t) \/ NotLoading(t) \/ Open(t)
           \/ Throw(t) \/ EndOfModule(t)
    PROVE  Inv'
<1>1. Depth(t) > 0
  BY DEF Find, Resolve, NotLoaded, NotLoading, Open, Throw, EndOfModule, At
<1>2. /\ Top(t) \in Frame /\ FrameInv(entries, body, done, Top(t)) /\ body \in Bodies
      /\ Top(t).entry > 0 => Top(t).entry \in 1 .. Len(entries)
  BY <1>1, TopFrame
<1>3. ASSUME NEW f \in Frame, Go(t, f), f.name = Top(t).name, f.pc # "scan",
             FrameInv(entries, body, done, f), UNCHANGED <<body, stranded, entries, lexer, outcome, done>>
      PROVE  Inv'
  BY <1>1, <1>3, Same, GoStep
<1>4. CASE Find(t)
  <2>1. PICK i \in Cached(Top(t).name) : Go(t, [Top(t) EXCEPT !.pc = "loaded?", !.entry = i])
    BY <1>4 DEF Find
  <2> DEFINE f == [Top(t) EXCEPT !.pc = "loaded?", !.entry = i]
  <2>2. /\ i \in 1 .. Len(entries) /\ entries[i].name = Top(t).name /\ Len(entries) \in Nat
        /\ i \in Nat \ {0} /\ i \in 0 .. Len(entries)
    <3>1. DOMAIN entries = 1 .. Len(entries) /\ Len(entries) \in Nat
      BY Same DEF Entries
    <3>2. QED BY <3>1 DEF Cached
  <2>3. /\ f \in Frame /\ f.name = Top(t).name /\ f.pc = "loaded?" /\ f.entry = i
        /\ f.at = Top(t).at /\ f.saved = Top(t).saved
    BY <1>2, <2>2 DEF Frame, Points
  <2> HIDE DEF f
  <2>4. FrameInv(entries, body, done, f)
    BY <1>2, <1>4, <2>2, <2>3 DEF FrameInv, Find, At
  <2>5. Go(t, f)
    BY <2>1 DEF f
  <2>6. QED BY <1>3, <1>4, <2>3, <2>4, <2>5 DEF Find
<1>5. CASE Resolve(t)
  <2> DEFINE f == [Top(t) EXCEPT !.pc = "insert"]
  <2>1. /\ f \in Frame /\ f.name = Top(t).name /\ f.pc = "insert" /\ f.entry = Top(t).entry
        /\ f.at = Top(t).at /\ f.saved = Top(t).saved
    BY <1>2 DEF Frame, Points
  <2>2. Go(t, f)
    BY <1>5 DEF Resolve
  <2> HIDE DEF f
  <2>3. FrameInv(entries, body, done, f)
    BY <1>2, <1>5, <2>1 DEF FrameInv, Resolve, At
  <2>4. QED BY <1>3, <1>5, <2>1, <2>2, <2>3 DEF Resolve
<1>6. CASE NotLoaded(t)
  <2> DEFINE f == [Top(t) EXCEPT !.pc = "loading?", !.saved = lexer]
  <2>1. lexer \in Files \cup {None} /\ Files \subseteq Module
    BY Same, LoaderAssumption
  <2>2. /\ f \in Frame /\ f.name = Top(t).name /\ f.pc = "loading?" /\ f.entry = Top(t).entry
        /\ f.at = Top(t).at /\ f.saved = lexer
    BY <1>2, <2>1 DEF Frame, Points
  <2>3. Go(t, f)
    BY <1>6 DEF NotLoaded
  <2> HIDE DEF f
  <2>4. FrameInv(entries, body, done, f)
    BY <1>2, <1>6, <2>1, <2>2 DEF FrameInv, NotLoaded, At
  <2>5. QED BY <1>3, <1>6, <2>2, <2>3, <2>4 DEF NotLoaded
<1>7. CASE NotLoading(t)
  <2> DEFINE f == [Top(t) EXCEPT !.pc = "mark"]
  <2>1. /\ f \in Frame /\ f.name = Top(t).name /\ f.pc = "mark" /\ f.entry = Top(t).entry
        /\ f.at = Top(t).at /\ f.saved = Top(t).saved
    BY <1>2 DEF Frame, Points
  <2>2. Go(t, f)
    BY <1>7 DEF NotLoading
  <2> HIDE DEF f
  <2>3. FrameInv(entries, body, done, f)
    BY <1>2, <1>7, <2>1 DEF FrameInv, NotLoading, At
  <2>4. QED BY <1>3, <1>7, <2>1, <2>2, <2>3 DEF NotLoading
<1>8. CASE Open(t)
  <2> DEFINE f == [Top(t) EXCEPT !.pc = "scan"]
  <2>1. /\ f \in Frame /\ f.name = Top(t).name /\ f.pc = "scan" /\ f.entry = Top(t).entry
        /\ f.at = Top(t).at /\ f.saved = Top(t).saved
    BY <1>2 DEF Frame, Points
  <2>2. Go(t, f)
    BY <1>8 DEF Open
  <2> HIDE DEF f
  <2>3. FrameInv(entries, body, done, f)
    BY <1>2, <1>8, <2>1 DEF FrameInv, Open, At
  <2>4. Top(t).entry \in 1 .. Len(entries) /\ Top(t).name = entries[Top(t).entry].name
    BY <1>2, <1>8 DEF FrameInv, Open, At, Frame
  <2>5. Top(t).name \in Files
    <3>1. \A i \in 1 .. Len(entries) : entries[i].name \in Files
      BY Same, EntryTypes
    <3>2. QED BY <2>4, <3>1
  <2>6. QED BY <1>1, <1>8, <2>1, <2>2, <2>3, <2>5, Same, GoStep DEF Open
<1>9. CASE Throw(t)
  <2> DEFINE f == [Top(t) EXCEPT !.pc = "unmark", !.ok = FALSE]
  <2>1. /\ f \in Frame /\ f.name = Top(t).name /\ f.pc = "unmark" /\ f.entry = Top(t).entry
        /\ f.at = Top(t).at /\ f.saved = Top(t).saved /\ f.ok = FALSE
    BY <1>2 DEF Frame, Points
  <2>2. Go(t, f)
    BY <1>9 DEF Throw
  <2> HIDE DEF f
  <2>3. FrameInv(entries, body, done, f)
    BY <1>2, <1>9, <2>1 DEF FrameInv, Throw, At
  <2>4. QED BY <1>3, <1>9, <2>1, <2>2, <2>3 DEF Throw
<1>10. CASE EndOfModule(t)
  <2> DEFINE f == [Top(t) EXCEPT !.pc = "unmark"]
  <2>1. /\ f \in Frame /\ f.name = Top(t).name /\ f.pc = "unmark" /\ f.entry = Top(t).entry
        /\ f.at = Top(t).at /\ f.saved = Top(t).saved
    BY <1>2 DEF Frame, Points
  <2>2. Go(t, f) /\ Top(t).pc = "run" /\ Top(t).at > Len(Program(Top(t)))
    BY <1>10 DEF EndOfModule, At
  <2>3. Program(Top(t)) = body[Top(t).name] /\ Before(body, done, Top(t).name, Top(t).at)
    BY <1>2, <2>2 DEF FrameInv, Program
  <2>4. Top(t).name \in Module /\ Top(t).at \in Nat
    BY <1>2 DEF Frame
  <2>5. Before(body, done, Top(t).name, Len(body[Top(t).name]) + 1)
    <3>1. \A i \in DOMAIN body[Top(t).name] : i < Top(t).at
      BY <1>2, <2>2, <2>3, <2>4, Programs
    <3>2. QED BY <2>3, <3>1 DEF Before
  <2> HIDE DEF f
  <2>6. FrameInv(entries, body, done, f)
    BY <1>2, <2>1, <2>2, <2>5 DEF FrameInv
  <2>7. QED BY <1>3, <1>10, <2>1, <2>2, <2>6 DEF EndOfModule
<1>11. QED BY <1>4, <1>5, <1>6, <1>7, <1>8, <1>9, <1>10

\* The steps that stay in the import and write to the cache.
LEMMA InsertStep ==
    ASSUME Inv, OneImporter, NEW t \in Thread, Insert(t)
    PROVE  Inv'
<1> DEFINE g == NewEntry(Top(t).name)
           f == [Top(t) EXCEPT !.pc = "loaded?", !.entry = Len(entries) + 1]
<1>1. /\ Depth(t) > 0 /\ Top(t).pc = "insert" /\ entries' = Append(entries, g) /\ Go(t, f)
      /\ UNCHANGED <<body, stranded, lexer, outcome, done>>
  BY DEF Insert, At
<1>2. /\ Top(t) \in Frame /\ FrameInv(entries, body, done, Top(t)) /\ body \in Bodies
  BY <1>1, TopFrame
<1>3. /\ g \in [name : Files, loaded : BOOLEAN, loading : BOOLEAN, parsed : Files \cup {None}]
      /\ g.name = Top(t).name /\ g.loaded = FALSE /\ g.parsed = None
  BY <1>1, <1>2 DEF FrameInv, NewEntry
<1> HIDE DEF g
<1>4. /\ entries' \in Entries /\ Len(entries') = Len(entries) + 1 /\ Len(entries) \in Nat
      /\ entries'[Len(entries) + 1] = g /\ \A i \in 1 .. Len(entries) : entries'[i] = entries[i]
  BY <1>1, <1>3, Same DEF Entries
<1>5. Grows(entries, entries')
  BY <1>4 DEF Grows
<1>6. CacheOK(entries', done)
  <2> SUFFICES ASSUME NEW i \in 1 .. Len(entries')
               PROVE  /\ entries'[i].parsed \in {None, entries'[i].name}
                      /\ entries'[i].loaded => Held(done, entries'[i].name)
    BY DEF CacheOK
  <2>1. i \in 1 .. Len(entries) \/ i = Len(entries) + 1
    BY <1>4
  <2>2. QED BY <1>3, <1>4, <2>1, Same DEF CacheOK
<1>7. /\ f \in Frame /\ f.name = Top(t).name /\ f.pc = "loaded?" /\ f.entry = Len(entries) + 1
      /\ f.at = Top(t).at /\ f.saved = Top(t).saved
  <2>1. ASSUME NEW n \in Nat, NEW h, h = [Top(t) EXCEPT !.pc = "loaded?", !.entry = n]
        PROVE  /\ h \in Frame /\ h.name = Top(t).name /\ h.pc = "loaded?" /\ h.entry = n
               /\ h.at = Top(t).at /\ h.saved = Top(t).saved
    BY <1>2, <2>1 DEF Frame, Points
  <2>2. Len(entries) + 1 \in Nat
    BY <1>4
  <2>3. QED BY <2>1, <2>2
<1> HIDE DEF f
<1>8. FrameInv(entries', body, done, f)
  <2>1. f.entry \in 0 .. Len(entries') /\ f.entry # 0 /\ entries'[f.entry].name = f.name
    BY <1>3, <1>4, <1>7
  <2>2. QED BY <1>1, <1>2, <1>7, <2>1 DEF FrameInv
<1>9. QED BY <1>1, <1>4, <1>5, <1>6, <1>7, <1>8, Same, GoStep

LEMMA WriteStep ==
    ASSUME Inv, OneImporter, NEW t \in Thread, Mark(t) \/ Scan(t) \/ Unmark(t)
    PROVE  Inv'
<1> DEFINE i == Top(t).entry
           R == [name : Files, loaded : BOOLEAN, loading : BOOLEAN, parsed : Files \cup {None}]
<1>1. Depth(t) > 0 /\ Top(t).pc \in {"mark", "scan", "unmark"}
  BY DEF Mark, Scan, Unmark, At
<1>2. /\ Top(t) \in Frame /\ FrameInv(entries, body, done, Top(t)) /\ body \in Bodies
      /\ i > 0 => i \in 1 .. Len(entries)
  BY <1>1, TopFrame
<1>3. i \in 1 .. Len(entries) /\ entries[i].name = Top(t).name
  BY <1>1, <1>2 DEF FrameInv, Frame
<1>4. /\ entries[i] \in R /\ entries[i].name \in Files /\ entries[i].loaded \in BOOLEAN
      /\ entries[i].parsed \in {None, entries[i].name}
      /\ entries[i].loaded => Held(done, entries[i].name)
  BY <1>3, Same, EntryTypes DEF CacheOK
<1>5. ASSUME NEW g \in R, g.name = entries[i].name, g.loaded = entries[i].loaded,
             g.parsed \in {None, g.name}, entries[i].parsed # None => g.parsed = entries[i].parsed
      PROVE  LET e2 == [entries EXCEPT ![i] = g]
             IN  /\ e2 \in Entries /\ Grows(entries, e2) /\ CacheOK(e2, done)
                 /\ Len(e2) = Len(entries) /\ e2[i] = g
  BY <1>3, <1>4, <1>5, Same, Changed
<1>6. ASSUME NEW f \in Frame, Go(t, f), f.name = Top(t).name, f.pc # "scan",
             UNCHANGED <<body, stranded, lexer, outcome, done>>, entries' \in Entries,
             Grows(entries, entries'), CacheOK(entries', done), FrameInv(entries', body, done, f)
      PROVE  Inv'
  BY <1>1, <1>6, Same, GoStep
<1>7. CASE Mark(t)
  <2> DEFINE g == [entries[i] EXCEPT !.loading = TRUE]
             f == [Top(t) EXCEPT !.pc = IF Entry(t).parsed = None THEN "open" ELSE "run"]
  <2>1. /\ Go(t, f) /\ entries' = [entries EXCEPT ![i] = g] /\ Top(t).pc = "mark"
        /\ UNCHANGED <<body, stranded, lexer, outcome, done>>
    BY <1>7 DEF Mark, At
  <2>2. g \in R /\ g.name = entries[i].name /\ g.loaded = entries[i].loaded
        /\ g.parsed = entries[i].parsed
    BY <1>4
  <2> HIDE DEF g
  <2>3. /\ entries' \in Entries /\ Grows(entries, entries') /\ CacheOK(entries', done)
        /\ Len(entries') = Len(entries) /\ entries'[i] = g
    BY <1>4, <1>5, <2>1, <2>2
  <2>4. /\ f \in Frame /\ f.name = Top(t).name /\ f.entry = i /\ f.at = Top(t).at
        /\ f.saved = Top(t).saved
        /\ f.pc = "open" \/ (f.pc = "run" /\ entries[i].parsed # None)
    BY <1>2 DEF Frame, Points, Entry
  <2>5. f.at = 1 /\ Before(body, done, f.name, f.at)
    <3>1. f.at = 1
      BY <1>2, <2>1, <2>4 DEF FrameInv
    <3>2. \A k \in DOMAIN body[f.name] : k \in Nat \ {0}
      BY <1>2, <2>4, Programs DEF Frame
    <3>3. QED BY <3>1, <3>2 DEF Before
  <2> HIDE DEF f
  <2>6. FrameInv(entries', body, done, f)
    BY <1>2, <1>3, <1>4, <2>1, <2>2, <2>3, <2>4, <2>5 DEF FrameInv
  <2>7. QED BY <1>6, <2>1, <2>3, <2>4, <2>6
<1>8. CASE Scan(t)
  <2> DEFINE g == [entries[i] EXCEPT !.parsed = lexer]
             f == [Top(t) EXCEPT !.pc = "run"]
  <2>1. /\ Go(t, f) /\ entries' = [entries EXCEPT ![i] = g] /\ Top(t).pc = "scan"
        /\ UNCHANGED <<body, stranded, lexer, outcome, done>> /\ At(t, "scan")
    BY <1>8 DEF Scan, At
  <2>2. lexer = Top(t).name /\ lexer \in Files \cup {None}
    BY <2>1, Same DEF Inv, OwnSource
  <2>3. g \in R /\ g.name = entries[i].name /\ g.loaded = entries[i].loaded
        /\ g.parsed = entries[i].name
    BY <1>3, <1>4, <2>2
  <2> HIDE DEF g
  <2>4. /\ entries' \in Entries /\ Grows(entries, entries') /\ CacheOK(entries', done)
        /\ Len(entries') = Len(entries) /\ entries'[i] = g
    BY <1>4, <1>5, <2>1, <2>3
  <2>5. /\ f \in Frame /\ f.name = Top(t).name /\ f.entry = i /\ f.at = Top(t).at
        /\ f.saved = Top(t).saved /\ f.pc = "run"
    BY <1>2 DEF Frame, Points
  <2>6. f.at = 1 /\ Before(body, done, f.name, f.at)
    <3>1. f.at = 1
      BY <1>2, <2>1, <2>5 DEF FrameInv
    <3>2. \A k \in DOMAIN body[f.name] : k \in Nat \ {0}
      BY <1>2, <2>5, Programs DEF Frame
    <3>3. QED BY <3>1, <3>2 DEF Before
  <2> HIDE DEF f
  <2>7. FrameInv(entries', body, done, f)
    BY <1>2, <1>3, <2>1, <2>3, <2>4, <2>5, <2>6 DEF FrameInv
  <2>8. QED BY <1>6, <2>1, <2>4, <2>5, <2>7
<1>9. CASE Unmark(t)
  <2> DEFINE g == [entries[i] EXCEPT !.loading = FALSE]
             f == [Top(t) EXCEPT !.pc = "leave"]
  <2>1. /\ Go(t, f) /\ entries' = [entries EXCEPT ![i] = g] /\ Top(t).pc = "unmark"
        /\ UNCHANGED <<body, stranded, lexer, outcome, done>>
    BY <1>9 DEF Unmark, At
  <2>2. g \in R /\ g.name = entries[i].name /\ g.loaded = entries[i].loaded
        /\ g.parsed = entries[i].parsed
    BY <1>4
  <2> HIDE DEF g
  <2>3. /\ entries' \in Entries /\ Grows(entries, entries') /\ CacheOK(entries', done)
        /\ Len(entries') = Len(entries) /\ entries'[i] = g
    BY <1>4, <1>5, <2>1, <2>2
  <2>4. /\ f \in Frame /\ f.name = Top(t).name /\ f.entry = i /\ f.at = Top(t).at
        /\ f.saved = Top(t).saved /\ f.ok = Top(t).ok /\ f.pc = "leave"
    BY <1>2 DEF Frame, Points
  <2> HIDE DEF f
  <2>5. FrameInv(entries', body, done, f)
    BY <1>2, <1>3, <2>1, <2>2, <2>3, <2>4 DEF FrameInv
  <2>6. QED BY <1>6, <2>1, <2>3, <2>4, <2>5
<1>10. QED BY <1>7, <1>8, <1>9

\* The steps that end an import.
LEMMA EndStep ==
    ASSUME Inv, OneImporter, NEW t \in Thread,
           NotFound(t) \/ AlreadyLoaded(t) \/ Circular(t) \/ Unreadable(t)
    PROVE  Inv'
<1>1. Depth(t) > 0
  BY DEF NotFound, AlreadyLoaded, Circular, Unreadable, At
<1>2. /\ Top(t) \in Frame /\ FrameInv(entries, body, done, Top(t)) /\ body \in Bodies
      /\ Top(t).entry > 0 => Top(t).entry \in 1 .. Len(entries)
  BY <1>1, TopFrame
<1>3. InOrder
  BY DEF Inv
<1>4. ASSUME NEW ok \in BOOLEAN, Return(t, ok), ok => Held(done, Top(t).name),
             UNCHANGED <<body, stranded, entries, lexer, done>>
      PROVE  Inv'
  <2>1. InOrder'
    BY <1>3, <1>4 DEF InOrder
  <2>2. QED BY <1>1, <1>4, <2>1, Same, ReturnStep
<1>5. CASE NotFound(t)
  BY <1>4, <1>5 DEF NotFound
<1>6. CASE AlreadyLoaded(t)
  <2>1. Top(t).pc = "loaded?" /\ entries[Top(t).entry].loaded
    BY <1>6 DEF AlreadyLoaded, At, Entry
  <2>2. Top(t).entry \in 1 .. Len(entries) /\ entries[Top(t).entry].name = Top(t).name
    BY <1>2, <2>1 DEF FrameInv, Frame
  <2>3. Held(done, Top(t).name)
    BY <2>1, <2>2, Same DEF CacheOK
  <2>4. QED BY <1>4, <1>6, <2>3 DEF AlreadyLoaded
<1>7. CASE Circular(t)
  BY <1>4, <1>7 DEF Circular
<1>8. CASE Unreadable(t)
  <2> DEFINE i == Top(t).entry
             g == [entries[i] EXCEPT !.loading = FALSE]
  <2>1. /\ Return(t, FALSE) /\ entries' = [entries EXCEPT ![i] = g] /\ Top(t).pc = "open"
        /\ UNCHANGED <<body, stranded, lexer, done>>
    BY <1>8 DEF Unreadable, At
  <2>2. i \in 1 .. Len(entries)
    BY <1>2, <2>1 DEF FrameInv, Frame
  <2>3. /\ entries[i].parsed \in {None, entries[i].name}
        /\ entries[i].loaded => Held(done, entries[i].name)
    BY <2>2, Same DEF CacheOK
  <2>4. /\ g \in [name : Files, loaded : BOOLEAN, loading : BOOLEAN, parsed : Files \cup {None}]
        /\ g.name = entries[i].name /\ g.loaded = entries[i].loaded
        /\ g.parsed = entries[i].parsed
    BY <2>2, Same, EntryTypes
  <2> HIDE DEF g
  <2>5. entries' \in Entries /\ Grows(entries, entries') /\ CacheOK(entries', done)
    BY <2>1, <2>2, <2>3, <2>4, Same, Changed
  <2>6. InOrder'
    BY <1>3, <2>1 DEF InOrder
  <2>7. QED BY <1>1, <2>1, <2>5, <2>6, Same, ReturnStep
<1>9. QED BY <1>5, <1>6, <1>7, <1>8

\* A module that ran to its end is loaded, after all it imports.
LEMMA LeaveStep ==
    ASSUME Inv, OneImporter, NEW t \in Thread, Leave(t)
    PROVE  Inv'
<1> DEFINE i == Top(t).entry
           m == Top(t).name
           ok == Top(t).ok
           g == [entries[i] EXCEPT !.loaded = @ \/ ok]
<1>1. /\ Depth(t) > 0 /\ Top(t).pc = "leave" /\ Return(t, ok)
      /\ entries' = [entries EXCEPT ![i] = g] /\ lexer' = Top(t).saved
      /\ done' = (IF ok THEN Append(done, m) ELSE done)
      /\ UNCHANGED <<body, stranded>>
  BY DEF Leave, At
<1>2. /\ Top(t) \in Frame /\ FrameInv(entries, body, done, Top(t)) /\ body \in Bodies
      /\ i > 0 => i \in 1 .. Len(entries)
  BY <1>1, TopFrame
<1>3. i \in 1 .. Len(entries) /\ entries[i].name = m /\ ok \in BOOLEAN /\ m \in Module
  BY <1>1, <1>2 DEF FrameInv, Frame
<1>4. /\ m \in Files /\ entries[i].loaded \in BOOLEAN
      /\ entries[i].parsed \in {None, entries[i].name}
      /\ entries[i].loaded => Held(done, m)
  BY <1>3, Same, EntryTypes DEF CacheOK
<1>5. lexer' \in Files \cup {None} /\ (ok => Before(body, done, m, Len(body[m]) + 1))
  BY <1>1, <1>2 DEF FrameInv
<1>6. InOrder /\ done \in Seq(Files) /\ Len(done) \in Nat
  BY Same DEF Inv
<1>7. done' \in Seq(Files) /\ Adds(done, done') /\ (ok => Held(done', m)) /\ InOrder'
  <2>1. CASE ~ ok
    BY <1>1, <1>6, <2>1, Same DEF InOrder
  <2>2. CASE ok
    <3> DEFINE n == Len(done)
    <3>1. /\ done' \in Seq(Files) /\ Len(done') = n + 1 /\ done'[n + 1] = m
          /\ \A j \in 1 .. n : done'[j] = done[j]
      BY <1>1, <1>4, <1>6, <2>2
    <3>2. Adds(done, done')
      BY <1>6, <3>1 DEF Adds, Held
    <3>3. Held(done', m)
      BY <1>6, <3>1 DEF Held
    <3>4. InOrder'
      <4> SUFFICES \A j \in 1 .. Len(done') : \A s \in DOMAIN body[done'[j]] :
                       \/ body[done'[j]][s].caught
                       \/ \E k \in 1 .. j - 1 : done'[k] = body[done'[j]][s].name
        <5>1. body' = body
          BY <1>1
        <5>2. QED BY <5>1 DEF InOrder
      <4> TAKE j \in 1 .. Len(done')
      <4> TAKE s \in DOMAIN body[done'[j]]
      <4> SUFFICES ASSUME ~ body[done'[j]][s].caught
                   PROVE  \E k \in 1 .. j - 1 : done'[k] = body[done'[j]][s].name
        OBVIOUS
      <4>1. CASE j = n + 1
        <5>1. done'[j] = m /\ s \in DOMAIN body[m] /\ s < Len(body[m]) + 1
          BY <1>2, <1>3, <3>1, <4>1, Programs
        <5>2. Held(done, body[m][s].name)
          BY <1>5, <2>2, <5>1 DEF Before
        <5>3. PICK k \in 1 .. n : done[k] = body[m][s].name
          BY <5>2 DEF Held
        <5>4. k \in 1 .. j - 1 /\ done'[k] = done[k]
          BY <1>6, <3>1, <4>1
        <5>5. QED BY <5>1, <5>3, <5>4
      <4>2. CASE j # n + 1
        <5>1. j \in 1 .. n /\ done'[j] = done[j]
          BY <1>6, <3>1, <4>2
        <5>2. PICK k \in 1 .. j - 1 : done[k] = body[done[j]][s].name
          BY <1>6, <5>1 DEF InOrder
        <5>3. k \in 1 .. n
          BY <1>6, <5>1
        <5>4. QED BY <3>1, <5>1, <5>2, <5>3
      <4>3. QED BY <4>1, <4>2
    <3>5. QED BY <3>1, <3>2, <3>3, <3>4
  <2>3. QED BY <1>3, <2>1, <2>2
<1>8. /\ g \in [name : Files, loaded : BOOLEAN, loading : BOOLEAN, parsed : Files \cup {None}]
      /\ g.name = entries[i].name /\ g.loaded = (entries[i].loaded \/ ok)
      /\ g.parsed = entries[i].parsed
  BY <1>3, Same, EntryTypes
<1> HIDE DEF g
<1>9. g.loaded => Held(done', m)
  BY <1>3, <1>4, <1>7, <1>8 DEF Adds
<1>10. entries' \in Entries /\ Grows(entries, entries') /\ CacheOK(entries', done')
  BY <1>1, <1>3, <1>4, <1>7, <1>8, <1>9, Same, Changed
<1>11. QED BY <1>1, <1>3, <1>5, <1>7, <1>10, Same, ReturnStep

\* An import begins: in the program, or in the module on top of the stack.
LEMMA BeginStep ==
    ASSUME Inv, OneImporter, NEW t \in Thread, NEW m \in Module,
           stack[t] # <<>> => Waits(body, stack[t][Len(stack[t])], NewFrame(m)),
           stack' = [stack EXCEPT ![t] = Append(@, NewFrame(m))],
           UNCHANGED <<body, stranded, entries, lexer, outcome, done>>
    PROVE  Inv'
<1> DEFINE r == Append(stack[t], NewFrame(m))
<1>1. /\ stack[t] \in Seq(Frame) /\ StackInv(entries, body, done, stack[t]) /\ body \in Bodies
      /\ entries \in Entries
  BY DEF Inv, VarTypes, Stacks
<1>2. r \in Seq(Frame) /\ StackInv(entries, body, done, r)
  BY <1>1, Pushed
<1>3. Len(r) \in Nat /\ r[Len(r)].pc = "find"
  BY <1>1, <1>2 DEF NewFrame
<1> HIDE DEF r
<1>4. stack' = [stack EXCEPT ![t] = r] /\ stack'[t] = r /\ \A u \in Thread : u = t
  BY DEF r, Inv, VarTypes, OneImporter
<1>5. VarTypes' /\ Stacks'
  BY <1>2, <1>4 DEF Inv, VarTypes, Stacks
<1>6. OwnSource'
  BY <1>3, <1>4 DEF Inv, OwnSource, At, Top, Depth
<1>7. QED BY <1>5, <1>6 DEF Inv, LoadedDone, InOrder

LEMMA ImportStep ==
    ASSUME Inv, OneImporter, NEW t \in Thread, NEW m \in Module, Import(t, m)
    PROVE  Inv'
<1>1. stack[t] = <<>> /\ stack' = [stack EXCEPT ![t] = <<NewFrame(m)>>]
      /\ UNCHANGED <<body, stranded, entries, lexer, outcome, done>>
  BY DEF Import
<1>2. <<NewFrame(m)>> = Append(stack[t], NewFrame(m))
  BY <1>1
<1>3. QED BY <1>1, <1>2, BeginStep

LEMMA RunImportStep ==
    ASSUME Inv, OneImporter, NEW t \in Thread, RunImport(t)
    PROVE  Inv'
<1> DEFINE f == Top(t)
           m == Program(f)[f.at].name
<1>1. /\ Depth(t) > 0 /\ f.pc = "run" /\ f.at <= Len(Program(f))
      /\ stack' = [stack EXCEPT ![t] = Append(@, NewFrame(m))]
      /\ UNCHANGED <<body, stranded, entries, lexer, outcome, done>>
  BY DEF RunImport, At
<1>2. f \in Frame /\ FrameInv(entries, body, done, f) /\ body \in Bodies
  BY <1>1, TopFrame
<1>3. Program(f) = body[f.name] /\ f.name \in Module /\ f.at \in Nat \ {0}
  BY <1>1, <1>2 DEF FrameInv, Program, Frame
<1>4. f.at \in DOMAIN body[f.name] /\ m \in Module
  BY <1>1, <1>2, <1>3, Programs
<1>5. f = stack[t][Len(stack[t])] /\ Waits(body, f, NewFrame(m))
  BY <1>1, <1>3, <1>4 DEF Top, Depth, Waits, NewFrame
<1>6. QED BY <1>1, <1>4, <1>5, BeginStep

\* The line of the REPL is dropped with all imports under way, every one of which is between
\* setting and clearing its mark.
LEMMA Dropped ==
    ASSUME Inv, NEW t \in Thread, ErrorExit(t)
    PROVE  /\ Depth(t) \in Nat /\ Depth(t) > 0 /\ stack[t] \in Seq(Frame)
           /\ \A k \in 1 .. Depth(t) : /\ stack[t][k].pc \in {"scan", "run"}
                                       /\ stack[t][k].entry \in 1 .. Len(entries)
                                       /\ stack[t][k].entry \in Nat
                                       /\ entries[stack[t][k].entry].name = stack[t][k].name
           /\ Top(t).name \in Fatal /\ stack[t][1].name \in Module
           /\ stack' = [stack EXCEPT ![t] = <<>>] /\ stack'[t] = <<>>
           /\ stranded' \subseteq 1 .. Len(entries)
<1>1. Depth(t) > 0 /\ Top(t).pc \in {"scan", "run"}
  BY DEF ErrorExit, At
<1>2. stack[t] \in Seq(Frame) /\ StackInv(entries, body, done, stack[t]) /\ Depth(t) \in Nat \ {0}
  BY <1>1, TopFrame
<1>3. Depth(t) = Len(stack[t]) /\ \A k \in 1 .. Depth(t) : k = Depth(t) \/ k \in 1 .. Depth(t) - 1
  BY <1>2 DEF Depth
<1>4. ASSUME NEW k \in 1 .. Depth(t)
      PROVE  /\ stack[t][k].pc \in {"scan", "run"} /\ stack[t][k].entry \in 1 .. Len(entries)
             /\ stack[t][k].entry \in Nat /\ entries[stack[t][k].entry].name = stack[t][k].name
             /\ stack[t][k].name \in Module
  <2>1. stack[t][k] \in Frame /\ FrameInv(entries, body, done, stack[t][k])
    BY <1>2, <1>3 DEF StackInv
  <2>2. stack[t][k].pc \in {"scan", "run"}
    <3>1. CASE k = Depth(t)
      BY <1>1, <3>1 DEF Top
    <3>2. CASE k \in 1 .. Depth(t) - 1
      BY <1>2, <1>3, <3>2 DEF StackInv, Waits
    <3>3. QED BY <1>3, <3>1, <3>2
  <2>3. stack[t][k].entry \in Nat /\ stack[t][k].entry # 0 /\ stack[t][k].entry \in 0 .. Len(entries)
    BY <2>1, <2>2 DEF FrameInv, Frame
  <2>4. stack[t][k].entry > 0 /\ stack[t][k].entry \in 1 .. Len(entries)
    BY <2>3
  <2>5. QED BY <2>1, <2>2, <2>3, <2>4 DEF FrameInv, Frame
<1>5. Top(t).name \in Fatal
  BY DEF ErrorExit, Inv, OwnSource
<1>6. 1 \in 1 .. Depth(t)
  BY <1>2
<1>7. stack' = [stack EXCEPT ![t] = <<>>] /\ stack'[t] = <<>>
  BY DEF ErrorExit, Inv, VarTypes
<1>8. stranded' \subseteq 1 .. Len(entries)
  BY <1>4 DEF ErrorExit, Inv, VarTypes
<1>9. QED BY <1>1, <1>2, <1>4, <1>5, <1>6, <1>7, <1>8

LEMMA ErrorStep ==
    ASSUME Inv, OneImporter, NEW t \in Thread, ErrorExit(t)
    PROVE  Inv'
<1>1. /\ stack' = [stack EXCEPT ![t] = <<>>] /\ stack'[t] = <<>>
      /\ stranded' \subseteq 1 .. Len(entries) /\ stack[t][1].name \in Module
  BY Dropped
<1>2. /\ UNCHANGED <<body, entries, done>> /\ lexer' = None
      /\ outcome' = [outcome EXCEPT ![t] = [name |-> stack[t][1].name, ok |-> FALSE]]
  BY DEF ErrorExit
<1>3. \A u \in Thread : u = t
  BY DEF OneImporter
<1>4. VarTypes'
  BY <1>1, <1>2 DEF Inv, VarTypes
<1>5. Stacks' /\ OwnSource'
  BY <1>1, <1>2, <1>3 DEF Inv, Stacks, StackInv, OwnSource, At, Depth
<1>6. QED BY <1>2, <1>4, <1>5 DEF Inv, LoadedDone, InOrder

-----------------------------------------------------------------------------
(* The theorems.                                                            *)

LEMMA InitInv == Init => Inv
<1> SUFFICES ASSUME Init PROVE Inv
  OBVIOUS
<1> USE DEF Init
<1>1. VarTypes
  <2>1. entries \in Entries
    BY DEF Entries
  <2>2. stack \in [Thread -> Seq(Frame)]
    OBVIOUS
  <2>3. outcome \in [Thread -> [name : Module \cup {None}, ok : BOOLEAN]]
    OBVIOUS
  <2>4. QED BY <2>1, <2>2, <2>3 DEF VarTypes
<1>2. Stacks /\ LoadedDone /\ InOrder
  BY DEF Stacks, StackInv, LoadedDone, InOrder
<1>3. OwnSource
  BY DEF OwnSource, At, Depth
<1>4. QED BY <1>1, <1>2, <1>3 DEF Inv

LEMMA NextInv == OneImporter /\ Inv /\ [Next]_vars => Inv'
<1> SUFFICES ASSUME OneImporter, Inv, [Next]_vars PROVE Inv'
  OBVIOUS
<1>1. CASE UNCHANGED vars
  BY <1>1 DEF vars, Inv, VarTypes, Stacks, OwnSource, At, Top, Depth, LoadedDone, InOrder
<1>2. CASE Next
  <2>1. PICK t \in Thread : (\E m \in Module : Import(t, m)) \/ Load(t)
    BY <1>2 DEF Next
  <2>2. CASE \E m \in Module : Import(t, m)
    BY <2>2, ImportStep
  <2>3. CASE \/ Find(t) \/ Resolve(t) \/ NotLoaded(t) \/ NotLoading(t) \/ Open(t)
             \/ Throw(t) \/ EndOfModule(t)
    BY <2>3, StayStep
  <2>4. CASE Insert(t)
    BY <2>4, InsertStep
  <2>5. CASE Mark(t) \/ Scan(t) \/ Unmark(t)
    BY <2>5, WriteStep
  <2>6. CASE NotFound(t) \/ AlreadyLoaded(t) \/ Circular(t) \/ Unreadable(t)
    BY <2>6, EndStep
  <2>7. CASE Leave(t)
    BY <2>7, LeaveStep
  <2>8. CASE RunImport(t)
    BY <2>8, RunImportStep
  <2>9. CASE ErrorExit(t)
    BY <2>9, ErrorStep
  <2>10. QED BY <2>1, <2>2, <2>3, <2>4, <2>5, <2>6, <2>7, <2>8, <2>9 DEF Load
<1>3. QED BY <1>1, <1>2

\* Where one thread imports, whatever the program and whatever throws: the cache, the
\* frames of load_module and execute_module, and the lexer keep their types and agree.
THEOREM TypeCorrect == OneImporter => (Spec => []TypeOK)
<1> SUFFICES ASSUME OneImporter PROVE Spec => []TypeOK
  OBVIOUS
<1>1. Inv /\ [Next]_vars => Inv'
  BY NextInv
<1>2. QED BY InitInv, InvTypes, <1>1, PTL DEF Spec

\* Where one thread imports, for every program: execute_module sets is_loaded for a module
\* only after it did for every module that module imports without catching the failure.
THEOREM LoadsInOrder == OneImporter => (Spec => []ImportsFirst)
<1> SUFFICES ASSUME OneImporter PROVE Spec => []ImportsFirst
  OBVIOUS
<1>1. Inv /\ [Next]_vars => Inv'
  BY NextInv
<1>2. QED BY InitInv, InvOrder, <1>1, PTL DEF Spec

-----------------------------------------------------------------------------
(* What an import leaves behind: marks that match the imports under way,     *)
(* modules that ran at most once, the lexer where it was, and a cause for    *)
(* every failure.                                                            *)

\* The points at which is_loading is set for a frame's entry, those at which no other
\* frame has the same entry, those after the test of is_loaded, those before init_lexer.
Marked  == {"open", "scan", "run", "unmark"}
Active  == Marked \cup {"mark", "leave"}
Started == Active \cup {"loading?"}
Early   == {"find", "insert", "loaded?", "loading?", "mark", "open"}

-----------------------------------------------------------------------------
(* The invariant: e is the cache, d what is done, x the lexer, s a stack, z  *)
(* the entries that were stranded.                                           *)

Absent(e, m) == \A i \in 1 .. Len(e) : e[i].name # m

MarksMatch(e, z, s) == \A i \in 1 .. Len(e) :
    e[i].loading <=> i \in z \/ \E k \in 1 .. Len(s) : s[k].entry = i /\ s[k].pc \in Marked

Apart(z, s) == \A l \in 1 .. Len(s) : s[l].pc \in Active =>
    /\ s[l].entry \notin z
    /\ \A k \in 1 .. Len(s) : k < l => s[k].entry # s[l].entry

NotYet(e, s) == \A k \in 1 .. Len(s) : s[k].pc \in Started => ~ e[s[k].entry].loaded

Inserting(e, s) == \A k \in 1 .. Len(s) : s[k].pc = "insert" => Absent(e, s[k].name)

\* The lexer as the import statement of the program finds it and leaves it.
LexerOf(x, s) ==
    /\ Len(s) = 0 => x = None
    /\ Len(s) > 0 => /\ s[1].pc \in Started => s[1].saved = None
                     /\ s[1].pc \in Early => x = None

StackOK(e, z, x, s) ==
    MarksMatch(e, z, s) /\ Apart(z, s) /\ NotYet(e, s) /\ Inserting(e, s) /\ LexerOf(x, s)

OneEntry(e) == \A i, j \in 1 .. Len(e) : e[i].name = e[j].name => i = j

LoadedOf(e, d) == \A j \in 1 .. Len(d) :
    \E i \in 1 .. Len(e) : e[i].name = d[j] /\ e[i].loaded

Once(d) == \A i, j \in 1 .. Len(d) : d[i] = d[j] => i = j

CacheInv ==
    /\ OneEntry(entries) /\ LoadedOf(entries, done) /\ Once(done)
    /\ \A t \in Thread : StackOK(entries, stranded, lexer, stack[t])
    /\ Thread = {} => Len(entries) = 0

\* The entries that are marked whatever the import on top does.
Others(t) == stranded \cup {stack[t][k].entry : k \in 1 .. Depth(t) - 1}

-----------------------------------------------------------------------------
(* The three ways a step changes the stack of the importing thread.          *)

\* All frames but the last are at an import statement, with an entry in the cache.
LEMMA Below ==
    ASSUME Inv, NEW t \in Thread
    PROVE  /\ stack[t] \in Seq(Frame) /\ Depth(t) \in Nat /\ Depth(t) = Len(stack[t])
           /\ \A k \in 1 .. Depth(t) : /\ stack[t][k] \in Frame
                                       /\ FrameInv(entries, body, done, stack[t][k])
           /\ \A k \in 1 .. Depth(t) - 1 : /\ stack[t][k].pc = "run"
                                           /\ stack[t][k].entry \in 1 .. Len(entries)
                                           /\ stack[t][k].entry \in Nat
<1>1. stack[t] \in Seq(Frame) /\ StackInv(entries, body, done, stack[t])
  BY DEF Inv, VarTypes, Stacks
<1>2. /\ Depth(t) \in Nat /\ Depth(t) = Len(stack[t])
      /\ \A k \in 1 .. Depth(t) : /\ stack[t][k] \in Frame
                                  /\ FrameInv(entries, body, done, stack[t][k])
  BY <1>1 DEF Depth, StackInv
<1>3. ASSUME NEW k \in 1 .. Depth(t) - 1
      PROVE  /\ stack[t][k].pc = "run" /\ stack[t][k].entry \in 1 .. Len(entries)
             /\ stack[t][k].entry \in Nat
  <2>1. k \in 1 .. Depth(t)
    BY <1>2
  <2>2. stack[t][k].pc = "run"
    BY <1>1, <1>2 DEF StackInv, Waits
  <2>3. stack[t][k].entry \in Nat /\ stack[t][k].entry # 0
        /\ stack[t][k].entry \in 0 .. Len(entries)
    BY <1>2, <2>1, <2>2 DEF FrameInv, Frame
  <2>4. QED BY <2>2, <2>3
<1>4. QED BY <1>1, <1>2, <1>3

\* The import goes on.
LEMMA GoShape ==
    ASSUME Inv, NEW t \in Thread, Depth(t) > 0, NEW f \in Frame, Go(t, f)
    PROVE  /\ stack'[t] \in Seq(Frame) /\ Len(stack'[t]) = Depth(t)
           /\ stack'[t][Depth(t)] = f
           /\ \A k \in 1 .. Depth(t) - 1 : stack'[t][k] = stack[t][k]
<1>1. stack[t] \in Seq(Frame) /\ Depth(t) = Len(stack[t]) /\ Depth(t) \in Nat
  BY Below
<1>2. stack'[t] = [stack[t] EXCEPT ![Depth(t)] = f]
  BY DEF Go, Inv, VarTypes
<1>3. QED BY <1>1, <1>2

\* The import is over: the frame below, if there is one, has taken notice.
LEMMA ReturnShape ==
    ASSUME Inv, NEW t \in Thread, Depth(t) > 0, NEW ok \in BOOLEAN, Return(t, ok)
    PROVE  /\ stack'[t] \in Seq(Frame) /\ Len(stack'[t]) = Depth(t) - 1
           /\ \A k \in 1 .. Depth(t) - 1 :
                /\ stack'[t][k].name = stack[t][k].name
                /\ stack'[t][k].entry = stack[t][k].entry
                /\ stack'[t][k].saved = stack[t][k].saved
                /\ stack'[t][k].pc \in {"run", "unmark"}
                /\ k < Depth(t) - 1 => stack'[t][k] = stack[t][k]
                /\ ~ stack'[t][k].ok => ~ stack[t][k].ok \/ (~ ok /\ k = Depth(t) - 1)
           /\ Depth(t) > 1 => outcome' = outcome
           /\ Depth(t) = 1 => outcome' = [outcome EXCEPT ![t] = [name |-> Top(t).name, ok |-> ok]]
<1>0. PICK n \in Nat : Depth(t) = n + 1
  <2>1. Depth(t) - 1 \in Nat /\ Depth(t) = Depth(t) - 1 + 1
    BY Below
  <2>2. QED BY <2>1
<1> DEFINE q == SubSeq(stack[t], 1, n)
<1>1. /\ stack[t] \in Seq(Frame) /\ Depth(t) = Len(stack[t]) /\ n = Depth(t) - 1
      /\ \A k \in 1 .. n : stack[t][k] \in Frame /\ stack[t][k].pc = "run"
  <2>1. n = Depth(t) - 1 /\ \A k \in 1 .. n : k \in 1 .. Depth(t)
    BY <1>0
  <2>2. QED BY <2>1, Below
<1>2. CASE n = 0
  <2>1. /\ stack' = [stack EXCEPT ![t] = <<>>]
        /\ outcome' = [outcome EXCEPT ![t] = [name |-> Top(t).name, ok |-> ok]]
    BY <1>1, <1>2 DEF Return
  <2>2. stack'[t] = <<>>
    BY <2>1 DEF Inv, VarTypes
  <2>3. stack'[t] \in Seq(Frame) /\ Len(stack'[t]) = 0
    BY <2>2
  <2>4. Depth(t) = 1 /\ Depth(t) - 1 = 0 /\ 1 .. Depth(t) - 1 = {}
    BY <1>0, <1>2
  <2>5. QED BY <2>1, <2>3, <2>4
<1>3. CASE n # 0
  <2>1. n \in 1 .. n /\ Depth(t) > 1
    BY <1>0, <1>3
  <2>2. q \in Seq(Frame) /\ Len(q) = n /\ \A k \in 1 .. n : q[k] = stack[t][k]
    <3>1. 1 \in Int /\ n \in Int /\ \A i \in 1 .. n : stack[t][i] \in Frame
      BY <1>1
    <3>2. /\ q \in Seq(Frame)
          /\ Len(q) = IF 1 <= n THEN n - 1 + 1 ELSE 0
          /\ \A k \in 1 .. n - 1 + 1 : q[k] = stack[t][1 + k - 1]
      BY <3>1, SubSeqProperties
    <3> HIDE DEF q
    <3>3. n - 1 + 1 = n /\ 1 <= n /\ \A k \in 1 .. n : 1 + k - 1 = k
      BY <1>3
    <3>4. QED BY <3>2, <3>3
  <2>3. stack' = [stack EXCEPT ![t] = [q EXCEPT ![n] = Resume(q[n], ok)]] /\ outcome' = outcome
    BY <1>1, <1>3 DEF Return
  <2> DEFINE g == stack[t][n]
             h == Resume(g, ok)
  <2>4. /\ h \in Frame /\ h.name = g.name /\ h.entry = g.entry /\ h.saved = g.saved
        /\ h.pc \in {"run", "unmark"} /\ (~ h.ok => ~ g.ok \/ ~ ok)
    <3>1. g \in Frame /\ g.pc = "run"
      BY <1>1, <2>1
    <3>2. h = [g EXCEPT !.at = g.at + 1] \/ (~ ok /\ h = [g EXCEPT !.pc = "unmark", !.ok = FALSE])
      BY <3>1 DEF Resume
    <3>3. ASSUME NEW x \in Frame, x.pc = "run", NEW y,
                 y = [x EXCEPT !.at = x.at + 1] \/ (~ ok /\ y = [x EXCEPT !.pc = "unmark", !.ok = FALSE])
          PROVE  /\ y \in Frame /\ y.name = x.name /\ y.entry = x.entry /\ y.saved = x.saved
                 /\ y.pc \in {"run", "unmark"} /\ (~ y.ok => ~ x.ok \/ ~ ok)
      <4>1. CASE y = [x EXCEPT !.at = x.at + 1]
        BY <3>3, <4>1 DEF Frame
      <4>2. CASE ~ ok /\ y = [x EXCEPT !.pc = "unmark", !.ok = FALSE]
        BY <3>3, <4>2 DEF Frame, Points
      <4>3. QED BY <3>3, <4>1, <4>2
    <3> HIDE DEF g, h
    <3>4. QED BY <3>1, <3>2, <3>3
  <2> HIDE DEF q, h
  <2>5. stack'[t] = [q EXCEPT ![n] = h]
    BY <2>1, <2>2, <2>3 DEF h, Inv, VarTypes
  <2>6. /\ stack'[t] \in Seq(Frame) /\ Len(stack'[t]) = n /\ stack'[t][n] = h
        /\ \A k \in 1 .. n : k = n \/ stack'[t][k] = stack[t][k]
    BY <2>1, <2>2, <2>4, <2>5
  <2>7. QED BY <1>0, <1>1, <2>1, <2>3, <2>4, <2>6
<1>4. QED BY <1>2, <1>3

\* An import begins.
LEMMA PushShape ==
    ASSUME Inv, NEW t \in Thread, NEW f \in Frame,
           stack' = [stack EXCEPT ![t] = Append(@, f)]
    PROVE  /\ stack'[t] \in Seq(Frame) /\ Len(stack'[t]) = Depth(t) + 1
           /\ stack'[t][Depth(t) + 1] = f
           /\ \A k \in 1 .. Depth(t) : stack'[t][k] = stack[t][k]
<1>1. stack[t] \in Seq(Frame) /\ Depth(t) = Len(stack[t]) /\ Depth(t) \in Nat
  BY Below
<1>2. stack'[t] = Append(stack[t], f)
  BY DEF Inv, VarTypes
<1>3. QED BY <1>1, <1>2

-----------------------------------------------------------------------------
(* What a step must not disturb.                                             *)

\* The frames of a stack of depth n: the top, and those below.
LEMMA Indices ==
    ASSUME NEW n \in Nat, n > 0
    PROVE  /\ n \in 1 .. n /\ \A k \in 1 .. n - 1 : k \in 1 .. n
           /\ \A k \in 1 .. n : k = n \/ k \in 1 .. n - 1
           /\ \A k, l \in 1 .. n : k < l => k \in 1 .. n - 1
           /\ n = 1 \/ 1 \in 1 .. n - 1
  OBVIOUS

\* An entry is marked for the import on top or for one below, all of which run.
LEMMA MarkedFor ==
    ASSUME Inv, CacheInv, NEW t \in Thread, Depth(t) > 0
    PROVE  \A i \in 1 .. Len(entries) :
               entries[i].loading <=> \/ Top(t).entry = i /\ Top(t).pc \in Marked
                                      \/ i \in Others(t)
<1>1. /\ Depth(t) \in Nat /\ Depth(t) = Len(stack[t]) /\ MarksMatch(entries, stranded, stack[t])
      /\ \A k \in 1 .. Depth(t) - 1 : stack[t][k].pc = "run"
  BY Below DEF CacheInv, StackOK
<1>2. /\ Depth(t) \in 1 .. Depth(t) /\ \A k \in 1 .. Depth(t) - 1 : k \in 1 .. Depth(t)
      /\ \A k \in 1 .. Depth(t) : k = Depth(t) \/ k \in 1 .. Depth(t) - 1
  BY <1>1, Indices
<1>3. "run" \in Marked
  BY DEF Marked
<1>4. ASSUME NEW i \in 1 .. Len(entries)
      PROVE  (i \in stranded \/ \E k \in 1 .. Depth(t) : stack[t][k].entry = i /\ stack[t][k].pc \in Marked)
             <=> \/ Top(t).entry = i /\ Top(t).pc \in Marked
                 \/ i \in Others(t)
  BY <1>1, <1>2, <1>3 DEF Top, Others
<1>5. QED BY <1>1, <1>4 DEF MarksMatch

\* The import goes on, with the marks, the entry and the lexer as its new point asks.
LEMMA GoKeeps ==
    ASSUME Inv, OneImporter, CacheInv, NEW t \in Thread, Depth(t) > 0, NEW f \in Frame, Go(t, f),
           Len(entries) \in Nat, Len(entries') \in Nat, Len(entries) <= Len(entries'),
           \A i \in 1 .. Len(entries) : entries'[i].loaded = entries[i].loaded,
           \A i \in 1 .. Len(entries') :
               entries'[i].loading <=> \/ f.entry = i /\ f.pc \in Marked
                                       \/ i \in Others(t),
           f.pc \in Active => f.entry \notin Others(t),
           f.pc \in Started => ~ entries'[f.entry].loaded,
           f.pc = "insert" => Absent(entries', f.name),
           Depth(t) = 1 => /\ f.pc \in Started => f.saved = None
                           /\ f.pc \in Early => lexer' = None
    PROVE  \A u \in Thread : StackOK(entries', stranded, lexer', stack'[u])
<1> DEFINE r == stack'[t]
<1>1. /\ Len(r) = Depth(t) /\ r[Depth(t)] = f
      /\ \A k \in 1 .. Depth(t) - 1 : r[k] = stack[t][k]
  BY GoShape
<1>2. /\ Depth(t) \in Nat /\ Depth(t) = Len(stack[t]) /\ StackOK(entries, stranded, lexer, stack[t])
      /\ \A k \in 1 .. Depth(t) - 1 : stack[t][k].pc = "run" /\ stack[t][k].entry \in 1 .. Len(entries)
  BY Below DEF CacheInv
<1> HIDE DEF r
<1>3. /\ Depth(t) \in 1 .. Depth(t) /\ \A k \in 1 .. Depth(t) - 1 : k \in 1 .. Depth(t)
      /\ \A k \in 1 .. Depth(t) : k = Depth(t) \/ k \in 1 .. Depth(t) - 1
      /\ \A k, l \in 1 .. Depth(t) : k < l => k \in 1 .. Depth(t) - 1
      /\ Depth(t) = 1 \/ 1 \in 1 .. Depth(t) - 1
  BY <1>2, Indices
<1>4. MarksMatch(entries', stranded, r)
  <2>1. "run" \in Marked
    BY DEF Marked
  <2>2. ASSUME NEW i \in 1 .. Len(entries')
        PROVE  (i \in stranded \/ \E k \in 1 .. Depth(t) : r[k].entry = i /\ r[k].pc \in Marked)
               <=> \/ f.entry = i /\ f.pc \in Marked
                   \/ i \in Others(t)
    <3>1. \A k \in 1 .. Depth(t) - 1 : /\ k \in 1 .. Depth(t) /\ r[k].pc \in Marked
                                       /\ r[k].entry = stack[t][k].entry
      BY <1>1, <1>2, <1>3, <2>1
    <3>2. ASSUME NEW k \in 1 .. Depth(t), r[k].entry = i, r[k].pc \in Marked
          PROVE  \/ f.entry = i /\ f.pc \in Marked
                 \/ \E j \in 1 .. Depth(t) - 1 : stack[t][j].entry = i
      BY <1>1, <1>3, <3>1, <3>2
    <3>3. QED BY <1>1, <1>3, <3>1, <3>2 DEF Others
  <2>3. QED BY <1>1, <2>2 DEF MarksMatch
<1>5. Apart(stranded, r)
  <2>0. Len(r) = Depth(t)
    BY <1>1
  <2>1. ASSUME NEW l \in 1 .. Depth(t), r[l].pc \in Active PROVE r[l].entry \notin stranded
    <3>1. CASE l = Depth(t)
      BY <1>1, <2>1, <3>1 DEF Others
    <3>2. CASE l \in 1 .. Depth(t) - 1
      BY <1>1, <1>2, <2>1, <3>2 DEF StackOK, Apart
    <3>3. QED BY <1>3, <3>1, <3>2
  <2>2. ASSUME NEW k \in 1 .. Depth(t), NEW l \in 1 .. Depth(t), k < l, r[l].pc \in Active
        PROVE  r[k].entry # r[l].entry
    <3>1. k \in 1 .. Depth(t) - 1 /\ r[k] = stack[t][k]
      BY <1>1, <1>3, <2>2
    <3>2. CASE l = Depth(t)
      BY <1>1, <2>2, <3>1, <3>2 DEF Others
    <3>3. CASE l \in 1 .. Depth(t) - 1
      <4>1. r[l] = stack[t][l] /\ k \in 1 .. Len(stack[t]) /\ l \in 1 .. Len(stack[t])
        BY <1>1, <1>2, <1>3, <3>1, <3>3
      <4>2. QED BY <1>2, <2>2, <3>1, <4>1 DEF StackOK, Apart
    <3>4. QED BY <1>3, <3>2, <3>3
  <2>3. QED BY <2>0, <2>1, <2>2 DEF Apart
<1>6. NotYet(entries', r)
  <2> SUFFICES ASSUME NEW k \in 1 .. Depth(t), r[k].pc \in Started
               PROVE  ~ entries'[r[k].entry].loaded
    BY <1>1 DEF NotYet
  <2>1. CASE k = Depth(t)
    BY <1>1, <2>1
  <2>2. CASE k \in 1 .. Depth(t) - 1
    <3>1. /\ k \in 1 .. Len(stack[t]) /\ r[k] = stack[t][k]
          /\ stack[t][k].entry \in 1 .. Len(entries)
      BY <1>1, <1>2, <1>3, <2>2
    <3>2. ~ entries[stack[t][k].entry].loaded
      BY <1>2, <3>1 DEF StackOK, NotYet
    <3>3. QED BY <3>1, <3>2
  <2>3. QED BY <1>3, <2>1, <2>2
<1>7. Inserting(entries', r)
  <2> SUFFICES ASSUME NEW k \in 1 .. Depth(t), r[k].pc = "insert"
               PROVE  Absent(entries', r[k].name)
    BY <1>1 DEF Inserting
  <2>1. CASE k = Depth(t)
    BY <1>1, <2>1
  <2>2. CASE k \in 1 .. Depth(t) - 1
    BY <1>1, <1>2, <2>2
  <2>3. QED BY <1>3, <2>1, <2>2
<1>8. LexerOf(lexer', r)
  <2>1. CASE Depth(t) = 1
    BY <1>1, <2>1 DEF LexerOf
  <2>2. CASE 1 \in 1 .. Depth(t) - 1
    <3>1. r[1] = stack[t][1] /\ r[1].pc = "run" /\ Len(r) > 0 /\ Len(stack[t]) > 0
      BY <1>1, <1>2, <2>2
    <3>2. r[1].saved = None
      BY <1>2, <3>1 DEF StackOK, LexerOf, Started, Active, Marked
    <3>3. QED BY <3>1, <3>2 DEF LexerOf, Early
  <2>3. QED BY <1>3, <2>1, <2>2
<1>9. \A u \in Thread : u = t
  BY DEF OneImporter
<1>10. QED BY <1>4, <1>5, <1>6, <1>7, <1>8, <1>9 DEF StackOK, r

\* The import is over, with nothing marked but the imports below it.
LEMMA ReturnKeeps ==
    ASSUME Inv, OneImporter, CacheInv, NEW t \in Thread, Depth(t) > 0,
           NEW ok \in BOOLEAN, Return(t, ok),
           \A k \in 1 .. Depth(t) - 1 : ~ entries'[stack[t][k].entry].loaded,
           \A i \in 1 .. Len(entries') :
               entries'[i].loading <=> i \in Others(t),
           Depth(t) = 1 => lexer' = None
    PROVE  \A u \in Thread : StackOK(entries', stranded, lexer', stack'[u])
<1> DEFINE r == stack'[t]
<1>1. /\ Len(r) = Depth(t) - 1
      /\ \A k \in 1 .. Depth(t) - 1 : /\ r[k].entry = stack[t][k].entry
                                      /\ r[k].saved = stack[t][k].saved
                                      /\ r[k].pc \in {"run", "unmark"}
  BY ReturnShape
<1>2. /\ Depth(t) \in Nat /\ Depth(t) = Len(stack[t]) /\ StackOK(entries, stranded, lexer, stack[t])
      /\ \A k \in 1 .. Depth(t) - 1 : stack[t][k].pc = "run" /\ k \in 1 .. Len(stack[t])
  BY Below DEF CacheInv
<1> HIDE DEF r
<1>3. MarksMatch(entries', stranded, r)
  <2>1. {"run", "unmark"} \subseteq Marked
    BY DEF Marked
  <2>2. QED BY <1>1, <2>1 DEF MarksMatch, Others
<1>4. Apart(stranded, r)
  <2>1. "run" \in Active
    BY DEF Active, Marked
  <2>2. ASSUME NEW l \in 1 .. Depth(t) - 1
        PROVE  /\ r[l].entry \notin stranded
               /\ \A k \in 1 .. Depth(t) - 1 : k < l => r[k].entry # r[l].entry
    <3>1. r[l].entry = stack[t][l].entry /\ stack[t][l].pc \in Active /\ l \in 1 .. Len(stack[t])
      BY <1>1, <1>2, <2>1, <2>2
    <3>2. ASSUME NEW k \in 1 .. Depth(t) - 1
          PROVE  r[k].entry = stack[t][k].entry /\ k \in 1 .. Len(stack[t])
      BY <1>1, <1>2
    <3>3. Apart(stranded, stack[t])
      BY <1>2 DEF StackOK
    <3>4. QED BY <3>1, <3>2, <3>3 DEF Apart
  <2>3. QED BY <1>1, <2>2 DEF Apart
<1>5. NotYet(entries', r) /\ Inserting(entries', r)
  BY <1>1 DEF NotYet, Inserting
<1>6. LexerOf(lexer', r)
  <2>1. Depth(t) = 1 \/ 1 \in 1 .. Depth(t) - 1
    BY <1>2, Indices
  <2>2. CASE Depth(t) = 1
    BY <1>1, <2>2 DEF LexerOf
  <2>3. CASE 1 \in 1 .. Depth(t) - 1
    <3>1. Len(r) > 0 /\ Len(r) # 0 /\ Len(stack[t]) > 0
      BY <1>1, <1>2, <2>3
    <3>2. r[1].saved = None /\ r[1].pc \in {"run", "unmark"}
      BY <1>1, <1>2, <2>3, <3>1 DEF StackOK, LexerOf, Started, Active, Marked
    <3>3. QED BY <3>1, <3>2 DEF LexerOf, Early
  <2>4. QED BY <2>1, <2>2, <2>3
<1>7. \A u \in Thread : u = t
  BY DEF OneImporter
<1>8. QED BY <1>3, <1>4, <1>5, <1>6, <1>7 DEF StackOK, r

\* An import begins.
LEMMA PushKeeps ==
    ASSUME Inv, OneImporter, CacheInv, NEW t \in Thread, NEW m \in Module,
           stack' = [stack EXCEPT ![t] = Append(@, NewFrame(m))], UNCHANGED <<entries, lexer>>
    PROVE  \A u \in Thread : StackOK(entries', stranded, lexer', stack'[u])
<1> DEFINE r == stack'[t]
           f == NewFrame(m)
<1>0. f \in Frame /\ f.pc = "find"
  BY DEF NewFrame, Frame, Points
<1>1. Len(r) = Depth(t) + 1 /\ r[Depth(t) + 1] = f /\ \A k \in 1 .. Depth(t) : r[k] = stack[t][k]
  BY <1>0, PushShape
<1>2. /\ Depth(t) \in Nat /\ Depth(t) = Len(stack[t]) /\ StackOK(entries, stranded, lexer, stack[t])
      /\ \A k \in 1 .. Depth(t) + 1 : k = Depth(t) + 1 \/ k \in 1 .. Depth(t)
      /\ \A k \in 1 .. Depth(t) : k \in 1 .. Depth(t) + 1
  BY Below DEF CacheInv
<1> HIDE DEF r, f
<1>3. MarksMatch(entries, stranded, r)
  <2>1. "find" \notin Marked
    BY DEF Marked
  <2>2. ASSUME NEW i
        PROVE  (\E k \in 1 .. Depth(t) + 1 : r[k].entry = i /\ r[k].pc \in Marked)
               <=> \E k \in 1 .. Depth(t) : stack[t][k].entry = i /\ stack[t][k].pc \in Marked
    BY <1>0, <1>1, <1>2, <2>1
  <2>3. QED BY <1>1, <1>2, <2>2 DEF StackOK, MarksMatch
<1>4. Apart(stranded, r)
  <2>1. \A k, l \in 1 .. Depth(t) + 1 : k < l => k \in 1 .. Depth(t)
    BY <1>2
  <2>2. "find" \notin Active
    BY DEF Active, Marked
  <2>3. QED BY <1>0, <1>1, <1>2, <2>1, <2>2 DEF StackOK, Apart
<1>5. NotYet(entries, r) /\ Inserting(entries, r)
  BY <1>0, <1>1, <1>2 DEF StackOK, NotYet, Inserting, Started, Active, Marked
<1>6. LexerOf(lexer, r)
  <2>1. CASE Depth(t) = 0
    BY <1>0, <1>1, <1>2, <2>1 DEF StackOK, LexerOf, Started, Active, Marked
  <2>2. CASE 1 \in 1 .. Depth(t)
    BY <1>1, <1>2, <2>2 DEF StackOK, LexerOf
  <2>3. Depth(t) = 0 \/ 1 \in 1 .. Depth(t)
    BY <1>2
  <2>4. QED BY <2>1, <2>2, <2>3
<1>7. \A u \in Thread : u = t
  BY DEF OneImporter
<1>8. QED BY <1>3, <1>4, <1>5, <1>6, <1>7 DEF StackOK, r

-----------------------------------------------------------------------------
(* The cache and the lexer, action by action.                                *)

\* What the invariant says of the import on top.
LEMMA TopCache ==
    ASSUME Inv, CacheInv, NEW t \in Thread, Depth(t) > 0
    PROVE  /\ Top(t) \in Frame /\ FrameInv(entries, body, done, Top(t))
           /\ Top(t).pc \notin {"find", "insert"} =>
                 Top(t).entry \in 1 .. Len(entries) /\ entries[Top(t).entry].name = Top(t).name
           /\ Top(t).pc \in Active =>
                 Top(t).entry \notin Others(t)
           /\ Top(t).pc \in Started => ~ entries[Top(t).entry].loaded
           /\ Top(t).pc = "insert" => Absent(entries, Top(t).name)
           /\ Depth(t) = 1 => /\ Top(t).pc \in Started => Top(t).saved = None
                              /\ Top(t).pc \in Early => lexer = None
           /\ \A k \in 1 .. Depth(t) - 1 : ~ entries[stack[t][k].entry].loaded
           /\ entries \in Entries /\ Len(entries) \in Nat /\ Depth(t) \in Nat
<1>1. /\ Depth(t) \in Nat /\ Depth(t) = Len(stack[t]) /\ StackOK(entries, stranded, lexer, stack[t])
      /\ \A k \in 1 .. Depth(t) - 1 : stack[t][k].pc = "run"
      /\ entries \in Entries /\ Len(entries) \in Nat
  BY Below DEF CacheInv, Inv, VarTypes, Entries
<1>2. /\ Top(t) \in Frame /\ FrameInv(entries, body, done, Top(t))
      /\ Top(t).entry > 0 => Top(t).entry \in 1 .. Len(entries)
  BY TopFrame
<1>3. Top(t).pc \notin {"find", "insert"} =>
          Top(t).entry \in 1 .. Len(entries) /\ entries[Top(t).entry].name = Top(t).name
  BY <1>2 DEF FrameInv, Frame
<1>4. Depth(t) \in 1 .. Depth(t) /\ \A k \in 1 .. Depth(t) - 1 : k \in 1 .. Depth(t) /\ k < Depth(t)
  BY <1>1
<1>5. Top(t).pc \in Active => Top(t).entry \notin Others(t)
  BY <1>1, <1>4 DEF StackOK, Apart, Top, Others
<1>6. /\ Top(t).pc \in Started => ~ entries[Top(t).entry].loaded
      /\ Top(t).pc = "insert" => Absent(entries, Top(t).name)
  BY <1>1, <1>4 DEF StackOK, NotYet, Inserting, Top
<1>7. Depth(t) = 1 => /\ Top(t).pc \in Started => Top(t).saved = None
                      /\ Top(t).pc \in Early => lexer = None
  BY <1>1 DEF StackOK, LexerOf, Top
<1>8. \A k \in 1 .. Depth(t) - 1 : ~ entries[stack[t][k].entry].loaded
  BY <1>1, <1>4 DEF StackOK, NotYet, Started, Active, Marked
<1>9. QED BY <1>1, <1>2, <1>3, <1>5, <1>6, <1>7, <1>8

\* The steps that leave the cache as it is and stay in the import.
LEMMA StayCache ==
    ASSUME Inv, OneImporter, CacheInv, NEW t \in Thread,
           \/ Find(t) \/ Resolve(t) \/ NotLoaded(t) \/ NotLoading(t) \/ Open(t)
           \/ Throw(t) \/ EndOfModule(t)
    PROVE  CacheInv'
<1> DEFINE g == Top(t)
<1>1. Depth(t) > 0
  BY DEF Find, Resolve, NotLoaded, NotLoading, Open, Throw, EndOfModule, At
<1>2. /\ g \in Frame /\ g.entry \in Nat
      /\ g.pc \notin {"find", "insert"} => g.entry \in 1 .. Len(entries)
      /\ g.pc \in Active => g.entry \notin Others(t)
      /\ g.pc \in Started => ~ entries[g.entry].loaded
      /\ Depth(t) = 1 => /\ g.pc \in Started => g.saved = None
                         /\ g.pc \in Early => lexer = None
      /\ entries \in Entries /\ Len(entries) \in Nat
  BY <1>1, TopCache DEF Frame
<1>3. \A i \in 1 .. Len(entries) :
          entries[i].loading <=> \/ g.entry = i /\ g.pc \in Marked
                                 \/ i \in Others(t)
  BY <1>1, MarkedFor
<1>4. ASSUME NEW f \in Frame, Go(t, f), UNCHANGED <<stranded, entries, done>>,
             f.pc \in Marked <=> g.pc \in Marked, f.pc \in Marked => f.entry = g.entry,
             f.pc \in Active => f.entry \notin Others(t),
             f.pc \in Started => ~ entries[f.entry].loaded,
             f.pc = "insert" => Absent(entries, f.name),
             Depth(t) = 1 => /\ f.pc \in Started => f.saved = None
                             /\ f.pc \in Early => lexer' = None
      PROVE  CacheInv'
  <2>1. \A i \in 1 .. Len(entries') :
            entries'[i].loading <=> \/ f.entry = i /\ f.pc \in Marked
                                    \/ i \in Others(t)
    BY <1>3, <1>4
  <2> HIDE DEF g
  <2>2. \A u \in Thread : StackOK(entries', stranded, lexer', stack'[u])
    BY <1>1, <1>2, <1>4, <2>1, GoKeeps
  <2>3. QED BY <1>4, <2>2 DEF CacheInv
<1> USE DEF Marked, Active, Started, Early
<1>5. CASE Find(t)
  <2>1. PICK i \in Cached(g.name) : Go(t, [g EXCEPT !.pc = "loaded?", !.entry = i])
    BY <1>5 DEF Find
  <2> DEFINE f == [g EXCEPT !.pc = "loaded?", !.entry = i]
  <2>2. i \in Nat
    BY <1>2 DEF Cached, Entries
  <2>3. f \in Frame /\ f.pc = "loaded?" /\ g.pc = "find"
    BY <1>2, <1>5, <2>2 DEF Frame, Points, Find, At
  <2>4. Go(t, f) /\ UNCHANGED <<stranded, entries, lexer, done>>
    BY <1>5, <2>1 DEF Find
  <2> HIDE DEF f, g
  <2>5. QED BY <1>2, <1>4, <2>3, <2>4
<1>6. CASE Resolve(t)
  <2> DEFINE f == [g EXCEPT !.pc = "insert"]
  <2>1. f \in Frame /\ f.pc = "insert" /\ f.name = g.name /\ g.pc = "find"
    BY <1>2, <1>6 DEF Frame, Points, Resolve, At
  <2>2. Go(t, f) /\ UNCHANGED <<stranded, entries, lexer, done>>
    BY <1>6 DEF Resolve
  <2>3. Absent(entries, f.name)
    BY <1>2, <1>6, <2>1 DEF Resolve, Cached, Absent, Entries
  <2> HIDE DEF f, g
  <2>4. QED BY <1>2, <1>4, <2>1, <2>2, <2>3
<1>7. CASE NotLoaded(t)
  <2> DEFINE f == [g EXCEPT !.pc = "loading?", !.saved = lexer]
  <2>1. lexer \in Files \cup {None} /\ Files \subseteq Module
    BY Same, LoaderAssumption
  <2>2. f \in Frame /\ f.pc = "loading?" /\ f.entry = g.entry /\ f.saved = lexer /\ g.pc = "loaded?"
    BY <1>2, <1>7, <2>1 DEF Frame, Points, NotLoaded, At
  <2>3. Go(t, f) /\ UNCHANGED <<stranded, entries, lexer, done>> /\ ~ entries[g.entry].loaded
    BY <1>7 DEF NotLoaded, Entry
  <2> HIDE DEF f, g
  <2>4. QED BY <1>2, <1>4, <2>2, <2>3
<1>8. CASE NotLoading(t)
  <2> DEFINE f == [g EXCEPT !.pc = "mark"]
  <2>1. /\ f \in Frame /\ f.pc = "mark" /\ f.entry = g.entry /\ f.saved = g.saved
        /\ g.pc = "loading?"
    BY <1>2, <1>8 DEF Frame, Points, NotLoading, At
  <2>2. Go(t, f) /\ UNCHANGED <<stranded, entries, lexer, done>> /\ ~ entries[g.entry].loading
    BY <1>8 DEF NotLoading, Entry
  <2> HIDE DEF f, g
  <2>3. f.entry \notin Others(t)
    BY <1>2, <1>3, <2>1, <2>2
  <2>4. QED BY <1>2, <1>4, <2>1, <2>2, <2>3
<1>9. CASE Open(t)
  <2> DEFINE f == [g EXCEPT !.pc = "scan"]
  <2>1. /\ f \in Frame /\ f.pc = "scan" /\ f.entry = g.entry /\ f.saved = g.saved
        /\ g.pc = "open"
    BY <1>2, <1>9 DEF Frame, Points, Open, At
  <2>2. Go(t, f) /\ UNCHANGED <<stranded, entries, done>>
    BY <1>9 DEF Open
  <2> HIDE DEF f, g
  <2>3. QED BY <1>2, <1>4, <2>1, <2>2
<1>10. CASE Throw(t)
  <2> DEFINE f == [g EXCEPT !.pc = "unmark", !.ok = FALSE]
  <2>1. /\ f \in Frame /\ f.pc = "unmark" /\ f.entry = g.entry /\ f.saved = g.saved
        /\ g.pc = "run"
    BY <1>2, <1>10 DEF Frame, Points, Throw, At
  <2>2. Go(t, f) /\ UNCHANGED <<stranded, entries, lexer, done>>
    BY <1>10 DEF Throw
  <2> HIDE DEF f, g
  <2>3. QED BY <1>2, <1>4, <2>1, <2>2
<1>11. CASE EndOfModule(t)
  <2> DEFINE f == [g EXCEPT !.pc = "unmark"]
  <2>1. /\ f \in Frame /\ f.pc = "unmark" /\ f.entry = g.entry /\ f.saved = g.saved
        /\ g.pc = "run"
    BY <1>2, <1>11 DEF Frame, Points, EndOfModule, At
  <2>2. Go(t, f) /\ UNCHANGED <<stranded, entries, lexer, done>>
    BY <1>11 DEF EndOfModule
  <2> HIDE DEF f, g
  <2>3. QED BY <1>2, <1>4, <2>1, <2>2
<1>12. QED BY <1>5, <1>6, <1>7, <1>8, <1>9, <1>10, <1>11

\* One entry of the cache changes, in its marks or in what it has parsed.
LEMMA EntryChanged ==
    ASSUME CacheInv, entries \in Entries, NEW i \in 1 .. Len(entries),
           NEW g \in [name : Files, loaded : BOOLEAN, loading : BOOLEAN,
                      parsed : Files \cup {None}],
           g.name = entries[i].name, entries[i].loaded => g.loaded,
           entries' = [entries EXCEPT ![i] = g]
    PROVE  /\ Len(entries') = Len(entries) /\ entries'[i] = g /\ Len(entries) \in Nat
           /\ \A j \in 1 .. Len(entries) : j # i => entries'[j] = entries[j]
           /\ OneEntry(entries') /\ LoadedOf(entries', done)
<1>1. /\ Len(entries') = Len(entries) /\ entries'[i] = g /\ Len(entries) \in Nat
      /\ \A j \in 1 .. Len(entries) : j # i => entries'[j] = entries[j]
  BY DEF Entries
<1>2. \A j \in 1 .. Len(entries) : /\ entries'[j].name = entries[j].name
                                   /\ entries[j].loaded => entries'[j].loaded
  BY <1>1
<1>3. OneEntry(entries') /\ LoadedOf(entries', done)
  BY <1>1, <1>2 DEF CacheInv, OneEntry, LoadedOf
<1>4. QED BY <1>1, <1>3

LEMMA InsertCache ==
    ASSUME Inv, OneImporter, CacheInv, NEW t \in Thread, Insert(t)
    PROVE  CacheInv'
<1> DEFINE g == NewEntry(Top(t).name)
           f == [Top(t) EXCEPT !.pc = "loaded?", !.entry = Len(entries) + 1]
<1>1. /\ Depth(t) > 0 /\ Top(t).pc = "insert" /\ entries' = Append(entries, g) /\ Go(t, f)
      /\ UNCHANGED <<body, stranded, lexer, outcome, done>>
  BY DEF Insert, At
<1>2. /\ Top(t) \in Frame /\ Absent(entries, Top(t).name) /\ entries \in Entries
      /\ Len(entries) \in Nat /\ FrameInv(entries, body, done, Top(t))
      /\ Depth(t) = 1 => (Top(t).pc \in Early => lexer = None)
  BY <1>1, TopCache
<1>3. /\ g \in [name : Files, loaded : BOOLEAN, loading : BOOLEAN, parsed : Files \cup {None}]
      /\ g.name = Top(t).name /\ g.loaded = FALSE /\ g.loading = FALSE
  BY <1>1, <1>2 DEF FrameInv, NewEntry
<1> HIDE DEF g
<1>4. /\ Len(entries') = Len(entries) + 1 /\ Len(entries') \in Nat
      /\ entries'[Len(entries) + 1] = g /\ \A i \in 1 .. Len(entries) : entries'[i] = entries[i]
      /\ \A i \in 1 .. Len(entries') : i \in 1 .. Len(entries) \/ i = Len(entries) + 1
      /\ \A i \in 1 .. Len(entries) : i \in 1 .. Len(entries') /\ i # Len(entries) + 1
  BY <1>1, <1>2, <1>3 DEF Entries
<1>5. OneEntry(entries')
  BY <1>2, <1>3, <1>4 DEF CacheInv, OneEntry, Absent
<1>6. LoadedOf(entries', done)
  BY <1>4 DEF CacheInv, LoadedOf
<1>7. f \in Frame /\ f.pc = "loaded?"
  <2>1. ASSUME NEW n \in Nat, NEW h, h = [Top(t) EXCEPT !.pc = "loaded?", !.entry = n]
        PROVE  h \in Frame /\ h.pc = "loaded?"
    BY <1>2, <2>1 DEF Frame, Points
  <2>2. Len(entries) + 1 \in Nat
    BY <1>2
  <2>3. QED BY <2>1, <2>2
<1> HIDE DEF f
<1>8. \A i \in 1 .. Len(entries') :
          entries'[i].loading <=> \/ f.entry = i /\ f.pc \in Marked
                                  \/ i \in Others(t)
  <2>1. f.pc \notin Marked /\ Top(t).pc \notin Marked
    BY <1>1, <1>7 DEF Marked
  <2>2. \A i \in 1 .. Len(entries) :
            entries[i].loading <=> i \in Others(t)
    BY <1>1, <2>1, MarkedFor
  <2>3. Len(entries) + 1 \notin Others(t)
    <3>1. \A k \in 1 .. Depth(t) - 1 : stack[t][k].entry # Len(entries) + 1
      BY <1>4, Below
    <3>2. Len(entries) + 1 \notin stranded
      BY <1>2 DEF Inv, VarTypes
    <3>3. QED BY <3>1, <3>2 DEF Others
  <2>4. QED BY <1>3, <1>4, <2>1, <2>2, <2>3
<1>9. \A u \in Thread : StackOK(entries', stranded, lexer', stack'[u])
  <2>1. f.pc \notin Active /\ f.pc \notin Started /\ f.pc # "insert" /\ Top(t).pc \in Early
    BY <1>1, <1>7 DEF Marked, Active, Started, Early
  <2>2. Len(entries) <= Len(entries')
    BY <1>2, <1>4
  <2>3. QED BY <1>1, <1>2, <1>4, <1>7, <1>8, <2>1, <2>2, GoKeeps
<1>10. QED BY <1>1, <1>5, <1>6, <1>9 DEF CacheInv

\* The steps that stay in the import and write to its entry.
LEMMA WriteCache ==
    ASSUME Inv, OneImporter, CacheInv, NEW t \in Thread, Mark(t) \/ Scan(t) \/ Unmark(t)
    PROVE  CacheInv'
<1> DEFINE i == Top(t).entry
           R == [name : Files, loaded : BOOLEAN, loading : BOOLEAN, parsed : Files \cup {None}]
<1>1. Depth(t) > 0 /\ Top(t).pc \in {"mark", "scan", "unmark"}
  BY DEF Mark, Scan, Unmark, At
<1>2. /\ Top(t) \in Frame /\ i \in 1 .. Len(entries) /\ entries \in Entries
      /\ i \notin Others(t)
      /\ ~ entries[i].loaded
      /\ Depth(t) = 1 => Top(t).saved = None /\ (Top(t).pc \in Early => lexer = None)
  BY <1>1, TopCache DEF Active, Started, Marked
<1>3. /\ entries[i] \in R /\ lexer \in Files \cup {None}
      /\ \A j \in 1 .. Len(entries) :
             entries[j].loading <=> \/ i = j /\ Top(t).pc \in Marked
                                    \/ j \in Others(t)
  BY <1>1, <1>2, EntryTypes, MarkedFor, Same
<1>4. ASSUME NEW f \in Frame, Go(t, f), f.entry = i, f.pc \in Active, NEW g \in R,
             g.name = entries[i].name, g.loaded = entries[i].loaded,
             g.loading <=> f.pc \in Marked,
             entries' = [entries EXCEPT ![i] = g], UNCHANGED <<stranded, done>>,
             Depth(t) = 1 => f.saved = None /\ (f.pc \in Early => lexer' = None)
      PROVE  CacheInv'
  <2>1. /\ Len(entries') = Len(entries) /\ entries'[i] = g /\ Len(entries) \in Nat
        /\ \A j \in 1 .. Len(entries) : j # i => entries'[j] = entries[j]
        /\ OneEntry(entries') /\ LoadedOf(entries', done)
    BY <1>2, <1>4, EntryChanged
  <2> HIDE DEF i
  <2>2. \A j \in 1 .. Len(entries') :
            entries'[j].loading <=> \/ f.entry = j /\ f.pc \in Marked
                                    \/ j \in Others(t)
    BY <1>2, <1>3, <1>4, <2>1
  <2>3. /\ \A j \in 1 .. Len(entries) : entries'[j].loaded = entries[j].loaded
        /\ ~ entries'[f.entry].loaded /\ f.pc # "insert" /\ Len(entries) <= Len(entries')
    BY <1>2, <1>4, <2>1 DEF Active, Marked
  <2>4. \A u \in Thread : StackOK(entries', stranded, lexer', stack'[u])
    BY <1>1, <1>2, <1>4, <2>1, <2>2, <2>3, GoKeeps
  <2>5. QED BY <1>4, <2>1, <2>4 DEF CacheInv
<1>5. CASE Mark(t)
  <2> DEFINE g == [entries[i] EXCEPT !.loading = TRUE]
             f == [Top(t) EXCEPT !.pc = IF Entry(t).parsed = None THEN "open" ELSE "run"]
  <2>1. /\ Go(t, f) /\ entries' = [entries EXCEPT ![i] = g] /\ Top(t).pc = "mark"
        /\ UNCHANGED <<body, stranded, lexer, outcome, done>>
    BY <1>5 DEF Mark, At
  <2>2. g \in R /\ g.name = entries[i].name /\ g.loaded = entries[i].loaded /\ g.loading = TRUE
    BY <1>3
  <2>3. /\ f \in Frame /\ f.entry = i /\ f.saved = Top(t).saved
        /\ f.pc = "open" \/ f.pc = "run"
    BY <1>2 DEF Frame, Points
  <2> HIDE DEF f, g, i, R
  <2>4. f.pc \in Active /\ f.pc \in Marked /\ Top(t).pc \in Early
    BY <2>1, <2>3 DEF Active, Marked, Early
  <2>5. QED BY <1>2, <1>4, <2>1, <2>2, <2>3, <2>4
<1>6. CASE Scan(t)
  <2> DEFINE g == [entries[i] EXCEPT !.parsed = lexer]
             f == [Top(t) EXCEPT !.pc = "run"]
  <2>1. /\ Go(t, f) /\ entries' = [entries EXCEPT ![i] = g] /\ Top(t).pc = "scan"
        /\ UNCHANGED <<body, stranded, lexer, outcome, done>>
    BY <1>6 DEF Scan, At
  <2>2. entries[i].loading
    BY <1>2, <1>3, <2>1 DEF Marked
  <2>3. /\ g \in R /\ g.name = entries[i].name /\ g.loaded = entries[i].loaded
        /\ g.loading = entries[i].loading
    BY <1>3
  <2>4. f \in Frame /\ f.entry = i /\ f.saved = Top(t).saved /\ f.pc = "run"
    BY <1>2 DEF Frame, Points
  <2> HIDE DEF f, g, i, R
  <2>5. f.pc \in Active /\ f.pc \in Marked /\ f.pc \notin Early
    BY <2>4 DEF Active, Marked, Early
  <2>6. QED BY <1>2, <1>4, <2>1, <2>2, <2>3, <2>4, <2>5
<1>7. CASE Unmark(t)
  <2> DEFINE g == [entries[i] EXCEPT !.loading = FALSE]
             f == [Top(t) EXCEPT !.pc = "leave"]
  <2>1. /\ Go(t, f) /\ entries' = [entries EXCEPT ![i] = g]
        /\ UNCHANGED <<body, stranded, lexer, outcome, done>>
    BY <1>7 DEF Unmark
  <2>2. g \in R /\ g.name = entries[i].name /\ g.loaded = entries[i].loaded /\ g.loading = FALSE
    BY <1>3
  <2>3. f \in Frame /\ f.entry = i /\ f.saved = Top(t).saved /\ f.pc = "leave"
    BY <1>2 DEF Frame, Points
  <2> HIDE DEF f, g, i, R
  <2>4. f.pc \in Active /\ f.pc \notin Marked /\ f.pc \notin Early
    BY <2>3 DEF Active, Marked, Early
  <2>5. QED BY <1>2, <1>4, <2>1, <2>2, <2>3, <2>4
<1>8. QED BY <1>5, <1>6, <1>7

\* The steps that end an import before it has run.
LEMMA EndCache ==
    ASSUME Inv, OneImporter, CacheInv, NEW t \in Thread,
           NotFound(t) \/ AlreadyLoaded(t) \/ Circular(t) \/ Unreadable(t)
    PROVE  CacheInv'
<1> DEFINE i == Top(t).entry
           R == [name : Files, loaded : BOOLEAN, loading : BOOLEAN, parsed : Files \cup {None}]
<1>1. Depth(t) > 0 /\ Top(t).pc \in {"find", "loaded?", "loading?", "open"}
  BY DEF NotFound, AlreadyLoaded, Circular, Unreadable, At
<1>2. /\ entries \in Entries
      /\ Depth(t) = 1 => lexer = None
      /\ \A k \in 1 .. Depth(t) - 1 : ~ entries[stack[t][k].entry].loaded
      /\ Top(t).pc = "open" => /\ i \in 1 .. Len(entries) /\ ~ entries[i].loaded
                               /\ i \notin Others(t)
  BY <1>1, TopCache DEF Active, Started, Marked, Early
<1>3. \A j \in 1 .. Len(entries) :
          entries[j].loading <=> \/ i = j /\ Top(t).pc = "open"
                                 \/ j \in Others(t)
  BY <1>1, MarkedFor DEF Marked
<1>4. ASSUME NEW ok \in BOOLEAN, Return(t, ok), UNCHANGED <<stranded, entries, lexer, done>>,
             Top(t).pc # "open"
      PROVE  CacheInv'
  <2>1. /\ \A k \in 1 .. Depth(t) - 1 : ~ entries'[stack[t][k].entry].loaded
        /\ \A j \in 1 .. Len(entries') :
              entries'[j].loading <=> j \in Others(t)
        /\ Depth(t) = 1 => lexer' = None
    BY <1>2, <1>3, <1>4
  <2>2. \A u \in Thread : StackOK(entries', stranded, lexer', stack'[u])
    BY <1>1, <1>4, <2>1, ReturnKeeps
  <2>3. QED BY <1>4, <2>2 DEF CacheInv
<1>5. CASE NotFound(t)
  BY <1>4, <1>5 DEF NotFound, At
<1>6. CASE AlreadyLoaded(t)
  BY <1>4, <1>6 DEF AlreadyLoaded, At
<1>7. CASE Circular(t)
  BY <1>4, <1>7 DEF Circular, At
<1>8. CASE Unreadable(t)
  <2> DEFINE g == [entries[i] EXCEPT !.loading = FALSE]
  <2>1. /\ Return(t, FALSE) /\ entries' = [entries EXCEPT ![i] = g] /\ Top(t).pc = "open"
        /\ UNCHANGED <<body, stranded, lexer, done>>
    BY <1>8 DEF Unreadable, At
  <2>2. /\ i \in 1 .. Len(entries) /\ ~ entries[i].loaded /\ entries[i] \in R
        /\ i \notin Others(t)
    BY <1>2, <2>1, EntryTypes
  <2>3. g \in R /\ g.name = entries[i].name /\ g.loaded = entries[i].loaded /\ g.loading = FALSE
    BY <2>2
  <2> HIDE DEF g, i
  <2>4. /\ Len(entries') = Len(entries) /\ entries'[i] = g
        /\ \A j \in 1 .. Len(entries) : j # i => entries'[j] = entries[j]
        /\ OneEntry(entries') /\ LoadedOf(entries', done)
    BY <1>2, <2>1, <2>2, <2>3, EntryChanged
  <2>5. \A j \in 1 .. Len(entries') :
            entries'[j].loading <=> j \in Others(t)
    BY <1>3, <2>1, <2>2, <2>3, <2>4
  <2>6. \A k \in 1 .. Depth(t) - 1 : ~ entries'[stack[t][k].entry].loaded
    BY <1>2, <2>2, <2>4, Below DEF Others
  <2>7. (Depth(t) = 1 => lexer' = None) /\ FALSE \in BOOLEAN
    BY <1>2, <2>1
  <2>8. \A u \in Thread : StackOK(entries', stranded, lexer', stack'[u])
    BY <1>1, <2>1, <2>5, <2>6, <2>7, ReturnKeeps
  <2>9. QED BY <2>1, <2>4, <2>8 DEF CacheInv
<1>9. QED BY <1>5, <1>6, <1>7, <1>8

\* The end of a module that ran: it is loaded if no statement has thrown, and never was.
LEMMA LeaveCache ==
    ASSUME Inv, OneImporter, CacheInv, NEW t \in Thread, Leave(t)
    PROVE  CacheInv'
<1> DEFINE i == Top(t).entry
           m == Top(t).name
           ok == Top(t).ok
           g == [entries[i] EXCEPT !.loaded = @ \/ ok]
           R == [name : Files, loaded : BOOLEAN, loading : BOOLEAN, parsed : Files \cup {None}]
<1>1. /\ Depth(t) > 0 /\ Top(t).pc = "leave" /\ Return(t, ok)
      /\ entries' = [entries EXCEPT ![i] = g] /\ lexer' = Top(t).saved
      /\ done' = (IF ok THEN Append(done, m) ELSE done) /\ stranded' = stranded
  BY DEF Leave, At
<1>2. /\ entries \in Entries /\ ok \in BOOLEAN
      /\ i \in 1 .. Len(entries) /\ entries[i].name = m /\ ~ entries[i].loaded
      /\ \A k \in 1 .. Depth(t) - 1 : /\ ~ entries[stack[t][k].entry].loaded
                                      /\ stack[t][k].entry # i
      /\ Depth(t) = 1 => Top(t).saved = None
  BY <1>1, TopCache DEF Active, Started, Marked, Frame, Others
<1>3. \A j \in 1 .. Len(entries) :
          entries[j].loading <=> j \in Others(t)
  <2>1. Top(t).pc \notin Marked
    BY <1>1 DEF Marked
  <2>2. QED BY <1>1, <2>1, MarkedFor
<1>4. /\ g \in R /\ g.name = m /\ g.loaded = ok /\ g.loading = entries[i].loading
  BY <1>2, EntryTypes
<1> HIDE DEF g, i
<1>5. /\ Len(entries') = Len(entries) /\ entries'[i] = g
      /\ \A j \in 1 .. Len(entries) : j # i => entries'[j] = entries[j]
      /\ OneEntry(entries') /\ LoadedOf(entries', done)
  BY <1>1, <1>2, <1>4, EntryChanged
<1>6. LoadedOf(entries', done') /\ Once(done')
  <2>1. CASE ~ ok
    BY <1>1, <1>5, <2>1 DEF CacheInv
  <2>2. CASE ok
    <3>1. /\ Len(done') = Len(done) + 1 /\ Len(done) \in Nat /\ done'[Len(done) + 1] = m
          /\ \A j \in 1 .. Len(done) : done'[j] = done[j]
          /\ \A j \in 1 .. Len(done') : j \in 1 .. Len(done) \/ j = Len(done) + 1
      <4>1. done \in Seq(Files) /\ m \in Files
        BY <1>2, Same, EntryTypes
      <4>2. QED BY <1>1, <2>2, <4>1
    <3>2. \A j \in 1 .. Len(done) : done[j] # m
      <4> SUFFICES ASSUME NEW j \in 1 .. Len(done), done[j] = m PROVE FALSE
        OBVIOUS
      <4>1. PICK k \in 1 .. Len(entries) : entries[k].name = m /\ entries[k].loaded
        BY DEF CacheInv, LoadedOf
      <4>2. k = i
        BY <1>2, <4>1 DEF CacheInv, OneEntry
      <4>3. QED BY <1>2, <4>1, <4>2
    <3>3. Once(done')
      <4> SUFFICES ASSUME NEW j \in 1 .. Len(done'), NEW k \in 1 .. Len(done'), done'[j] = done'[k]
                   PROVE  j = k
        BY DEF Once
      <4>1. CASE j \in 1 .. Len(done) /\ k \in 1 .. Len(done)
        BY <3>1, <4>1 DEF CacheInv, Once
      <4>2. CASE j = Len(done) + 1 \/ k = Len(done) + 1
        BY <3>1, <3>2, <4>2
      <4>3. QED BY <3>1, <4>1, <4>2
    <3>4. LoadedOf(entries', done')
      <4>1. i \in 1 .. Len(entries') /\ entries'[i].name = m /\ entries'[i].loaded
        BY <1>2, <1>4, <1>5, <2>2
      <4>2. QED BY <1>5, <3>1, <4>1 DEF LoadedOf
    <3>5. QED BY <3>3, <3>4
  <2>3. QED BY <2>1, <2>2
<1>7. \A j \in 1 .. Len(entries') :
          entries'[j].loading <=> j \in Others(t)
  BY <1>2, <1>3, <1>4, <1>5
<1>8. \A k \in 1 .. Depth(t) - 1 : ~ entries'[stack[t][k].entry].loaded
  BY <1>2, <1>5, Below
<1>9. Depth(t) = 1 => lexer' = None
  BY <1>1, <1>2
<1> HIDE DEF ok
<1>10. \A u \in Thread : StackOK(entries', stranded, lexer', stack'[u])
  BY <1>1, <1>2, <1>7, <1>8, <1>9, ReturnKeeps
<1>11. QED BY <1>1, <1>5, <1>6, <1>10 DEF CacheInv

\* An import statement of the program, or of the module on top, begins an import.
LEMMA Begins ==
    ASSUME Inv, NEW t \in Thread, (\E m \in Module : Import(t, m)) \/ RunImport(t)
    PROVE  \E m \in Module :
              /\ stack' = [stack EXCEPT ![t] = Append(@, NewFrame(m))]
              /\ UNCHANGED <<body, stranded, entries, lexer, outcome, done>>
              /\ Depth(t) > 0 =>
                    \E k \in DOMAIN body[Top(t).name] : body[Top(t).name][k].name = m
<1>1. CASE \E m \in Module : Import(t, m)
  <2> PICK m \in Module : Import(t, m)
    BY <1>1
  <2>1. /\ stack[t] = <<>> /\ stack' = [stack EXCEPT ![t] = <<NewFrame(m)>>]
        /\ UNCHANGED <<body, stranded, entries, lexer, outcome, done>>
    BY DEF Import
  <2>2. <<NewFrame(m)>> = Append(stack[t], NewFrame(m)) /\ ~ Depth(t) > 0
    BY <2>1 DEF Depth
  <2>3. QED BY <2>1, <2>2
<1>2. CASE RunImport(t)
  <2> DEFINE f == Top(t)
             m == Program(f)[f.at].name
  <2>1. /\ Depth(t) > 0 /\ f.pc = "run" /\ f.at <= Len(Program(f))
        /\ stack' = [stack EXCEPT ![t] = Append(@, NewFrame(m))]
        /\ UNCHANGED <<body, stranded, entries, lexer, outcome, done>>
    BY <1>2 DEF RunImport, At
  <2>2. f \in Frame /\ FrameInv(entries, body, done, f) /\ body \in Bodies
    BY <2>1, TopFrame
  <2>3. Program(f) = body[f.name] /\ f.name \in Module /\ f.at \in Nat \ {0}
    BY <2>1, <2>2 DEF FrameInv, Program, Frame
  <2>4. f.at \in DOMAIN body[f.name] /\ m \in Module
    BY <2>1, <2>2, <2>3, Programs
  <2>5. QED BY <2>1, <2>3, <2>4
<1>3. QED BY <1>1, <1>2

\* Dropped imports leave their marks, which are taken account of, and an empty stack.
LEMMA ErrorCache ==
    ASSUME Inv, OneImporter, CacheInv, NEW t \in Thread, ErrorExit(t)
    PROVE  CacheInv'
<1>1. /\ Depth(t) \in Nat /\ Depth(t) > 0
      /\ \A k \in 1 .. Depth(t) : stack[t][k].pc \in {"scan", "run"}
      /\ stack'[t] = <<>>
  BY Dropped
<1>2. /\ UNCHANGED <<body, entries, done>> /\ lexer' = None
      /\ stranded' = stranded \cup {stack[t][k].entry : k \in 1 .. Depth(t)}
  BY DEF ErrorExit
<1>3. Len(stack'[t]) = 0 /\ 1 .. 0 = {}
  BY <1>1
<1>4. MarksMatch(entries, stranded', stack'[t])
  <2>1. MarksMatch(entries, stranded, stack[t]) /\ Depth(t) = Len(stack[t])
    BY DEF CacheInv, StackOK, Depth
  <2>2. {"scan", "run"} \subseteq Marked
    BY DEF Marked
  <2>3. \A k \in 1 .. Len(stack[t]) : stack[t][k].pc \in Marked
    BY <1>1, <2>1, <2>2
  <2>4. stranded' = stranded \cup {stack[t][k].entry : k \in 1 .. Len(stack[t])}
    BY <1>2, <2>1
  <2>5. ASSUME NEW i \in 1 .. Len(entries) PROVE entries[i].loading <=> i \in stranded'
    BY <2>1, <2>3, <2>4 DEF MarksMatch
  <2>6. QED BY <1>3, <2>5 DEF MarksMatch
<1>5. Apart(stranded', stack'[t]) /\ NotYet(entries, stack'[t]) /\ Inserting(entries, stack'[t])
  BY <1>3 DEF Apart, NotYet, Inserting
<1>6. LexerOf(lexer', stack'[t])
  BY <1>2, <1>3 DEF LexerOf
<1>7. \A u \in Thread : u = t
  BY DEF OneImporter
<1>8. \A u \in Thread : StackOK(entries, stranded', lexer', stack'[u])
  BY <1>4, <1>5, <1>6, <1>7 DEF StackOK
<1>9. QED BY <1>2, <1>8 DEF CacheInv

LEMMA InitCache == Init => CacheInv
  BY DEF Init, CacheInv, OneEntry, LoadedOf, Once, StackOK, MarksMatch, Apart, NotYet, Inserting,
         LexerOf

LEMMA NextCache == OneImporter /\ Inv /\ CacheInv /\ [Next]_vars => CacheInv'
<1> SUFFICES ASSUME OneImporter, Inv, CacheInv, [Next]_vars PROVE CacheInv'
  OBVIOUS
<1>1. CASE UNCHANGED vars
  BY <1>1 DEF vars, CacheInv
<1>2. CASE Next
  <2>1. PICK t \in Thread : (\E m \in Module : Import(t, m)) \/ Load(t)
    BY <1>2 DEF Next
  <2>2. CASE (\E m \in Module : Import(t, m)) \/ RunImport(t)
    <3>1. PICK m \in Module : /\ stack' = [stack EXCEPT ![t] = Append(@, NewFrame(m))]
                              /\ UNCHANGED <<body, stranded, entries, lexer, outcome, done>>
      BY <2>2, Begins
    <3>2. \A u \in Thread : StackOK(entries', stranded, lexer', stack'[u])
      BY <3>1, PushKeeps
    <3>3. QED BY <3>1, <3>2 DEF CacheInv
  <2>3. CASE \/ Find(t) \/ Resolve(t) \/ NotLoaded(t) \/ NotLoading(t) \/ Open(t)
             \/ Throw(t) \/ EndOfModule(t)
    BY <2>3, StayCache
  <2>4. CASE Insert(t)
    BY <2>4, InsertCache
  <2>5. CASE Mark(t) \/ Scan(t) \/ Unmark(t)
    BY <2>5, WriteCache
  <2>6. CASE NotFound(t) \/ AlreadyLoaded(t) \/ Circular(t) \/ Unreadable(t)
    BY <2>6, EndCache
  <2>7. CASE Leave(t)
    BY <2>7, LeaveCache
  <2>8. CASE ErrorExit(t)
    BY <2>8, ErrorCache
  <2>9. QED BY <2>1, <2>2, <2>3, <2>4, <2>5, <2>6, <2>7, <2>8 DEF Load
<1>3. QED BY <1>1, <1>2

LEMMA CacheProperties ==
    ASSUME Inv, CacheInv
    PROVE  LoadingIsOnStack /\ LoadedOnce /\ LexerRestored
<1>1. DOMAIN entries = 1 .. Len(entries) /\ DOMAIN done = 1 .. Len(done)
  BY DEF Inv, VarTypes, Entries
<1>2. \A t \in Thread : Depth(t) = Len(stack[t]) /\ (stack[t] = <<>> => Len(stack[t]) = 0)
  BY DEF Depth
<1>3. LoadedOnce /\ LexerRestored
  BY <1>1, <1>2 DEF CacheInv, Once, LoadedOnce, StackOK, LexerOf, LexerRestored
<1>4. LoadingIsOnStack
  <2> SUFFICES ASSUME NEW i \in 1 .. Len(entries)
               PROVE  entries[i].loading <=>
                          \/ i \in stranded
                          \/ \E t \in Thread : \E k \in 1 .. Depth(t) :
                                /\ stack[t][k].entry = i
                                /\ stack[t][k].pc \in {"open", "scan", "run", "unmark"}
    BY <1>1 DEF LoadingIsOnStack
  <2>1. \A t \in Thread : entries[i].loading <=>
            i \in stranded \/ \E k \in 1 .. Depth(t) : stack[t][k].entry = i /\ stack[t][k].pc \in Marked
    BY <1>2 DEF CacheInv, StackOK, MarksMatch
  <2>2. Thread # {}
    BY DEF CacheInv
  <2>3. QED BY <2>1, <2>2 DEF Marked
<1>5. QED BY <1>3, <1>4

-----------------------------------------------------------------------------
(* Causes of failures.                                                       *)

Imports(m) == {body[m][i].name : i \in DOMAIN body[m]}

\* m leads to a cycle, to a name without a file or to a module that may throw or drop the line.
Cause(m) == \E x \in {m} \cup Reach(m) :
    x \notin Files \/ x \in Reach(x) \/ x \in Faults \/ x \in Fatal

\* A module reaches what it imports, and what that reaches.
LEMMA ReachFacts ==
    ASSUME NEW m \in Module
    PROVE  /\ Reach(m) \subseteq Module
           /\ Imports(m) \cap Module \subseteq Reach(m)
           /\ \A x \in Reach(m) : Imports(x) \cap Module \subseteq Reach(m)
           /\ \A x \in Reach(m) : Reach(x) \subseteq Reach(m)
<1> DEFINE Closed(S) == \A x \in S : Imports(x) \subseteq S
<1>1. \A n : Reach(n) = {x \in Module : \A S \in SUBSET Module :
                            Closed(S) /\ Imports(n) \subseteq S => x \in S}
  BY DEF Reach, Imports
<1>2. QED BY <1>1

\* What leads to a module with a cause has that cause.
LEMMA CauseCarried ==
    ASSUME NEW m \in Module, NEW n \in Reach(m), Cause(n)
    PROVE  Cause(m)
<1>1. {n} \cup Reach(n) \subseteq Reach(m)
  BY ReachFacts
<1>2. QED BY <1>1 DEF Cause

\* Every import is under those below it on the stack, and a frame that is to fail has a cause.
CauseInv ==
    /\ \A t \in Thread : \A k, l \in 1 .. Depth(t) :
           k < l => stack[t][l].name \in Reach(stack[t][k].name)
    /\ \A t \in Thread : \A k \in 1 .. Depth(t) : ~ stack[t][k].ok => Cause(stack[t][k].name)
    /\ \A t \in Thread : ~ outcome[t].ok => Cause(outcome[t].name)

\* What was dropped leads to a module that may drop the line.
StrandedInv == \A i \in stranded : Cause(entries[i].name)

\* The program does not change, nor what its modules reach.
LEMMA SameReach ==
    ASSUME UNCHANGED body
    PROVE  \A m : Reach(m)' = Reach(m) /\ Cause(m)' = Cause(m)
BY DEF Reach, Cause

\* The import goes on: it fails only for a cause.
LEMMA GoCause ==
    ASSUME Inv, OneImporter, CauseInv, NEW t \in Thread, Depth(t) > 0, NEW f \in Frame, Go(t, f),
           UNCHANGED <<body, stranded, outcome>>, f.name = Top(t).name,
           ~ f.ok => ~ Top(t).ok \/ Cause(f.name)
    PROVE  CauseInv'
<1> DEFINE r == stack'[t]
<1>1. /\ Len(r) = Depth(t) /\ r[Depth(t)] = f
      /\ \A k \in 1 .. Depth(t) - 1 : r[k] = stack[t][k]
  BY GoShape
<1>2. Depth(t) \in Nat /\ Top(t) = stack[t][Depth(t)]
  BY Below DEF Top
<1>3. /\ Depth(t) \in 1 .. Depth(t)
      /\ \A k \in 1 .. Depth(t) : k = Depth(t) \/ k \in 1 .. Depth(t) - 1
  BY <1>2, Indices
<1>4. \A u \in Thread : u = t
  BY DEF OneImporter
<1> HIDE DEF r
<1>5. \A k \in 1 .. Depth(t) : r[k].name = stack[t][k].name
  BY <1>1, <1>2, <1>3
<1>6. \A k \in 1 .. Depth(t) : ~ r[k].ok => Cause(r[k].name)
  BY <1>1, <1>2, <1>3 DEF CauseInv
<1>7. Depth(t)' = Depth(t) /\ stack'[t] = r
  BY <1>1 DEF Depth, r
<1>8. QED BY <1>4, <1>5, <1>6, <1>7, SameReach DEF CauseInv

\* The import is over: if it has failed, that has a cause.
LEMMA ReturnCause ==
    ASSUME Inv, OneImporter, CauseInv, NEW t \in Thread, Depth(t) > 0, NEW ok \in BOOLEAN,
           Return(t, ok), UNCHANGED <<body, stranded>>, ~ ok => Cause(Top(t).name)
    PROVE  CauseInv'
<1> DEFINE r == stack'[t]
<1>1. /\ Len(r) = Depth(t) - 1
      /\ \A k \in 1 .. Depth(t) - 1 :
            /\ r[k].name = stack[t][k].name
            /\ ~ r[k].ok => ~ stack[t][k].ok \/ ~ ok
      /\ Depth(t) > 1 => outcome' = outcome
      /\ Depth(t) = 1 => outcome' = [outcome EXCEPT ![t] = [name |-> Top(t).name, ok |-> ok]]
  BY ReturnShape
<1>2. /\ Depth(t) \in Nat /\ Top(t) = stack[t][Depth(t)]
      /\ \A k \in 1 .. Depth(t) : stack[t][k].name \in Module
  BY Below DEF Top, Frame
<1>3. Depth(t) \in 1 .. Depth(t) /\ \A k \in 1 .. Depth(t) - 1 : k \in 1 .. Depth(t) /\ k < Depth(t)
  BY <1>2
<1>4. \A u \in Thread : u = t
  BY DEF OneImporter
<1> HIDE DEF r
<1>5. \A k, l \in 1 .. Depth(t) - 1 : k < l => r[l].name \in Reach(r[k].name)
  BY <1>1, <1>3 DEF CauseInv
<1>6. ASSUME NEW k \in 1 .. Depth(t) - 1, ~ r[k].ok PROVE Cause(r[k].name)
  <2>1. CASE ~ stack[t][k].ok
    BY <1>1, <1>3, <2>1 DEF CauseInv
  <2>2. CASE ~ ok
    <3>1. Top(t).name \in Reach(stack[t][k].name) /\ Cause(Top(t).name)
      BY <1>2, <1>3, <2>2 DEF CauseInv
    <3>2. QED BY <1>1, <1>2, <1>3, <3>1, CauseCarried
  <2>3. QED BY <1>1, <1>6, <2>1, <2>2
<1>7. ~ outcome'[t].ok => Cause(outcome'[t].name)
  <2>1. CASE Depth(t) > 1
    BY <1>1, <2>1 DEF CauseInv
  <2>2. CASE Depth(t) = 1
    <3>1. outcome'[t] = [name |-> Top(t).name, ok |-> ok]
      BY <1>1, <2>2 DEF Inv, VarTypes
    <3>2. QED BY <3>1
  <2>3. QED BY <1>2, <2>1, <2>2
<1>8. Depth(t)' = Depth(t) - 1 /\ stack'[t] = r
  BY <1>1 DEF Depth, r
<1>9. QED BY <1>4, <1>5, <1>6, <1>7, <1>8, SameReach DEF CauseInv

\* An import begins below the module that asks for it.
LEMMA BeginCause ==
    ASSUME Inv, OneImporter, CauseInv, NEW t \in Thread,
           (\E m \in Module : Import(t, m)) \/ RunImport(t)
    PROVE  CauseInv'
<1> PICK m \in Module :
        /\ stack' = [stack EXCEPT ![t] = Append(@, NewFrame(m))]
        /\ UNCHANGED <<body, stranded, entries, lexer, outcome, done>>
        /\ Depth(t) > 0 => \E k \in DOMAIN body[Top(t).name] : body[Top(t).name][k].name = m
  BY Begins
<1> DEFINE r == stack'[t]
           f == NewFrame(m)
<1>0. f \in Frame /\ f.name = m /\ f.ok = TRUE
  BY DEF NewFrame, Frame, Points
<1>1. Len(r) = Depth(t) + 1 /\ r[Depth(t) + 1] = f /\ \A k \in 1 .. Depth(t) : r[k] = stack[t][k]
  BY <1>0, PushShape
<1>2. /\ Depth(t) \in Nat /\ Top(t) = stack[t][Depth(t)]
      /\ \A k \in 1 .. Depth(t) : stack[t][k].name \in Module
  BY Below DEF Top, Frame
<1>3. /\ \A k \in 1 .. Depth(t) + 1 : k = Depth(t) + 1 \/ k \in 1 .. Depth(t)
      /\ \A k, l \in 1 .. Depth(t) + 1 : k < l => k \in 1 .. Depth(t)
      /\ \A k \in 1 .. Depth(t) : (k = Depth(t) \/ k < Depth(t)) /\ Depth(t) > 0 /\ Depth(t) \in 1 .. Depth(t)
  BY <1>2
<1>4. \A u \in Thread : u = t
  BY DEF OneImporter
<1> HIDE DEF r, f
<1>5. \A k \in 1 .. Depth(t) : m \in Reach(stack[t][k].name)
  <2> SUFFICES ASSUME NEW k \in 1 .. Depth(t) PROVE m \in Reach(stack[t][k].name)
    OBVIOUS
  <2>1. m \in Imports(Top(t).name) /\ Top(t).name \in Module
    BY <1>2, <1>3 DEF Imports
  <2>2. m \in Reach(Top(t).name)
    BY <2>1, ReachFacts
  <2>3. k = Depth(t) \/ Top(t).name \in Reach(stack[t][k].name)
    BY <1>2, <1>3 DEF CauseInv
  <2>4. QED BY <1>2, <2>1, <2>2, <2>3, ReachFacts
<1>6. \A k, l \in 1 .. Depth(t) + 1 : k < l => r[l].name \in Reach(r[k].name)
  <2> SUFFICES ASSUME NEW k \in 1 .. Depth(t) + 1, NEW l \in 1 .. Depth(t) + 1, k < l
               PROVE  r[l].name \in Reach(r[k].name)
    OBVIOUS
  <2>1. k \in 1 .. Depth(t) /\ r[k] = stack[t][k]
    BY <1>1, <1>3
  <2>2. CASE l = Depth(t) + 1
    BY <1>0, <1>1, <1>5, <2>1, <2>2
  <2>3. CASE l \in 1 .. Depth(t)
    BY <1>1, <2>1, <2>3 DEF CauseInv
  <2>4. QED BY <1>3, <2>2, <2>3
<1>7. \A k \in 1 .. Depth(t) + 1 : ~ r[k].ok => Cause(r[k].name)
  BY <1>0, <1>1, <1>3 DEF CauseInv
<1>8. Depth(t)' = Depth(t) + 1 /\ stack'[t] = r
  BY <1>1 DEF Depth, r
<1>9. QED BY <1>4, <1>6, <1>7, <1>8, SameReach DEF CauseInv

\* What throws, what has no file and what is on a cycle is its own cause.
LEMMA OwnCause ==
    ASSUME NEW m, m \notin Files \/ m \in Reach(m) \/ m \in Faults \/ m \in Fatal
    PROVE  Cause(m)
BY DEF Cause

\* The steps that stay in the import: only a statement that throws makes it fail.
LEMMA StayCause ==
    ASSUME Inv, OneImporter, CauseInv, NEW t \in Thread,
           \/ Find(t) \/ Resolve(t) \/ Insert(t) \/ NotLoaded(t) \/ NotLoading(t) \/ Mark(t)
           \/ Open(t) \/ Scan(t) \/ Throw(t) \/ EndOfModule(t) \/ Unmark(t)
    PROVE  CauseInv'
<1> DEFINE g == Top(t)
<1>1. Depth(t) > 0
  BY DEF Find, Resolve, Insert, NotLoaded, NotLoading, Mark, Open, Scan, Throw, EndOfModule,
         Unmark, At
<1>2. g \in Frame /\ entries \in Entries /\ Len(entries) \in Nat
  <2>1. g \in Frame /\ entries \in Entries
    BY <1>1, TopFrame
  <2>2. QED BY <2>1 DEF Entries
<1>3. ASSUME NEW f \in Frame, Go(t, f), UNCHANGED <<body, stranded, outcome>>, f.name = g.name,
             ~ f.ok => ~ g.ok \/ g.name \in Faults
      PROVE  CauseInv'
  <2>1. ~ f.ok => ~ g.ok \/ Cause(f.name)
    BY <1>3, OwnCause
  <2>2. QED BY <1>1, <1>3, <2>1, GoCause
<1>4. CASE \/ Find(t) \/ Insert(t)
  <2>1. PICK i \in Nat : Go(t, [g EXCEPT !.pc = "loaded?", !.entry = i])
    <3>1. CASE Find(t)
      <4>1. PICK i \in Cached(g.name) : Go(t, [g EXCEPT !.pc = "loaded?", !.entry = i])
        BY <3>1 DEF Find
      <4>2. i \in Nat
        BY <1>2 DEF Cached, Entries
      <4>3. QED BY <4>1, <4>2
    <3>2. CASE Insert(t)
      <4>1. Len(entries) + 1 \in Nat
        BY <1>2
      <4>2. QED BY <3>2, <4>1 DEF Insert
    <3>3. QED BY <1>4, <3>1, <3>2
  <2> DEFINE f == [g EXCEPT !.pc = "loaded?", !.entry = i]
  <2>2. f \in Frame /\ f.name = g.name /\ f.ok = g.ok
    BY <1>2 DEF Frame, Points
  <2>3. Go(t, f) /\ UNCHANGED <<body, stranded, outcome>>
    BY <1>4, <2>1 DEF Find, Insert
  <2> HIDE DEF f, g
  <2>4. QED BY <1>3, <2>2, <2>3
<1>5. CASE NotLoaded(t)
  <2> DEFINE f == [g EXCEPT !.pc = "loading?", !.saved = lexer]
  <2>1. lexer \in Files \cup {None} /\ Files \subseteq Module
    BY Same, LoaderAssumption
  <2>2. f \in Frame /\ f.name = g.name /\ f.ok = g.ok
    BY <1>2, <2>1 DEF Frame, Points
  <2>3. Go(t, f) /\ UNCHANGED <<body, stranded, outcome>>
    BY <1>5 DEF NotLoaded
  <2> HIDE DEF f, g
  <2>4. QED BY <1>3, <2>2, <2>3
<1>6. CASE Throw(t)
  <2> DEFINE f == [g EXCEPT !.pc = "unmark", !.ok = FALSE]
  <2>1. f \in Frame /\ f.name = g.name
    BY <1>2 DEF Frame, Points
  <2>2. Go(t, f) /\ UNCHANGED <<body, stranded, outcome>> /\ g.name \in Faults
    BY <1>6 DEF Throw
  <2> HIDE DEF f, g
  <2>3. QED BY <1>3, <2>1, <2>2
<1>7. CASE Resolve(t) \/ NotLoading(t) \/ Mark(t) \/ Open(t) \/ Scan(t) \/ EndOfModule(t) \/ Unmark(t)
  <2>1. PICK p \in Points : Go(t, [g EXCEPT !.pc = p])
    <3>1. CASE Mark(t)
      BY <3>1 DEF Mark, Points
    <3>2. CASE Resolve(t) \/ NotLoading(t) \/ Open(t) \/ Scan(t) \/ EndOfModule(t) \/ Unmark(t)
      BY <3>2 DEF Resolve, NotLoading, Open, Scan, EndOfModule, Unmark, Points
    <3>3. QED BY <1>7, <3>1, <3>2
  <2> DEFINE f == [g EXCEPT !.pc = p]
  <2>2. f \in Frame /\ f.name = g.name /\ f.ok = g.ok
    BY <1>2 DEF Frame
  <2>3. Go(t, f) /\ UNCHANGED <<body, stranded, outcome>>
    BY <1>7, <2>1 DEF Resolve, NotLoading, Mark, Open, Scan, EndOfModule, Unmark
  <2> HIDE DEF f, g
  <2>4. QED BY <1>3, <2>2, <2>3
<1>8. QED BY <1>4, <1>5, <1>6, <1>7

\* A module that is marked as loading was dropped, or is an import below this one: it is
\* on a cycle.
LEMMA CircularCause ==
    ASSUME Inv, CacheInv, CauseInv, StrandedInv, NEW t \in Thread, Circular(t)
    PROVE  Cause(Top(t).name)
<1> DEFINE i == Top(t).entry
<1>1. Depth(t) > 0 /\ Top(t).pc = "loading?" /\ entries[i].loading
  BY DEF Circular, At, Entry
<1>2. i \in 1 .. Len(entries) /\ entries[i].name = Top(t).name /\ Depth(t) \in Nat
  BY <1>1, TopCache
<1>3. Top(t).pc \notin Marked
  BY <1>1 DEF Marked
<1>4. i \in Others(t)
  BY <1>1, <1>2, <1>3, MarkedFor
<1>5. CASE i \in stranded
  BY <1>2, <1>5 DEF StrandedInv
<1>6. CASE i \notin stranded
  <2>1. PICK k \in 1 .. Depth(t) - 1 : stack[t][k].entry = i
    BY <1>4, <1>6 DEF Others
  <2>2. k \in 1 .. Depth(t) /\ Depth(t) \in 1 .. Depth(t) /\ k < Depth(t) /\ i > 0
    BY <1>2
  <2>3. stack[t][k].name = Top(t).name
    BY <1>2, <2>1, <2>2, Below DEF FrameInv
  <2>4. Top(t).name \in Reach(Top(t).name)
    BY <2>2, <2>3 DEF CauseInv, Top
  <2>5. QED BY <2>4, OwnCause
<1>7. QED BY <1>5, <1>6

\* The modules under way when the line is dropped all lead to the one that drops it.
LEMMA ErrorCause ==
    ASSUME Inv, OneImporter, CauseInv, StrandedInv, NEW t \in Thread, ErrorExit(t)
    PROVE  CauseInv' /\ StrandedInv'
<1>1. /\ Depth(t) \in Nat /\ Depth(t) > 0 /\ stack[t] \in Seq(Frame)
      /\ \A k \in 1 .. Depth(t) : entries[stack[t][k].entry].name = stack[t][k].name
      /\ Top(t).name \in Fatal /\ stack'[t] = <<>>
  BY Dropped
<1>2. /\ UNCHANGED <<body, entries>>
      /\ stranded' = stranded \cup {stack[t][k].entry : k \in 1 .. Depth(t)}
      /\ outcome' = [outcome EXCEPT ![t] = [name |-> stack[t][1].name, ok |-> FALSE]]
  BY DEF ErrorExit
<1>3. \A k \in 1 .. Depth(t) : Cause(stack[t][k].name)
  <2> SUFFICES ASSUME NEW k \in 1 .. Depth(t) PROVE Cause(stack[t][k].name)
    OBVIOUS
  <2>1. Cause(Top(t).name) /\ Top(t) = stack[t][Depth(t)]
    BY <1>1, OwnCause DEF Top
  <2>2. CASE k = Depth(t)
    BY <2>1, <2>2
  <2>3. CASE k < Depth(t)
    <3>1. Depth(t) \in 1 .. Depth(t)
      BY <1>1
    <3>2. Top(t).name \in Reach(stack[t][k].name)
      BY <2>1, <2>3, <3>1 DEF CauseInv
    <3>3. stack[t][k].name \in Module
      BY <1>1, Below DEF Frame
    <3>4. QED BY <2>1, <3>2, <3>3, CauseCarried
  <2>4. QED BY <1>1, <2>2, <2>3
<1>4. \A m : Reach(m)' = Reach(m) /\ Cause(m)' = Cause(m)
  BY <1>2, SameReach
<1>5. \A u \in Thread : u = t
  BY DEF OneImporter
<1>6. Depth(t)' = 0 /\ 1 .. 0 = {}
  BY <1>1 DEF Depth
<1>7. Cause(outcome'[t].name)
  <2>1. outcome'[t] = [name |-> stack[t][1].name, ok |-> FALSE] /\ 1 \in 1 .. Depth(t)
    BY <1>1, <1>2 DEF Inv, VarTypes
  <2>2. QED BY <1>3, <2>1
<1>8. CauseInv'
  BY <1>4, <1>5, <1>6, <1>7 DEF CauseInv
<1>9. \A i \in stranded' : Cause(entries[i].name)
  BY <1>1, <1>2, <1>3 DEF StrandedInv
<1>10. QED BY <1>2, <1>4, <1>8, <1>9 DEF StrandedInv

\* No other step drops anything, nor gives an entry another name.
LEMMA StrandedKept ==
    ASSUME Inv, NEW t \in Thread, (\E m \in Module : Import(t, m)) \/ Load(t), ~ ErrorExit(t),
           StrandedInv
    PROVE  StrandedInv'
<1>1. UNCHANGED <<body, stranded>>
  BY DEF Load, Import, Find, Resolve, NotFound, Insert, AlreadyLoaded, NotLoaded, Circular, NotLoading,
         Mark, Unreadable, Open, Scan, RunImport, Throw, EndOfModule, Unmark, Leave
<1>2. entries \in Entries /\ stranded \subseteq 1 .. Len(entries)
  BY DEF Inv, VarTypes
<1>3. ASSUME NEW i \in stranded PROVE entries'[i].name = entries[i].name
  <2>1. CASE Insert(t)
    <3>1. entries' = Append(entries, NewEntry(Top(t).name))
      BY <2>1 DEF Insert
    <3>2. QED BY <1>2, <3>1 DEF Entries
  <2>2. CASE Mark(t) \/ Unreadable(t) \/ Scan(t) \/ Unmark(t) \/ Leave(t)
    <3>1. PICK g : /\ entries' = [entries EXCEPT ![Top(t).entry] = g]
                   /\ g.name = entries[Top(t).entry].name
      <4>1. ASSUME NEW j \in 1 .. Len(entries)
            PROVE  /\ [entries[j] EXCEPT !.loading = TRUE].name = entries[j].name
                   /\ [entries[j] EXCEPT !.loading = FALSE].name = entries[j].name
                   /\ [entries[j] EXCEPT !.parsed = lexer].name = entries[j].name
                   /\ [entries[j] EXCEPT !.loaded = @ \/ Top(t).ok].name = entries[j].name
        <5> DEFINE E == [name : Files, loaded : BOOLEAN, loading : BOOLEAN, parsed : Files \cup {None}]
        <5>1. entries \in Seq(E)
          BY <1>2 DEF Entries
        <5> HIDE DEF E
        <5>2. entries[j] \in E
          BY <5>1
        <5>3. QED BY <5>2 DEF E
      <4>2. Top(t).entry \in 1 .. Len(entries)
        <5>1. Depth(t) > 0 /\ Top(t).pc \in {"mark", "open", "scan", "unmark", "leave"}
          BY <2>2 DEF Mark, Unreadable, Scan, Unmark, Leave, At
        <5>2. /\ Top(t) \in Frame /\ FrameInv(entries, body, done, Top(t))
              /\ Top(t).entry > 0 => Top(t).entry \in 1 .. Len(entries)
          BY <5>1, TopFrame
        <5>3. QED BY <5>1, <5>2 DEF FrameInv, Frame
      <4>3. CASE Mark(t)
        BY <4>1, <4>2, <4>3 DEF Mark
      <4>4. CASE Unreadable(t)
        BY <4>1, <4>2, <4>4 DEF Unreadable
      <4>5. CASE Scan(t)
        BY <4>1, <4>2, <4>5 DEF Scan
      <4>6. CASE Unmark(t)
        BY <4>1, <4>2, <4>6 DEF Unmark
      <4>7. CASE Leave(t)
        BY <4>1, <4>2, <4>7 DEF Leave
      <4>8. QED BY <2>2, <4>3, <4>4, <4>5, <4>6, <4>7
    <3>2. i \in 1 .. Len(entries)
      BY <1>2
    <3>3. QED BY <1>2, <3>1, <3>2 DEF Entries
  <2>3. CASE UNCHANGED entries
    BY <2>3
  <2>4. Insert(t) \/ Mark(t) \/ Unreadable(t) \/ Scan(t) \/ Unmark(t) \/ Leave(t) \/ UNCHANGED entries
    BY DEF Load, Import, Find, Resolve, NotFound, AlreadyLoaded, NotLoaded, Circular, NotLoading,
           Open, RunImport, Throw, EndOfModule
  <2>5. QED BY <2>1, <2>2, <2>3, <2>4
<1>4. \A m : Cause(m)' = Cause(m)
  BY <1>1, SameReach
<1>5. QED BY <1>1, <1>3, <1>4 DEF StrandedInv

\* The steps that end an import.
LEMMA EndCause ==
    ASSUME Inv, OneImporter, CacheInv, CauseInv, StrandedInv, NEW t \in Thread,
           \/ NotFound(t) \/ AlreadyLoaded(t) \/ Circular(t) \/ Unreadable(t) \/ Leave(t)
    PROVE  CauseInv'
<1>1. Depth(t) > 0
  BY DEF NotFound, AlreadyLoaded, Circular, Unreadable, Leave, At
<1>2. CASE NotFound(t)
  <2>1. Return(t, FALSE) /\ UNCHANGED <<body, stranded>> /\ Top(t).name \notin Files
    BY <1>2 DEF NotFound
  <2>2. QED BY <1>1, <2>1, OwnCause, ReturnCause
<1>3. CASE AlreadyLoaded(t)
  <2>1. Return(t, TRUE) /\ UNCHANGED <<body, stranded>>
    BY <1>3 DEF AlreadyLoaded
  <2>2. QED BY <1>1, <2>1, ReturnCause
<1>4. CASE Circular(t)
  <2>1. Return(t, FALSE) /\ UNCHANGED <<body, stranded>>
    BY <1>4 DEF Circular
  <2>2. QED BY <1>1, <1>4, <2>1, CircularCause, ReturnCause
<1>5. CASE Unreadable(t)
  <2>1. Return(t, FALSE) /\ UNCHANGED <<body, stranded>> /\ Top(t).name \in Faults
    BY <1>5 DEF Unreadable
  <2>2. QED BY <1>1, <2>1, OwnCause, ReturnCause
<1>6. CASE Leave(t)
  <2> DEFINE ok == Top(t).ok
  <2>1. Return(t, ok) /\ UNCHANGED <<body, stranded>>
    BY <1>6 DEF Leave
  <2>2. ok \in BOOLEAN /\ Depth(t) \in 1 .. Depth(t)
    BY <1>1, TopFrame DEF Frame
  <2>3. ~ ok => Cause(Top(t).name)
    BY <2>2 DEF CauseInv, Top
  <2> HIDE DEF ok
  <2>4. QED BY <1>1, <2>1, <2>2, <2>3, ReturnCause
<1>7. QED BY <1>2, <1>3, <1>4, <1>5, <1>6

LEMMA InitCause == Init => CauseInv /\ StrandedInv
  BY DEF Init, CauseInv, StrandedInv, Depth

LEMMA NextCause ==
    OneImporter /\ Inv /\ CacheInv /\ CauseInv /\ StrandedInv /\ [Next]_vars => CauseInv' /\ StrandedInv'
<1> SUFFICES ASSUME OneImporter, Inv, CacheInv, CauseInv, StrandedInv, [Next]_vars
             PROVE  CauseInv' /\ StrandedInv'
  OBVIOUS
<1>1. CASE UNCHANGED vars
  BY <1>1, SameReach DEF vars, CauseInv, StrandedInv, Depth
<1>2. CASE Next
  <2>1. PICK t \in Thread : (\E m \in Module : Import(t, m)) \/ Load(t)
    BY <1>2 DEF Next
  <2>2. (\E m \in Module : Import(t, m)) \/ RunImport(t) => CauseInv'
    BY BeginCause
  <2>3. (\/ Find(t) \/ Resolve(t) \/ Insert(t) \/ NotLoaded(t) \/ NotLoading(t) \/ Mark(t)
             \/ Open(t) \/ Scan(t) \/ Throw(t) \/ EndOfModule(t) \/ Unmark(t)) => CauseInv'
    BY StayCause
  <2>4. NotFound(t) \/ AlreadyLoaded(t) \/ Circular(t) \/ Unreadable(t) \/ Leave(t) => CauseInv'
    BY EndCause
  <2>5. CASE ErrorExit(t)
    BY <2>5, ErrorCause
  <2>6. ~ ErrorExit(t) => StrandedInv'
    BY <2>1, StrandedKept
  <2>7. ErrorExit(t) \/ CauseInv'
    BY <2>1, <2>2, <2>3, <2>4 DEF Load
  <2>8. QED BY <2>5, <2>6, <2>7
<1>3. QED BY <1>1, <1>2

-----------------------------------------------------------------------------
(* The theorems.                                                             *)

\* All the invariants, of every program in which one thread imports.
LEMMA Effects == OneImporter => (Spec => [](Inv /\ CacheInv /\ CauseInv /\ StrandedInv))
<1> SUFFICES ASSUME OneImporter PROVE Spec => [](Inv /\ CacheInv /\ CauseInv /\ StrandedInv)
  OBVIOUS
<1>1. Init => Inv /\ CacheInv /\ CauseInv /\ StrandedInv
  BY InitInv, InitCache, InitCause
<1>2. Inv /\ CacheInv /\ CauseInv /\ StrandedInv /\ [Next]_vars => (Inv /\ CacheInv /\ CauseInv /\ StrandedInv)'
  BY NextInv, NextCache, NextCause
<1>3. QED BY <1>1, <1>2, PTL DEF Spec

\* Where one thread imports: is_loading is set for a module exactly while execute_module
\* runs it, or when the REPL dropped it meanwhile: no import that ends in another way leaves
\* a mark for which a later one is refused.
THEOREM MarksMatchStack == OneImporter => (Spec => []LoadingIsOnStack)
<1> SUFFICES ASSUME OneImporter PROVE Spec => []LoadingIsOnStack
  OBVIOUS
<1>1. Inv /\ CacheInv /\ CauseInv /\ StrandedInv => LoadingIsOnStack
  BY CacheProperties
<1>2. QED BY Effects, <1>1, PTL

\* Where one thread imports: execute_module runs no module to its end twice, however the
\* imports of a program are nested, repeated and caught.
THEOREM RunsOnce == OneImporter => (Spec => []LoadedOnce)
<1> SUFFICES ASSUME OneImporter PROVE Spec => []LoadedOnce
  OBVIOUS
<1>1. Inv /\ CacheInv /\ CauseInv /\ StrandedInv => LoadedOnce
  BY CacheProperties
<1>2. QED BY Effects, <1>1, PTL

\* Where one thread imports: after an import statement of the program, failed or not, the
\* lexer and the parser are back where that statement left them.
THEOREM LexerComesBack == OneImporter => (Spec => []LexerRestored)
<1> SUFFICES ASSUME OneImporter PROVE Spec => []LexerRestored
  OBVIOUS
<1>1. Inv /\ CacheInv /\ CauseInv /\ StrandedInv => LexerRestored
  BY CacheProperties
<1>2. QED BY Effects, <1>1, PTL

\* Where one thread imports: an import fails only for a module that leads to a cycle, to a
\* name without a file, to one that throws, or to one that may drop the line; what earlier
\* imports left behind, marks of dropped ones included, makes no others fail.
THEOREM FailuresAreCaused == OneImporter => (Spec => []FailureHasCause)
<1> SUFFICES ASSUME OneImporter PROVE Spec => []FailureHasCause
  OBVIOUS
<1>1. Inv /\ CacheInv /\ CauseInv /\ StrandedInv => FailureHasCause
  BY DEF CauseInv, Cause, FailureHasCause
<1>2. QED BY Effects, <1>1, PTL

-----------------------------------------------------------------------------
(* How deep imports go.                                                      *)

\* Of the frames of a stack those up to k are of different modules, all with a file,
\* when each of them executes statements.
LEMMA Different ==
    ASSUME Inv, CacheInv, NEW t \in Thread, NEW k \in 0 .. Depth(t),
           \A i \in 1 .. k : stack[t][i].pc = "run", IsFiniteSet(Files)
    PROVE  k <= Cardinality(Files)
<1> DEFINE f == [i \in 1 .. k |-> stack[t][i].name]
<1>1. Depth(t) \in Nat /\ Depth(t) = Len(stack[t]) /\ k \in Nat
  BY Below
<1>2. ASSUME NEW i \in 1 .. k
      PROVE  /\ i \in 1 .. Depth(t) /\ i \in 1 .. Len(stack[t]) /\ stack[t][i].pc = "run"
             /\ stack[t][i].entry \in 1 .. Len(entries)
             /\ entries[stack[t][i].entry].name = stack[t][i].name
  <2>1. i \in 1 .. Depth(t) /\ i \in 1 .. Len(stack[t])
    BY <1>1
  <2>2. stack[t][i] \in Frame /\ FrameInv(entries, body, done, stack[t][i])
    BY <2>1, Below
  <2>3. stack[t][i].entry \in Nat /\ stack[t][i].pc = "run"
    BY <2>2 DEF Frame
  <2>4. Len(entries) \in Nat
    BY DEF Inv, VarTypes, Entries
  <2>5. QED BY <2>1, <2>2, <2>3, <2>4 DEF FrameInv
<1>3. ASSUME NEW i \in 1 .. k PROVE stack[t][i].name \in Files
  <2>1. \A j \in 1 .. Len(entries) : entries[j].name \in Files
    <3> DEFINE E == [name : Files, loaded : BOOLEAN, loading : BOOLEAN,
                     parsed : Files \cup {None}]
    <3>1. entries \in Seq(E)
      BY DEF Inv, VarTypes, Entries
    <3>2. \A e \in E : e.name \in Files
      OBVIOUS
    <3> HIDE DEF E
    <3>3. \A j \in 1 .. Len(entries) : entries[j] \in E
      BY <3>1
    <3>4. QED BY <3>2, <3>3
  <2>2. QED BY <1>2, <2>1
<1>4. ASSUME NEW i \in 1 .. k, NEW j \in 1 .. k, i < j
      PROVE  stack[t][i].name # stack[t][j].name
  <2>1. stack[t][i].entry # stack[t][j].entry
    <3>1. Apart(stranded, stack[t])
      BY DEF CacheInv, StackOK
    <3>2. stack[t][j].pc \in Active
      BY <1>2 DEF Active, Marked
    <3>3. i \in 1 .. Len(stack[t]) /\ j \in 1 .. Len(stack[t])
      BY <1>2
    <3>4. QED BY <1>4, <3>1, <3>2, <3>3 DEF Apart
  <2>2. OneEntry(entries)
    BY DEF CacheInv
  <2>3. /\ stack[t][i].entry \in 1 .. Len(entries) /\ stack[t][j].entry \in 1 .. Len(entries)
        /\ entries[stack[t][i].entry].name = stack[t][i].name
        /\ entries[stack[t][j].entry].name = stack[t][j].name
    BY <1>2
  <2>4. QED BY <2>1, <2>2, <2>3 DEF OneEntry
<1>5. f \in Injection(1 .. k, Files)
  <2>1. f \in [1 .. k -> Files]
    BY <1>3
  <2>2. ASSUME NEW i \in 1 .. k, NEW j \in 1 .. k, f[i] = f[j] PROVE i = j
    <3>1. f[i] = stack[t][i].name /\ f[j] = stack[t][j].name
      OBVIOUS
    <3>2. ~ (i < j) /\ ~ (j < i)
      BY <1>4, <2>2, <3>1
    <3>3. QED BY <3>2, <1>1
  <2> HIDE DEF f
  <2>3. QED BY <2>1, <2>2 DEF Injection, IsInjective
<1> HIDE DEF f
<1>6. Cardinality(1 .. k) <= Cardinality(Files)
  BY <1>5, FS_Injection
<1>7. Cardinality(1 .. k) = k
  BY <1>1, FS_Interval
<1>8. QED BY <1>6, <1>7

\* load_module is inside itself at most once more than there are files: the C stack an
\* import needs has a bound, and so has the stack of the model.
DepthBounded == \A t \in Thread :
    /\ Depth(t) <= Cardinality(Files) + 1
    /\ At(t, "run") => Depth(t) <= Cardinality(Files)

\* Where one thread imports: no chain of imports, cyclic or not, is deeper than the files
\* there are and one (execute_module, src/src/module.c:226).
THEOREM NestingIsBounded ==
    OneImporter /\ IsFiniteSet(Files) => (Spec => []DepthBounded)
<1> SUFFICES ASSUME OneImporter, IsFiniteSet(Files) PROVE Spec => []DepthBounded
  OBVIOUS
<1>1. ASSUME Inv, CacheInv, NEW t \in Thread
      PROVE  /\ Depth(t) <= Cardinality(Files) + 1
             /\ At(t, "run") => Depth(t) <= Cardinality(Files)
  <2>1. Depth(t) \in Nat /\ Cardinality(Files) \in Nat
    BY <1>1, Below, FS_CardinalityType
  <2>2. \A i \in 1 .. Depth(t) - 1 : stack[t][i].pc = "run"
    BY <1>1, Below
  <2>3. CASE Depth(t) = 0
    BY <2>1, <2>3
  <2>4. CASE Depth(t) > 0
    <3>1. Depth(t) - 1 \in 0 .. Depth(t) /\ Depth(t) \in 0 .. Depth(t)
      BY <2>1, <2>4
    <3>2. Depth(t) - 1 <= Cardinality(Files)
      BY <1>1, <2>2, <3>1, Different
    <3>3. ASSUME At(t, "run") PROVE Depth(t) <= Cardinality(Files)
      <4>1. \A i \in 1 .. Depth(t) : i = Depth(t) \/ i \in 1 .. Depth(t) - 1
        BY <2>1
      <4>2. \A i \in 1 .. Depth(t) : stack[t][i].pc = "run"
        BY <2>2, <3>3, <4>1 DEF At, Top
      <4>3. QED BY <1>1, <3>1, <4>2, Different
    <3>4. QED BY <2>1, <3>2, <3>3
  <2>5. QED BY <2>1, <2>3, <2>4
<1>2. Inv /\ CacheInv /\ CauseInv /\ StrandedInv => DepthBounded
  BY <1>1 DEF DepthBounded
<1>3. QED BY Effects, <1>2, PTL

\* A MaxDepth above the number of files is never met: it forbids no import that the code
\* would go into.
THEOREM BoundIsNotMet ==
    OneImporter /\ IsFiniteSet(Files) /\ MaxDepth > Cardinality(Files)
        => (Spec => [](\A t \in Thread : At(t, "run") => Depth(t) < MaxDepth))
<1> SUFFICES ASSUME OneImporter, IsFiniteSet(Files), MaxDepth > Cardinality(Files)
             PROVE  Spec => [](\A t \in Thread : At(t, "run") => Depth(t) < MaxDepth)
  OBVIOUS
<1>1. Inv /\ DepthBounded => \A t \in Thread : At(t, "run") => Depth(t) < MaxDepth
  <2>1. Inv => \A t \in Thread : Depth(t) \in Nat
    BY Below
  <2>2. MaxDepth \in Nat /\ Cardinality(Files) \in Nat
    BY LoaderAssumption, FS_CardinalityType
  <2>3. QED BY <2>1, <2>2 DEF DepthBounded
<1>2. QED BY Effects, NestingIsBounded, <1>1, PTL

=============================================================================
