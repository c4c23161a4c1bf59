----------------------------- MODULE Ownership -----------------------------
(***************************************************************************)
(* The ownership checker (src/safety.c), "sage safety" and                 *)
(* "sage --strict-safety": one walk over the program, in the order of its  *)
(* text, that marks the variables whose value was moved and reports their  *)
(* later use.  What it knows on the way is OwnershipContext.               *)
(*                                                                         *)
(* Once it is checked the program runs, along any path through its         *)
(* branches, loops and exceptions, over variables that know only whether   *)
(* their value was moved: this is what the checker's verdict is about.     *)
(* Its scopes are those of the checker, blocks and branches included, for  *)
(* which the interpreter opens none: see OwnershipWalk.                    *)
(***************************************************************************)
EXTENDS Ast, OwnershipContext

CONSTANTS
  Programs, \* a set of programs: sequences of statements
  MaxTurns  \* how often a run goes round a loop

VARIABLES
  program, \* the program
  pc,      \* the top-level statement the checker is at
  ctx,     \* the context of the checker
  todo,    \* what is left to run: statements and events
  owned,   \* the scopes of the run, innermost first: name :> [moved, copy]
  misused  \* whether the run used or moved a value that was gone
vars == <<program, pc, ctx, todo, owned, misused>>

(***************************************************************************)
(* The walk over expressions.  The text between the braces of a string,    *)
(* "?", "!", "??", "?.", ranges and comptime expressions are not looked    *)
(* into.                                                                   *)
(***************************************************************************)
RECURSIVE AnalyzeExpr(_, _)
AnalyzeExprs(es, c) == FoldLeft(LAMBDA acc, e : AnalyzeExpr(e, acc), c, es)
AnalyzeExpr(e, c) ==
  CASE e.k = "var"      -> CheckUse(c, e.name)
    [] e.k = "bin"      -> AnalyzeExprs(<<e.l, e.r>>, c)
    [] e.k = "call"     -> FoldLeft(LAMBDA acc, a : PassOn(AnalyzeExpr(a, acc), a), AnalyzeExpr(e.f, c), e.es)
    [] e.k = "index"    -> AnalyzeExprs(<<e.x, e.i>>, c)
    [] e.k = "indexset" -> AnalyzeExprs(<<e.x, e.i, e.e>>, c)
    [] e.k = "get"      -> AnalyzeExpr(e.x, c)
    [] e.k = "set"      -> PassOn(AnalyzeExprs(<<e.x, e.e>>, c), e.e)
    [] e.k \in {"array", "dict", "tuple"} -> AnalyzeExprs(e.es, c)
    [] e.k = "slice"    -> AnalyzeExprs(<<e.x, e.lo, e.hi>>, c)
    [] e.k = "await"    -> AnalyzeExpr(e.e, c)
    [] OTHER            -> c

(***************************************************************************)
(* The walk over statements.  A statement with a type has a field "type",  *)
(* a procedure documented as @safe a field "safe".                         *)
(***************************************************************************)
CopyTypes   == {"Int", "Float", "Bool", "String", "Num"}
IsTyped(s, types) == "type" \in DOMAIN s /\ s.type \in types
AnalyzeLet(s, c) ==
  LET declared == Declare(c, s.name, "uninit", IsTyped(s, CopyTypes))
  IN  IF s.e = NoExpr THEN declared
      ELSE FinishLet(AnalyzeExpr(s.e, NilInSafe(declared, s.e)), s.e, IsTyped(s, CopyTypes))

DeclareParam(c, p) == Declare(c, p.name, "owned", p.type = "ref" \/ p.type \in CopyTypes)

RECURSIVE AnalyzeStmt(_, _)
AnalyzeList(ss, c) == FoldLeft(LAMBDA acc, s : AnalyzeStmt(s, acc), c, ss)
\* Mutant of Scoped: what a branch moved is forgotten at its end.
BranchForgets(s, c) ==
  IF s = NoStmt THEN c ELSE [c EXCEPT !.diags = AnalyzeStmt(s, PushScope(c, FALSE)).diags]
\* A statement in a scope of its own.
Scoped(s, c) == IF s = NoStmt THEN c ELSE PopScope(AnalyzeStmt(s, PushScope(c, FALSE)))
AnalyzeFor(s, c) ==
  PopScope(AnalyzeStmt(s.s, Declare(PushScope(AnalyzeExpr(s.e, c), FALSE), s.name, "owned", TRUE)))
AnalyzeProc(s, c) ==
  PopScope(AnalyzeStmt(s.s, FoldLeft(DeclareParam, PushScope(c, "safe" \in DOMAIN s), s.ps)))
\* The variable of a catch clause is declared and never initialized.
AnalyzeCatch(cc, c) == PopScope(AnalyzeStmt(cc.s, Declare(PushScope(c, FALSE), cc.name, "uninit", FALSE)))
AnalyzeTry(s, c) ==
  Scoped(s.fin, FoldLeft(LAMBDA acc, cc : AnalyzeCatch(cc, acc), Scoped(s.s, c), s.catches))
AnalyzeCase(cc, c)  == PopScope(AnalyzeStmt(cc.s, AnalyzeExpr(cc.c, PushScope(c, FALSE))))
AnalyzeMatch(s, c) ==
  Scoped(s.s, FoldLeft(LAMBDA acc, cc : AnalyzeCase(cc, acc), AnalyzeExpr(s.e, c), s.cases))

AnalyzeStmt(s, c) ==
  CASE s.k = "let"   -> AnalyzeLet(s, c)
    [] s.k \in {"expr", "print", "return", "raise", "yield"} -> AnalyzeExpr(s.e, c)
    [] s.k = "if"    -> Scoped(s.alt, Scoped(s.s, AnalyzeExpr(s.c, c)))
    [] s.k = "while" -> Scoped(s.s, AnalyzeExpr(s.c, c))
    [] s.k = "for"   -> AnalyzeFor(s, c)
    [] s.k = "block" -> PopScope(AnalyzeList(s.ss, PushScope(c, FALSE)))
    [] s.k \in {"proc", "async"} -> AnalyzeProc(s, c)
    [] s.k = "class" -> AnalyzeList(s.ss, c)
    [] s.k = "try"   -> AnalyzeTry(s, c)
    [] s.k = "defer" -> AnalyzeStmt(s.s, c)
    [] s.k = "match" -> AnalyzeMatch(s, c)
    [] OTHER         -> c

(***************************************************************************)
(* A run.  An expression evaluates its operands from left to right; the    *)
(* right one of "and" and "or" may not be reached.                         *)
(***************************************************************************)
Use(name)  == [k |-> "use", name |-> name]
Move(e)    == IF e.k = "var" THEN <<[k |-> "move", name |-> e.name]>> ELSE << >>
Bind(name, copy) == [k |-> "bind", name |-> name, copy |-> copy]
Restore(e) == IF e.x = NoExpr THEN <<[k |-> "restore", name |-> e.name]>> ELSE << >>
Enter == [k |-> "enter"]
Leave == [k |-> "leave"]
Within(items) == <<Enter>> \o items \o <<Leave>>

RECURSIVE Traces(_)
Each(es) == FoldLeft(LAMBDA acc, e : {t \o u : t \in acc, u \in Traces(e)}, {<< >>}, es)
Traces(e) ==
  CASE e.k = "var" -> {<<Use(e.name)>>}
    [] e.k = "bin" -> Each(<<e.l, e.r>>) \cup (IF e.op \in {"and", "or"} THEN Traces(e.l) ELSE {})
    [] e.k = "call" -> FoldLeft(LAMBDA acc, a : {t \o u \o Move(a) : t \in acc, u \in Traces(a)}, Traces(e.f), e.es)
    [] e.k \in {"array", "tuple"} -> Each(e.es)
    [] e.k = "index" -> Each(<<e.x, e.i>>)
    [] e.k = "set" -> {t \o Move(e.e) \o Restore(e) : t \in Each(<<e.x, e.e>>)}
    [] e.k = "interp" -> Each([i \in DOMAIN e.parts |-> e.parts[i].e])
    [] OTHER -> {<< >>}

\* A block runs its deferred statements at its end, the last one first.
IsDefer(s) == s.k = "defer"
BlockItems(ss) ==
  LET deferred == SelectSeq(ss, IsDefer)
  IN  SelectSeq(ss, LAMBDA s : ~IsDefer(s)) \o Reverse([i \in DOMAIN deferred |-> deferred[i].s])
Optional(s) == IF s = NoStmt THEN << >> ELSE <<s>>
Turn(s, n)  == [k |-> "turn", s |-> s, n |-> n]
\* The body of a try runs to its end, or some of its statements do and a
\* catch clause runs.
TryItems(s) ==
  LET ss == s.s.ss
  IN  {Within(ss) \o Optional(s.fin)}
        \cup {Within(SubSeq(ss, 1, n)) \o Within(<<Bind(cc.name, FALSE), cc.s>>) \o Optional(s.fin) :
                n \in 0..Len(ss), cc \in Range(s.catches)}

Unfold(s) ==
  CASE s.k = "let" ->
         {t \o (IF IsTyped(s, CopyTypes) THEN << >> ELSE Move(s.e))
            \o <<Bind(s.name, IsTyped(s, CopyTypes) \/ IsCopyLiteral(s.e))>> : t \in Traces(s.e)}
    [] s.k \in {"expr", "print", "return"} -> Traces(s.e)
    [] s.k = "if"   -> {t \o b : t \in Traces(s.c), b \in {Optional(s.s), Optional(s.alt)}}
    [] s.k = "while" -> {<<Turn(s, 1)>>}
    [] s.k = "for"   -> {t \o <<Turn(s, 1)>> : t \in Traces(s.e)}
    [] s.k = "turn" /\ s.s.k = "while" ->
         Traces(s.s.c) \cup {t \o <<s.s.s, Turn(s.s, s.n + 1)>> : t \in IF s.n <= MaxTurns THEN Traces(s.s.c) ELSE {}}
    [] s.k = "turn" /\ s.s.k = "for" ->
         {<< >>} \cup (IF s.n <= MaxTurns THEN {Within(<<Bind(s.s.name, TRUE), s.s.s>>) \o <<Turn(s.s, s.n + 1)>>} ELSE {})
    [] s.k = "block" -> {Within(BlockItems(s.ss))}
    [] s.k = "try"   -> TryItems(s)
    [] OTHER -> {<< >>}

Holders(name) == {i \in DOMAIN owned : name \in DOMAIN owned[i]}
Holder(name)  == IF Holders(name) = {} THEN 0 ELSE Min(Holders(name))
Value(name)  == owned[Holder(name)][name]
SetMoved(name, b) == [owned EXCEPT ![Holder(name)][name].moved = b]

(***************************************************************************)
(* The specification.                                                      *)
(***************************************************************************)
Init == /\ program \in Programs
        /\ pc = 1
        /\ ctx = NewContext
        /\ todo = program
        /\ owned = <<<< >>>>
        /\ misused = FALSE

Analyze == /\ pc <= Len(program)
           /\ ctx' = AnalyzeStmt(program[pc], ctx)
           /\ pc' = pc + 1
           /\ UNCHANGED <<program, todo, owned, misused>>

Checked  == pc > Len(program)
Accepted == Checked /\ ctx.diags = << >>
Item(kinds) == Checked /\ todo # << >> /\ Head(todo).k \in kinds
Events == {"use", "move", "bind", "restore", "enter", "leave"}

Advance(own, bad) == /\ owned' = own
                       /\ misused' = (misused \/ bad)
                       /\ todo' = Tail(todo)
                       /\ UNCHANGED <<program, pc, ctx>>
ItemName == Head(todo).name
OnName(kind) == Item({kind}) /\ Holder(ItemName) # 0

RunUse   == OnName("use") /\ Advance(owned, Value(ItemName).moved)
RunMove  == OnName("move") /\ ~Value(ItemName).copy /\ Advance(SetMoved(ItemName, TRUE), Value(ItemName).moved)
RunCopy  == OnName("move") /\ Value(ItemName).copy /\ Advance(owned, FALSE)
RunSet   == OnName("restore") /\ Advance(SetMoved(ItemName, FALSE), FALSE)
\* A name the program does not bind is the interpreter's business.
RunOther == /\ Item({"use", "move", "restore"}) /\ Holder(ItemName) = 0
            /\ Advance(owned, FALSE)
RunBind  == /\ Item({"bind"})
            /\ Advance([owned EXCEPT ![1] = (ItemName :> [moved |-> FALSE, copy |-> Head(todo).copy]) @@ @], FALSE)
RunEnter == Item({"enter"}) /\ Advance(<<<< >>>> \o owned, FALSE)
RunLeave == Item({"leave"}) /\ Advance(Tail(owned), FALSE)
RunStmt  == /\ Checked /\ todo # << >> /\ Head(todo).k \notin Events
            /\ \E items \in Unfold(Head(todo)) : todo' = items \o Tail(todo)
            /\ UNCHANGED <<program, pc, ctx, owned, misused>>

Next == \/ Analyze
        \/ RunUse \/ RunMove \/ RunCopy \/ RunSet \/ RunOther \/ RunBind
        \/ RunEnter \/ RunLeave \/ RunStmt
Spec == Init /\ [][Next]_vars

(***************************************************************************)
(* Properties.                                                             *)
(***************************************************************************)
\* A program that the strict checker accepts never uses or moves a value
\* that was moved before, whatever way it takes through its branches,
\* exceptions and shadowing scopes (safety_check_use, safety_check_move).
AcceptedIsSafe == Accepted => ~misused

\* In a program without branches, loops, exceptions and assignments the
\* checker reports a move error only when the program makes one: a name that
\* was moved in a scope of its own does not taint another of that name.
RECURSIVE IsStraight(_)
IsStraight(s) == CASE s.k = "block" -> \A i \in DOMAIN s.ss : IsStraight(s.ss[i])
                   [] s.k = "let" -> s.e \notin {NoExpr, NilE, Var(s.name)}
                   [] s.k = "print" -> s.e.k # "bin" \/ s.e.op # "and"
                   [] s.k = "expr" -> s.e.k = "call"
                   [] OTHER -> FALSE
AlarmsAreReal ==
  (Checked /\ ctx.diags # << >> /\ todo = << >> /\ \A i \in DOMAIN program : IsStraight(program[i])) => misused
=============================================================================
