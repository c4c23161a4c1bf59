------------------------------- MODULE Passes -------------------------------
(***************************************************************************)
(* The passes over the syntax tree that run before code is generated       *)
(* (pass.c, typecheck.c, constfold.c, dce.c, inline.c), statement by       *)
(* statement of the program.  The ownership checker, which runs after the  *)
(* type checker and changes nothing, has a module of its own.              *)
(*                                                                         *)
(* Numbers are integers, which no pass folds: only the literals of floats  *)
(* are, and those are left out.  What a program means is what the          *)
(* interpreter prints.  Memory that is read after it was freed, or before  *)
(* it was written, is the node Freed, or Garbage.                          *)
(***************************************************************************)
EXTENDS Interp

CONSTANT Programs \* a set of programs: sequences of statements

VARIABLES
  level,  \* opt_level
  before, \* the program as the pass at hand found it
  code,   \* the program as it is now
  todo,   \* the passes to run, the one at hand first
  pc,     \* the statement the pass is at
  types,  \* TypeEnv: the kind of each name, in one scope for all
  warned, \* the annotated names of which a mismatch was reported
  used,   \* NameSet
  cands,  \* InlineCandidate, the last one found first
  stale   \* whether a return expression that was freed has been read
vars == <<level, before, code, todo, pc, types, warned, used, cands, stale>>

Freed   == [k |-> "freed"]
Garbage == [k |-> "garbage"]

(***************************************************************************)
(* The part of a tree that every pass walks over.  The others, among them  *)
(* interpolated strings, "??", "?.", "!", "?", ranges, async procedures,   *)
(* annotated blocks and guards, are not looked into.                       *)
(***************************************************************************)
Walked == ("bin" :> {"l", "r"}) @@ ("call" :> {"f"}) @@ ("index" :> {"x", "i"}) @@ ("indexset" :> {"x", "i", "e"})
            @@ ("slice" :> {"x", "lo", "hi"}) @@ ("get" :> {"x"}) @@ ("set" :> {"x", "e"})
            @@ [k \in {"array", "dict", "tuple"} |-> {}]
Literals == {"noexpr", "int", "str", "bool", "nil"}
ListOf(e)  == IF e.k \in {"call", "array", "dict", "tuple"} THEN e.es ELSE << >>
Kids(e)    == IF e.k \in DOMAIN Walked THEN {e[x] : x \in Walked[e.k]} \cup Range(ListOf(e)) ELSE {}
MapExpr(e, F(_)) ==
  IF e.k \notin DOMAIN Walked THEN e
  ELSE [x \in DOMAIN e |-> CASE x \in Walked[e.k] -> F(e[x])
                             [] x = "es" -> [i \in DOMAIN e.es |-> F(e.es[i])]
                             [] OTHER -> e[x]]

ExprFields(k) == CASE k \in {"print", "expr", "let", "return", "raise", "yield", "for", "match"} -> {"e"}
                   [] k \in {"if", "while"} -> {"c"}
                   [] OTHER -> {}
StmtFields(k) == CASE k \in {"while", "for", "proc", "match"} -> {"s"}
                   [] k = "if"  -> {"s", "alt"}
                   [] k = "try" -> {"s", "fin"}
                   [] OTHER -> {}
MapStmt(s, F(_), G(_)) ==
  [x \in DOMAIN s |->
     CASE x \in ExprFields(s.k) -> F(s[x])
       [] x \in StmtFields(s.k) -> G(s[x])
       [] x = "ss" /\ s.k \in {"block", "class"} -> [i \in DOMAIN s.ss |-> G(s.ss[i])]
       [] x = "cases"   -> [i \in DOMAIN s.cases |-> [s.cases[i] EXCEPT !.p = F(@), !.s = G(@)]]
       [] x = "catches" -> [i \in DOMAIN s.catches |-> [s.catches[i] EXCEPT !.s = G(@)]]
       [] OTHER -> s[x]]
Parts(s) == {s[x] : x \in StmtFields(s.k)}
              \cup (IF s.k \in {"block", "class"} THEN Range(s.ss) ELSE {})
              \cup (IF s.k = "match" THEN {s.cases[i].s : i \in DOMAIN s.cases} ELSE {})
              \cup (IF s.k = "try" THEN {s.catches[i].s : i \in DOMAIN s.catches} ELSE {})
Exprs(s) == {s[x] : x \in ExprFields(s.k)}
              \cup (IF s.k = "match" THEN {s.cases[i].p : i \in DOMAIN s.cases} ELSE {})

(***************************************************************************)
(* The type checker: the kinds an expression may be given, all of them for *)
(* one whose result is not set.                                            *)
(***************************************************************************)
Kinds == {"unknown", "nil", "number", "bool", "string", "array", "dict", "tuple", "proc"}
annotation_to_kind(type) ==
  CASE type \in {"Int", "Float", "Number"} -> "number" [] type = "Bool"  -> "bool"
    [] type \in {"String", "Str"} -> "string"          [] type = "Array" -> "array"
    [] type = "Dict" -> "dict"   [] type = "Tuple" -> "tuple" [] type = "Nil" -> "nil"
    [] type \in {"Function", "Proc"} -> "proc"         [] OTHER -> "unknown"

\* Mutant of BinaryKind: a comparison of numbers is a number.
ComparisonIsNumber(op, l, r) ==
  CASE l = "number" /\ r = "number" -> "number"
    [] l = "string" /\ r = "string" -> IF op = "+" THEN "string" ELSE "bool"
    [] OTHER -> IF op \in {"==", "!=", "<=", ">=", "or", ".."} THEN "bool" ELSE "unknown"
BinaryKind(op, l, r) ==
  CASE l = "number" /\ r = "number" -> IF op \in {"+", "-", "*", "/", "%"} THEN "number" ELSE "bool"
    [] l = "string" /\ r = "string" -> IF op = "+" THEN "string" ELSE "bool"
    [] OTHER -> IF op \in {"==", "!=", "<=", ">=", "or", ".."} THEN "bool" ELSE "unknown"

\* The kind of a name; the last one that was set.
typeenv_get(env, name)       == IF name \in DOMAIN env THEN env[name] ELSE "unknown"
typeenv_set(env, name, kind) == (name :> kind) @@ env

RECURSIVE InferExpr(_, _)
InferExpr(env, e) ==
  CASE e.k = "int" -> {"number"}  [] e.k = "str" -> {"string"}
    [] e.k \in {"bool", "nil", "array", "dict", "tuple"} -> {e.k}
    [] e.k = "var" -> {typeenv_get(env, e.name)}
    [] e.k = "bin" -> {BinaryKind(e.op, l, r) : l \in InferExpr(env, e.l), r \in InferExpr(env, e.r)}
    [] e.k \in {"noexpr", "call", "index", "indexset", "slice", "get", "set"} -> {"unknown"}
    [] OTHER -> Kinds

Declared(s) == IF "type" \in DOMAIN s THEN annotation_to_kind(s.type) ELSE "unknown"
InferLet(m, s) ==
  {[types  |-> typeenv_set(m.types, s.name, IF Declared(s) = "unknown" THEN t ELSE Declared(s)),
    warned |-> m.warned \cup (IF {t, Declared(s)} \cap {"unknown"} = {} /\ t # Declared(s) THEN {s.name} ELSE {})] :
     t \in InferExpr(m.types, s.e)}
InferParams(m, s) ==
  [m EXCEPT !.types = typeenv_set(FoldLeft(LAMBDA env, p : typeenv_set(env, p.name, annotation_to_kind(p.type)),
                                           @, s.ps), s.name, "proc")]

RECURSIVE InferStmt(_, _)
InferList(m, ss) == FoldLeft(LAMBDA ms, s : UNION {InferStmt(n, s) : n \in ms}, {m}, ss)
InferStmt(m, s) ==
  CASE s.k = "let"  -> InferLet(m, s)
    [] s.k \in {"block", "class"} -> InferList(m, s.ss)
    [] s.k = "if"   -> InferList(m, <<s.s, s.alt>>)
    [] s.k \in {"while", "for", "defer"} -> InferStmt(m, s.s)
    [] s.k = "proc" -> InferStmt(InferParams(m, s), s.s)
    [] s.k = "match" -> InferList(m, [i \in DOMAIN s.cases |-> s.cases[i].s] \o <<s.s>>)
    [] s.k = "try"  -> InferList(m, <<s.s>> \o [i \in DOMAIN s.catches |-> s.catches[i].s] \o <<s.fin>>)
    [] OTHER        -> {m}

(***************************************************************************)
(* Constant folding.                                                       *)
(***************************************************************************)
\* Mutant of FoldLiterals: "or" is folded as "and".
OrIsAnd(e) ==
  CASE e.l.k = "str" /\ e.r.k = "str" /\ e.op = "+" -> StrE(e.l.s \o e.r.s)
    [] e.l.k = "bool" /\ e.r.k = "bool" /\ e.op \in {"and", "or"} -> BoolE(e.l.b /\ e.r.b)
    [] OTHER -> e
FoldLiterals(e) ==
  CASE e.l.k = "str" /\ e.r.k = "str" /\ e.op = "+" -> StrE(e.l.s \o e.r.s)
    [] e.l.k = "bool" /\ e.r.k = "bool" /\ e.op \in {"and", "or"} ->
         BoolE(IF e.op = "and" THEN e.l.b /\ e.r.b ELSE e.l.b \/ e.r.b)
    [] OTHER -> e
FoldNode(e) == IF e.k = "bin" THEN FoldLiterals(e) ELSE e
RECURSIVE FoldExpr(_)
FoldExpr(e) == FoldNode(MapExpr(e, FoldExpr))

\* A branch that cannot be taken goes; a loop that never runs is nil.
FoldControl(s) ==
  CASE s.k = "if" /\ s.c = BoolE(TRUE) -> Block(<<s.s>>)
    [] s.k = "if" /\ s.c = BoolE(FALSE) -> IF s.alt = NoStmt THEN ExprS(NilE) ELSE Block(<<s.alt>>)
    [] s.k = "while" /\ s.c = BoolE(FALSE) -> ExprS(NilE)
    [] OTHER -> s
RECURSIVE FoldStmt(_)
FoldStmt(s) == FoldControl(MapStmt(s, FoldExpr, FoldStmt))

(***************************************************************************)
(* Dead code elimination.                                                  *)
(***************************************************************************)
RECURSIVE UsedInExpr(_)
UsedInExpr(e) == IF e.k = "var" THEN {e.name} ELSE UNION {UsedInExpr(x) : x \in Kids(e)}
RECURSIVE UsedInStmt(_)
UsedInStmt(s) == UNION {UsedInExpr(e) : e \in Exprs(s)}
                   \cup UNION {UsedInStmt(t) : t \in Parts(s) \cup (IF s.k = "defer" THEN {s.s} ELSE {})}

RECURSIVE HasSideEffects(_)
\* Mutant of HasSideEffects: the elements of an array are not looked at.
ArraysArePure(e) ==
  CASE e.k \in {"call", "set", "await", "indexset"} -> TRUE
    [] e.k \in {"bin", "index"} -> \E x \in Kids(e) : HasSideEffects(x)
    [] OTHER -> FALSE
HasSideEffects(e) ==
  CASE e.k \in {"call", "set", "await", "indexset"} -> TRUE
    [] e.k \in {"bin", "index", "array"} -> \E x \in Kids(e) : HasSideEffects(x)
    [] OTHER -> FALSE

IsTerminator(s) == s.k \in {"return", "break", "continue"}
RemoveUnreachable(ss) ==
  LET i == SelectInSeq(ss, IsTerminator) IN IF i = 0 THEN ss ELSE SubSeq(ss, 1, i)
Kept(s, names) ==
  CASE s.k = "let"  -> s.name \in names \/ HasSideEffects(s.e)
    [] s.k = "proc" -> s.name \in names
    [] OTHER        -> TRUE
RECURSIVE DceList(_, _), DceStmt(_, _)
DceStmt(s, names) ==
  IF s.k \in {"block", "class"} THEN [s EXCEPT !.ss = DceList(@, names)]
  ELSE MapStmt(s, LAMBDA e : e, LAMBDA t : DceStmt(t, names))
DceList(ss, names) ==
  LET kept == SelectSeq(RemoveUnreachable(ss), LAMBDA s : Kept(s, names))
  IN  [i \in DOMAIN kept |-> DceStmt(kept[i], names)]

(***************************************************************************)
(* Inlining.  A candidate is [name, ps, e, at], at the statement it came   *)
(* from, which the pass works on in its turn: when it replaces the call    *)
(* that the procedure returns, it frees what the candidate points to.      *)
(***************************************************************************)
\* The expression a body that is a single return gives.
SingleReturn(s) ==
  LET ss == IF s.k = "block" THEN s.ss ELSE <<s>>
  IN  IF Len(ss) = 1 /\ ss[1].k = "return" THEN ss[1].e ELSE NoExpr
References(e, name) == name \in UsedInExpr(e)
IsCandidate(s) ==
  s.k = "proc" /\ SingleReturn(s.s) # NoExpr /\ ~References(SingleReturn(s.s), s.name)
Candidate(s, i) == [name |-> s.name, ps |-> [j \in DOMAIN s.ps |-> s.ps[j].name], e |-> SingleReturn(s.s), at |-> i]
Collect(ss) ==
  FoldLeftDomain(LAMBDA cs, i : IF IsCandidate(ss[i]) THEN <<Candidate(ss[i], i)>> \o cs ELSE cs, << >>, ss)

RECURSIVE Clone(_)
Clone(e) == CASE e.k \in Literals \cup {"var"} -> e
              [] e.k \in DOMAIN Walked         -> MapExpr(e, Clone)
              [] e.k = "await"                 -> Await(Clone(e.e))
              [] e = Freed                     -> Freed
              [] OTHER                         -> Garbage

RECURSIVE Substitute(_, _, _)
Substitute(e, ps, args) ==
  CASE e.k = "var" /\ Contains(ps, e.name) -> Clone(args[SelectInSeq(ps, LAMBDA p : p = e.name)])
    [] e.k \in DOMAIN Walked -> MapExpr(e, LAMBDA x : Substitute(x, ps, args))
    [] OTHER -> Clone(e)

\* Mutant of Callee: a call with too many arguments is inlined all the same.
CalleeOfAnyArity(e, cs) ==
  IF e.k = "call" /\ e.f.k = "var"
  THEN LET i == SelectInSeq(cs, LAMBDA c : c.name = e.f.name)
       IN  IF i # 0 /\ Len(cs[i].ps) <= Len(e.es) THEN i ELSE 0
  ELSE 0
\* The candidate a call is replaced by, 0 when it is not.
Callee(e, cs) ==
  IF e.k = "call" /\ e.f.k = "var"
  THEN LET i == SelectInSeq(cs, LAMBDA c : c.name = e.f.name)
       IN  IF i # 0 /\ Len(cs[i].ps) = Len(e.es) THEN i ELSE 0
  ELSE 0
RECURSIVE InlineExpr(_, _)
InlineCall(e, cs) ==
  IF Callee(e, cs) = 0 THEN e ELSE Substitute(cs[Callee(e, cs)].e, cs[Callee(e, cs)].ps, e.es)
InlineExpr(e, cs) == InlineCall(MapExpr(e, LAMBDA x : InlineExpr(x, cs)), cs)
RECURSIVE InlineStmt(_, _)
InlineStmt(s, cs) == MapStmt(s, LAMBDA e : InlineExpr(e, cs), LAMBDA t : InlineStmt(t, cs))

\* What the candidate of a statement points to once that was worked on.
Reread(c, i, cs) ==
  CASE c.at # i -> c
    [] Callee(MapExpr(c.e, LAMBDA x : InlineExpr(x, cs)), cs) # 0 -> [c EXCEPT !.e = Freed]
    [] OTHER -> [c EXCEPT !.e = InlineExpr(c.e, cs)]

(***************************************************************************)
(* The passes in the order of g_passes, some in two phases.                *)
(***************************************************************************)
MinLevel == [typecheck |-> 0, constfold |-> 1, uses |-> 2, dce |-> 2, candidates |-> 3, inline |-> 3]
\* Without optimisation nothing is run.
PassesAt(n) ==
  IF n = 0 THEN << >>
  ELSE SelectSeq(<<"typecheck", "constfold", "uses", "dce", "candidates", "inline">>, LAMBDA p : n >= MinLevel[p])

Init == /\ code \in Programs
        /\ level \in 0..3
        /\ before = code
        /\ todo = PassesAt(level)
        /\ pc = 1
        /\ types = << >> /\ warned = {} /\ used = {} /\ cands = << >> /\ stale = FALSE

Running(p) == todo # << >> /\ Head(todo) = p
AtStmt(p)  == Running(p) /\ pc <= Len(code)
AtEnd(p)   == Running(p) /\ pc = Len(code) + 1

TypeCheck == /\ AtStmt("typecheck")
             /\ \E m \in InferStmt([types |-> types, warned |-> warned], code[pc]) :
                  types' = m.types /\ warned' = m.warned
             /\ pc' = pc + 1
             /\ UNCHANGED <<level, before, code, todo, used, cands, stale>>

Fold == /\ AtStmt("constfold")
        /\ code' = [code EXCEPT ![pc] = FoldStmt(@)]
        /\ pc' = pc + 1
        /\ UNCHANGED <<level, before, todo, types, warned, used, cands, stale>>

CollectUses == /\ AtStmt("uses")
               /\ used' = used \cup UsedInStmt(code[pc])
               /\ pc' = pc + 1
               /\ UNCHANGED <<level, before, code, todo, types, warned, cands, stale>>
RemoveDead == /\ Running("dce") /\ pc = 1
              /\ code' = DceList(code, used)
              /\ pc' = Len(code') + 1
              /\ UNCHANGED <<level, before, todo, types, warned, used, cands, stale>>

CollectCandidates == /\ Running("candidates") /\ pc = 1
                     /\ cands' = Collect(code)
                     /\ pc' = Len(code) + 1
                     /\ UNCHANGED <<level, before, code, todo, types, warned, used, stale>>
Inline == /\ AtStmt("inline")
          /\ code' = [code EXCEPT ![pc] = InlineStmt(@, cands)]
          /\ stale' = (stale \/ Freed \in Nodes(code'[pc]))
          /\ cands' = [j \in DOMAIN cands |-> Reread(cands[j], pc, cands)]
          /\ pc' = pc + 1
          /\ UNCHANGED <<level, before, todo, types, warned, used>>

EndPass == /\ todo # << >> /\ pc = Len(code) + 1
           /\ todo' = Tail(todo)
           /\ before' = code
           /\ pc' = 1
           /\ UNCHANGED <<level, code, types, warned, used, cands, stale>>

Next == TypeCheck \/ Fold \/ CollectUses \/ RemoveDead \/ CollectCandidates \/ Inline \/ EndPass
Spec == Init /\ [][Next]_vars

(***************************************************************************)
(* Properties.                                                             *)
(***************************************************************************)
Result(ss) == RunProgram(ss, InitialWorld(NativeNames)).st
Output(ss) == Result(ss).out

\* What is mentioned anywhere in a program, places no pass walks over
\* included: variables, assigned ones, members, parents, and what is looked
\* up without being named.
Hooks == {"__str__", "__eq__"} \cup Range(Dunder)
Mentions(n) ==
  CASE "k" \notin DOMAIN n -> {}
    [] n.k \in {"var", "get", "set", "optchain", "impl"} -> {n.name}
    [] n.k = "super" -> {n.name, "self", "__class__"}
    [] n.k = "class" -> ({n.up} \ {""}) \cup (({"init"} \cup Hooks) \cap {m.name : m \in Range(n.ss)})
    [] OTHER -> {}
Mentioned(ss) == UNION {Mentions(n) : n \in UNION {Nodes(s) : s \in Range(ss)}}
NodesOf(ss) == {n \in UNION {Nodes(s) : s \in Range(ss)} : "k" \in DOMAIN n}
Calls(ss) == {n \in NodesOf(ss) : n.k = "call"}
Effects == {"call", "set", "indexset", "await"}

\* A pass leaves every generator a yield: without one it is a plain procedure.
KeepsYields(ss, F(_)) ==
  \A s \in NodesOf(ss) : s.k = "proc" /\ ContainsYield(s.s) => ContainsYield(F(s).s)

\* Folding a program does not change what it prints, as long as the branches
\* and loops that it drops do not hold all the yields of a procedure
\* (pass_constfold).
FoldKeepsOutput == AtEnd("constfold") /\ KeepsYields(before, FoldStmt) => Output(code) = Output(before)

\* Nor does the removal of unused variables, unused procedures and what
\* follows a terminator, when nothing follows one at the top level, the
\* generators keep a yield, all that the program mentions is found in the
\* places the pass looks into, and so are the calls in the values of its
\* unused variables, which name nothing otherwise (pass_dce).
IsSeen(e) ==
  LET kinds == {n.k : n \in NodesOf(<<e>>)}
  IN  /\ kinds \subseteq Literals \cup {"var", "bin", "index", "array"} \cup Effects
      /\ "var" \in kinds => kinds \cap Effects # {}
LooksEverywhere(ss) ==
  /\ Mentioned(ss) \subseteq used
  /\ \A s \in NodesOf(ss) : s.k = "let" /\ s.name \notin used => IsSeen(s.e)
DceKeepsOutput ==
  /\ AtEnd("dce") /\ LooksEverywhere(before) /\ KeepsYields(before, LAMBDA s : DceStmt(s, used))
  /\ \A i \in DOMAIN before : before[i].k \in {"return", "break", "continue"} => i = Len(before)
  => Output(code) = Output(before)

\* Nor does inlining, and no freed expression is read, when no operator is
\* overloaded and each candidate is defined once, ahead of everything that
\* mentions it, and returns what reads variables of the top level and its
\* own different parameters and calls nothing, and its arguments are
\* literals or names that are bound before it (pass_inline).
Definitions == {"let", "proc", "async", "macro", "class", "struct", "enum", "trait", "extern"}
Defines(n) == IF n.k \in Definitions THEN {n.name} ELSE {}
Within(n) == CASE n.k = "for" -> {n.name}
               [] n.k \in {"proc", "async", "macro"} -> {n.ps[i].name : i \in DOMAIN n.ps}
               [] n.k = "try" -> {n.catches[i].name : i \in DOMAIN n.catches}
               [] n.k = "match" -> UNION {UsedInExpr(n.cases[i].p) : i \in DOMAIN n.cases}
               [] OTHER -> {}
Inner(ss) == UNION {Within(n) : n \in NodesOf(ss)} \cup UNION {Defines(n) : n \in NodesOf(ss) \ Range(ss)}
IsBound(s) == s.k = "proc" \/ (s.k = "let" /\ s.e.k \in Literals)

ReadsOnly(c, inner) ==
  /\ {n.k : n \in NodesOf(<<c.e>>)}
       \subseteq Literals \cup {"var", "bin", "index", "slice", "get", "array", "dict", "tuple"}
  /\ ({c.name} \cup (Mentioned(<<c.e>>) \ Range(c.ps))) \cap inner = {}
  /\ Cardinality(Range(c.ps)) = Len(c.ps)
IsAhead(c, ss) == \A i \in DOMAIN ss \ {c.at} :
  /\ c.name \notin Defines(ss[i])
  /\ i < c.at => c.name \notin Mentioned(<<ss[i]>>)
HasArgument(c, e, ss) ==
  e.k \in Literals \/ (e.k = "var" /\ \E i \in 1 .. c.at - 1 : IsBound(ss[i]) /\ ss[i].name = e.name)
IsPlain(ss) ==
  /\ \A n \in NodesOf(ss) : n.k \in {"class", "impl"} => Hooks \cap {m.name : m \in Range(n.ss)} = {}
  /\ \A c \in Range(Collect(ss)) :
        /\ ReadsOnly(c, Inner(ss)) /\ IsAhead(c, ss)
        /\ \A n \in Calls(ss) : n.f = Var(c.name) => \A i \in DOMAIN n.es : HasArgument(c, n.es[i], ss)
InlineKeepsOutput ==
  AtEnd("inline") /\ IsPlain(before) => ~stale /\ Output(code) = Output(before)

\* A mismatch is reported only for a variable whose value is not of the kind
\* its annotation says, when nothing is assigned and no name bound twice
\* (infer_stmt, STMT_LET).
KindOf(v) == CASE v.t = "int" -> "number" [] v.t = "str" -> "string" [] v.t = "arr" -> "array"
               [] v.t \in {"fun", "native", "gen"} -> "proc" [] OTHER -> v.t
Straight(ss) == /\ \A i \in DOMAIN ss : ss[i].k \in {"let", "print", "proc"}
                /\ \A i, j \in DOMAIN ss : ss[i].k = "let" /\ ss[i] # ss[j] =>
                                      ss[i].name \notin Defines(ss[j]) \cup Within(ss[j])
WarningsAreReal ==
  AtEnd("typecheck") /\ Straight(code) =>
    \A i \in DOMAIN code : code[i].k = "let" /\ code[i].name \in warned =>
      KindOf(ValueOf(Result(code), 1, code[i].name)) # Declared(code[i])
=============================================================================
