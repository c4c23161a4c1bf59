------------------------------ MODULE CBackend ------------------------------
(***************************************************************************)
(* The C backend (compiler.c): what it accepts, and what the C program it  *)
(* writes does, one statement of the program at a time.  The C compiler    *)
(* behind it refuses some of what it writes, and may evaluate the          *)
(* arguments of a call from the first or from the last: gcc does the       *)
(* latter.                                                                 *)
(*                                                                         *)
(* Left out: imports, integer literals (compiler.c:1818 reads the number   *)
(* of a float where an integer is stored) and classes inside procedures    *)
(* (their statement is read as a match).                                   *)
(***************************************************************************)
EXTENDS Interp, CRuntime

CONSTANTS
  Programs,    \* a set of programs: sequences of statements
  Triggers,    \* the numbers of objects at which the first collection starts
  MaxTryDepth  \* SAGE_MAX_TRY_DEPTH

(***************************************************************************)
(* The nodes of a tree, each as often as it occurs.                        *)
(***************************************************************************)
IsNode(n) == "k" \in DOMAIN n
RECURSIVE Listed(_)
ListedAll(ns) == FlattenSeq([i \in DOMAIN ns |-> Listed(ns[i])])
Listed(n) ==
  LET present(xs) == IF IsText(n) THEN << >> ELSE SetToSeq(xs \cap DOMAIN n)
      fields == present(NodeFields)
      lists  == present(ListFields)
  IN  <<n>> \o ListedAll([i \in DOMAIN fields |-> n[fields[i]]])
            \o FlattenSeq([i \in DOMAIN lists |-> ListedAll(n[lists[i]])])
Of(kinds, ns) == Range(SelectSeq(ListedAll(ns), LAMBDA n : IsNode(n) /\ n.k \in kinds))

Outside == {"int", "import"}
ASSUME CompiledAssumption ==
  /\ MaxTryDepth \in Nat \ {0}
  /\ Triggers \subseteq Nat \ {0}
  /\ \A p \in Programs : Of(Outside, p) = {}

VARIABLES
  program, trigger, rtl, \* chosen at the start
  phase,   \* "symbols", "globals", "emit", "run", "ended" or "refused"
  at,      \* the statement of the program the phase is at
  procs,   \* compiler->procs
  classes, \* compiler->classes, the last one found first
  globals, \* compiler->globals
  sig,     \* how the last statement ended
  st       \* the world of the compiled program
vars == <<program, trigger, rtl, phase, at, procs, classes, globals, sig, st>>

(***************************************************************************)
(* Names.                                                                  *)
(***************************************************************************)
IsProc(s) == s.k \in {"proc", "async"}
IsDecl(s) == IsProc(s) \/ s.k = "class"
ParamNames(ps) == {ps[i].name : i \in DOMAIN ps}
Methods(c) == SelectSeq(c.ss, LAMBDA m : m.k = "proc")
ClassNames == {c.name : c \in Range(classes)}

\* The statements that collecting names looks into.
Bodies(s) ==
  CASE s.k = "block"              -> Range(s.ss)
    [] s.k = "if"                 -> {s.s, s.alt}
    [] s.k \in {"while", "for"}   -> {s.s}
    [] s.k = "try"                -> {s.s, s.fin} \cup {s.catches[i].s : i \in DOMAIN s.catches}
    [] OTHER                      -> {}
LocalBodies(s) ==
  CASE s.k = "match"                  -> {s.s} \cup {s.cases[i].s : i \in DOMAIN s.cases}
    [] s.k \in {"defer", "comptimes"} -> {s.s}
    [] OTHER                          -> Bodies(s)
Binds(s) ==
  CASE s.k \in {"let", "for"} -> {s.name}
    [] s.k = "try"            -> {s.catches[i].name : i \in DOMAIN s.catches}
    [] OTHER                  -> {}
RECURSIVE collect_global_lets(_)
collect_global_lets(s) == Binds(s) \cup UNION {collect_global_lets(b) : b \in Bodies(s)}
RECURSIVE collect_local_lets(_)
collect_local_lets(s) == Binds(s) \cup UNION {collect_local_lets(b) : b \in LocalBodies(s)}
RECURSIVE HasNestedProc(_)
HasNestedProc(s) == IsProc(s) \/ \E b \in LocalBodies(s) : HasNestedProc(b)
\* A catch variable may have the name of a procedure.
RECURSIVE Conflicts(_)
Conflicts(s) == (s.k \in {"let", "for"} /\ s.name \in DOMAIN procs) \/ \E b \in Bodies(s) : Conflicts(b)

(***************************************************************************)
(* What is emitted, and what the C compiler then accepts.  A context c is  *)
(* the names in scope, whether in a function and whether in a loop.        *)
(***************************************************************************)
Operators == {"+", "-", "*", "/", "%", "==", "!=", "<", ">", "<=", ">=", "and", "or"}
\* A store into an element is a call without a value.
RECURSIVE IsVoid(_)
IsVoid(e) == e.k = "indexset" \/ (e.k \in {"await", "comptime"} /\ IsVoid(e.e))

RECURSIVE Emits(_, _)
EmitsValue(e, names)  == Emits(e, names) /\ ~IsVoid(e)
EmitsAll(es, names)   == \A i \in DOMAIN es : EmitsValue(es[i], names)
EmitsBound(b, names)  == b = NoExpr \/ EmitsValue(b, names)
Target(e, table) == e.f.name \in DOMAIN table /\ Len(e.es) \in table[e.f.name]
EmitsCall(e, names) ==
  /\ EmitsAll(e.es, names)
  /\ \/ e.f.k = "get" /\ EmitsValue(e.f.x, names)
     \/ /\ e.f.k = "var"
        /\ IF e.f.name \in DOMAIN Arity THEN Target(e, Arity)
           ELSE \/ e.f.name \in ClassNames
                \/ Target(e, LateArity)
                \/ e.f.name \in DOMAIN procs /\ Len(procs[e.f.name].ps) = Len(e.es)
Emits(e, names) ==
  CASE e.k \in {"str", "bool", "nil"}    -> TRUE
    [] e.k = "var"                       -> e.name \in names
    [] e.k = "bin" /\ e.op = "not"       -> EmitsValue(e.l, names)
    [] e.k = "bin"                       -> e.op \in Operators /\ EmitsAll(<<e.l, e.r>>, names)
    [] e.k = "call"                      -> EmitsCall(e, names)
    [] e.k \in {"array", "dict", "tuple"} -> EmitsAll(e.es, names)
    [] e.k = "index"                     -> EmitsAll(<<e.x, e.i>>, names)
    [] e.k = "slice"                     -> EmitsValue(e.x, names) /\ EmitsBound(e.lo, names) /\ EmitsBound(e.hi, names)
    [] e.k = "indexset"                  -> EmitsAll(<<e.x, e.i, e.e>>, names)
    [] e.k = "get"                       -> EmitsValue(e.x, names)
    [] e.k = "set"                       -> /\ IF e.x = NoExpr THEN e.name \in names ELSE EmitsValue(e.x, names)
                                            /\ EmitsValue(e.e, names)
    [] e.k \in {"await", "comptime"}     -> Emits(e.e, names)
    [] OTHER                             -> FALSE

RECURSIVE Compiles(_, _)
CompilesList(ss, c) == \A i \in DOMAIN ss : Compiles(ss[i], c)
InLoop(c) == [c EXCEPT !.loop = TRUE]
\* Statements whose body stands for them, and those without code of their own.
CompilesEmbedded(s, c) ==
  CASE s.k = "match" -> s.cases = << >> /\ Emits(s.e, c.names) /\ Compiles(s.s, c)
    [] s.k \in {"defer", "comptimes"} -> Compiles(s.s, c)
    [] OTHER -> TRUE
Compiles(s, c) ==
  CASE s.k \in {"print", "raise"}     -> EmitsBound(s.e, c.names)
    [] s.k = "expr"                   -> Emits(s.e, c.names)
    [] s.k = "let"                    -> s.name \in c.names /\ EmitsBound(s.e, c.names)
    [] s.k \in {"return", "yield"}    -> c.function /\ EmitsBound(s.e, c.names)
    [] s.k \in {"break", "continue"}  -> c.loop
    [] s.k = "block"                  -> CompilesList(s.ss, c)
    [] s.k = "if"                     -> EmitsValue(s.c, c.names) /\ Compiles(s.s, c) /\ Compiles(s.alt, c)
    [] s.k = "while"                  -> EmitsValue(s.c, c.names) /\ Compiles(s.s, InLoop(c))
    [] s.k = "for"                    -> EmitsValue(s.e, c.names) /\ s.name \in c.names /\ Compiles(s.s, InLoop(c))
    [] s.k = "try"                    -> /\ Compiles(s.s, c) /\ Compiles(s.fin, c)
                                         /\ s.catches # << >> => Compiles(s.catches[1].s, c)
    [] OTHER                          -> CompilesEmbedded(s, c)
FunctionContext(names) == [names |-> names \cup globals, function |-> TRUE, loop |-> FALSE]
CompilesBody(m, names) ==
  ~HasNestedProc(m.s) /\ Compiles(m.s, FunctionContext(names \cup collect_local_lets(m.s)))
emit_function_definition(p) ==
  Cardinality(ParamNames(p.ps)) = Len(p.ps) /\ CompilesBody(p, ParamNames(p.ps))
emit_method_definition(m) == CompilesBody(m, ParamNames(m.ps) \cup {"self"})
\* Two C functions of one name are an error.
Unique(s, i) ==
  /\ IsProc(s) => \A j \in 1 .. i - 1 : ~(IsProc(program[j]) /\ program[j].name = s.name)
  /\ s.k = "class" => \A c \in Range(classes) : c.name = s.name =>
       \A m \in DOMAIN Methods(c), n \in DOMAIN Methods(s) :
         Methods(c)[m].name = Methods(s)[n].name => c = s /\ m = n
Definition(s, i) ==
  /\ Unique(s, i)
  /\ CASE IsProc(s)     -> emit_function_definition(s)
       [] s.k = "class" -> \A m \in DOMAIN Methods(s) : emit_method_definition(Methods(s)[m])
       [] OTHER         -> Compiles(s, [names |-> globals, function |-> FALSE, loop |-> FALSE])

(***************************************************************************)
(* The compiled program: expressions, in the function of activation act.   *)
(***************************************************************************)
RECURSIVE CEval(_, _, _), CExec(_, _, _)

Slot(w, act, name) == IF name \in DOMAIN w.acts[act] THEN act ELSE 1
InOrder(es, act, w) ==
  FoldLeft(LAMBDA acc, e : Then(acc, LAMBDA vs, w1 :
             Then(CEval(e, act, w1), LAMBDA v, w2 : Ok(TupleV(Append(vs.vs, v)), w2))),
           Ok(TupleV(<< >>), w), es)
Backwards(es, act, w) ==
  Then(InOrder(Reverse(es), act, w), LAMBDA vs, w1 : Ok(TupleV(Reverse(vs.vs)), w1))
Arguments(es, act, w) == IF w.rtl THEN Backwards(es, act, w) ELSE InOrder(es, act, w)
WithArguments(es, name, Run(_, _), act, w) ==
  Then(Arguments(es, act, w), LAMBDA vs, w1 : Helper(name, Run, vs.vs, w1))
WithElements(es, name, Run(_, _), act, w) ==
  Then(InOrder(es, act, w), LAMBDA vs, w1 : Helper(name, Run, vs.vs, w1))

\* An activation ends: its frame is unlinked if it is on top, and stays
\* linked when a jump or a yield ends it.
Left(act, r) ==
  LET gone == [r.st EXCEPT !.dead = @ \cup {act}]
  IN  CASE r.sig = "exit" -> r
        [] r.sig = "thr"  -> [r EXCEPT !.st = gone]
        [] r.sig = "yld"  -> Ok(r.v, gone)
        [] OTHER          -> Ok(IF r.sig = "ret" THEN r.v ELSE Nil, sage_gc_pop_frame(gone, act))
Activate(names, actuals, body, w) ==
  LET act    == Len(w.acts) + 1
      pushed == sage_gc_push_frame(w, [n \in names |-> NoSlot])
      bound  == FoldLeft(LAMBDA acc, b : sage_define_slot(acc, act, b[1], b[2]), pushed, actuals)
  IN  Left(act, CExec(body, act, bound))
CallProc(p, vs, w) ==
  Activate(ParamNames(p.ps) \cup collect_local_lets(p.s), [i \in DOMAIN vs |-> <<p.ps[i].name, vs[i]>>], p.s, w)
\* A method takes as many arguments as it has parameters from the vector of
\* the call, however many are there.
CallCMethod(m, self, vs, w) ==
  LET ps == Formals(m.ps)
      w1 == IF Len(vs) > Len(ps) THEN [w EXCEPT !.differs = TRUE] ELSE w
  IN  IF Len(vs) < Len(ps) THEN Wild(w)
      ELSE Activate({"self"} \cup ParamNames(ps) \cup collect_local_lets(m.s),
                    <<<<"self", self>>>> \o [i \in DOMAIN ps |-> <<ps[i].name, vs[i]>>], m.s, w1)

\* The tables of classes and methods, filled before the program starts.
NamedClass(w, name) == SelectSeq(w.classes, LAMBDA c : c.name = name)
RECURSIVE MethodFor(_, _, _)
MethodFor(w, class, method) ==
  LET found == SelectSeq(FlattenSeq([i \in DOMAIN NamedClass(w, class) |-> Methods(NamedClass(w, class)[i])]),
                         LAMBDA m : m.name = method)
  IN  CASE found # << >>                 -> found[1]
        [] NamedClass(w, class) = << >>  -> NoStmt
        [] OTHER                         -> MethodFor(w, NamedClass(w, class)[1].up, method)

sage_call_method(object, method, vs, w) ==
  IF ~IsInstance(w, object) THEN Exit(w)
  ELSE LET m == MethodFor(w, Text(w, Fields(w, object)["__class__"]), method)
       IN  IF m = NoStmt THEN Exit(w) ELSE CallCMethod(m, object, vs, w)
Instance(class, up, w) ==
  LET names == IF up = "" THEN <<class>> ELSE <<class, up>>
  IN  Then(PinnedStrings(names, w), LAMBDA vs, w1 :
        sage_make_dict_from_entries(FirstOf(<<"__class__", "__parent__">>, Len(names)), vs.vs, w1))
sage_construct(class, up, vs, w) ==
  LET init == MethodFor(w, class, "init")
  IN  Then(Instance(class, up, w), LAMBDA object, w1 :
        IF init = NoStmt THEN Ok(object, [w1 EXCEPT !.differs = @ \/ vs # << >>])
        ELSE Then(CallCMethod(init, object, vs, w1), LAMBDA v, w2 : Ok(object, w2)))

CCallMember(e, act, w) ==
  LET Send(object, vs, w1) ==
        Helper("call", LAMBDA all, w2 : sage_call_method(object, e.f.name, vs.vs, w2), <<object>> \o vs.vs, w1)
  IN  IF w.rtl
      THEN Then(InOrder(e.es, act, w), LAMBDA vs, w1 :
             Then(CEval(e.f.x, act, w1), LAMBDA object, w2 : Send(object, vs, w2)))
      ELSE Then(CEval(e.f.x, act, w), LAMBDA object, w1 :
             Then(InOrder(e.es, act, w1), LAMBDA vs, w2 : Send(object, vs, w2)))
CCallNamed(e, act, w) ==
  LET name == e.f.name
      class == NamedClass(w, name)
      Run(vs, w1) == Builtin(name, vs, w1)
  IN  CASE name \in DOMAIN Arity -> WithArguments(e.es, name, Run, act, w)
        [] class # << >>         -> WithElements(e.es, "call", LAMBDA vs, w1 : sage_construct(name, class[1].up, vs, w1), act, w)
        [] Target(e, LateArity)  -> WithArguments(e.es, name, Run, act, w)
        [] OTHER                 -> WithArguments(e.es, "call", LAMBDA vs, w1 : CallProc(w.procs[name], vs, w1), act, w)

\* obj.prop = value writes into whatever obj is.
SetMember(vs, name, w) ==
  IF ~IsA(vs[1], "dict") THEN Wild(w)
  ELSE Ok(vs[2], DictSet([w EXCEPT !.differs = @ \/ ~IsInstance(w, vs[1])], vs[1], name, vs[2]))
CSet(e, act, w) ==
  IF e.x = NoExpr
  THEN Then(CEval(e.e, act, w), LAMBDA v, w1 : sage_assign_slot(w1, Slot(w1, act, e.name), e.name, v))
  ELSE WithElements(<<e.x, e.e>>, "set", LAMBDA vs, w1 : SetMember(vs, e.name, w1), act, w)

OrNil(e) == IF e = NoExpr THEN NilE ELSE e
CTuple(e, act, w) == WithElements(e.es, "tuple", sage_make_tuple, act, w)
CDict(e, act, w)  == WithElements(e.es, "dict", LAMBDA vs, w1 : sage_make_dict_from_entries(e.keys, vs, w1), act, w)
CIndex(e, act, w) == WithArguments(<<e.x, e.i>>, "[]", sage_index, act, w)
CEval(e, act, w) ==
  CASE e.k = "nil"      -> Ok(Nil, w)
    [] e.k = "bool"     -> Ok(BoolV(e.b), w)
    [] e.k = "str"      -> sage_string(e.s, w)
    [] e.k = "var"      -> sage_load_slot(w, Slot(w, act, e.name), e.name)
    [] e.k = "bin"      -> WithArguments(IF e.op = "not" THEN <<e.l>> ELSE <<e.l, e.r>>, e.op,
                                         LAMBDA vs, w1 : BinaryHelper(e.op, vs, w1), act, w)
    [] e.k = "call"     -> IF e.f.k = "get" THEN CCallMember(e, act, w) ELSE CCallNamed(e, act, w)
    [] e.k = "array"    -> WithElements(e.es, "array", sage_make_array, act, w)
    [] e.k = "tuple"    -> CTuple(e, act, w)
    [] e.k = "dict"     -> CDict(e, act, w)
    [] e.k = "index"    -> CIndex(e, act, w)
    [] e.k = "get"      -> WithArguments(<<e.x, StrE(e.name)>>, "[]", sage_index, act, w)
    [] e.k = "slice"    -> WithArguments(<<e.x, OrNil(e.lo), OrNil(e.hi)>>, "[:]", sage_slice, act, w)
    [] e.k = "indexset" -> WithArguments(<<e.x, e.i, e.e>>, "[]=", sage_index_set, act, w)
    [] e.k = "set"      -> CSet(e, act, w)
    [] OTHER            -> CEval(e.e, act, w)

(***************************************************************************)
(* Statements.                                                             *)
(***************************************************************************)
InSequence(ss, act, w) ==
  FoldLeft(LAMBDA acc, s : IF acc.sig = "ok" THEN CExec(s, act, acc.st) ELSE acc, Ok(Nil, w), ss)
sage_truthy(vs, w) == Ok(BoolV(Truthy(w, vs[1])), w)
Condition(e, act, w) == WithArguments(<<e>>, "truthy", sage_truthy, act, w)

\* What a turn of a loop leads to.
Turn(r, Next(_)) ==
  CASE r.sig = "brk"            -> Ok(Nil, r.st)
    [] r.sig \in {"ok", "cont"} -> Next(r.st)
    [] OTHER                    -> r
RECURSIVE CWhile(_, _, _)
CWhile(s, act, w) ==
  Then(Condition(s.c, act, w), LAMBDA go, w1 :
    IF go.b THEN Turn(CExec(s.s, act, w1), LAMBDA w2 : CWhile(s, act, w2)) ELSE Ok(Nil, w1))

\* Nothing roots what a loop walks over.  The length of an array is read at
\* every turn, that of a string once.
ElementOf(v, i, w) ==
  IF IsA(v, "arr") THEN Ok(Elems(w, v)[i], w) ELSE Character(Text(w, v), i - 1, w)
RECURSIVE CForFrom(_, _, _, _, _)
CForFrom(s, v, i, act, w) ==
  CASE Dangling(w, v) -> Wild(w)
    [] i > (IF IsA(v, "arr") THEN Len(Elems(w, v)) ELSE Len(Text(w, v))) -> Ok(Nil, w)
    [] OTHER -> Then(ElementOf(v, i, w), LAMBDA x, w1 :
                  Turn(CExec(s.s, act, sage_define_slot(w1, Slot(w1, act, s.name), s.name, x)),
                       LAMBDA w2 : CForFrom(s, v, i + 1, act, w2)))
CFor(s, act, w) ==
  WithArguments(<<s.e>>, "for", LAMBDA vs, w1 :
    IF vs[1].t \in {"arr", "str"} THEN CForFrom(s, vs[1], 1, act, w1) ELSE Ok(Nil, w1), act, w)

\* The context of a try statement is dropped from the top at its end; one
\* that the program leaves by a jump of C stays.
Closed(tries, p) == IF p \in DOMAIN tries THEN [tries EXCEPT ![p] = FALSE] ELSE tries
Drop(w, p) == [w EXCEPT !.tries = Closed(Front(@), p)]
\* Mutant of Bind: the context of a try that caught is not dropped.
BindOnly(s, r, act, p) ==
  IF r.sig = "thr" /\ s.catches # << >>
  THEN LET name == s.catches[1].name IN sage_define_slot(r.st, Slot(r.st, act, name), name, r.st.exc)
  ELSE Drop(r.st, p)
Bind(s, r, act, p) ==
  IF r.sig = "thr" /\ s.catches # << >>
  THEN LET name == s.catches[1].name IN Drop(sage_define_slot(r.st, Slot(r.st, act, name), name, r.st.exc), p)
  ELSE Drop(r.st, p)
AfterTry(s, r, act, p) ==
  LET handler == IF r.sig = "thr" /\ s.catches # << >> THEN s.catches[1].s ELSE NoStmt
  IN  CASE r.sig = "exit"          -> r
        [] r.sig \in {"ok", "thr"} -> InSequence(<<handler, s.fin>>, act, Bind(s, r, act, p))
        [] OTHER                   -> [r EXCEPT !.st.tries = Closed(@, p)]
CTry(s, act, w) ==
  IF Len(w.tries) >= MaxTryDepth THEN Exit(w)
  ELSE AfterTry(s, CExec(s.s, act, [w EXCEPT !.tries = Append(@, TRUE)]), act, Len(w.tries) + 1)

Ending(s, how, act, w) == Then(CEval(OrNil(s.e), act, w), LAMBDA v, w1 : R(how, v, w1))
CExec(s, act, w) ==
  CASE s.k = "print"    -> WithArguments(<<s.e>>, "print", sage_print_ln, act, w)
    [] s.k = "expr"     -> Then(CEval(s.e, act, w), LAMBDA v, w1 : Ok(Nil, w1))
    [] s.k = "let"      -> Then(CEval(OrNil(s.e), act, w), LAMBDA v, w1 :
                             Ok(Nil, sage_define_slot(w1, Slot(w1, act, s.name), s.name, v)))
    [] s.k = "if"       -> Then(Condition(s.c, act, w), LAMBDA c, w1 : CExec(IF c.b THEN s.s ELSE s.alt, act, w1))
    [] s.k = "block"    -> InSequence(s.ss, act, w)
    [] s.k = "while"    -> CWhile(s, act, w)
    [] s.k = "for"      -> CFor(s, act, w)
    [] s.k = "return"   -> Ending(s, "ret", act, w)
    [] s.k = "yield"    -> Ending(s, "yld", act, w)
    [] s.k = "break"    -> R("brk", Nil, w)
    [] s.k = "continue" -> R("cont", Nil, w)
    [] s.k = "try"      -> CTry(s, act, w)
    [] s.k = "raise"    -> WithArguments(<<IF s.e = NoExpr THEN StrE("exception") ELSE s.e>>, "raise",
                                         LAMBDA vs, w1 : sage_raise(vs[1], w1), act, w)
    [] s.k \in {"match", "defer", "comptimes"} -> CExec(s.s, act, w)
    [] OTHER            -> Ok(Nil, w)

(***************************************************************************)
(* From the program to the end of its run.                                 *)
(***************************************************************************)
NoProcs == [x \in {} |-> NoStmt]
NoWorld == StartWorld({}, NoProcs, << >>, 1, FALSE)
Init ==
  /\ program \in Programs
  /\ trigger \in Triggers
  /\ rtl \in BOOLEAN
  /\ phase = "symbols"
  /\ at = 1
  /\ procs = NoProcs
  /\ classes = << >>
  /\ globals = {}
  /\ sig = "ok"
  /\ st = NoWorld

Rest == at > Len(program)
S == program[at]
Next1(ph) == phase' = ph /\ at' = at + 1
Refuse == phase' = "refused" /\ UNCHANGED at

\* The first procedure of a name is kept.
CollectSymbol ==
  /\ phase = "symbols" /\ ~Rest
  /\ Next1("symbols")
  /\ procs' = IF IsProc(S) THEN procs @@ (S.name :> S) ELSE procs
  /\ classes' = IF S.k = "class" THEN <<S>> \o classes ELSE classes
  /\ UNCHANGED <<program, trigger, rtl, globals, sig, st>>
CollectGlobals ==
  /\ phase = "globals" /\ ~Rest
  /\ IF ~IsDecl(S) /\ Conflicts(S) THEN Refuse ELSE Next1("globals")
  /\ globals' = IF IsDecl(S) THEN globals ELSE globals \cup collect_global_lets(S)
  /\ UNCHANGED <<program, trigger, rtl, procs, classes, sig, st>>
Emit ==
  /\ phase = "emit" /\ ~Rest
  /\ IF Definition(S, at) THEN Next1("emit") ELSE Refuse
  /\ UNCHANGED <<program, trigger, rtl, procs, classes, globals, sig, st>>
Following == [symbols |-> "globals", globals |-> "emit", emit |-> "run"]
\* The end of the program, in every phase before the run.
Advance ==
  /\ phase \in DOMAIN Following /\ Rest
  /\ phase' = Following[phase] /\ at' = 1
  /\ st' = IF phase = "emit" THEN StartWorld(globals, procs, classes, trigger, rtl) ELSE st
  /\ UNCHANGED <<program, trigger, rtl, procs, classes, globals, sig>>
RunStatement ==
  /\ phase = "run" /\ ~Rest
  /\ \E r \in {IF IsDecl(S) THEN Ok(Nil, st) ELSE CExec(S, 1, st)} :
       /\ st' = r.st
       /\ sig' = r.sig
       /\ phase' = IF r.sig = "ok" THEN "run" ELSE "ended"
  /\ at' = at + 1
  /\ UNCHANGED <<program, trigger, rtl, procs, classes, globals>>
\* sage_gc_shutdown frees every object.
Finish ==
  /\ phase = "run" /\ Rest
  /\ st' = Sweep(sage_gc_pop_frame(st, 1), {})
  /\ phase' = "ended"
  /\ UNCHANGED <<program, trigger, rtl, at, procs, classes, globals, sig>>

Next == CollectSymbol \/ CollectGlobals \/ Emit \/ Advance \/ RunStatement \/ Finish
Spec == Init /\ [][Next]_vars

(***************************************************************************)
(* The text of a program, for the properties.                              *)
(***************************************************************************)
The(kinds)    == Of(kinds, program)
Acts(e)       == Of({"call", "set", "indexset"}, <<e>>) # {}

Assigned   == {n.name : n \in {m \in The({"set"}) : m.x = NoExpr}}
Procedures == The({"proc", "async"})
Parameters == UNION {ParamNames(p.ps) : p \in Procedures}
\* The names that lets, loops, catches and declarations bind, one for each.
BoundBy(n) == IF ~IsNode(n) THEN << >>
              ELSE IF n.k = "try" THEN [i \in DOMAIN n.catches |-> n.catches[i].name]
              ELSE IF n.k \in {"let", "for"} THEN <<n.name>> ELSE << >>
BoundNames ==
  LET nodes == ListedAll(program)
      decls == SelectSeq(program, IsDecl)
  IN  FlattenSeq([i \in DOMAIN nodes |-> BoundBy(nodes[i])]) \o [i \in DOMAIN decls |-> decls[i].name]
NamesApart ==
  /\ Cardinality(Range(BoundNames)) = Len(BoundNames)
  /\ Range(BoundNames) \cap (Parameters \cup NativeNames \cup {"self"}) = {}
  /\ Parameters \cap NativeNames = {}

Operands(e) ==
  CASE e.k = "bin"      -> <<e.l, e.r>>
    [] e.k = "call"     -> IF e.f.k = "get" THEN <<e.f.x>> \o e.es ELSE e.es
    [] e.k = "index"    -> <<e.x, e.i>>
    [] e.k = "slice"    -> <<e.x, e.lo, e.hi>>
    [] e.k = "indexset" -> <<e.x, e.i, e.e>>
\* A literal that is no string, or a variable that is never assigned.
Bare(e) == e.k \in {"bool", "nil", "noexpr"} \/ (e.k = "var" /\ e.name \notin Assigned)

(***************************************************************************)
(* Portable programs: those whose meaning the backend is meant to keep.    *)
(***************************************************************************)
\* When an operand does something, the others do not depend on when.
OrderFree ==
  \A e \in The({"bin", "call", "index", "slice", "indexset"}) :
    \A i, j \in DOMAIN Operands(e) :
      i # j /\ Acts(Operands(e)[i]) => Operands(e)[j].k = "str" \/ Bare(Operands(e)[j])
EagerFree == \A e \in The({"bin"}) : e.op \in {"and", "or"} => ~Acts(e.r)
\* A try statement has one catch, is left by a raise only, and its finally is
\* not skipped by a second raise.
PlainTries ==
  \A s \in The({"try"}) : /\ Len(s.catches) = 1
                          /\ Of({"return", "break", "continue"}, <<s>>) = {}
                          /\ s.fin # NoStmt => Of({"raise", "call"}, <<s.catches[1].s>>) = {}
\* What a loop or a catch binds is used, and assigned, nowhere else; it binds
\* nothing else.
Uses(ns, name) == Len(SelectSeq(ListedAll(ns), LAMBDA n :
                        IsNode(n) /\ n.k \in {"var", "set"} /\ n.name = name /\ (n.k = "set" => n.x = NoExpr)))
KeepsTo(name, s) == /\ Uses(program, name) = Uses(<<s>>, name)
                    /\ Of({"let", "for", "try"}, <<s>>) = {}
LocalNames == /\ \A n \in The({"for"}) : KeepsTo(n.name, n.s)
              /\ \A n \in The({"try"}) : KeepsTo(n.catches[1].name, n.catches[1].s)
DeclarationsFirst ==
  \A j \in DOMAIN program : IsDecl(program[j]) =>
    /\ \A i \in 1 .. j - 1 : IsDecl(program[i])
    /\ program[j].k = "class" =>
         program[j].up \in {""} \cup {program[i].name : i \in {h \in 1 .. j - 1 : program[h].k = "class"}}
Portable ==
  /\ NamesApart /\ OrderFree /\ EagerFree /\ PlainTries /\ LocalNames /\ DeclarationsFirst
  /\ Assigned \subseteq {n.name : n \in {m \in The({"let"}) : m.mut}}
  /\ The({"defer", "yield", "match", "struct", "enum", "trait", "impl", "annotated", "macro", "spawn"}) = {}
  /\ \A e \in The({"get"}) : e.name # "length"
  /\ \A s \in The({"raise"}) : s.e # NoExpr

(***************************************************************************)
(* Disciplined programs: those whose temporary values need no root.        *)
(***************************************************************************)
\* Everything that is evaluated before a helper or a function has it.
Together(e) ==
  CASE e.k \in {"array", "tuple", "dict"} -> e.es
    [] e.k = "set" -> <<e.x, e.e>>
    [] e.k = "get" -> <<e.x, StrE(e.name)>>
    [] OTHER       -> Operands(e)
OneTemporary ==
  /\ \A e \in The({"bin", "call", "index", "slice", "indexset", "array", "tuple", "dict", "set", "get"}) :
       \A i, j \in DOMAIN Together(e) : i # j => Bare(Together(e)[i]) \/ Bare(Together(e)[j])
  /\ \A s \in The({"for"}) : s.e.k = "var" /\ Bare(s.e)
\* Jumps stay in the main program, whose tries each run once.
JumpsInMain ==
  /\ The({"try"}) \subseteq Range(program)
  /\ \A s \in The({"try"}) : {s.catches[i].name : i \in DOMAIN s.catches} \cap Assigned = {}
  /\ \A p \in Procedures : Of({"raise", "try"}, <<p.s>>) = {}
  /\ The({"yield"}) = {}
\* Only a method writes into an object, its own; calls give methods at least
\* the arguments they take.
ObjectsAreOwn ==
  /\ "self" \notin Assigned
  /\ \A e \in The({"set"}) : e.x \in {NoExpr, Var("self")}
  /\ \A s \in Range(program) : IsProc(s) => "self" \notin ParamNames(s.ps)
  /\ \A e \in The({"call"}), m \in Procedures :
       m.name = (IF e.f.k = "get" THEN e.f.name ELSE "init") => Len(Formals(m.ps)) <= Len(e.es)
Disciplined == NamesApart /\ OneTemporary /\ JumpsInMain /\ ObjectsAreOwn

(***************************************************************************)
(* Properties.                                                             *)
(***************************************************************************)
\* Whatever the collector does and in whatever order arguments are evaluated,
\* a portable program that is compiled prints what the interpreter prints; one
\* that ends itself over an error, which the interpreter only reports, prints
\* the beginning of that.  (write_c_output_internal against sage_interpret.)
CompiledAgrees ==
  phase = "ended" /\ ~st.wild /\ ~st.differs /\ ~st.astray /\ Portable =>
    \A run \in {RunProgram(program, InitialWorld(NativeNames))} :
      /\ ~run.st.astray
      /\ IsPrefix(st.out, run.st.out)
      /\ sig = "ok" => st.out = run.st.out

\* A disciplined program never uses an object that was collected, nor a
\* context or a stack that was left, however early the collector starts.
\* (sage_gc_collect, whose roots are the slots of the linked frames.)
RootedProgramsAreSafe == st.wild => ~Disciplined

\* Between two statements of a disciplined program only the frame of main is
\* linked, and no context of a try statement is left behind.
ContextsBalance ==
  phase = "run" /\ ~(st.frames = <<1>> /\ st.tries = << >>) => ~Disciplined
=============================================================================
