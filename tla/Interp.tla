------------------------------- MODULE Interp -------------------------------
(***************************************************************************)
(* The tree-walking interpreter (interpreter.c): what an expression        *)
(* evaluates to and what a statement does, in a scope and a world.         *)
(*                                                                         *)
(* Programs are single-threaded and import nothing: threads, the module    *)
(* loader, the foreign-function and Python bridges have models of their    *)
(* own or none.  Type annotations, the JIT profile and error reports are   *)
(* left out: a reported error is the value the code goes on with.          *)
(***************************************************************************)
EXTENDS Natives

CONSTANTS
  MaxRecursionDepth, \* MAX_RECURSION_DEPTH
  MaxLoopIterations, \* MAX_LOOP_ITERATIONS
  MaxDefers,         \* deferred statements a block remembers
  StrLess(_, _)      \* the order of strcmp on the strings that programs compare

ASSUME BoundsAssumption == /\ MaxRecursionDepth \in Nat \ {0}
                           /\ MaxLoopIterations \in Nat \ {0}
                           /\ MaxDefers \in Nat \ {0}

RECURSIVE Eval(_, _, _), Exec(_, _, _)

(***************************************************************************)
(* Helpers.                                                                *)
(***************************************************************************)
\* Evaluates expressions from left to right; the value is a tuple.
EvalEach(es, en, st) ==
  FoldLeft(LAMBDA acc, e :
             Then(acc, LAMBDA vs, s :
               Then(Eval(e, en, s), LAMBDA v, s2 : Ok(TupleV(Append(vs.vs, v)), s2))),
           Ok(TupleV(<< >>), st), es)

\* Whether a statement is, or holds, the one a generator resumes at.
RECURSIVE ContainsTarget(_, _)
ContainsTarget(s, target) ==
  \/ s = target
  \/ /\ s.k = "block"
     /\ \E i \in DOMAIN s.ss : ContainsTarget(s.ss[i], target)
  \/ /\ s.k = "if"
     /\ ContainsTarget(s.s, target) \/ ContainsTarget(s.alt, target)
  \/ /\ s.k \in {"while", "for"}
     /\ ContainsTarget(s.s, target)
  \/ /\ s.k = "try"
     /\ \/ ContainsTarget(s.s, target) \/ ContainsTarget(s.fin, target)
        \/ \E i \in DOMAIN s.catches : ContainsTarget(s.catches[i].s, target)

\* A procedure is a generator when a yield is found in its blocks, its
\* branches and its loops; other statements are not looked into.
RECURSIVE ContainsYield(_)
ContainsYield(s) ==
  \/ s.k = "yield"
  \/ s.k = "block" /\ \E i \in DOMAIN s.ss : ContainsYield(s.ss[i])
  \/ s.k = "if" /\ (ContainsYield(s.s) \/ ContainsYield(s.alt))
  \/ s.k \in {"while", "for"} /\ ContainsYield(s.s)

Burn(st, amount) ==
  IF st.gas.limit < 0 THEN st ELSE [st EXCEPT !.gas.used = @ + amount]
OutOfGas(st) == st.gas.limit >= 0 /\ st.gas.used > st.gas.limit

\* A body that returned, or ended, gives its value to the caller.
RunBody(s, en, st) == Then(Exec(s, en, st), Ok)

HasSelf(ps) == ps # << >> /\ ps[1].name = "self"
Formals(ps) == IF HasSelf(ps) THEN Tail(ps) ELSE ps

\* Parameters are immutable; those without an argument are nil.
BindAll(st, en, ps, vs) ==
  FoldLeftDomain(LAMBDA acc, i : DefineConst(acc, en, ps[i].name, At(vs, i - 1)), st, ps)

\* The scope a method runs in.
Defining(st, cls, en) == IF Obj(st, cls).en = 0 THEN en ELSE Obj(st, cls).en

\* A method called for its operand alone: a dunder method, __str__.
RunHook(m, self, args, cls, en, st) ==
  LET scope == NewEnv(st)
      st1   == Define(EnvCreate(st, Defining(st, cls, en)), scope, "self", self)
      ps    == FirstOf(Formals(m.ps), Len(args))
  IN  Exec(m.s, scope, FoldLeftDomain(LAMBDA acc, i : Define(acc, scope, ps[i].name, args[i]), st1, ps))
HookOf(st, v, name) ==
  IF IsA(v, "inst") THEN FindMethod(st, Obj(st, v).cls, name) ELSE NoStmt

(***************************************************************************)
(* Operators.                                                              *)
(***************************************************************************)
BothInts(v, w) == IsA(v, "int") /\ IsA(w, "int")
Repeated(s, n) == FoldLeft(LAMBDA acc, i : acc \o s, "", [i \in 1 .. (IF n > 0 THEN n ELSE 0) |-> i])

Compare(op, v, w, st) ==
  LET less(a, b) == IF BothInts(a, b) THEN a.n < b.n ELSE StrLess(a.s, b.s)
  IN  IF BothInts(v, w) \/ (IsA(v, "str") /\ IsA(w, "str"))
      THEN Ok(BoolV(CASE op = "<"  -> less(v, w)  [] op = ">"  -> less(w, v)
                      [] op = "<=" -> ~less(w, v) [] op = ">=" -> ~less(v, w)), st)
      ELSE Ok(Nil, st)

IntArithmetic(op, m, n) ==
  CASE op = "+" -> IntV(m + n)
    [] op = "-" -> IntV(m - n)
    [] op = "*" -> IntV(m * n)
    [] op = "/" -> IF n = 0 THEN Nil ELSE IntV(Quot(m, n))
    [] op = "%" -> IF n = 0 THEN Nil ELSE IntV(m - n * Quot(m, n))

Arithmetic(op, v, w) ==
  CASE BothInts(v, w) -> IntArithmetic(op, v.n, w.n)
    [] op = "+" /\ IsA(v, "str") /\ IsA(w, "str") -> StrV(v.s \o w.s)
    [] op \in {"+", "*"} /\ IsA(v, "str") /\ IsA(w, "int") -> StrV(Repeated(v.s, w.n))
    [] op = "*" /\ IsA(v, "int") /\ IsA(w, "str") -> StrV(Repeated(w.s, v.n))
    [] OTHER -> Nil

Dunder == [op \in {"+", "-", "*", "/", "%"} |->
             CASE op = "+" -> "__add__" [] op = "-" -> "__sub__" [] op = "*" -> "__mul__"
               [] op = "/" -> "__div__" [] op = "%" -> "__mod__"]

\* An __eq__ that throws makes the operands differ.
Compared(op, r) ==
  LET same == r.sig # "thr" /\ IsTruthy(r.v)
  IN  IF r.sig = "exit" THEN r ELSE Ok(BoolV(IF op = "==" THEN same ELSE ~same), r.st)
Equal(op, v, w, en, st) ==
  LET m == HookOf(st, v, "__eq__")
  IN  Compared(op, IF m = NoStmt THEN Ok(BoolV(SameValue(st, v, w)), st)
                   ELSE RunHook(m, v, <<w>>, Obj(st, v).cls, en, st))

Overloaded(op, v, w, en, st) ==
  LET m == HookOf(st, v, Dunder[op])
  IN  IF m = NoStmt THEN Ok(Arithmetic(op, v, w), st)
      ELSE Then(RunHook(m, v, <<w>>, Obj(st, v).cls, en, st), Ok)

BinaryOp(op, v, w, en, st) ==
  CASE op \in {"==", "!="}           -> Equal(op, v, w, en, st)
    [] op \in {"<", ">", "<=", ">="} -> Compare(op, v, w, st)
    [] op \in DOMAIN Dunder          -> Overloaded(op, v, w, en, st)

\* "and" and "or" give a truth value, not an operand.
EvalBinary(e, en, st) ==
  Then(Eval(e.l, en, st), LAMBDA v, s :
    CASE e.op = "not" -> Ok(BoolV(~IsTruthy(v)), s)
      [] (e.op = "or" /\ IsTruthy(v)) \/ (e.op = "and" /\ ~IsTruthy(v)) ->
           Ok(BoolV(e.op = "or"), s)
      [] OTHER -> Then(Eval(e.r, en, s), LAMBDA w, s2 :
                    IF e.op \in {"or", "and"} THEN Ok(BoolV(IsTruthy(w)), s2)
                    ELSE BinaryOp(e.op, v, w, en, s2)))

(***************************************************************************)
(* Reading and writing places.                                             *)
(***************************************************************************)
\* An index counts from the end when negative; out of bounds is reported
\* and gives nil.
Indexed(vs, i) == At(vs, IF i < 0 THEN i + Len(vs) ELSE i)
Chars(s) == [i \in 1 .. Len(s) |-> StrV(SubSeq(s, i, i))]
IndexValue(st, x, i) ==
  CASE IsA(x, "arr")   /\ IsA(i, "int") -> Indexed(Elems(st, x), i.n)
    [] IsA(x, "tuple") /\ IsA(i, "int") -> Indexed(x.vs, i.n)
    [] IsA(x, "str")   /\ IsA(i, "int") -> Indexed(Chars(x.s), i.n)
    [] IsA(x, "dict")  /\ IsA(i, "str") -> DictGet(st, x, i.s)
    [] OTHER -> Nil

\* A store does not wrap a negative index, and one out of bounds is lost.
SetIndex(st, x, i, v) ==
  CASE IsA(x, "arr")  /\ IsA(i, "int") -> Ok(v, ArraySet(st, x, i.n, v))
    [] IsA(x, "dict") /\ IsA(i, "str") -> Ok(v, DictSet(st, x, i.s, v))
    [] OTHER -> Ok(Nil, st)

Property(st, x, name) ==
  CASE IsA(x, "inst") \/ IsA(x, "dict") -> DictGet(st, x, name)
    [] IsA(x, "str") /\ name = "length" -> IntV(Len(x.s))
    [] IsA(x, "arr") /\ name = "length" -> IntV(Len(Elems(st, x)))
    [] OTHER -> Nil

\* A failed assignment is reported and gives nil; the program goes on.
AssignVariable(name, v, en, st) ==
  IF ~Bound(st, en, name) \/ IsConst(st, en, name) THEN Ok(Nil, st)
  ELSE Ok(v, SetSlot(st, en, name, v))

EvalIndex(e, en, st) ==
  Then(Eval(e.x, en, st), LAMBDA x, s :
    Then(Eval(e.i, en, s), LAMBDA i, s2 : Ok(IndexValue(s2, x, i), s2)))

EvalIndexSet(e, en, st) ==
  Then(EvalEach(<<e.x, e.i, e.e>>, en, st), LAMBDA vs, s : SetIndex(s, vs.vs[1], vs.vs[2], vs.vs[3]))

\* An absent bound is the end of the sequence it stands for; a bound that
\* is no number gives nil at once.
EvalSlice(e, en, st) ==
  LET Bound1(b, default, s, Go(_, _)) ==
        IF b = NoExpr THEN Go(default, s)
        ELSE Then(Eval(b, en, s), LAMBDA v, s2 : IF IsA(v, "int") THEN Go(v.n, s2) ELSE Ok(Nil, s2))
  IN  Then(Eval(e.x, en, st), LAMBDA x, s :
        IF x.t \notin {"arr", "str"} THEN Ok(Nil, s)
        ELSE LET n == IF IsA(x, "arr") THEN Len(Elems(s, x)) ELSE Len(x.s)
             IN  Bound1(e.lo, 0, s, LAMBDA lo, s2 :
                   Bound1(e.hi, n, s2, LAMBDA hi, s3 : SliceOf(x, lo, hi, s3))))

EvalVariable(e, en, st) ==
  IF Bound(st, en, e.name) THEN Ok(ValueOf(st, en, e.name), st)
  ELSE Thr("Undefined variable '" \o e.name \o "'", st)

\* The value of obj.prop = value is not evaluated unless obj is an instance.
EvalSet(e, en, st) ==
  IF e.x = NoExpr
  THEN Then(Eval(e.e, en, st), LAMBDA v, s : AssignVariable(e.name, v, en, s))
  ELSE Then(Eval(e.x, en, st), LAMBDA x, s :
         IF ~IsA(x, "inst") THEN Ok(Nil, s)
         ELSE Then(Eval(e.e, en, s), LAMBDA v, s2 : Ok(v, DictSet(s2, x, e.name, v))))

IsSpread(e) == e.k = "bin" /\ e.op = ".." /\ e.r = NoExpr
EvalArray(e, en, st) ==
  LET Add(vs, x, s) ==
        IF IsSpread(x)
        THEN Then(Eval(x.l, en, s), LAMBDA v, s2 :
               Ok(TupleV(vs.vs \o (IF IsA(v, "arr") THEN Elems(s2, v) ELSE << >>)), s2))
        ELSE Then(Eval(x, en, s), LAMBDA v, s2 : Ok(TupleV(Append(vs.vs, v)), s2))
  IN  Then(FoldLeft(LAMBDA acc, x : Then(acc, LAMBDA vs, s : Add(vs, x, s)), Ok(TupleV(<< >>), st), e.es),
           LAMBDA vs, s : NewArray(vs.vs, s))

EvalDict(e, en, st) ==
  Then(EvalEach(e.es, en, st), LAMBDA vs, s :
    NewDict(FoldLeftDomain(LAMBDA m, i : (e.keys[i] :> vs.vs[i]) @@ m, << >>, e.keys), s))
EvalTuple(e, en, st) == Then(EvalEach(e.es, en, st), Ok)

EvalGet(e, en, st) ==
  Then(Eval(e.x, en, st), LAMBDA x, s : Ok(Property(s, x, e.name), s))

(***************************************************************************)
(* Calls.                                                                  *)
(***************************************************************************)
\* Some, Ok and the other options are tagged dictionaries.
TagOf(st, v) == IF IsA(v, "dict") /\ IsA(DictGet(st, v, "__type"), "str")
                THEN DictGet(st, v, "__type").s ELSE ""
IsCtor(st, v) == TagOf(st, v) = "__enum_ctor__"
Texts(vs) == [i \in DOMAIN vs |-> vs[i].s]
FieldNames(st, ctor) ==
  IF IsA(ctor, "dict") /\ IsA(DictGet(st, ctor, "__fields"), "arr")
  THEN Texts(Elems(st, DictGet(st, ctor, "__fields"))) ELSE << >>

\* The constructor of an enum variant evaluates its own arguments, and the
\* one of a variant with a single field once more for "__val": a throw
\* there is swallowed.
VariantOf(info, names, vs) ==
  FoldLeftDomain(LAMBDA m, i : (names[i] :> vs[i]) @@ m,
                 ("__type" :> info["__variant_type"]) @@ ("__tag" :> info["__tag"]), FirstOf(names, Len(vs)))
WithPayload(m, r) ==
  CASE r.sig = "exit" -> r
    [] r.sig = "thr"  -> NewDict(m, r.st)
    [] OTHER          -> NewDict(("__val" :> r.v) @@ m, r.st)
Construct(ctor, args, en, st) ==
  LET names == FieldNames(st, ctor)
  IN  Then(EvalEach(FirstOf(args, Len(names)), en, st), LAMBDA vs, s :
        LET variant == VariantOf(Fields(s, ctor), names, vs.vs)
        IN  IF Len(names) = 1 /\ args # << >> THEN WithPayload(variant, Eval(args[1], en, s))
            ELSE NewDict(variant, s))

\* Runs a method with the arguments it has parameters for; the others are
\* not even evaluated.  Defaults are not used.
CallMethod(m, self, owner, cls, args, en, st) ==
  LET scope == NewEnv(st)
      ps    == Formals(m.ps)
      st1   == DefineConst(DefineConst(EnvCreate(st, Defining(st, cls, en)), scope, "self", self),
                           scope, "__class__", owner)
  IN  Then(EvalEach(FirstOf(args, Len(ps)), en, st1), LAMBDA vs, s :
        RunBody(m.s, scope, BindAll(s, scope, ps, vs.vs)))

\* super.m(...) starts above the class that owns the running method, and
\* runs in the scope of that class's parent.
CallInherited(self, up, e, en, st) ==
  LET m == FindMethod(st, up, e.f.name)
  IN  IF up = Nil \/ m = NoStmt THEN Ok(Nil, st) ELSE CallMethod(m, self, up, up, e.es, en, st)
CallSuper(e, en, st) ==
  LET self == ValueOf(st, en, "self")
      ctx  == ValueOf(st, en, "__class__")
      cls  == IF IsA(ctx, "cls") THEN ctx ELSE Obj(st, self).cls
  IN  IF IsA(self, "inst") THEN CallInherited(self, Obj(st, cls).up, e, en, st) ELSE Ok(Nil, st)

\* Arguments in the caller's scope; so are the defaults of the missing ones.
\* A call with a wrong number of arguments is reported, evaluates none of
\* them and gives nil.
CallFunction(f, args, en, st) ==
  LET ps       == f.proc.ps
      required == Cardinality({i \in DOMAIN ps : ps[i].dflt = NoExpr})
      defaults == [i \in 1 .. Len(ps) - Len(args) |-> ps[Len(args) + i].dflt]
      actuals  == args \o [i \in DOMAIN defaults |-> IF defaults[i] = NoExpr THEN NilE ELSE defaults[i]]
  IN  IF Len(args) < required \/ Len(args) > Len(ps) THEN Ok(Nil, st)
      ELSE Then(EvalEach(actuals, en, st), LAMBDA vs, s :
             RunBody(f.proc.s, NewEnv(s), BindAll(EnvCreate(s, f.en), NewEnv(s), ps, vs.vs)))

\* Calling a generator makes another one, whose scope holds the arguments.
CallGenerator(g, args, en, st) ==
  LET tmpl  == Obj(st, g)
      scope == NewEnv(st)
  IN  IF Len(args) # Len(tmpl.ps) THEN Ok(Nil, st)
      ELSE Then(EvalEach(args, en, EnvCreate(st, tmpl.up)), LAMBDA vs, s :
             Ok(Ref("gen", NewId(s)), Alloc(BindAll(s, scope, tmpl.ps, vs.vs),
                                            GenObj(tmpl.s, tmpl.ps, scope))))

StructFields(st, c, en) ==
  LET meta == ValueOf(st, en, "__" \o Obj(st, c).name \o "_fields__")
  IN  IF IsA(meta, "arr") THEN Texts(Elems(st, meta)) ELSE << >>
FillFields(st, inst, names, vs) ==
  FoldLeftDomain(LAMBDA acc, i : DictSet(acc, inst, names[i], vs[i]), st, FirstOf(names, Len(vs)))

\* A class makes an instance and runs init, whose parameters may have
\* defaults; a structure fills its fields in order.
Initialised(c, m, args, en, st) ==
  LET inst   == Ref("inst", NewId(st))
      scope  == NewEnv(st)
      ps     == Formals(m.ps)
      actual == [i \in DOMAIN ps |-> IF i <= Len(args) THEN args[i]
                                     ELSE IF ps[i].dflt = NoExpr THEN NilE ELSE ps[i].dflt]
      st1    == Define(Define(EnvCreate(Alloc(st, InstObj(c, << >>)), Defining(st, c, en)), scope, "self", inst),
                       scope, "__class__", MethodOwner(st, c, "init"))
  IN  Then(EvalEach(actual, en, st1), LAMBDA vs, s :
        Then(RunBody(m.s, scope, BindAll(s, scope, ps, vs.vs)), LAMBDA v, s2 : Ok(inst, s2)))
Filled(c, names, args, en, st) ==
  Then(EvalEach(FirstOf(args, Len(names)), en, Alloc(st, InstObj(c, << >>))), LAMBDA vs, s :
    Ok(Ref("inst", NewId(st)), FillFields(s, Ref("inst", NewId(st)), names, vs.vs)))
CallClass(c, args, en, st) ==
  LET m == FindMethod(st, c, "init")
  IN  IF m = NoStmt THEN Filled(c, StructFields(st, c, en), args, en, st)
      ELSE Initialised(c, m, args, en, st)

\* The text of a value, of an instance what its __str__ gives.
HookText(r, v) ==
  CASE r.sig = "exit"                    -> r
    [] r.sig # "thr" /\ IsA(r.v, "str") -> Ok(r.v, r.st)
    [] OTHER                             -> Ok(StrV(ValueToString(r.st, v)), r.st)
TextBy(m, v, en, st) ==
  IF m = NoStmt THEN Ok(StrV(ValueToString(st, v)), st)
  ELSE HookText(RunHook(m, v, << >>, Obj(st, v).cls, en, st), v)
TextOf(v, en, st) == TextBy(HookOf(st, v, "__str__"), v, en, st)
str(vs, en, st) == IF Len(vs) # 1 THEN Ok(Nil, st) ELSE TextOf(vs[1], en, st)

\* next(g) runs the body again from its start, with every statement that
\* neither is nor holds the one after the last yield skipped.  A throw in
\* the body ends the process.
Suspended(g, r) ==
  LET after == [r.st EXCEPT !.resume = NoStmt]
      ended == [after EXCEPT !.heap[g.id].done = TRUE]
  IN  CASE r.sig = "yld" -> Ok(r.v, [after EXCEPT !.heap[g.id].cur = r.next, !.heap[g.id].target = TRUE])
        [] r.sig = "ret" -> Ok(r.v, ended)
        [] r.sig \in {"thr", "exit"} -> R("exit", Nil, ended)
        [] OTHER -> Ok(Nil, [ended EXCEPT !.heap[g.id].target = FALSE])
next(vs, st) ==
  LET g     == vs[1]
      gen   == Obj(st, g)
      scope == IF gen.started THEN gen.en ELSE NewEnv(st)
      st1   == IF gen.started THEN st
               ELSE [EnvCreate(st, gen.up) EXCEPT !.heap[g.id].en = scope, !.heap[g.id].started = TRUE]
  IN  CASE Len(vs) # 1 \/ ~IsA(g, "gen") -> R("exit", Nil, st)
        [] gen.done -> Ok(Nil, st)
        [] gen.target /\ gen.cur = NoStmt -> Ok(Nil, [st EXCEPT !.heap[g.id].done = TRUE])
        [] OTHER -> Suspended(g, Exec(gen.s, scope, [st1 EXCEPT !.resume = IF gen.target THEN gen.cur ELSE NoStmt]))

ApplyNative(name, vs, en, st) ==
  CASE name = "next" -> next(vs, st)
    [] name = "str"  -> str(vs, 1, st)
    [] OTHER         -> CallNative(name, vs, st)

CallValue(e, en, st) ==
  Then(Eval(e.f, en, st), LAMBDA f, s :
    CASE IsCtor(s, f)     -> Construct(f, e.es, en, s)
      [] IsA(f, "native") -> Then(EvalEach(e.es, en, s), LAMBDA vs, s2 : ApplyNative(f.s, vs.vs, en, s2))
      [] IsA(f, "fun")    -> CallFunction(f, e.es, en, s)
      [] IsA(f, "gen")    -> CallGenerator(f, e.es, en, s)
      [] IsA(f, "cls")    -> CallClass(f, e.es, en, s)
      [] OTHER            -> Ok(Nil, s))

\* x.m(...): a method of an instance, or a built-in one; the arguments of
\* the latter are evaluated before it is known whether there is one, and
\* again when m turns out to be the constructor of a variant; a class is
\* evaluated once more and has no member to call.
CallMember(e, en, st) ==
  LET name == e.f.name IN
  Then(Eval(e.f.x, en, st), LAMBDA x, s :
    IF IsA(x, "inst")
    THEN LET cls == Obj(s, x).cls
             m   == FindMethod(s, cls, name)
         IN  IF m = NoStmt THEN Ok(Nil, s)
             ELSE CallMethod(m, x, MethodOwner(s, cls, name), cls, e.es, en, s)
    ELSE Then(EvalEach(e.es, en, s), LAMBDA vs, s2 :
           LET variant == IF IsA(x, "dict") THEN DictGet(s2, x, name) ELSE Nil
           IN  CASE name \in MethodsOf(x.t) -> BuiltinMethod(x, name, vs.vs, s2)
                 [] IsCtor(s2, variant)     -> Construct(variant, e.es, en, s2)
                 [] IsA(x, "cls")           -> Then(Eval(e.f, en, s2), LAMBDA f, s3 : Ok(Nil, s3))
                 [] OTHER                   -> Ok(Nil, s2)))

EvalCall(e, en, st) ==
  CASE e.f.k = "get"   -> CallMember(e, en, st)
    [] e.f.k = "super" -> CallSuper(e, en, st)
    [] OTHER           -> CallValue(e, en, st)

(***************************************************************************)
(* The other expressions.                                                  *)
(***************************************************************************)
\* The text of an interpolated string: a part that throws is left as it
\* stands in the source.
PartText(part, r) ==
  CASE r.sig = "thr" -> "{" \o part.src \o "}"
    [] r.v.t \in {"int", "str", "bool", "nil"} -> ValueToString(r.st, r.v)
    [] OTHER -> "<value>"
EvalInterp(e, en, st) ==
  FoldLeft(LAMBDA acc, part :
             Then(acc, LAMBDA text, s :
               IF part.e = NoExpr THEN Ok(StrV(text.s \o part.src), s)
               ELSE LET r == Eval(part.e, en, s)
                    IN  IF r.sig = "exit" THEN r ELSE Ok(StrV(text.s \o PartText(part, r)), r.st)),
           Ok(StrV(""), st), e.parts)

EvalNullCoal(e, en, st) ==
  LET r == Eval(e.l, en, st)
  IN  IF r.sig \in {"thr", "exit"} \/ r.v # Nil THEN r ELSE Eval(e.r, en, r.st)

EvalUnwrap(e, en, st) ==
  LET r   == Eval(e.e, en, st)
      tag == TagOf(r.st, r.v)
  IN  CASE r.sig \in {"thr", "exit"}            -> r
        [] r.v = Nil                            -> Thr("Force-unwrap of nil value (!)", r.st)
        [] tag \in {"option.some", "result.ok"} -> Ok(DictGet(r.st, r.v, "__val"), r.st)
        [] tag = "result.err"                   -> Thr("Force-unwrap of Err value (!)", r.st)
        [] OTHER                                -> r

\* e? makes the enclosing procedure return nil or the error.
EvalPropagate(e, en, st) ==
  LET r   == Eval(e.e, en, st)
      tag == TagOf(r.st, r.v)
  IN  CASE r.sig \in {"thr", "exit"}            -> r
        [] r.v = Nil                            -> R("ret", Nil, r.st)
        [] tag \in {"option.some", "result.ok"} -> Ok(DictGet(r.st, r.v, "__val"), r.st)
        [] tag = "result.err"                   -> R("ret", r.v, r.st)
        [] OTHER                                -> r

EvalOptChain(e, en, st) ==
  Then(Eval(e.x, en, st), LAMBDA x, s :
    Ok(IF IsA(x, "dict") THEN DictGet(s, x, e.name) ELSE Nil, s))

\* What is not a thread is its own result.
EvalAwait(e, en, st) == Then(Eval(e.e, en, st), Ok)

EvalRange(e, en, st) ==
  Then(EvalEach(<<e.lo, e.hi>>, en, st), LAMBDA vs, s :
    NewDict(("__type" :> StrV("range")) @@ ("low" :> vs.vs[1]) @@ ("high" :> vs.vs[2])
              @@ ("inclusive" :> BoolV(e.inc)), s))

Eval(e, en, st) ==
  CASE e.k = "int"       -> Ok(IntV(e.n), st)
    [] e.k = "str"       -> Ok(StrV(e.s), st)
    [] e.k = "bool"      -> Ok(BoolV(e.b), st)
    [] e.k = "nil"       -> Ok(Nil, st)
    [] e.k = "var"       -> EvalVariable(e, en, st)
    [] e.k = "bin"       -> EvalBinary(e, en, st)
    [] e.k = "array"     -> EvalArray(e, en, st)
    [] e.k = "dict"      -> EvalDict(e, en, st)
    [] e.k = "tuple"     -> EvalTuple(e, en, st)
    [] e.k = "index"     -> EvalIndex(e, en, st)
    [] e.k = "indexset"  -> EvalIndexSet(e, en, st)
    [] e.k = "slice"     -> EvalSlice(e, en, st)
    [] e.k = "get"       -> EvalGet(e, en, st)
    [] e.k = "set"       -> EvalSet(e, en, st)
    [] e.k = "call"      -> EvalCall(e, en, st)
    [] e.k = "interp"    -> EvalInterp(e, en, st)
    [] e.k = "nullcoal"  -> EvalNullCoal(e, en, st)
    [] e.k = "unwrap"    -> EvalUnwrap(e, en, st)
    [] e.k = "propagate" -> EvalPropagate(e, en, st)
    [] e.k = "optchain"  -> EvalOptChain(e, en, st)
    [] e.k = "range"     -> EvalRange(e, en, st)
    [] e.k = "comptime"  -> Eval(e.e, en, st)
    [] e.k = "await"     -> EvalAwait(e, en, st)

(***************************************************************************)
(* Statements.                                                             *)
(***************************************************************************)
Printed(st, text) == [st EXCEPT !.out = Append(@, text)]
PrintValue(v, en, st) == Then(TextOf(v, en, st), LAMBDA text, s : Ok(Nil, Printed(s, text.s)))

ExecLet(s, v, en, st) ==
  Ok(Nil, IF IsStruct(st, v) THEN DefineAs(CopyStruct(st, v), en, s.name, Ref("inst", NewId(st)), ~s.mut)
                             ELSE DefineAs(st, en, s.name, v, ~s.mut))

\* Deferred statements run last in, first out, and their results are lost.
RunDeferred(ds, en, st) ==
  FoldRight(LAMBDA d, acc : IF acc.sig = "exit" THEN acc
                            ELSE LET r == Exec(d, en, acc.st)
                                 IN  IF r.sig = "exit" THEN r ELSE Ok(Nil, r.st),
            ds, Ok(Nil, st))

\* A block runs its statements in the scope it stands in, and its deferred
\* ones when it ends, also when it ends at a yield.
RECURSIVE RunFrom(_, _, _, _, _)
RunFrom(ss, i, ds, en, st) ==
  LET Leave(r) == LET d == RunDeferred(ds, en, r.st)
                  IN  IF d.sig = "exit" THEN d ELSE [r EXCEPT !.st = d.st]
      after    == IF i < Len(ss) THEN ss[i + 1] ELSE NoStmt
  IN  IF i > Len(ss) THEN Leave(Ok(Nil, st))
      ELSE IF ss[i].k = "defer"
      THEN RunFrom(ss, i + 1, IF Len(ds) < MaxDefers THEN Append(ds, ss[i].s) ELSE ds, en, st)
      ELSE LET r == Exec(ss[i], en, st)
           IN  CASE r.sig = "ok"   -> RunFrom(ss, i + 1, ds, en, r.st)
                 [] r.sig = "exit" -> r
                 [] r.sig = "yld"  -> Leave(IF r.next = NoStmt THEN [r EXCEPT !.next = after] ELSE r)
                 [] OTHER          -> Leave(r)
ExecBlock(s, en, st) == RunFrom(s.ss, 1, << >>, en, st)

\* @manual, @trusted and @unsafe stop collection and start it again.
ExecAnnotated(s, en, st) ==
  LET pauses == s.annot \in {"manual", "trusted", "unsafe"}
      r == Exec(s.s, en, IF pauses THEN [st EXCEPT !.gcOn = FALSE]
                         ELSE IF s.annot = "gc" THEN [st EXCEPT !.gcOn = TRUE] ELSE st)
  IN  IF pauses THEN [r EXCEPT !.st.gcOn = TRUE] ELSE r

ExecIf(s, v, en, st) ==
  CASE IsTruthy(v)    -> Exec(s.s, en, st)
    [] s.alt # NoStmt -> Exec(s.alt, en, st)
    [] OTHER          -> Ok(Nil, st)

\* What a loop passes on; a yield without a statement to resume at resumes
\* at the loop.
Leaves(r, s) == IF r.sig = "yld" /\ r.next = NoStmt THEN [r EXCEPT !.next = s] ELSE r

RECURSIVE RunWhile(_, _, _, _)
RunWhile(s, n, en, st) ==
  IF n > MaxLoopIterations THEN Thr("While loop exceeded maximum iterations", st)
  ELSE Then(Eval(s.c, en, st), LAMBDA v, st1 :
         IF ~IsTruthy(v) THEN Ok(Nil, st1)
         ELSE LET r == Exec(s.s, en, st1)
              IN  CASE r.sig \in {"ret", "thr", "yld", "exit"} -> Leaves(r, s)
                    [] r.sig = "brk" -> Ok(Nil, r.st)
                    [] OTHER         -> RunWhile(s, n + 1, en, r.st))

\* The loop variable's slot is overwritten at each step.  An array is read
\* anew at each step; a yield leaves a loop over an array, and is lost in
\* one over a range or a string.
RECURSIVE RunFor(_, _, _, _, _)
RunFor(s, vs, i, scope, st) ==
  IF i > Len(vs) THEN Ok(Nil, st)
  ELSE LET r == Exec(s.s, scope, [st EXCEPT !.envs[scope].vars[s.name].v = vs[i]])
       IN  CASE r.sig \in {"ret", "thr", "exit"} -> r
             [] r.sig = "brk" -> Ok(Nil, r.st)
             [] OTHER         -> RunFor(s, vs, i + 1, scope, r.st)
RECURSIVE RunForArray(_, _, _, _, _)
RunForArray(s, a, i, scope, st) ==
  IF i > Len(Elems(st, a)) THEN Ok(Nil, st)
  ELSE LET r == Exec(s.s, scope, [st EXCEPT !.envs[scope].vars[s.name].v = Elems(st, a)[i]])
       IN  CASE r.sig \in {"ret", "thr", "yld", "exit"} -> Leaves(r, s)
             [] r.sig = "brk" -> Ok(Nil, r.st)
             [] OTHER         -> RunForArray(s, a, i + 1, scope, r.st)

RangeInts(st, d) ==
  LET num(v) == IF IsA(v, "int") THEN v.n ELSE 0
      lo == num(DictGet(st, d, "low"))
      hi == num(DictGet(st, d, "high")) + (IF DictGet(st, d, "inclusive") = BoolV(TRUE) THEN 1 ELSE 0)
  IN  [i \in 1 .. (IF hi > lo THEN hi - lo ELSE 0) |-> IntV(lo + i - 1)]

ExecFor(s, v, en, st) ==
  LET scope  == NewEnv(st)
      inLoop == DefineConst(EnvCreate(st, en), scope, s.name, Nil)
  IN  CASE TagOf(st, v) = "range" -> RunFor(s, RangeInts(st, v), 1, scope, inLoop)
        [] IsA(v, "str")          -> RunFor(s, Chars(v.s), 1, scope, inLoop)
        [] IsA(v, "arr")          -> RunForArray(s, v, 1, scope, inLoop)
        [] OTHER                  -> Ok(Nil, st)

\* A procedure that yields is a generator: a template that next() or a call
\* makes a running one of.
ExecProc(s, en, st) ==
  IF ContainsYield(s.s)
  THEN Ok(Nil, DefineConst(Alloc(st, GenObj(s.s, s.ps, en)), en, s.name, Ref("gen", NewId(st))))
  ELSE Ok(Nil, DefineConst(st, en, s.name, FunV(s, en)))
ExecAsyncProc(s, en, st) == Ok(Nil, DefineConst(st, en, s.name, FunV(s, en)))
\* The defaults of a macro's parameters are dropped.
ExecMacroDef(s, en, st) ==
  LET ps == [i \in DOMAIN s.ps |-> [s.ps[i] EXCEPT !.dflt = NoExpr]]
  IN  Ok(Nil, DefineConst(st, en, s.name, FunV(Proc(s.name, ps, s.s), en)))

\* Without its parent a class is not defined.
AddMethods(st, c, ss, kinds) ==
  FoldLeft(LAMBDA acc, m : IF m.k \in kinds THEN ClassAddMethod(acc, c, m) ELSE acc, st, ss)
ExecClass(s, en, st) ==
  LET up == IF s.up = "" THEN Nil ELSE ValueOf(st, en, s.up)
      c  == Ref("cls", NewId(st))
  IN  IF s.up # "" /\ ~IsA(up, "cls") THEN Ok(Nil, st)
      ELSE Ok(Nil, DefineConst(AddMethods(Alloc(st, ClassObj(s.name, up, en)), c, s.ss, {"proc", "async"}),
                               en, s.name, c))
ExecStruct(s, en, st) ==
  LET c     == Ref("cls", NewId(st))
      st1   == Alloc(st, [ClassObj(s.name, Nil, en) EXCEPT !.struct = TRUE])
      st2   == Alloc(st1, ArrObj([i \in DOMAIN s.fields |-> StrV(s.fields[i])]))
  IN  Ok(Nil, Define(DefineConst(st2, en, s.name, c), en, "__" \o s.name \o "_fields__", Ref("arr", NewId(st1))))
ExecImpl(s, en, st) ==
  LET c == ValueOf(st, en, s.name)
  IN  Ok(Nil, IF IsA(c, "cls") THEN AddMethods(st, c, s.ss, {"proc"}) ELSE st)
ExecTrait(s, en, st) ==
  LET procs == SelectSeq(s.ss, LAMBDA m : m.k = "proc")
      st1   == Alloc(st, ArrObj([i \in DOMAIN procs |-> StrV(procs[i].name)]))
      st2   == Alloc(st1, DictObj(("__methods__" :> Ref("arr", NewId(st))) @@ ("__name__" :> StrV(s.name))))
  IN  Ok(Nil, DefineConst(st2, en, s.name, Ref("dict", NewId(st1))))

\* A variant without fields is a tagged value, one with fields is the
\* information its constructor is called with.
ExecEnum(s, en, st) ==
  LET Add(acc, i) ==
        LET var  == s.variants[i]
            tag  == ("__tag" :> IntV(i - 1))
            type == StrV(s.name \o "." \o var.name)
            st1  == Alloc(acc.st, ArrObj([j \in DOMAIN var.fields |-> StrV(var.fields[j])]))
            obj  == IF var.fields = << >> THEN tag @@ ("__type" :> type)
                    ELSE tag @@ ("__type" :> StrV("__enum_ctor__")) @@ ("__variant_type" :> type)
                             @@ ("__fields" :> Ref("arr", NewId(acc.st)))
        IN  [st |-> Alloc(st1, DictObj(obj)), m |-> (var.name :> Ref("dict", NewId(st1))) @@ acc.m]
      all == FoldLeftDomain(Add, [st |-> st, m |-> ("__name__" :> StrV(s.name))], s.variants)
  IN  Ok(Nil, DefineConst(Alloc(all.st, DictObj(all.m)), en, s.name, Ref("dict", NewId(all.st))))

\* Each catch clause is tried until one does not throw; what a finally block
\* returns, throws, breaks or continues replaces the outcome.
CatchAll(s, en, r) ==
  FoldLeft(LAMBDA acc, c :
             IF acc.sig # "thr" THEN acc
             ELSE LET scope == NewEnv(acc.st)
                      exc   == IF IsA(r.v, "exc") THEN StrV(r.v.s) ELSE r.v
                  IN  Exec(c.s, scope, DefineConst(EnvCreate(acc.st, en), scope, c.name, exc)),
           r, s.catches)
ExecTry(s, en, st) ==
  LET r == CatchAll(s, en, Exec(s.s, en, st))
      f == Exec(s.fin, en, r.st)
  IN  CASE r.sig = "exit" \/ s.fin = NoStmt                      -> r
        [] f.sig \in {"thr", "ret", "brk", "cont", "exit"} -> f
        [] OTHER                                           -> [r EXCEPT !.st = f.st]

ExecRaise(v, st) ==
  R("thr", CASE v.t \in {"str", "int", "bool", "nil"} -> ExcV(ValueToString(st, v))
             [] v.t \in {"inst", "exc"}               -> v
             [] OTHER                                 -> ExcV("Unknown error"), st)

(***************************************************************************)
(* match: each clause has a scope for what its pattern binds; the guard    *)
(* and the body run in it.  The outcome of a pattern is whether it fits.   *)
(***************************************************************************)
Fits(b, st) == Ok(BoolV(b), st)

OptionTag == [name \in {"Some", "Ok", "Err"} |->
                CASE name = "Some" -> "option.some" [] name = "Ok" -> "result.ok"
                  [] OTHER -> "result.err"]

MatchOption(p, v, scope, st) ==
  IF p.f.name = "None" THEN Fits(v = Nil, st)
  ELSE IF p.f.name \notin DOMAIN OptionTag \/ TagOf(st, v) # OptionTag[p.f.name] THEN Fits(FALSE, st)
  ELSE Fits(TRUE, IF Len(p.es) = 1 /\ p.es[1].k = "var"
                  THEN Define(st, scope, p.es[1].name, DictGet(st, v, "__val")) ELSE st)

\* The value of a field, or of a single one the "__val".
FieldValue(st, v, name, single) ==
  IF single /\ DictGet(st, v, name) = Nil THEN DictGet(st, v, "__val") ELSE DictGet(st, v, name)

\* Type.Variant(a, b): the variables are bound to the fields in order.
MatchVariant(p, get, v, scope, r) ==
  LET enum   == IF IsA(r.v, "dict") THEN DictGet(r.st, r.v, "__name__") ELSE Nil
      names  == FieldNames(r.st, DictGet(r.st, r.v, get.name))
      valueOf(i) == FieldValue(r.st, v, IF i <= Len(names) THEN names[i] ELSE "", Len(p.es) = 1)
  IN  CASE r.sig = "thr" \/ ~IsA(enum, "str") -> Fits(FALSE, r.st)
        [] TagOf(r.st, v) # enum.s \o "." \o get.name -> Fits(FALSE, r.st)
        [] p = get -> Fits(TRUE, r.st)
        [] OTHER -> Fits(TRUE, FoldLeftDomain(LAMBDA acc, i :
                           IF p.es[i].k = "var" THEN Define(acc, scope, p.es[i].name, valueOf(i)) ELSE acc,
                         r.st, p.es))

MatchRange(p, v, lo, hi) ==
  Fits(/\ "thr" \notin {lo.sig, hi.sig}
       /\ {v.t, lo.v.t, hi.v.t} = {"int"}
       /\ v.n >= lo.v.n /\ (v.n < hi.v.n \/ (p.inc /\ v.n = hi.v.n)), hi.st)

\* What a pattern evaluates: both bounds of a range, also when the low one
\* threw, and of the others all that is not a place to bind.
PatternExprs(p, v) ==
  CASE p.k = "var" \/ (p.k = "call" /\ p.f.k = "var") -> << >>
    [] p.k = "call" /\ p.f.k = "get"                  -> <<p.f.x>>
    [] p.k = "get" /\ IsA(v, "dict")                  -> <<p.x>>
    [] p.k = "range"                                  -> <<p.lo, p.hi>>
    [] OTHER                                          -> <<p>>
OutcomesOf(es, en, st) ==
  FoldLeft(LAMBDA rs, e : IF Last(rs).sig = "exit" THEN rs ELSE Append(rs, Eval(e, en, Last(rs).st)),
           <<Ok(Nil, st)>>, es)
MatchPattern(p, v, scope, rs, r) ==
  CASE r.sig = "exit" -> r
    [] p.k = "var" -> Fits(TRUE, IF p.name = "_" THEN r.st ELSE Define(r.st, scope, p.name, v))
    [] p.k = "call" /\ p.f.k = "var"   -> MatchOption(p, v, scope, r.st)
    [] p.k = "call" /\ p.f.k = "get"   -> MatchVariant(p, p.f, v, scope, r)
    [] p.k = "get"  /\ IsA(v, "dict")  -> MatchVariant(p, p, v, scope, r)
    [] p.k = "range"                   -> MatchRange(p, v, rs[2], r)
    [] OTHER -> Then(r, LAMBDA w, s : Fits(SameValue(s, v, w), s))

RECURSIVE RunCases(_, _, _, _, _)
\* The clause whose pattern gave p, its guard g.
Guarded(s, i, v, en, scope, g) ==
  CASE g.sig \in {"thr", "exit"} -> g
    [] IsTruthy(g.v)             -> Exec(s.cases[i].s, scope, g.st)
    [] OTHER                     -> RunCases(s, i + 1, v, en, g.st)
Matched(s, i, v, en, scope, p) ==
  LET guard == s.cases[i].c
  IN  CASE p.sig \in {"thr", "exit"} -> p
        [] ~p.v.b                    -> RunCases(s, i + 1, v, en, p.st)
        [] OTHER -> Guarded(s, i, v, en, scope, IF guard = NoExpr THEN p ELSE Eval(guard, scope, p.st))
Tried(s, i, v, en, scope, rs) ==
  Matched(s, i, v, en, scope, MatchPattern(s.cases[i].p, v, scope, rs, Last(rs)))
RunCases(s, i, v, en, st) ==
  IF i > Len(s.cases)
  THEN IF s.s = NoStmt THEN Ok(Nil, st) ELSE Exec(s.s, en, st)
  ELSE Tried(s, i, v, en, NewEnv(st), OutcomesOf(PatternExprs(s.cases[i].p, v), en, EnvCreate(st, en)))
ExecMatch(s, v, en, st) == RunCases(s, 1, v, en, st)

(***************************************************************************)
(* Statements that start with an expression, and what they do with its     *)
(* value.                                                                  *)
(***************************************************************************)
Operand(s) ==
  CASE s.k \in {"print", "let", "expr", "for", "return", "raise", "yield", "match"} -> s.e
    [] s.k = "if" -> s.c
    [] OTHER      -> NoExpr

\* The statement after a yield is the block's to add.
ExecWith(s, v, en, st) ==
  CASE s.k = "print"     -> PrintValue(v, en, st)
    [] s.k = "let"       -> ExecLet(s, v, en, st)
    [] s.k = "expr"      -> Ok(v, st)
    [] s.k = "block"     -> ExecBlock(s, en, st)
    [] s.k = "annotated" -> ExecAnnotated(s, en, st)
    [] s.k = "if"        -> ExecIf(s, v, en, st)
    [] s.k = "while"     -> RunWhile(s, 1, en, st)
    [] s.k = "for"       -> ExecFor(s, v, en, st)
    [] s.k = "break"     -> R("brk", Nil, st)
    [] s.k = "continue"  -> R("cont", Nil, st)
    [] s.k = "proc"      -> ExecProc(s, en, st)
    [] s.k = "async"     -> ExecAsyncProc(s, en, st)
    [] s.k = "macro"     -> ExecMacroDef(s, en, st)
    [] s.k = "class"     -> ExecClass(s, en, st)
    [] s.k = "struct"    -> ExecStruct(s, en, st)
    [] s.k = "enum"      -> ExecEnum(s, en, st)
    [] s.k = "trait"     -> ExecTrait(s, en, st)
    [] s.k = "impl"      -> ExecImpl(s, en, st)
    [] s.k = "return"    -> R("ret", v, st)
    [] s.k = "try"       -> ExecTry(s, en, st)
    [] s.k = "raise"     -> ExecRaise(v, st)
    [] s.k = "yield"     -> R("yld", v, st)
    [] s.k = "match"     -> ExecMatch(s, v, en, st)
    [] s.k = "defer"     -> Exec(s.s, en, st)
    [] s.k = "comptimes" -> Exec(s.s, en, st)
    [] s.k = "nostmt"    -> Ok(Nil, st)

\* The early return of a "?" ends let and expression statements; the others
\* go on with the value.
Continued(s, r, en) ==
  IF r.sig \in {"thr", "exit"} \/ (r.sig = "ret" /\ s.k \in {"let", "expr"}) THEN r
  ELSE ExecWith(s, r.v, en, r.st)
ExecInner(s, en, st) ==
  Continued(s, IF Operand(s) = NoExpr THEN Ok(Nil, st) ELSE Eval(Operand(s), en, st), en)

\* Every statement counts a call and ten steps of gas.  While a generator
\* resumes, statements that do not lead to the target do nothing.
Skipped(s, st) == st.resume # NoStmt /\ ~ContainsTarget(s, st.resume)
Metered(s, en, st) ==
  CASE OutOfGas(st)   -> Thr("Out of gas", st)
    [] Skipped(s, st) -> Ok(Nil, st)
    [] OTHER          -> ExecInner(s, en, [st EXCEPT !.resume = IF s = @ THEN NoStmt ELSE @])
Exec(s, en, st) ==
  IF st.depth >= MaxRecursionDepth THEN Thr("Maximum recursion depth exceeded", st)
  ELSE [Metered(s, en, Burn([st EXCEPT !.depth = @ + 1], 10)) EXCEPT !.st.depth = st.depth]

\* A script: its statements one by one; one that throws is reported and the
\* next one runs.
RunProgram(ss, st) ==
  FoldLeft(LAMBDA acc, s : IF acc.sig = "exit" THEN acc ELSE Exec(s, 1, acc.st), Ok(Nil, st), ss)
=============================================================================
