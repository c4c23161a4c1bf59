------------------------------- MODULE MossVM -------------------------------
(***************************************************************************)
(* The bytecode virtual machine (src/vm/vm.c) and what feeds it: a script  *)
(* compiled and run statement by statement (runtime.c), or an artifact     *)
(* compiled as a whole (program.c).                                        *)
(*                                                                         *)
(* The machine runs one instruction at a time.  Beside it the tree-walking *)
(* interpreter runs the same program, a statement whenever the machine     *)
(* starts one, so that the two can be compared when it has finished.       *)
(*                                                                         *)
(* What the machine calls in the interpreter, the procedures of a script   *)
(* among it, is one step.  Modules, threads, Python objects, floats and    *)
(* the bitwise instructions are left out.                                  *)
(***************************************************************************)
EXTENDS Interp, Bytecode

CONSTANTS
  Programs, \* the programs to run one of, each [mode |-> "script" or "artifact", ss |-> its statements]
  StackMax  \* VM_STACK_MAX

VARIABLES
  program, \* the program that runs
  pc,      \* the statement that runs, or runs next
  vm,      \* the registers: code, ip, stack, en (the scope), frames (the callers')
  world,   \* the world the machine works on
  ast,     \* the world of the interpreter, which has run the same statements and the one at hand
  apart    \* history: whether an instruction met operands that the interpreter treats in another way
vars == <<program, pc, vm, world, ast, apart>>

Idle == [code |-> << >>, ip |-> 1, stack |-> << >>, en |-> 1, frames |-> << >>]

Kept(c) == c.ok /\ Writable(c.code)
\* An artifact is refused unless all of it compiles and can be written.
Compiles(p) ==
  \/ p.mode = "script"
  \/ \A i \in DOMAIN p.ss : Kept(CompileChunk(p.ss[i], Artifact))

Init == /\ program \in {p \in Programs : Compiles(p)}
        /\ pc = 1
        /\ vm = Idle
        /\ world = InitialWorld(NativeNames)
        /\ ast = InitialWorld(NativeNames)
        /\ apart = FALSE

(***************************************************************************)
(* The stack: beyond its bottom there is nil.                              *)
(***************************************************************************)
Active   == vm.code # << >>
Instr    == vm.code[vm.ip]
OnOp(op)  == Active /\ Instr.op = op
Height   == Len(vm.stack)
Peek(d)  == IF d < Height THEN vm.stack[Height - d] ELSE Nil
Under(n) == SubSeq(vm.stack, 1, IF n < Height THEN Height - n ELSE 0)
TopN(n)  == SubSeq(vm.stack, Height - n + 1, Height)

(***************************************************************************)
(* Where the instructions are meant otherwise than the interpreter: what   *)
(* the one throws for is nil for the other, __eq__ is not looked for, a    *)
(* division by zero gives zero, a negative index of a tuple nil, and the   *)
(* arguments of a call are neither left out nor evaluated again.           *)
(***************************************************************************)
IsCompiled(f) == IsA(f, "fun") /\ f.proc.k = "compiled"
Defined(op, v, w) ==
  \/ BothInts(v, w)
  \/ op = "+" /\ IsA(v, "str") /\ IsA(w, "str")
  \/ op = "*" /\ {v.t, w.t} = {"str", "int"}
Arity(f) == CASE IsCompiled(f) -> Len(f.proc.ps) [] IsA(f, "gen") -> Len(Obj(world, f).ps)
              [] OTHER -> LET m == FindMethod(world, f, "init")
                          IN  IF m = NoStmt THEN Len(StructFields(world, f, vm.en)) ELSE Len(Formals(m.ps))
Accepts(f, n) ==
  CASE IsA(f, "native") -> TRUE
    [] IsA(f, "fun") /\ ~IsCompiled(f) ->
         n \in Cardinality({i \in DOMAIN f.proc.ps : f.proc.ps[i].dflt = NoExpr}) .. Len(f.proc.ps)
    [] IsCompiled(f) \/ f.t \in {"gen", "cls"} -> n = Arity(f)
    [] OTHER -> FALSE
AcceptsMember(x, name, n) ==
  LET m == IF IsA(x, "inst") THEN FindMethod(world, Obj(world, x).cls, name) ELSE NoStmt
  IN  IF IsA(x, "inst") THEN m # NoStmt /\ n = Len(Formals(m.ps)) ELSE name \in MethodsOf(x.t)
AgreesOn(op, v, w) ==
  CASE op \in {"==", "!="} -> HookOf(world, v, "__eq__") = NoStmt
    [] op \in {"/", "%"} /\ BothInts(v, w) -> w.n # 0
    [] op \in {"<", ">", "<=", ">="} -> v.t = w.t /\ v.t \in {"int", "str"}
    [] "inst" \in {v.t, w.t} -> HookOf(world, v, Dunder[op]) # NoStmt
    [] OTHER -> Defined(op, v, w)
MeansTheSame ==
  CASE Instr.op = "property" -> Peek(0).t \in {"inst", "dict"} \/ (Peek(0).t \in {"str", "arr"} /\ Instr.x = "length")
    [] Instr.op = "setproperty" -> IsA(Peek(1), "inst")
    [] Instr.op = "index" ->
         CASE IsA(Peek(1), "tuple") -> IsA(Peek(0), "int") /\ Peek(0).n >= 0
           [] IsA(Peek(1), "str") -> IsA(Peek(0), "int") /\ Peek(0).n \in -Len(Peek(1).s) .. Len(Peek(1).s) - 1
           [] OTHER -> <<Peek(1).t, Peek(0).t>> \in {<<"arr", "int">>, <<"dict", "str">>}
    [] Instr.op = "setindex" -> <<Peek(2).t, Peek(1).t>> \in {<<"arr", "int">>, <<"dict", "str">>}
    [] Instr.op = "slice" -> Peek(2).t \in {"arr", "str"} /\ {Peek(1).t, Peek(0).t} \subseteq {"nil", "int"}
    [] Instr.op = "arraylen" -> IsA(Peek(0), "arr")
    [] Instr.op = "binary" -> AgreesOn(Instr.x, Peek(1), Peek(0))
    [] Instr.op = "set"    -> Bound(world, vm.en, Instr.x) /\ ~IsConst(world, vm.en, Instr.x)
    [] Instr.op = "call"   -> Accepts(Peek(Instr.x), Instr.x)
    [] Instr.op = "method" -> AcceptsMember(Peek(Instr.n), Instr.x, Instr.n)
    [] OTHER -> TRUE
Noted == apart' = (apart \/ ~MeansTheSame)

(***************************************************************************)
(* How an instruction ends.                                                *)
(***************************************************************************)
\* The statement is over; one that threw ends an artifact, not a script.
EndStatement(w, threw) ==
  /\ vm' = Idle
  /\ world' = w
  /\ pc' = IF threw /\ program.mode = "artifact" THEN Len(program.ss) + 1 ELSE pc + 1
  /\ Noted
  /\ UNCHANGED <<program, ast>>

Goes(stack, en, d, w) ==
  /\ vm' = [vm EXCEPT !.stack = stack, !.en = en, !.ip = @ + 1 + d]
  /\ world' = w
  /\ Noted
  /\ UNCHANGED <<program, pc, ast>>
Push(stack, v, w) ==
  IF Len(stack) >= StackMax THEN EndStatement(w, TRUE)
  ELSE Goes(Append(stack, v), vm.en, 0, w)

\* The process ends with everything it had printed.
Exits(w) == /\ vm' = Idle
            /\ world' = w
            /\ pc' = Len(program.ss) + 1
            /\ Noted
            /\ UNCHANGED <<program, ast>>

\* Pushes the value of an outcome, unless it threw.
PushOutcome(stack, outcome) ==
  \E r \in {outcome} :
    CASE r.sig = "exit" -> Exits(r.st)
      [] r.sig = "thr"  -> EndStatement(r.st, TRUE)
      [] OTHER          -> Push(stack, r.v, r.st)

(***************************************************************************)
(* Statements in and out.                                                  *)
(***************************************************************************)
\* Structures, enums and impl blocks are run by the interpreter, also those
\* among the statements of a block.
RECURSIVE NeedsInterpreter(_)
NeedsInterpreter(s) ==
  \/ s.k \in {"struct", "impl", "enum"}
  \/ s.k = "block" /\ \E i \in DOMAIN s.ss : NeedsInterpreter(s.ss[i])

Interpret ==
  /\ ~Active /\ pc <= Len(program.ss)
  /\ program.mode = "script" /\ NeedsInterpreter(program.ss[pc])
  /\ world' = Exec(program.ss[pc], 1, world).st
  /\ ast' = Exec(program.ss[pc], 1, ast).st
  /\ pc' = pc + 1
  /\ UNCHANGED <<program, vm, apart>>

Load ==
  /\ ~Active /\ pc <= Len(program.ss)
  /\ program.mode = "artifact" \/ ~NeedsInterpreter(program.ss[pc])
  /\ vm' = [Idle EXCEPT !.code =
              CompileChunk(program.ss[pc], IF program.mode = "script" THEN Script ELSE Artifact).code]
  /\ ast' = Exec(program.ss[pc], 1, ast).st
  /\ UNCHANGED <<program, pc, world, apart>>

\* A chunk or a compiled function returns the top of its stack.
OpReturn ==
  /\ OnOp("return")
  /\ IF vm.frames = << >> THEN EndStatement(world, FALSE)
     ELSE LET caller == Last(vm.frames) IN
          /\ vm' = [code |-> caller.code, ip |-> caller.ip + 1, stack |-> Append(caller.stack, Peek(0)),
                    en |-> caller.en, frames |-> Front(vm.frames)]
          /\ Noted
          /\ UNCHANGED <<program, pc, world, ast>>

(***************************************************************************)
(* Values, variables and scopes.                                           *)
(***************************************************************************)
OpConstant == OnOp("const") /\ Push(vm.stack, Instr.x, world)
OpPop      == OnOp("pop") /\ Goes(Under(1), vm.en, 0, world)
OpDup      == OnOp("dup") /\ IF Instr.x >= Height THEN EndStatement(world, TRUE)
                          ELSE Push(vm.stack, Peek(Instr.x), world)
OpPushEnv  == OnOp("pushenv") /\ Goes(vm.stack, NewEnv(world), 0, EnvCreate(world, vm.en))
OpPopEnv   == OnOp("popenv") /\ IF world.envs[vm.en].up = 0 THEN EndStatement(world, TRUE)
                             ELSE Goes(vm.stack, world.envs[vm.en].up, 0, world)

OpGetGlobal ==
  /\ OnOp("get")
  /\ IF Bound(world, vm.en, Instr.x) THEN Push(vm.stack, ValueOf(world, vm.en, Instr.x), world)
     ELSE EndStatement(world, TRUE)

\* "let" makes a variable that can be assigned to, and copies a structure.
OpDefineGlobal ==
  /\ OnOp("define")
  /\ LET copied == IsStruct(world, Peek(0))
         v == IF copied THEN Ref("inst", NewId(world)) ELSE Peek(0)
         w == IF copied THEN CopyStruct(world, Peek(0)) ELSE world
     IN  Goes(Under(1), vm.en, 0, Define(w, vm.en, Instr.x, v))

OpSetGlobal ==
  /\ OnOp("set")
  /\ IF Bound(world, vm.en, Instr.x) /\ ~IsConst(world, vm.en, Instr.x)
     THEN Goes(vm.stack, vm.en, 0, SetSlot(world, vm.en, Instr.x, Peek(0)))
     ELSE EndStatement(world, TRUE)

\* The procedure of an artifact is its code.
OpDefineFunction ==
  /\ OnOp("function")
  /\ Goes(vm.stack, vm.en, 0,
          Define(world, vm.en, Instr.x.name, FunV(Instr.x, vm.en)))

(***************************************************************************)
(* Objects.                                                                *)
(***************************************************************************)
OpGetProperty ==
  /\ OnOp("property")
  /\ LET x == Peek(0) IN
     IF x.t \in {"inst", "dict"} \/ (x.t \in {"str", "arr"} /\ Instr.x = "length")
     THEN Push(Under(1), Property(world, x, Instr.x), world)
     ELSE EndStatement(world, TRUE)

OpSetProperty ==
  /\ OnOp("setproperty")
  /\ IF IsA(Peek(1), "inst") THEN Push(Under(2), Peek(0), DictSet(world, Peek(1), Instr.x, Peek(0)))
     ELSE EndStatement(world, TRUE)

\* A negative index of a tuple is not wrapped.
OpGetIndex ==
  /\ OnOp("index")
  /\ LET x == Peek(1)
         i == Peek(0)
     IN  CASE IsA(x, "tuple") /\ IsA(i, "int") -> Push(Under(2), At(x.vs, i.n), world)
           [] IsA(x, "str") /\ IsA(i, "int") /\ i.n \notin -Len(x.s) .. Len(x.s) - 1 -> EndStatement(world, TRUE)
           [] \/ x.t \in {"arr", "str"} /\ IsA(i, "int")
              \/ IsA(x, "dict") /\ IsA(i, "str") -> Push(Under(2), IndexValue(world, x, i), world)
           [] OTHER -> EndStatement(world, TRUE)

OpSetIndex ==
  /\ OnOp("setindex")
  /\ LET x == Peek(2)
         i == Peek(1)
     IN  IF (IsA(x, "arr") /\ IsA(i, "int")) \/ (IsA(x, "dict") /\ IsA(i, "str"))
         THEN PushOutcome(Under(3), SetIndex(world, x, i, Peek(0)))
         ELSE EndStatement(world, TRUE)

OpSlice ==
  /\ OnOp("slice")
  /\ LET x    == Peek(2)
         n    == IF IsA(x, "arr") THEN Len(Elems(world, x)) ELSE Len(x.s)
         num(v, default) == IF v = Nil THEN default ELSE v.n
     IN  IF x.t \in {"arr", "str"} /\ {Peek(1).t, Peek(0).t} \subseteq {"nil", "int"}
         THEN PushOutcome(Under(3), SliceOf(x, num(Peek(1), 0), num(Peek(0), n), world))
         ELSE EndStatement(world, TRUE)

OpArray == OnOp("array") /\ PushOutcome(Under(Instr.x), NewArray(TopN(Instr.x), world))
OpTuple == OnOp("tuple") /\ Push(Under(Instr.x), TupleV(TopN(Instr.x)), world)
OpDict ==
  /\ OnOp("dict")
  /\ LET kvs == TopN(2 * Instr.x)
         Add(m, i) == (kvs[2 * i - 1].s :> kvs[2 * i]) @@ m
     IN  PushOutcome(Under(2 * Instr.x), NewDict(FoldLeft(Add, << >>, [i \in 1 .. Instr.x |-> i]), world))

OpArrayLen ==
  /\ OnOp("arraylen")
  /\ IF IsA(Peek(0), "arr") THEN Push(Under(1), IntV(Len(Elems(world, Peek(0)))), world)
     ELSE EndStatement(world, TRUE)

(***************************************************************************)
(* Operators.  Unlike the interpreter's, they throw on the wrong operands, *)
(* __eq__ is not looked for, and a division by zero gives zero.            *)
(***************************************************************************)
WrongOperands(w) == Thr("Operands must be numbers or strings.", w)

VmArithmetic(op, v, w) ==
  CASE BothInts(v, w) /\ op \in {"/", "%"} /\ w.n = 0 -> IntV(0)
    [] OTHER -> Arithmetic(op, v, w)
OverloadThrows(r) == IF r.sig = "thr" THEN Thr("Operator error.", r.st) ELSE r
VmOverloaded(m, v, w) ==
  IF m = NoStmt THEN WrongOperands(world)
  ELSE OverloadThrows(RunHook(m, v, <<w>>, Obj(world, v).cls, vm.en, world))
VmBinary(op, v, w) ==
  CASE op \in {"==", "!="} -> Ok(BoolV(SameValue(world, v, w) = (op = "==")), world)
    [] op \in {"<", ">", "<=", ">="} ->
         IF v.t = w.t /\ v.t \in {"int", "str"} THEN Compare(op, v, w, world) ELSE WrongOperands(world)
    [] "inst" \in {v.t, w.t} -> VmOverloaded(HookOf(world, v, Dunder[op]), v, w)
    [] Defined(op, v, w) -> Ok(VmArithmetic(op, v, w), world)
    [] OTHER -> WrongOperands(world)

OpBinary == OnOp("binary") /\ PushOutcome(Under(2), VmBinary(Instr.x, Peek(1), Peek(0)))
OpNot    == OnOp("not") /\ Push(Under(1), BoolV(~IsTruthy(Peek(0))), world)
OpTruthy == OnOp("truthy") /\ Push(Under(1), BoolV(IsTruthy(Peek(0))), world)
OpAwait == OnOp("await") /\ Push(Under(1), Peek(0), world)

(***************************************************************************)
(* Jumps.                                                                  *)
(***************************************************************************)
Distance    == IF Instr.patched THEN Instr.d ELSE -vm.ip
OpJump  == OnOp("jump") /\ Goes(vm.stack, vm.en, Distance, world)
OpJumpIfFalse == OnOp("jumpf") /\ Goes(vm.stack, vm.en, IF IsTruthy(Peek(0)) THEN 0 ELSE Distance, world)

(***************************************************************************)
(* Calls.  The arguments are on the stack, evaluated once.                 *)
(***************************************************************************)
DefineEach(st, en, names, vs) ==
  FoldLeftDomain(LAMBDA acc, i : Define(acc, en, names[i], vs[i]), st, FirstOf(names, Len(vs)))
NamesOf(ps) == [i \in DOMAIN ps |-> ps[i].name]

VmConstruct(ctor, vs, st) ==
  LET names   == FieldNames(st, ctor)
      variant == VariantOf(Fields(st, ctor), names, vs)
  IN  NewDict(IF Len(names) = 1 /\ vs # << >> THEN ("__val" :> vs[1]) @@ variant ELSE variant, st)

\* Parameters can be assigned to, here and in what follows.
VmCallFunction(f, vs, st) ==
  LET ps       == f.proc.ps
      required == Cardinality({i \in DOMAIN ps : ps[i].dflt = NoExpr})
      missing  == [i \in 1 .. Len(ps) - Len(vs) |-> ps[Len(vs) + i].dflt]
      given(e) == IF e = NoExpr THEN NilE ELSE e
  IN  IF Len(vs) < required \/ Len(vs) > Len(ps) THEN Thr("Arity mismatch.", st)
      ELSE Then(EvalEach([i \in DOMAIN missing |-> given(missing[i])], vm.en, EnvCreate(st, f.en)), LAMBDA ds, s :
             RunBody(f.proc.s, NewEnv(st), DefineEach(s, NewEnv(st), NamesOf(ps), vs \o ds.vs)))

VmCallGenerator(g, vs, st) ==
  LET tmpl  == Obj(st, g)
      scope == NewEnv(st)
  IN  IF Len(vs) # Len(tmpl.ps) THEN Thr("Arity mismatch.", st)
      ELSE Ok(Ref("gen", NewId(st)),
              Alloc(DefineEach(EnvCreate(st, tmpl.up), scope, NamesOf(tmpl.ps), vs),
                    GenObj(tmpl.s, tmpl.ps, scope)))

\* init runs without the defaults of its parameters and without knowing
\* its class; a parameter without an argument is not defined.
VmCallClass(c, vs, st) ==
  LET inst  == Ref("inst", NewId(st))
      st1   == Alloc(st, InstObj(c, << >>))
      m     == FindMethod(st, c, "init")
      scope == NewEnv(st1)
      st2   == Define(EnvCreate(st1, Defining(st, c, vm.en)), scope, "self", inst)
  IN  IF m # NoStmt
      THEN Then(RunBody(m.s, scope, DefineEach(st2, scope, NamesOf(Formals(m.ps)), vs)), LAMBDA v, s : Ok(inst, s))
      ELSE Ok(inst, FillFields(st1, inst, StructFields(st, c, vm.en), vs))

VmApply(f, vs) ==
  CASE IsA(f, "native") -> ApplyNative(f.s, vs, vm.en, world)
    [] IsA(f, "fun")    -> VmCallFunction(f, vs, world)
    [] IsA(f, "gen")    -> VmCallGenerator(f, vs, world)
    [] IsA(f, "cls")    -> VmCallClass(f, vs, world)
    [] IsCtor(world, f) -> VmConstruct(f, vs, world)
    [] OTHER            -> Thr("Value is not callable.", world)

OpCall ==
  /\ OnOp("call")
  /\ LET n  == Instr.x
         f  == Peek(n)
         vs == TopN(n)
     IN  CASE Height < n + 1 -> EndStatement(world, TRUE)
           [] IsCompiled(f) /\ n # Len(f.proc.ps) -> EndStatement(world, TRUE)
           [] IsCompiled(f) /\ n = Len(f.proc.ps) ->
                /\ vm' = [code |-> f.proc.code, ip |-> 1, stack |-> << >>, en |-> NewEnv(world),
                          frames |-> Append(vm.frames, [code |-> vm.code, ip |-> vm.ip,
                                                        stack |-> Under(n + 1), en |-> vm.en])]
                /\ world' = DefineEach(EnvCreate(world, f.en), NewEnv(world), f.proc.ps, vs)
                /\ Noted
                /\ UNCHANGED <<program, pc, ast>>
           [] OTHER -> PushOutcome(Under(n + 1), VmApply(f, vs))

VmCallMethod(x, name, vs, st) ==
  LET cls   == Obj(st, x).cls
      m     == FindMethod(st, cls, name)
      scope == NewEnv(st)
      st1   == DefineConst(Define(EnvCreate(st, Defining(st, cls, vm.en)), scope, "self", x),
                           scope, "__class__", MethodOwner(st, cls, name))
  IN  IF m = NoStmt THEN Thr("Undefined method.", st)
      ELSE RunBody(m.s, scope, DefineEach(st1, scope, NamesOf(Formals(m.ps)), vs))

VmCallMember(x, name, vs) ==
  LET variant == IF IsA(x, "dict") THEN DictGet(world, x, name) ELSE Nil
  IN  CASE IsA(x, "inst")           -> VmCallMethod(x, name, vs, world)
        [] name \in MethodsOf(x.t)  -> BuiltinMethod(x, name, vs, world)
        [] IsCtor(world, variant)   -> VmConstruct(variant, vs, world)
        [] OTHER                    -> Thr("TypeError: the value has no methods", world)

OpCallMethod ==
  /\ OnOp("method")
  /\ IF Height < Instr.n + 1 THEN EndStatement(world, TRUE)
     ELSE PushOutcome(Under(Instr.n + 1), VmCallMember(Peek(Instr.n), Instr.x, TopN(Instr.n)))

(***************************************************************************)
(* Printing, and the statements left to the interpreter: what they return, *)
(* break or continue is lost.                                              *)
(***************************************************************************)
Printing(r) == IF r.sig = "exit" THEN Exits(r.st) ELSE Goes(Under(1), vm.en, 0, r.st)
OpPrint == OnOp("print") /\ Printing(PrintValue(Peek(0), vm.en, world))

OpExecAstStmt == OnOp("ast") /\ PushOutcome(vm.stack, Exec(Instr.x, vm.en, world))

Done == ~Active /\ pc > Len(program.ss) /\ UNCHANGED vars

Instruction ==
  \/ OpConstant \/ OpPop \/ OpDup \/ OpPushEnv \/ OpPopEnv \/ OpGetGlobal \/ OpDefineGlobal \/ OpSetGlobal
  \/ OpDefineFunction \/ OpGetProperty \/ OpSetProperty \/ OpGetIndex \/ OpSetIndex \/ OpSlice
  \/ OpArray \/ OpTuple \/ OpDict \/ OpArrayLen \/ OpBinary \/ OpNot \/ OpTruthy \/ OpAwait
  \/ OpJump \/ OpJumpIfFalse \/ OpCall \/ OpCallMethod \/ OpPrint \/ OpExecAstStmt \/ OpReturn
Next == Interpret \/ Load \/ Instruction \/ Done
Spec == Init /\ [][Next]_vars

(***************************************************************************)
(* Properties.                                                             *)
(***************************************************************************)
TypeOK ==
  /\ pc \in 1 .. Len(program.ss) + 1
  /\ vm.en \in DOMAIN world.envs
  /\ Len(vm.stack) <= StackMax
  /\ Active => vm.ip \in DOMAIN vm.code

\* No loop over an array is left with "break", not even an inner loop of its
\* body, and no expression is given up after instructions were emitted for it.
Operands(s) == CASE s.k \in {"print", "let", "expr", "for", "return"} -> {s.e}
                 [] s.k \in {"if", "while"} -> {s.c}
                 [] OTHER -> {}
NodesOf(ss) == {n \in UNION {Nodes(s) : s \in Range(ss)} : "k" \in DOMAIN n}
Tidy(ss) ==
  \A n \in NodesOf(ss) :
    /\ n.k = "for" => \A m \in NodesOf(<<n.s>>) : m.k # "break"
    /\ \A c \in {CompileExpr(e) : e \in Operands(n)} : c.ok \/ c.code = << >>

\* Nothing is deferred or divided by a literal zero, nothing immutable is
\* assigned to, no match is left by a jump, and no init asks for its parent.
Immutable(n) == CASE n.k = "let" /\ ~n.mut -> {n.name}
                  [] n.k \in {"for", "class", "struct", "enum", "trait"} -> {n.name}
                  [] n.k \in {"proc", "async", "macro"} -> {n.name} \cup {n.ps[i].name : i \in DOMAIN n.ps}
                  [] n.k = "try" -> {n.catches[i].name : i \in DOMAIN n.catches}
                  [] OTHER -> {}
Common(ss) ==
  /\ \A n \in NodesOf(ss) :
        /\ n.k # "defer"
        /\ n.k = "match" => \A m \in NodesOf(<<n>>) : m.k \notin {"break", "continue", "return"}
        /\ n.k = "bin" /\ n.op \in {"/", "%"} => n.r # IntE(0)
        /\ n.k = "proc" /\ n.name = "init" => \A m \in NodesOf(<<n>>) : m.k # "super"
  /\ {n.name : n \in {m \in NodesOf(ss) : m.k = "set" /\ m.x = NoExpr}}
       \cap UNION {Immutable(n) : n \in NodesOf(ss)} = {}

\* Whenever a statement has ended, the machine has printed exactly what the
\* tree-walking interpreter prints: the instructions that the compiler lays
\* out have the same effects, in the same order, once each.  They differ only
\* in a program that is not tidy, or in which something does not mean the
\* same to both, or after an instruction met operands on which they differ.
VMAgrees == ~Active /\ ~apart /\ world.out # ast.out => ~Tidy(program.ss) \/ ~Common(program.ss)

\* A statement of a tidy program ends with its value alone on the stack and
\* in the scope it started in, whichever way the jumps went through it, and
\* on the way no instruction leaves the outermost scope or copies a value
\* that is not there.
Balanced ==
  Active /\ vm.frames = << >> =>
    \/ /\ Instr.op = "return" => Height = 1 /\ vm.en = 1
       /\ Instr.op = "popenv" => vm.en # 1
       /\ Instr.op = "dup" => Instr.x < Height
    \/ ~Tidy(program.ss)
=============================================================================
