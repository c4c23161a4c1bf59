------------------------------ MODULE Bytecode ------------------------------
(***************************************************************************)
(* The bytecode compiler (src/vm/bytecode.c): what instructions a          *)
(* statement compiles to.                                                  *)
(*                                                                         *)
(* An instruction is a record with its "op" and its operand, a jump being  *)
(* relative to its own place; the constant pool, the byte encoding and     *)
(* their 16-bit limits are left out.  A compilation gives the code emitted *)
(* and whether it went through: a construct the compiler cannot translate  *)
(* stops it, and what was emitted until then stays in the chunk.           *)
(*                                                                         *)
(* ctx = [strict, ret, loop] is the state of the compiler: whether         *)
(* statements may be left to the interpreter, whether "return" is allowed, *)
(* and the kind of the innermost loop.                                     *)
(***************************************************************************)
EXTENDS Values

Script   == [strict |-> FALSE, ret |-> FALSE, loop |-> "none"]
Artifact == [Script EXCEPT !.strict = TRUE]

Op(op)     == [op |-> op]
With(op, x) == [op |-> op, x |-> x]
\* A jump over the next d instructions (backwards when negative), and one
\* that was never patched: its operand is 0, the start of the chunk.
Jump(op, d)  == [op |-> op, d |-> d, patched |-> TRUE]
Unpatched(op) == [op |-> op, d |-> 0, patched |-> FALSE]

Code(code) == [ok |-> TRUE, code |-> code]
Stopped    == [ok |-> FALSE, code |-> << >>]
Chain(rs)  == FoldLeft(LAMBDA acc, r : IF acc.ok THEN [r EXCEPT !.code = acc.code \o @] ELSE acc,
                       Code(<< >>), rs)

BinaryOps == {"+", "-", "*", "/", "%", "==", "!=", "<", ">", "<=", ">="}

\* Two literals are folded; a division by zero folds to zero.
Folded(op, m, n) ==
  CASE op = "+"  -> IntV(m + n)    [] op = "-"  -> IntV(m - n)    [] op = "*"  -> IntV(m * n)
    [] op = "/"  -> IntV(IF n = 0 THEN 0 ELSE Quot(m, n))
    [] op = "%"  -> IntV(IF n = 0 THEN 0 ELSE m - n * Quot(m, n))
    [] op = "<"  -> BoolV(m < n)   [] op = ">"  -> BoolV(m > n)   [] op = "<=" -> BoolV(m <= n)
    [] op = ">=" -> BoolV(m >= n)  [] op = "==" -> BoolV(m = n)   [] op = "!=" -> BoolV(m # n)

RECURSIVE CompileExpr(_)
CompileAll(es) == Chain([i \in DOMAIN es |-> CompileExpr(es[i])])

\* "and" and "or" leave a truth value.  A right operand that does not
\* compile leaves the jump over it unpatched.
CompileAnd(e) ==
  LET r == Chain(<<CompileExpr(e.r), Code(<<Op("truthy")>>)>>)
      n == Len(r.code)
  IN  Chain(<<CompileExpr(e.l),
              Code(<<IF r.ok THEN Jump("jumpf", n + 2) ELSE Unpatched("jumpf"), Op("pop")>>),
              r, Code(<<Jump("jump", 2), Op("pop"), With("const", BoolV(FALSE))>>)>>)
\* Mutant of CompileOr: the right operand is left as it is.
OrLeavesOperand(e) ==
  LET r == CompileExpr(e.r)
  IN  Chain(<<CompileExpr(e.l),
              Code(<<Jump("jumpf", 3), Op("pop"), With("const", BoolV(TRUE)),
                     IF r.ok THEN Jump("jump", Len(r.code) + 1) ELSE Unpatched("jump"), Op("pop")>>), r>>)
CompileOr(e) ==
  LET r == Chain(<<CompileExpr(e.r), Code(<<Op("truthy")>>)>>)
      n == Len(r.code)
  IN  Chain(<<CompileExpr(e.l),
              Code(<<Jump("jumpf", 3), Op("pop"), With("const", BoolV(TRUE)),
                     IF r.ok THEN Jump("jump", n + 1) ELSE Unpatched("jump"), Op("pop")>>), r>>)

CompileBinary(e) ==
  CASE e.op = "and" -> CompileAnd(e)
    [] e.op = "or"  -> CompileOr(e)
    [] e.op \in BinaryOps /\ e.l.k = "int" /\ e.r.k = "int" -> Code(<<With("const", Folded(e.op, e.l.n, e.r.n))>>)
    [] e.op = "not" -> Chain(<<CompileExpr(e.l), Code(<<Op("not")>>)>>)
    [] e.op \in BinaryOps -> Chain(<<CompileExpr(e.l), CompileExpr(e.r), Code(<<With("binary", e.op)>>)>>)
    [] OTHER -> Chain(<<CompileExpr(e.l), Stopped>>)

CompileDict(e) ==
  Chain(FlattenSeq([i \in DOMAIN e.keys |-> <<Code(<<With("const", StrV(e.keys[i]))>>), CompileExpr(e.es[i])>>])
          \o <<Code(<<With("dict", Len(e.keys))>>)>>)

\* A call of a member is one instruction, whatever the member is.
CompileCall(e) ==
  IF e.f.k = "get"
  THEN Chain(<<CompileExpr(e.f.x), CompileAll(e.es),
              Code(<<[op |-> "method", x |-> e.f.name, n |-> Len(e.es)]>>)>>)
  ELSE Chain(<<CompileExpr(e.f), CompileAll(e.es), Code(<<With("call", Len(e.es))>>)>>)

\* What stops a compilation: ?., ??, !, ?, comptime, super, ranges and interpolated strings.
CompileRest(e) == IF e.k = "await" THEN Chain(<<CompileExpr(e.e), Code(<<Op("await")>>)>>) ELSE Stopped
CompileExpr(e) ==
  CASE e.k = "noexpr"   -> Code(<<With("const", Nil)>>)
    [] e.k = "int"      -> Code(<<With("const", IntV(e.n))>>)
    [] e.k = "str"      -> Code(<<With("const", StrV(e.s))>>)
    [] e.k = "bool"     -> Code(<<With("const", BoolV(e.b))>>)
    [] e.k = "nil"      -> Code(<<With("const", Nil)>>)
    [] e.k = "var"      -> Code(<<With("get", e.name)>>)
    [] e.k \in {"array", "tuple"} -> Chain(<<CompileAll(e.es), Code(<<With(e.k, Len(e.es))>>)>>)
    [] e.k = "dict"     -> CompileDict(e)
    [] e.k = "index"    -> Chain(<<CompileAll(<<e.x, e.i>>), Code(<<Op("index")>>)>>)
    [] e.k = "indexset" -> Chain(<<CompileAll(<<e.x, e.i, e.e>>), Code(<<Op("setindex")>>)>>)
    [] e.k = "slice"    -> Chain(<<CompileAll(<<e.x, e.lo, e.hi>>), Code(<<Op("slice")>>)>>)
    [] e.k = "get"      -> Chain(<<CompileExpr(e.x), Code(<<With("property", e.name)>>)>>)
    [] e.k = "set" /\ e.x = NoExpr -> Chain(<<CompileExpr(e.e), Code(<<With("set", e.name)>>)>>)
    [] e.k = "set" /\ e.x # NoExpr -> Chain(<<CompileAll(<<e.x, e.e>>), Code(<<With("setproperty", e.name)>>)>>)
    [] e.k = "call"     -> CompileCall(e)
    [] e.k = "bin"      -> CompileBinary(e)
    [] OTHER            -> CompileRest(e)

(***************************************************************************)
(* Statements.                                                             *)
(***************************************************************************)
\* What the compiler hands over whole: also a statement that holds one.
RECURSIVE NeedsAst(_, _)
NeedsAst(s, ctx) ==
  LET inLoop == [ctx EXCEPT !.loop = "while"]
  IN  CASE s.k \in {"break", "continue"} -> ctx.loop = "none"
        [] s.k = "return"  -> ~ctx.ret
        [] s.k = "block"   -> \E i \in DOMAIN s.ss : NeedsAst(s.ss[i], ctx)
        [] s.k = "if"      -> NeedsAst(s.s, ctx) \/ NeedsAst(s.alt, ctx)
        [] s.k = "while"   -> NeedsAst(s.s, inLoop)
        [] s.k = "for"     -> s.e.k = "range" \/ NeedsAst(s.s, inLoop)
        [] OTHER           -> s.k \in {"yield", "try", "async", "import"}

\* A statement leaves one value on the stack when its result is wanted.
Result(want) == Code(IF want THEN <<With("const", Nil)>> ELSE << >>)
Drop(want)   == Code(IF want THEN << >> ELSE <<Op("pop")>>)
LeftToAst(s, want, ctx) ==
  IF ctx.strict THEN Stopped ELSE Chain(<<Code(<<With("ast", s)>>), Drop(want)>>)

\* What an expression that does not compile emitted stays, and the
\* statement is left to the interpreter as a whole.
OrAst(r, s, want, ctx, rest) ==
  IF r.ok THEN Chain(<<r, rest>>)
  ELSE Chain(<<[r EXCEPT !.ok = TRUE], LeftToAst(s, want, ctx)>>)

\* Jumps out of a body of which "before" instructions precede and "after"
\* follow until the end of the loop.
Leaving(body, toContinue(_), toBreak) ==
  [i \in DOMAIN body |->
     CASE body[i].op = "break"    -> Jump("jump", toBreak + Len(body) - i)
       [] body[i].op = "continue" -> Jump("jump", toContinue(i))
       [] OTHER -> body[i]]

(***************************************************************************)
(* The control statements, from what their parts compile to: c the         *)
(* condition or the iterable, b, t and f the bodies.                       *)
(***************************************************************************)
\* Mutant of CompileIf: the branch that is not taken does not pop the
\* condition.
IfKeepsCondition(c, t, f, s, want, ctx) ==
  OrAst(c, s, want, ctx,
    Chain(<<Code(<<Jump("jumpf", Len(t.code) + 2), Op("pop")>>), t,
            Code(<<Jump("jump", Len(f.code))>>), f, Result(want)>>))
CompileIf(c, t, f, s, want, ctx) ==
  OrAst(c, s, want, ctx,
    Chain(<<Code(<<Jump("jumpf", Len(t.code) + 2), Op("pop")>>), t,
            Code(<<Jump("jump", Len(f.code) + 1), Op("pop")>>), f, Result(want)>>))

\* A break jumps to the pop of the condition, which is gone by then.
CompileWhile(c, b, s, want, ctx) ==
  LET m == Len(c.code)
      n == Len(b.code)
  IN  OrAst(c, s, want, ctx,
        Chain(<<Code(<<Jump("jumpf", n + 2), Op("pop")>>),
                [b EXCEPT !.code = Leaving(b.code, LAMBDA i : -(m + 2 + i), 1)],
                Code(<<Jump("jump", -(m + n + 3)), Op("pop")>>), Result(want)>>))

\* The stack holds the array and the index; a break pops three values and
\* the scope, and goes to where the loop pops them once more.
CompileFor(c, b, s, want, ctx) ==
  LET n    == Len(b.code)
      pops == <<Op("pop"), Op("pop"), Op("pop"), Op("popenv")>>
      head == <<With("dup", 0), With("dup", 2), Op("arraylen"), With("binary", "<"), Jump("jumpf", n + 8),
                Op("pop"), With("dup", 1), With("dup", 1), Op("index"), With("define", s.name)>>
  IN  OrAst(c, s, want, ctx,
        Chain(<<Code(<<Op("pushenv"), With("const", IntV(0))>> \o head),
                [b EXCEPT !.code = Leaving(b.code, LAMBDA i : n - i, 3)],
                Code(<<With("const", IntV(1)), With("binary", "+"), Jump("jump", -(n + 13))>> \o pops),
                Result(want)>>))

CompileBreak(s, want, ctx) ==
  Chain(<<Code((IF ctx.loop = "for" THEN <<Op("pop"), Op("pop"), Op("pop"), Op("popenv")>> ELSE << >>)
               \o <<Op("break")>>), Result(want)>>)

\* In a script a procedure is left to the interpreter; in an artifact it is
\* compiled, and its parameters lose their defaults.
CompileProc(b, s, want, ctx) ==
  LET f == [k |-> "compiled", name |-> s.name, ps |-> [i \in DOMAIN s.ps |-> s.ps[i].name],
            code |-> b.code \o <<With("const", Nil), Op("return")>>]
  IN  IF ~ctx.strict THEN LeftToAst(s, want, ctx)
      ELSE IF ~b.ok THEN Stopped
      ELSE Chain(<<Code(<<With("function", f)>>), Result(want)>>)

Within(ctx, loop) == [ctx EXCEPT !.loop = loop]
ProcBody == [strict |-> TRUE, ret |-> TRUE, loop |-> "none"]

RECURSIVE CompileStmt(_, _, _)
CompileBlock(ss, ctx) == Chain([i \in DOMAIN ss |-> CompileStmt(ss[i], FALSE, ctx)])
CompileContinue(want) == Chain(<<Code(<<Op("continue")>>), Result(want)>>)
\* An annotated block is its body; so is a spawn, whose result nobody asks for.
CompileBody(s, want, ctx) == CompileStmt(s.s, want /\ s.k = "annotated", ctx)
CompileReturn(s) == Chain(<<CompileExpr(s.e), Code(<<Op("return")>>)>>)
CompileStmt(s, want, ctx) ==
  CASE s.k = "nostmt"    -> Result(want)
    [] NeedsAst(s, ctx)  -> LeftToAst(s, want, ctx)
    [] s.k = "print"     -> OrAst(CompileExpr(s.e), s, want, ctx, Chain(<<Code(<<Op("print")>>), Result(want)>>))
    [] s.k = "let"       -> OrAst(CompileExpr(s.e), s, want, ctx,
                                  Chain(<<Code(<<With("define", s.name)>>), Result(want)>>))
    [] s.k = "expr"      -> OrAst(CompileExpr(s.e), s, want, ctx, Drop(want))
    [] s.k = "block"     -> Chain(<<CompileBlock(s.ss, ctx), Result(want)>>)
    [] s.k = "if"        -> CompileIf(CompileExpr(s.c), CompileStmt(s.s, FALSE, ctx),
                                      CompileStmt(s.alt, FALSE, ctx), s, want, ctx)
    [] s.k = "while"     -> CompileWhile(CompileExpr(s.c), CompileStmt(s.s, FALSE, Within(ctx, "while")), s, want, ctx)
    [] s.k = "for"       -> CompileFor(CompileExpr(s.e), CompileStmt(s.s, FALSE, Within(ctx, "for")), s, want, ctx)
    [] s.k = "break"     -> CompileBreak(s, want, ctx)
    [] s.k = "continue"  -> CompileContinue(want)
    [] s.k \in {"annotated", "spawn"} -> CompileBody(s, want, ctx)
    [] s.k = "proc"      -> CompileProc(CompileStmt(s.s, FALSE, ProcBody), s, want, ctx)
    [] s.k = "return"    -> CompileReturn(s)
    [] OTHER             -> LeftToAst(s, want, ctx)

\* Mutant of CompileChunk: the chunk does not end with a return.
ChunkRunsOn(s, ctx) == CompileStmt(s, TRUE, ctx)
\* A chunk: the statement, its value, and the return of it.
CompileChunk(s, ctx) == Chain(<<CompileStmt(s, TRUE, ctx), Code(<<Op("return")>>)>>)

\* The file of an artifact holds no constant but strings (and floats): the
\* truth values and nil are instructions of their own.
RECURSIVE Writable(_)
Writable(code) ==
  \A i \in DOMAIN code : CASE code[i].op = "const"    -> ~IsA(code[i].x, "int")
                           [] code[i].op = "function" -> Writable(code[i].x.code)
                           [] OTHER                   -> TRUE
=============================================================================
