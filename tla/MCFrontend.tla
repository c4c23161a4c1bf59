----------------------------- MODULE MCFrontend -----------------------------
\* Model values for Frontend: programs written from their trees, every layout
\* of a few lines, and every short text over a few words and signs.
EXTENDS Frontend

X == Var("x")
One == IntE(1)
Calls == Call(X, <<One, X>>)
P(name) == Param(name, NoExpr, "")

\* Expressions: every operator under every other, on both sides.
Operators == {"or", "and", "|", "^", "&", "==", "!=", "<", ">=", "<<", ">>", "+", "-", "*", "/", "%"}
Two(a, b) == {Bin(Bin(X, a, One), b, X), Bin(X, b, Bin(One, a, X))}
Chains == UNION {Two(a, b) : a \in Operators, b \in {"or", "and", "|", "^", "&", "==", "<", "<<", "-", "*"}}
Inner ==
  {Bin(X, "+", One), Bin(IntE(0), "-", X), Unary("not", X), Unary("~", X), Await(X), NullCoal(X, One), RangeE(X, One, TRUE), RangeE(One, X, FALSE),
   Assign("x", Bin(X, "-", One)), SetE(X, "f", One), IndexSet(X, One, X), ArrayE(<<X, Spread(X)>>), ArrayE(<< >>), TupleE(<<X>>), TupleE(<<X, One>>), TupleE(<< >>),
   DictE(<<"a", "b">>, <<X, One>>), Index(X, One), Slice(X, NoExpr, One), Slice(X, One, NoExpr), Get(X, "init"), OptChain(X, "f"), Super("m"),
   ComptimeE(X), Unwrap(X), Propagate(X), Calls, StrE("a"), Interp(<<[src |-> "a", e |-> NoExpr], [src |-> "{x}", e |-> X]>>), BoolE(TRUE), NilE}
Around(e) ==
  {Bin(e, "*", X), Bin(X, "-", e), Unary("not", e), Unary("-", e).l, Bin(IntE(0), "-", e), Await(e), NullCoal(e, X), NullCoal(X, e), RangeE(e, X, FALSE), RangeE(X, e, TRUE),
   Assign("x", e), Assign("x", Bin(X, "*", e)), SetE(e, "f", X), IndexSet(e, X, One), IndexSet(X, e, One), ArrayE(<<Spread(e), X>>), TupleE(<<e>>), Index(e, X), Index(X, e),
   Slice(e, X, X), Slice(X, e, e), Get(e, "f"), OptChain(e, "f"), Unwrap(e), Propagate(e), Call(e, << >>), Call(X, <<e, e>>), DictE(<<"k">>, <<e>>), ComptimeE(e)}
Exprs == Chains \cup UNION {Around(e) : e \in Inner}

\* Statements, and blocks in blocks.
B(ss) == Block(ss)
Simple == PrintS(X)
Bodies == {B(<< >>), B(<<Simple>>), B(<<If(X, B(<<Simple>>), NoStmt), Break>>), B(<<While(X, B(<<Continue, If(X, B(<< >>), NoStmt)>>))>>)}
\* An empty block is written "end", and only where the statement ends: the
\* parser does not look for an "else" or a "catch" behind the end of that line.
Compound(b, c) ==
  {If(X, c, NoStmt), If(X, b, c), If(X, b, If(One, c, NoStmt)), If(X, b, If(One, b, c)), While(X, c), For("i", RangeE(One, X, TRUE), c),
   Proc("f", <<P("self"), Param("a", NoExpr, "int"), Param("b", One, "")>>, c), Proc("init", << >>, c), AsyncProc("f", <<P("a")>>, c), MacroDef("m", <<P("a"), P("b")>>, c),
   Class("C", "D", <<Proc("init", <<P("self")>>, c), AsyncProc("g", << >>, c)>>), Trait("T", <<Proc("g", << >>, c)>>), Impl("C", <<Proc("g", << >>, c)>>),
   Match(X, <<Case(One, NoExpr, c), Case(Calls, X, c)>>, NoStmt), Match(X, <<Case(One, X, c)>>, c), Match(X, << >>, c),
   Try(b, <<Catch("e", c)>>, NoStmt), Try(b, <<Catch("e", b), Catch("g", b)>>, c), Try(c, << >>, NoStmt), Defer(c), Defer(If(X, c, NoStmt)), Spawn(c), ComptimeS(c),
   Annotated("gc", c), Annotated("unsafe", c), c}
Stmts ==
  UNION {Compound(b, c) : b \in Bodies \ {B(<< >>)}, c \in Bodies}
    \cup {Let("y", X, FALSE), Let("y", NoExpr, TRUE), TypedLet("y", "int", One, TRUE), TypedLet("y", "str", NoExpr, FALSE), Return(NoExpr), Return(X), Yield(NoExpr), Yield(X),
          Raise(X), Defer(Simple), Struct("S", <<"a", "b">>), Enum("E", <<[name |-> "A", fields |-> << >>], [name |-> "B", fields |-> <<"a", "b">>]>>),
          Import("a.b", << >>, "c"), Import("a", << >>, ""), Import("a", <<[name |-> "b", alias |-> "c"], [name |-> "d", alias |-> ""]>>, ""),
          Import("a", <<[name |-> "*", alias |-> ""]>>, ""),
          B(<<LetS("__destruct_0", X), LetS("a", Index(Var("__destruct_0"), IntE(0))), LetS("b", Index(Var("__destruct_0"), IntE(1)))>>),
          B(<<LetS("__destructd_0", X), LetS("a", Index(Var("__destructd_0"), StrE("a")))>>)}
\* What stands before must not run into what follows.
Sequences == {<<s, Simple>> : s \in Stmts} \cup {<<Let("y", e, FALSE), If(e, B(<<ExprS(e)>>), NoStmt)>> : e \in Exprs}
MCPrograms == {[k |-> "program", terse |-> terse, ss |-> ss] : terse \in BOOLEAN, ss \in Sequences}

Laying(cs, widths, n) == {[k |-> "layout", lines |-> ls] : ls \in [1..n -> [n : widths, c : cs]]}
MCLayouts == Laying({"x"}, 0..3, 5) \cup {s \in Laying({"x", "(", ")", ""}, {0, 2, 3}, 4) : OpenBrackets(s.lines, 4) = 0 /\ \A i \in 1..4 : OpenBrackets(s.lines, i) >= 0}
\* Ever deeper lines, up to and beyond the deepest that may be open.
Stairs == {[k |-> "layout", lines |-> [i \in 1..(n + 1) |-> [n |-> IF i <= n THEN i - 1 ELSE last, c |-> "x"]]] : n \in 4..8, last \in 0..3}

Signs == {Word("x"), Num(1), Ch("("), Ch(")"), Ch("["), Ch("]"), Ch("-"), Ch(","), Ch("="), Ch("!"), Ch("."), Word("not"), Word("if"), Ch(":"), Ch("\n"), Ch(" ")}
MCTexts == {[k |-> "text", text |-> t] : t \in UNION {[1..n -> Signs] : n \in 1..3}}
Half(t) == [k |-> "text", text |-> t]
\* Refused inside brackets, and inside a block: the parser is left deep.
MCGarbled == {Half(<<Word("x"), Ch("["), Ch("("), Num(1), Ch("\n"), Ch(" "), Word("y")>>),
              Half(<<Word("if"), Ch(" "), Word("x"), Ch(":"), Ch("\n"), Ch(" "), Word("proc"), Ch("\n")>>)}

MCSources == MCPrograms \cup MCLayouts \cup Stairs \cup MCTexts
=============================================================================
