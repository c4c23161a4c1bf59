------------------------------ MODULE MCPasses ------------------------------
(***************************************************************************)
(* Programs for the passes: definitions, one or two statements under test, *)
(* and a coda that shows what they did.                                    *)
(***************************************************************************)
EXTENDS Passes

MCStrLess(a, b) == a = "a" /\ b = "b"

X == Var("x")
One == IntE(1)
Two == IntE(2)
True  == BoolE(TRUE)
False == BoolE(FALSE)
P(name)        == Param(name, NoExpr, "")
Call1(name, e) == Call(Var(name), <<e>>)
Gives(e)       == Block(<<Return(e)>>)
Body(s)        == Block(<<s>>)
Show(e)        == Body(PrintS(e))

\* note(v) prints its argument; the others are candidates for inlining.
Prelude ==
  <<Let("x", One, TRUE),
    Proc("note", <<P("v")>>, Block(<<PrintS(Var("v")), Return(Var("v"))>>)),
    Proc("inc", <<P("p")>>, Gives(Bin(Var("p"), "+", X))),
    Proc("two", <<P("p"), P("q")>>, Gives(TupleE(<<Var("q"), Var("p"), Index(ArrayE(<<Var("p")>>), IntE(0))>>))),
    Proc("opt", <<P("p"), Param("q", Two, "")>>, Gives(Bin(Var("p"), "+", Var("q"))))>>

Exprs1 ==
  {Bin(StrE("a"), "+", Bin(StrE("b"), "+", StrE("a"))), Bin(True, "and", Bin(False, "or", True)), Bin(False, "or", True),
   Bin(True, "and", X), Bin(One, "+", Two), Call1("inc", Two), Call1("inc", X), Call(Var("two"), <<One, X>>), Call(Var("inc"), <<One, X>>),
   Call1("opt", One), Call(Var("opt"), <<One, X>>), Call1("inc", Call1("note", Two)), Call1("note", Call1("inc", One)),
   ArrayE(<<Call1("note", One)>>), TupleE(<<Call1("note", One)>>), Bin(Call1("note", One), "==", One),
   Index(ArrayE(<<Call1("inc", One), Two>>), IntE(0)), NullCoal(NilE, Call1("inc", X)), Unary("not", False)}
Lets  == {Let("y", e, TRUE) : e \in Exprs1}
Conditions == {True, False, Bin(True, "and", False), Bin(X, "==", One)}
Control ==
  {If(c, Show(StrE("a")), alt) : c \in Conditions, alt \in {NoStmt, Show(StrE("b")), If(False, Show(X), Show(Two))}}
    \cup {While(c, Block(<<PrintS(X), Break, PrintS(Two)>>)) : c \in Conditions}
    \cup {For("i", ArrayE(<<One, Two>>), Block(<<Let("d", Var("i"), TRUE), PrintS(Call1("inc", Var("i"))), Continue, PrintS(X)>>)),
          For("x", ArrayE(<<Two>>), Show(Call1("inc", Var("x")))),
          Try(Block(<<Raise(StrE("a")), PrintS(X)>>), <<Catch("e", Show(Call1("inc", One)))>>, Show(Bin(StrE("a"), "+", StrE("b")))),
          Match(X, <<Case(One, NoExpr, Block(<<Let("d", One, TRUE), PrintS(StrE("a"))>>))>>, Show(X)),
          Proc("f", <<P("v")>>, Block(<<Let("d", Two, TRUE), Return(Var("v")), PrintS(X)>>)),
          Proc("f", << >>, Block(<<Return(NoExpr)>>)),
          Proc("g", << >>, Block(<<Defer(PrintS(X)), Return(Call1("inc", One))>>)),
          Block(<<Let("d", Call1("note", Two), TRUE), Let("c", Index(ArrayE(<<One>>), Two), TRUE), PrintS(X)>>),
          Class("C", "", <<Proc("init", <<P("self")>>, Body(ExprS(SetE(Var("self"), "v", One)))),
                           Proc("get", <<P("self")>>, Gives(Get(Var("self"), "v")))>>),
          ExprS(Assign("x", Two)), ExprS(Assign("y", Two))}
Types == {"Int", "Bool", "String", "Nil", "Array"}
Typed == {TypedLet("t", type, e, TRUE) : type \in Types,
            e \in {One, NilE, Bin(One, "<", Two), Bin(One, "+", X), Bin(StrE("a"), "==", StrE("b")), Var("inc"), ArrayE(<<X>>)}}
Coda == <<PrintS(X)>>
Tests == {PrintS(e) : e \in Exprs1} \cup Lets \cup Control

\* What the conditions of the properties are about: yields that are dropped, ends of the
\* program, values that are not looked at, definitions out of order, candidates that call.
Gen(ss) == Proc("g", << >>, Block(ss))
Generators ==
  {Gen(<<If(False, Body(Yield(One)), NoStmt), Return(Two)>>), Gen(<<While(False, Body(Yield(One))), PrintS(X)>>),
   Gen(<<If(True, Body(Yield(One)), Body(Yield(Two))), PrintS(X)>>), Gen(<<Return(One), Yield(Two)>>),
   Gen(<<Yield(One), Let("d", Two, TRUE), Yield(X), Return(Two), PrintS(X)>>)}
Minus == Class("C", "", <<Proc("__sub__", <<P("self"), P("o")>>, Block(<<PrintS(StrE("a")), Return(One)>>))>>)
Made  == <<Minus, Let("o", Call(Var("C"), << >>), TRUE)>>
Again == Proc("inc", <<P("p")>>, Gives(Bin(Var("p"), "+", Two)))
Late  == Proc("inc", <<P("p")>>, Block(<<PrintS(Two), Return(Var("p"))>>))
Outer == Proc("h", <<P("p")>>, Gives(Call1("inc", Two)))
Local == Proc("f", <<P("v")>>, Block(<<Proc("inc", <<P("p")>>, Gives(X)), Return(Call1("inc", Var("v")))>>))
Edges ==
  {Prelude \o <<g, Let("n", Call(Var("g"), << >>), TRUE), PrintS(Call1("next", Var("n"))), PrintS(Call1("next", Var("n")))>> :
     g \in Generators}
    \cup {Prelude \o <<PrintS(One), s>> \o Coda : s \in {Return(NoExpr), Break, Continue, Block(<<Let("u", Var("nosuch"), TRUE), PrintS(One)>>)}}
    \cup {Prelude \o Made \o <<s>> \o Coda : s \in {Let("u", Bin(Var("o"), "-", One), TRUE), PrintS(Bin(Var("o"), "-", One))}}
    \cup {<<PrintS(Call(Var("opt"), <<One, Two>>))>> \o Prelude \o Coda,
          Prelude \o <<PrintS(Call1("inc", One)), Again, PrintS(Call1("inc", One))>>,
          Prelude \o <<Late, PrintS(Call1("inc", One))>>,
          Prelude \o <<Outer, PrintS(Call1("h", One))>>,
          Prelude \o <<Local, PrintS(Call1("f", Two))>>,
          Prelude \o <<Proc("zero", <<P("p")>>, Gives(One)), PrintS(Call1("zero", Var("nosuch")))>>}

MCPrograms ==
  Edges \cup {Prelude \o <<s>> \o Coda : s \in Tests \cup Typed}
    \cup {Prelude \o <<s>> \o <<PrintS(Var("y")), PrintS(Call1("f", Two))>> : s \in Tests}
    \cup {Prelude \o <<Let("y", One, TRUE), s, PrintS(Call(Get(Call(Var("C"), << >>), "get"), << >>)), ExprS(Call(Var("g"), << >>))>> : s \in Control}
=============================================================================
