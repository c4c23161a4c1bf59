----------------------------- MODULE MCCBackend -----------------------------
(***************************************************************************)
(* Programs for the C backend: declarations, a statement or a pair of them *)
(* under test, and a coda that prints what they left.                      *)
(***************************************************************************)
EXTENDS CBackend

MCStrLess(a, b) == a = "a" /\ b = "b"

X == Var("x")
A == Var("a")
V == Var("v")
Self  == Var("self")
Str(s) == StrE(s)
True  == BoolE(TRUE)
False == BoolE(FALSE)
P(name)      == Param(name, NoExpr, "")
Call1(f, e)  == Call(Var(f), <<e>>)
Call2(f, e, g) == Call(Var(f), <<e, g>>)
Send(x, m, es) == Call(Get(x, m), es)
One   == Call1("len", Str("p"))
Two   == Call1("len", Str("pq"))
Body(s)      == Block(<<s>>)
Gives(e)     == Body(Return(e))
Concat(d, e) == Bin(d, "+", e)

Functions ==
  <<Proc("id", <<P("v")>>, Gives(V)),
    Proc("twice", <<P("v")>>, Block(<<Let("w", Concat(V, Str("-")), FALSE), Return(Concat(Var("w"), V))>>)),
    Proc("note", <<P("v")>>, Block(<<PrintS(V), Return(V)>>)),
    Proc("pair", <<P("v"), P("u")>>, Block(<<Let("junk", ArrayE(<<Str("j")>>), FALSE), Return(ArrayE(<<V, Var("u")>>))>>))>>
Shapes ==
  <<Class("Cell", "", <<Proc("init", <<P("self"), P("v")>>, Block(<<ExprS(SetE(Self, "v", V))>>)),
                        Proc("get", <<P("self")>>, Gives(Get(Self, "v")))>>),
    Class("Sub", "Cell", <<Proc("show", <<P("self"), P("v")>>, Block(<<PrintS(V), Return(Send(Self, "get", << >>))>>))>>)>>
Setup == <<Let("x", Str("s"), TRUE), Let("a", ArrayE(<<Str("e"), True>>), TRUE), Let("n", Two, TRUE)>>
Prelude == Shapes \o Functions \o Setup

Exprs ==
  {Str("l"), Concat(X, Str("t")), Concat(Str("h"), X), Concat(Str("h"), Str("t")), Concat(Call1("id", X), Call1("id", Str("t"))),
   Concat(One, Var("n")), Bin(Var("n"), "-", One), Bin(Bin(Two, "*", Two), "/", One), Bin(Two, "%", Var("n")),
   Bin(One, "<", Two), Bin(Var("n"), ">=", Two), Bin(X, "==", Str("s")), Bin(A, "!=", A), Bin(X, "<", Str("t")),
   Bin(True, "and", X), Bin(False, "or", X), Bin(False, "or", False), Bin(X, "or", Call1("note", X)), Unary("not", X),
   ArrayE(<<Str("l")>>), ArrayE(<<Call1("twice", X)>>), ArrayE(<<Str("l"), Call1("twice", X)>>), TupleE(<<X, Call1("id", Str("l"))>>),
   DictE(<<"k">>, <<Str("l")>>), Index(DictE(<<"k">>, <<Str("l")>>), Str("k")), Index(A, Call1("len", NilE)), Index(X, Bin(One, "-", One)),
   Slice(A, NoExpr, One), Slice(A, One, NoExpr), Slice(X, One, Two), Call(Var("slice"), <<A, One, Two>>),
   Call1("id", Str("l")), Call1("twice", Str("l")), Call1("note", Call1("twice", X)), Call2("pair", X, Str("l")),
   Call2("pair", Str("l"), Str("m")), Call2("pair", Call1("note", Str("l")), Call1("note", X)),
   Call1("str", Two), Call1("str", A), Call1("upper", X), Call1("lower", Str("AB")), Call1("strip", Str(" b ")),
   Call2("split", Str("a-b"), Str("-")), Call2("split", Str("ab"), Str("")), Call2("join", A, Str("-")), Call(Var("replace"), <<X, Str("s"), Str("t")>>),
   Call1("type", X), Call1("type", One), Call2("startswith", X, Str("s")), Call2("endswith", X, Str("t")), Call2("contains", X, Str("s")),
   Call1("range", Two), Call2("range", One, Two), Call1("pop", A), Call2("push", A, Str("q")), Call2("push", X, X), Call1("len", A),
   Call1("dict_keys", DictE(<<"k">>, <<True>>)), Call1("dict_values", DictE(<<"k">>, <<Str("l")>>)), Call2("dict_has", DictE(<<"k">>, <<NilE>>), Str("k")),
   Call2("dict_delete", DictE(<<"k">>, <<NilE>>), Str("k")), Call(Var("gc_collect"), << >>), Call(Var("gc_disable"), << >>), Call(Var("gc_enable"), << >>),
   Send(Call1("Cell", Str("c")), "get", << >>), Send(Call1("Sub", X), "show", <<Str("l")>>), Get(Call1("Cell", X), "v"), Call1("Cell", X),
   Send(Call1("Sub", X), "show", << >>), Call(Var("Cell"), << >>), Send(X, "get", << >>), Send(Call1("Cell", X), "none", << >>),
   SetE(X, "v", X), Assign("x", Str("new")), Assign("n", Concat(Var("n"), One)), Await(Call1("id", X)), ComptimeE(Str("c")),
   Var("none"), Var("id"), Call1("none", X), Call(Var("id"), << >>), Call1("typeof", X), Call(X, <<X, X>>), Call(Var("len"), << >>), NullCoal(X, X),
   IndexSet(A, Bin(One, "-", One), Str("z")), Bin(A, "+", A), Super("get"), Bin(X, "??", X)}
Tests == {PrintS(e) : e \in Exprs} \cup {Let("y", e, TRUE) : e \in Exprs} \cup {ExprS(IndexSet(A, Call1("len", DictE(<< >>, << >>)), Str("z")))}

Loop(s) == Block(<<s, ExprS(Assign("n", Bin(Var("n"), "-", One)))>>)
Try1(s, handler, fin) == Try(s, <<Catch("e", handler)>>, fin)
Raises(e) == Body(Raise(e))
Control ==
  {If(c, Body(PrintS(Str("then"))), alt) : c \in {X, Bin(X, "==", Str("t"))}, alt \in {NoStmt, Body(PrintS(Str("else")))}}
    \cup {While(Bin(Var("n"), ">", Bin(One, "-", One)), Loop(s)) : s \in {PrintS(Var("n")), If(Bin(Var("n"), "==", One), Body(Break), NoStmt)}}
    \cup {For("i", it, Block(<<PrintS(Var("i")), s>>)) :
            it \in {A, X, ArrayE(<<Str("l"), Str("m")>>), Str("lm"), NilE},
            s \in {ExprS(Call1("twice", Str("j"))), Continue, ExprS(Assign("a", NilE)), ExprS(Call1("pop", A))}}
    \cup {Try1(s, h, fin) : s \in {Body(PrintS(X)), Raises(Str("r")), Raises(X), Raises(NoExpr), Raises(True),
                                   Block(<<PrintS(Concat(X, Str("t"))), Raise(Concat(Str("r"), X)), PrintS(X)>>)},
                            h \in {Body(PrintS(Var("e"))), Body(Raise(Var("e")))},
                            fin \in {NoStmt, Body(PrintS(Call1("twice", X)))}}
    \cup {Try(Raises(X), << >>, Body(PrintS(X))), Raise(X), Raise(NoExpr), Defer(PrintS(X)), ComptimeS(Body(PrintS(X))),
          Match(X, << >>, Body(PrintS(X))), Match(X, <<Case(X, NoExpr, Body(PrintS(X)))>>, NoStmt), Return(X), Yield(X), Break,
          Block(<<Let("id", X, TRUE)>>), For("id", A, Body(PrintS(X))), Struct("T", <<"f">>), Block(<<Class("D", "", << >>), PrintS(X)>>)}
    \cup {While(True, Body(Try1(s, Body(Break), NoStmt))) : s \in {Raises(X), Body(Break)}}

\* Functions under test, and the calls of them.
Calls ==
  {<<Proc("f", <<P("v")>>, body)>> \o Setup \o <<s, PrintS(Call1("twice", X)), PrintS(A)>> :
     body \in {Block(<<Raise(V), Return(X)>>), Body(Try1(Raises(V), Gives(Var("e")), NoStmt)), Body(Try1(Gives(V), Body(PrintS(X)), NoStmt)),
               Block(<<If(Bin(V, "==", Str("s")), Gives(Call1("f", Str("t"))), NoStmt), Return(Concat(V, Str("u")))>>),
               Block(<<For("i", V, Body(If(Bin(Var("i"), "==", True), Gives(Var("i")), NoStmt))), Return(Str("d"))>>),
               Block(<<Yield(V), Return(X)>>), Block(<<ExprS(Assign("x", Str("g"))), Defer(PrintS(V)), Return(V)>>),
               Block(<<ExprS(Assign("v", Str("g"))), Match(V, << >>, Body(Let("m", V, FALSE))), Return(Var("m"))>>),
               Body(AsyncProc("g", << >>, Gives(X)))},
     s \in {PrintS(Call1("f", Str("s"))), PrintS(Call1("f", A)), Try1(Body(PrintS(Call1("f", X))), Body(PrintS(Var("e"))), NoStmt)}}
Odd ==
  {<<Proc("f", <<P("v"), P("v")>>, Gives(V)), PrintS(True)>>,
   <<Proc("f", << >>, Gives(True)), Proc("f", <<P("v")>>, Gives(V)), PrintS(Call(Var("f"), << >>))>>,
   <<Class("C", "", <<Proc("m", <<P("self")>>, Gives(True)), Proc("m", <<P("self")>>, Gives(False))>>), PrintS(True)>>,
   <<AsyncProc("f", <<P("v")>>, Gives(V)), Let("x", Call1("f", Str("s")), TRUE), PrintS(Await(Call1("f", X)))>>}

\* Raw memory: what is read and written in a block of eight bytes, in any
\* order of two accesses, before and after it is freed.
Numbers ==
  <<Let("one", One, FALSE), Let("none", Bin(Var("one"), "-", Var("one")), FALSE), Let("five", Call1("len", Str("abcde")), FALSE),
    Let("eight", Call1("len", Str("abcdefgh")), FALSE), Let("letter", Call1("ord", Str("A")), FALSE),
    Let("large", Bin(Var("letter"), "*", Var("letter")), FALSE), Let("below", Bin(Var("one"), "-", Var("large")), FALSE)>>
CallN(f, es) == Call(Var(f), es)
Read(offset, type)    == PrintS(CallN("mem_read", <<Var("p"), Var(offset), Str(type)>>))
Write(offset, type, v) == ExprS(CallN("mem_write", <<Var("p"), Var(offset), Str(type), Var(v)>>))
Writes ==
  {Write("none", "int", "large"), Write("one", "int", "below"), Write("five", "byte", "letter"), Write("five", "int", "one"),
   ExprS(CallN("mem_free", <<Var("p")>>))}
Accesses ==
  Writes \cup {Write("below", "byte", "one"), Write("none", "text", "one"), Read("none", "byte"), Read("one", "int"), Read("five", "string"), Read("eight", "byte"), Read("eight", "text"),
   PrintS(CallN("mem_size", <<Var("p")>>)), ExprS(CallN("mem_free", <<Var("none")>>)), Read("five", "int")}
Blocks ==
  {Numbers \o <<Let("p", CallN("mem_alloc", <<Var(size)>>), FALSE), s, t, Read("none", "int"), Read("five", "string"),
                PrintS(Call1("chr", Var("letter"))), PrintS(Var("eight"))>> :
     size \in {"eight", "none"}, s \in Writes, t \in Accesses}

\* Structures of two fields: what is set is read back, by its name and byte
\* by byte.
Field(f, type) == <<Let(f, Str(f), FALSE), Let("t" \o f, Str(type), FALSE), Let("g" \o f, ArrayE(<<Var(f), Var("t" \o f)>>), FALSE), ExprS(Call2("push", Var("fs"), Var("g" \o f)))>>
SetField(f, v) == ExprS(CallN("struct_set", <<Var("p"), Var("d"), Str(f), Var(v)>>))
GetField(f) == PrintS(CallN("struct_get", <<Var("p"), Var("d"), Str(f)>>))
Layouts ==
  {Numbers \o <<Let("fs", ArrayE(<< >>), FALSE)>> \o Field("k", t) \o Field("l", u)
     \o <<Let("d", Call1("struct_def", Var("fs")), FALSE), PrintS(Call1("struct_size", Var("d"))), Let("p", Call1("struct_new", Var("d")), FALSE),
          SetField("k", v), SetField("l", "letter"), SetField("m", "one"), GetField("k"), GetField("l"), GetField("m"), Read("one", "byte"), Read("five", "byte")>> :
     t \in {"short", "int", "long", "text"}, u \in {"char", "int", "long"}, v \in {"large", "below"}}
    \cup {Numbers \o <<Let("d", Call1("struct_def", ArrayE(<< >>)), FALSE), Let("p", Call1("struct_new", Var("d")), FALSE), s>> :
           s \in {PrintS(Call1("struct_size", Var("d"))), Read("none", "byte"), Write("none", "int", "one")}}

Coda == <<PrintS(Call1("twice", X)), PrintS(A)>>
MCPrograms ==
  {Prelude \o <<s>> \o Coda : s \in Tests \cup Control}
    \cup {Prelude \o <<Let("y", e, TRUE), PrintS(Call1("twice", Str("j"))), PrintS(Var("y"))>> : e \in Exprs}
    \cup {<<>> \o Functions \o Setup \o <<t, PrintS(Call1("twice", Str("j"))), Try(Raises(X), <<Catch("u", Body(PrintS(Var("u"))))>>, NoStmt), PrintS(Var("e"))>> :
            t \in {s \in Control : s.k \in {"try", "while"}}}
    \cup {Functions \o p : p \in Calls} \cup Odd \cup Blocks \cup Layouts
=============================================================================
