------------------------------ MODULE MCMossVM ------------------------------
(***************************************************************************)
(* Small programs for the bytecode machine.  Each statement under test     *)
(* follows a prelude that defines what it mentions and precedes one that   *)
(* prints what it may have changed.                                        *)
(***************************************************************************)
EXTENDS MossVM

MCStrLess(a, b) == a = "a" /\ b = "b"

X  == Var("x")
One == IntE(1)
Two == IntE(2)
Inc(name) == ExprS(Assign(name, Bin(Var(name), "+", One)))

\* note(v) prints its argument and returns it: the order of evaluation shows.
Note(e) == Call(Var("note"), <<e>>)
Prelude ==
  <<Let("x", One, TRUE), Let("arr", ArrayE(<<One, Two>>), TRUE),
    Proc("note", <<Param("v", NoExpr, "")>>, Block(<<PrintS(Var("v")), Return(Var("v"))>>)),
    Proc("add", <<Param("p", NoExpr, ""), Param("q", Two, "")>>, Block(<<Return(Bin(Var("p"), "+", Var("q")))>>)),
    Proc("gen", << >>, Block(<<Yield(One), Yield(Two)>>)),
    Class("C", "", <<Proc("init", <<Param("self", NoExpr, ""), Param("v", NoExpr, "")>>,
                          Block(<<ExprS(SetE(Var("self"), "v", Var("v")))>>)),
                     Proc("get", <<Param("self", NoExpr, "")>>, Block(<<Return(Get(Var("self"), "v"))>>)),
                     Proc("__add__", <<Param("self", NoExpr, ""), Param("o", NoExpr, "")>>,
                          Block(<<Return(Get(Var("o"), "v"))>>))>>),
    Struct("P", <<"u">>), Enum("E", <<[name |-> "A", fields |-> <<"f">>], [name |-> "B", fields |-> << >>]>>),
    Let("o", Call(Var("C"), <<Two>>), TRUE), Let("s", Call(Var("P"), <<One>>), TRUE)>>
Coda == <<PrintS(X), PrintS(Var("arr")), PrintS(Get(Var("o"), "v")), PrintS(Get(Var("s"), "u"))>>

Exprs ==
  {Bin(Note(One), "and", Note(Two)), Bin(Note(BoolE(FALSE)), "and", Note(Two)),
   Bin(Note(BoolE(FALSE)), "or", Note(NilE)), Bin(Note(StrE("a")), "or", Note(Two)),
   Bin(Note(One), "+", Bin(Note(Two), "*", IntE(3))), Unary("not", X), Bin(X, "==", Bin(One, "%", Two)),
   ArrayE(<<Note(One), TupleE(<<Note(Two)>>)>>), DictE(<<"k">>, <<Note(X)>>),
   Index(Var("arr"), IntE(-1)), Slice(Var("arr"), One, NoExpr), IndexSet(Var("arr"), Note(IntE(0)), Note(IntE(7))),
   Assign("x", Note(IntE(5))), SetE(Var("o"), "v", Note(IntE(9))), Get(Var("arr"), "length"),
   Call(Var("add"), <<Note(One)>>), Call(Var("add"), <<Note(One), Note(IntE(4))>>),
   Call(Get(Var("o"), "get"), << >>), Call(Get(Var("arr"), "push"), <<Note(IntE(3))>>),
   Bin(Var("o"), "+", Call(Var("C"), <<IntE(6)>>)), Call(Var("next"), <<Call(Var("gen"), << >>)>>),
   Get(Var("E"), "B"), Await(Note(One)), Bin(StrE("a"), "<", StrE("b")), NilE, Call(Var("str"), <<Two>>)}

Body(e) == Block(<<Inc("x"), PrintS(X), ExprS(e)>>)
Once    == If(Bin(X, "==", IntE(2)), Block(<<Continue>>), NoStmt)
Each(S(_)) == {S(e) : e \in Exprs}
Plain ==
  Each(PrintS) \cup Each(LAMBDA e : Let("y", e, FALSE))
    \cup Each(LAMBDA e : If(e, Block(<<PrintS(One)>>), Block(<<PrintS(Two)>>)))
    \cup Each(LAMBDA e : While(Bin(X, "<", IntE(3)), Body(e)))
    \cup Each(LAMBDA e : For("i", Slice(Var("arr"), NoExpr, NoExpr), Block(<<PrintS(Var("i")), ExprS(e)>>)))
    \cup {While(Bin(X, "<", IntE(4)), Block(<<Inc("x"), Once, PrintS(X)>>)),
          For("i", Var("arr"), Block(<<If(Bin(Var("i"), "==", One), Block(<<Continue>>), NoStmt), PrintS(Var("i"))>>)),
          For("i", Var("arr"), Block(<<For("j", Var("arr"), Block(<<PrintS(Var("i")), Continue>>))>>)),
          Block(<<Let("t", Var("s"), FALSE), ExprS(SetE(Var("t"), "u", Two)), PrintS(Get(Var("t"), "u"))>>),
          Try(Block(<<Raise(StrE("a"))>>), <<Catch("e", Block(<<PrintS(Var("e"))>>))>>, NoStmt),
          Match(X, <<Case(One, NoExpr, Block(<<PrintS(Two)>>))>>, NoStmt),
          For("i", RangeE(IntE(0), Two, FALSE), Block(<<PrintS(Var("i"))>>)),
          Annotated("manual", Block(<<PrintS(X)>>)),
          Block(<<Enum("F", <<[name |-> "Z", fields |-> << >>]>>), PrintS(StrE("z"))>>),
          PrintS(NullCoal(NilE, Note(One))), If(Propagate(X), Block(<<PrintS(X)>>), NoStmt)}

\* Loops in loops, left from the inner or the outer one, with what a tidy
\* program has none of last: a "break" under a loop over an array.
Below(n, body) == While(Bin(X, "<", IntE(n)), Block(<<Inc("x")>> \o body))
Over(name, body) == For(name, Slice(Var("arr"), NoExpr, NoExpr), Block(body))
When(e, s) == If(e, Block(<<s>>), NoStmt)
Loops ==
  {Below(5, <<Below(3, <<PrintS(X), Break>>), When(Bin(X, "==", IntE(4)), Break), PrintS(X)>>),
    Below(4, <<Over("i", <<When(Bin(Var("i"), "==", X), Continue), PrintS(Var("i"))>>),
               When(Bin(X, "==", IntE(3)), Break)>>),
    Over("i", <<Below(3, <<When(Bin(Var("i"), "==", One), Continue), PrintS(X)>>), PrintS(Var("i"))>>),
    Block(<<Below(3, <<Let("t", X, TRUE), When(Bin(Var("t"), "==", Two), Break)>>), PrintS(X)>>),
    Below(3, <<Match(X, <<Case(Two, NoExpr, Block(<<Break>>))>>, NoStmt), PrintS(X)>>),
    Over("i", <<PrintS(Var("i")), Break>>), Over("i", <<When(Bin(Var("i"), "==", Two), Break)>>),
    Over("i", <<Below(3, <<PrintS(X), Break>>), PrintS(Var("i"))>>),
    Over("i", <<Over("j", <<PrintS(Var("j")), Break>>), PrintS(Var("i"))>>)}

\* Expressions given up half-way, after a call or between a jump and its place.
Half == NullCoal(NilE, Two)
GivenUp ==
  {Bin(Note(One), "+", Half), Bin(Note(One), "and", Half), Bin(Note(BoolE(FALSE)), "and", Half),
    Bin(Note(BoolE(FALSE)), "or", Half), Bin(Note(One), "or", Half), Call(Var("add"), <<Note(One), Half>>)}
\* What the two take in different ways.
Differing ==
  {Bin(One, "/", IntE(0)), Bin(X, "%", Bin(One, "-", One)), Bin(StrE("a"), "+", One), Bin(Var("o"), "*", One),
    Index(TupleE(<<One, Two>>), IntE(-1)), Index(StrE("a"), One), Index(X, One), Slice(X, One, Two),
    IndexSet(StrE("a"), One, One), Get(X, "v"), SetE(X, "v", One), Call(Var("add"), << >>), Call(Var("C"), << >>),
    Call(Var("gen"), <<One>>), Call(X, << >>), Call(Get(Var("o"), "get"), <<One>>), Call(Get(Var("o"), "none"), << >>),
    Call(Get(Var("E"), "A"), <<One>>), Call(Get(X, "none"), << >>), Assign("none", One), Var("none"),
    Assign("add", One)}
Awkward ==
  {PrintS(e) : e \in GivenUp \cup Differing} \cup {Let("y", e, FALSE) : e \in GivenUp}
    \cup {Block(<<Defer(PrintS(One)), PrintS(Two)>>),
          Block(<<Let("c", One, FALSE), ExprS(Assign("c", Two)), PrintS(Var("c"))>>), For("i", X, Block(<<PrintS(X)>>)),
          Block(<<Class("D", "C", <<Proc("init", <<Param("self", NoExpr, ""), Param("v", NoExpr, "")>>,
                                         Block(<<PrintS(Var("v")), ExprS(Call(Super("init"), <<Var("v")>>))>>))>>),
                  Class("F", "D", << >>), PrintS(Get(Call(Var("F"), <<One>>), "v"))>>)}

Statements == Plain \cup Loops \cup Awkward
Scripts == {[mode |-> "script", ss |-> Prelude \o <<s>> \o Coda] : s \in Statements}

\* Programs without integers and loops over arrays: the rest is refused.
Twice == Proc("twice", <<Param("p", NoExpr, "")>>,
              Block(<<If(Bin(Var("p"), "==", StrE("a")), Block(<<Return(Bin(Var("p"), "+", Var("p")))>>), NoStmt),
                      Proc("inner", <<Param("q", NoExpr, "")>>, Block(<<Return(TupleE(<<Var("p"), Var("q")>>))>>)),
                      Return(Call(Var("inner"), <<Var("p")>>))>>))
Arguments == {StrE("a"), StrE("b"), X, One, Bin(X, "and", NilE), Call(Var("twice"), <<X>>),
               Var("twice"), Unary("not", X), NullCoal(X, X)}
Artifacts ==
  {[mode |-> "artifact",
    ss |-> <<Let("x", StrE("a"), TRUE), Twice, PrintS(Call(Var("twice"), <<e>>)),
             While(Bin(X, "==", StrE("a")), Block(<<ExprS(Assign("x", e)), If(Bin(X, "==", StrE("a")), Block(<<Break>>), NoStmt)>>)),
             PrintS(X)>>] : e \in Arguments}
\* The inner loop is left by its "break" and by its condition, the outer one by its "break".
Nested ==
  [mode |-> "artifact",
   ss |-> <<Let("x", StrE("a"), TRUE), Let("y", StrE("b"), TRUE),
            While(X, Block(<<While(X, Block(<<ExprS(Assign("x", Unary("not", X))), When(Var("y"), Break)>>)),
                             PrintS(X), When(Unary("not", Var("y")), Break), ExprS(Assign("y", X)), ExprS(Assign("x", StrE("c")))>>)),
            PrintS(X)>>]

MCPrograms == Scripts \cup Artifacts \cup {Nested}
=============================================================================
