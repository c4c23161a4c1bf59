------------------------------ MODULE Printer ------------------------------
(***************************************************************************)
(* How a program is written: the grammar of the language read from a tree  *)
(* to a text.  It is the reference the parser is checked against, and      *)
(* follows the comments over the functions of parser.c ("term -> factor    *)
(* (("+"|"-") factor)*"), the syntax of documentation/Language-Spec.md,    *)
(* and nothing of the parser's own code.                                   *)
(*                                                                         *)
(* A program can be written in two styles: the plain one, with a blank     *)
(* between any two words, and the terse one, with no blank that can be     *)
(* left out, blank lines between the lines, the short forms of the         *)
(* language (-x, x += e, "=>" arms, a type before a name, trailing commas) *)
(* and other indentations.                                                 *)
(***************************************************************************)
EXTENDS Ast, Lexer

Op(s)    == [k |-> "op", s |-> s]
Words(s) == <<Word(s)>>
Ops(s)   == <<Op(s)>>

(***************************************************************************)
(* Expressions; a looser one stands in parentheses.                        *)
(***************************************************************************)
OperatorRank(op) ==
  CASE op = "or" -> 4 [] op = "and" -> 5 [] op = "|" -> 6 [] op = "^" -> 7 [] op = "&" -> 8 [] op \in {"==", "!="} -> 9
    [] op \in {"<", ">", "<=", ">="} -> 10 [] op \in {"<<", ">>"} -> 11 [] op \in {"+", "-"} -> 12 [] OTHER -> 13
Prefix == 14
Tight  == 15
IsNegation(e) == e.k = "bin" /\ e.op = "-" /\ e.l = IntE(0)

Rank(terse, e) ==
  CASE e.k \in {"set", "indexset"} -> 1
    [] e.k = "range"               -> 2
    [] e.k = "nullcoal"            -> 3
    [] e.k = "await"               -> Prefix
    [] e.k = "bin" -> IF e.r = NoExpr \/ (terse /\ IsNegation(e)) THEN Prefix ELSE OperatorRank(e.op)
    [] OTHER -> Tight

RECURSIVE Bare(_, _), Listed(_, _), Entries(_, _, _)
Within(terse, rank, e) == IF Rank(terse, e) < rank THEN Ops("(") \o Bare(terse, e) \o Ops(")") ELSE Bare(terse, e)
Maybe(terse, e) == IF e = NoExpr THEN << >> ELSE Bare(terse, e)
Listed(terse, es) ==
  IF es = << >> THEN << >>
  ELSE (IF Head(es).k = "bin" /\ Head(es).op = ".."
        THEN Ops(IF terse THEN ".." ELSE "...") \o Bare(terse, Head(es).l)
        ELSE Bare(terse, Head(es)))
         \o (IF Len(es) > 1 \/ terse THEN Ops(",") ELSE << >>) \o Listed(terse, Tail(es))
Entries(terse, keys, es) ==
  IF es = << >> THEN << >>
  ELSE <<Quoted(<<[src |-> Head(keys), e |-> NoExpr]>>), Op(":")>> \o Bare(terse, Head(es))
         \o (IF Len(es) > 1 \/ terse THEN Ops(",") ELSE << >>) \o Entries(terse, Tail(keys), Tail(es))

IsAugmented(e) == e.x = NoExpr /\ e.e.k = "bin" /\ e.e.l = Var(e.name) /\ e.e.op \in {"+", "-", "*", "/"} /\ e.e.r # NoExpr
Bare(terse, e) ==
  LET In(rank, x) == Within(terse, rank, x)
      Member == IF terse THEN Ops("->") ELSE Ops(".")
      Infix(rank, op) == In(rank, e.l) \o op \o In(rank + 1, e.r)
  IN  CASE e.k = "int"   -> <<Num(e.n)>>
        [] e.k = "bool"  -> Words(IF e.b THEN "true" ELSE "false")
        [] e.k = "nil"   -> Words("nil")
        [] e.k = "str"   -> <<Quoted(<<[src |-> e.s, e |-> NoExpr]>>)>>
        [] e.k = "interp" -> <<Quoted(e.parts)>>
        [] e.k = "var"   -> Words(e.name)
        [] e.k = "bin" /\ e.r = NoExpr -> <<IF e.op = "not" THEN Word("not") ELSE Op(e.op)>> \o In(Prefix, e.l)
        [] e.k = "bin" /\ e.r # NoExpr -> IF terse /\ IsNegation(e) THEN Ops("-") \o In(Prefix, e.r)
                            ELSE Infix(OperatorRank(e.op), <<IF e.op \in {"and", "or"} THEN Word(e.op) ELSE Op(e.op)>>)
        [] e.k = "nullcoal" -> Infix(3, Ops("??"))
        [] e.k = "range" -> In(3, e.lo) \o Ops(IF e.inc THEN "..=" ELSE "..") \o In(3, e.hi)
        [] e.k = "await" -> Words("await") \o In(Prefix, e.e)
        [] e.k = "array" -> Ops("[") \o Listed(terse, e.es) \o Ops("]")
        [] e.k = "tuple" -> Ops("(") \o (IF Len(e.es) = 1 THEN Bare(terse, e.es[1]) \o Ops(",") ELSE IF e.es = << >> THEN << >> ELSE Listed(terse, e.es)) \o Ops(")")
        [] e.k = "dict"  -> Ops("{") \o Entries(terse, e.keys, e.es) \o Ops("}")
        [] e.k = "index" -> In(Tight, e.x) \o Ops("[") \o Bare(terse, e.i) \o Ops("]")
        [] e.k = "slice" -> In(Tight, e.x) \o Ops("[") \o Maybe(terse, e.lo) \o Ops(":") \o Maybe(terse, e.hi) \o Ops("]")
        [] e.k = "get"   -> In(Tight, e.x) \o Member \o Words(e.name)
        [] e.k = "optchain" -> In(Tight, e.x) \o Ops("?.") \o Words(e.name)
        [] e.k = "super" -> Words("super") \o Member \o Words(e.name)
        [] e.k = "unwrap" -> In(Tight, e.e) \o Ops("!")
        [] e.k = "propagate" -> In(Tight, e.e) \o Ops("?")
        [] e.k = "comptime" -> Words("comptime") \o Ops("(") \o Bare(terse, e.e) \o Ops(")")
        [] e.k = "call"  -> In(Tight, e.f) \o Ops("(") \o Listed(terse, e.es) \o Ops(")")
        [] e.k = "indexset" -> In(Tight, e.x) \o Ops("[") \o Bare(terse, e.i) \o Ops("]") \o Ops("=") \o Bare(terse, e.e)
        [] e.k = "set" /\ e.x # NoExpr -> In(Tight, e.x) \o Member \o Words(e.name) \o Ops("=") \o Bare(terse, e.e)
        [] e.k = "set" /\ e.x = NoExpr -> IF terse /\ IsAugmented(e) THEN Words(e.name) \o Ops(e.e.op \o "=") \o Bare(terse, e.e.r)
                                          ELSE Words(e.name) \o Ops("=") \o Bare(terse, e.e)

(***************************************************************************)
(* Statements: lines [n, xs], what stands on each and how deep.            *)
(***************************************************************************)
Line(n, xs) == <<[n |-> n, xs |-> xs]>>
Flat(seqs)  == FoldLeft(LAMBDA a, b : a \o b, << >>, seqs)
Commas(seqs) == Flat([i \in DOMAIN seqs |-> (IF i = 1 THEN << >> ELSE Ops(",")) \o seqs[i]])
NamesIn(names) == Commas([i \in DOMAIN names |-> Words(names[i])])
Signature(terse, ps) ==
  Ops("(") \o Commas([i \in DOMAIN ps |-> Words(ps[i].name) \o (IF ps[i].type = "" THEN << >> ELSE Ops(":") \o Words(ps[i].type))
                        \o (IF ps[i].dflt = NoExpr THEN << >> ELSE Ops("=") \o Bare(terse, ps[i].dflt))]) \o Ops(")")
IsDestructuring(s) ==
  /\ s.k = "block" /\ s.ss # << >> /\ s.ss[1].k = "let" /\ s.ss[1].name \in {"__destruct_0", "__destructd_0"}
FieldsOf(v) == IF v.fields = << >> THEN << >> ELSE Ops("(") \o NamesIn(v.fields) \o Ops(")")

RECURSIVE Lines(_, _, _), LinesOf(_, _, _), Indent(_, _, _)
LinesOf(terse, n, ss) == IF ss = << >> THEN << >> ELSE Lines(terse, n, Head(ss)) \o LinesOf(terse, n, Tail(ss))
Indent(terse, n, b) == IF b.ss = << >> THEN Line(n, Words("end")) ELSE LinesOf(terse, n + 1, b.ss)
Lines(terse, n, s) ==
  LET E(e) == Bare(terse, e)
      Header(xs, b) == Line(n, xs \o Ops(":")) \o Indent(terse, n, b)
      Simple(xs) == Line(n, xs)
      Type == IF "type" \in DOMAIN s THEN s.type ELSE ""
      Init(e) == IF e = NoExpr THEN << >> ELSE Ops("=") \o E(e)
      Arrow(p, g, b) == Line(n + 1, p \o (IF g = NoExpr THEN << >> ELSE Words("if") \o E(g)) \o Ops("=>"))
                          \o LinesOf(terse, n + 2, b.ss)
      IsTerseArm(b) == terse /\ b.k = "block" /\ b.ss # << >>
  IN  CASE s.k = "print"  -> Simple(Words("print") \o E(s.e))
        [] s.k = "expr"   -> Simple(IF Head(E(s.e)) = Word("comptime") THEN Ops("(") \o E(s.e) \o Ops(")") ELSE E(s.e))
        [] s.k = "raise"  -> Simple(Words("raise") \o E(s.e))
        [] s.k = "yield"  -> Simple(Words("yield") \o Maybe(terse, s.e))
        [] s.k = "return" -> Simple(Words("return") \o Maybe(terse, s.e))
        [] s.k = "break"  -> Simple(Words("break"))
        [] s.k = "continue" -> Simple(Words("continue"))
        [] s.k = "let" -> Simple(IF terse /\ s.mut /\ Type \in {"int", "str"} THEN <<Word(Type), Word(s.name)>> \o Init(s.e)
                                 ELSE <<Word(IF s.mut THEN "var" ELSE "let"), Word(s.name)>>
                                        \o (IF Type = "" THEN << >> ELSE Ops(":") \o Words(Type)) \o Init(s.e))
        [] s.k = "if" -> Header(Words("if") \o E(s.c), s.s)
             \o (CASE s.alt = NoStmt -> << >>
                   [] s.alt.k = "if" -> LET rest == Lines(terse, n, s.alt) IN <<[rest[1] EXCEPT !.xs[1] = Word("elif")]>> \o Tail(rest)
                   [] OTHER -> Header(Words("else"), s.alt))
        [] s.k = "while" -> Header(Words("while") \o E(s.c), s.s)
        [] s.k = "for"   -> Header(<<Word("for"), Word(s.name), Word("in")>> \o E(s.e), s.s)
        [] s.k = "proc"  -> Header(<<Word("proc"), Word(s.name)>> \o Signature(terse, s.ps) \o (IF terse THEN Ops("->") \o Words("any") ELSE << >>), s.s)
        [] s.k = "async" -> Header(<<Word("async"), Word("proc"), Word(s.name)>> \o Signature(terse, s.ps), s.s)
        [] s.k = "macro" -> Header(<<Word("macro"), Word(s.name)>> \o Signature(terse, s.ps), s.s)
        [] s.k = "class" -> Line(n, <<Word("class"), Word(s.name)>> \o (IF s.up = "" THEN << >> ELSE Ops("(") \o Words(s.up) \o Ops(")")) \o Ops(":"))
                              \o LinesOf(terse, n + 1, s.ss)
        [] s.k \in {"trait", "impl"} -> Line(n, <<Word(s.k), Word(s.name), Op(":")>>) \o LinesOf(terse, n + 1, s.ss)
        [] s.k = "struct" -> Line(n, <<Word("struct"), Word(s.name), Op(":")>>) \o [i \in DOMAIN s.fields |-> [n |-> n + 1, xs |-> <<Word(s.fields[i]), Op(":"), Word("int")>>]]
        [] s.k = "enum"  -> Line(n, <<Word("enum"), Word(s.name), Op(":")>>)
             \o [i \in DOMAIN s.variants |-> [n |-> n + 1, xs |-> Words(s.variants[i].name) \o FieldsOf(s.variants[i])]]
        [] s.k = "match" -> Line(n, Words("match") \o E(s.e) \o Ops(":"))
             \o Flat([i \in DOMAIN s.cases |->
                  LET c == s.cases[i]
                  IN  IF IsTerseArm(c.s) THEN Arrow(E(c.p), c.c, c.s)
                      ELSE Line(n + 1, Words("case") \o E(c.p) \o (IF c.c = NoExpr THEN << >> ELSE Words("if") \o E(c.c)) \o Ops(":")) \o Indent(terse, n + 1, c.s)])
             \o (IF s.s = NoStmt THEN << >> ELSE IF IsTerseArm(s.s) THEN Arrow(Words("_"), NoExpr, s.s) ELSE Line(n + 1, Words("default") \o Ops(":")) \o Indent(terse, n + 1, s.s))
        [] s.k = "try"   -> Header(Words("try"), s.s) \o Flat([i \in DOMAIN s.catches |-> Header(<<Word("catch"), Word(s.catches[i].name)>>, s.catches[i].s)])
             \o (IF s.fin = NoStmt THEN << >> ELSE Header(Words("finally"), s.fin))
        [] s.k = "defer" -> IF s.s.k = "block" THEN Header(Words("defer"), s.s)
                            ELSE LET rest == Lines(terse, n, s.s) IN <<[rest[1] EXCEPT !.xs = Words("defer") \o @]>> \o Tail(rest)
        [] s.k = "spawn" -> Header(Words("spawn"), s.s)
        [] s.k = "comptimes" -> Header(Words("comptime"), s.s)
        [] s.k = "annotated" -> Header(<<Op("@"), Word(s.annot)>>, s.s)
        [] s.k = "block" /\ IsDestructuring(s) ->
             LET array == s.ss[1].name = "__destruct_0"
             IN  Simple(Words("let") \o Ops(IF array THEN "[" ELSE "{") \o NamesIn([i \in 1..(Len(s.ss) - 1) |-> s.ss[i + 1].name])
                          \o Ops(IF array THEN "]" ELSE "}") \o Init(s.ss[1].e))
        [] s.k = "block" /\ ~IsDestructuring(s) -> Header(Words("unsafe"), s)
        [] s.k = "import" -> Simple(IF s.items = << >> THEN <<Word("import"), Word(s.name)>> \o (IF s.alias = "" THEN << >> ELSE <<Word("as"), Word(s.alias)>>)
             ELSE <<Word("from"), Word(s.name), Word("import")>>
                    \o Commas([i \in DOMAIN s.items |-> (IF s.items[i].name = "*" THEN Ops("*") ELSE Words(s.items[i].name))
                         \o (IF s.items[i].alias = "" THEN << >> ELSE <<Word("as"), Word(s.items[i].alias)>>)]))

(***************************************************************************)
(* Lines to a text.                                                        *)
(***************************************************************************)
Spelling(x) == IF x.k = "op" THEN [i \in 1..Len(x.s) |-> Ch(SubSeq(x.s, i, i))] ELSE <<x>>
Blank(n) == [i \in 1..n |-> Ch(" ")]
Runs(a, b) ==
  \/ a.k \in {"word", "num"} /\ b.k \in {"word", "num"}
  \/ /\ a.k = "op" /\ b.k = "op"
     /\ (SubSeq(a.s, Len(a.s), Len(a.s)) \o SubSeq(b.s, 1, 1)) \in Doubled \cup {".="}
\* The blank after a line's last word, or a comment there, means nothing.
OneLine(terse, xs) ==
  Flat([i \in DOMAIN xs |-> (IF i > 1 /\ (~terse \/ Runs(xs[i - 1], xs[i])) THEN Blank(1) ELSE << >>) \o Spelling(xs[i])])
Written(terse, ls) ==
  Flat([i \in DOMAIN ls |->
    (IF terse /\ i % 2 = 0 THEN Blank(3) \o <<Ch("\n")>> ELSE << >>)
      \o Blank(ls[i].n * (IF terse THEN 1 ELSE 4)) \o OneLine(terse, ls[i].xs)
      \o (IF terse /\ i % 3 = 0 THEN <<Ch(" "), Comment>> ELSE << >>) \o <<Ch("\n")>>])
Program(terse, ss) == Written(terse, LinesOf(terse, 0, ss))
=============================================================================
