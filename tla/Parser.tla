------------------------------ MODULE Parser ------------------------------
(***************************************************************************)
(* The recursive descent parser (parser.c): one operator for each of its   *)
(* functions.                                                              *)
(*                                                                         *)
(* The parser reads one token ahead and now and then looks further, saving *)
(* and restoring the whole state of the lexer; here it moves over the      *)
(* tokens of the text.  Its state p is                                     *)
(*    ts, i  the tokens and the current one, 0 after a reported error,     *)
(*    v      what the function that just returned gives back,              *)
(*    depth  parser_depth, ids the counters that name the variables of     *)
(*           destructuring bindings: both are static variables of the      *)
(*           program and outlive a text.                                   *)
(* After an error every function returns as it is called: the error has    *)
(* left the parser by exit or, in the REPL, by longjmp.                    *)
(***************************************************************************)
EXTENDS Ast, Lexer

CONSTANT MaxParserDepth \* MAX_PARSER_DEPTH

Tok(p) ==
  CASE p.i = 0          -> Token("error")
    [] p.i > Len(p.ts)  -> Token("eof")
    [] OTHER            -> p.ts[p.i]
Fail(p)      == [p EXCEPT !.i = 0, !.v = NoExpr]
Gives(p, v)  == [p EXCEPT !.v = v]
At(p, ts)   == Tok(p).t \in ts
check(p, t)  == Tok(p).t = t
advance_parser(p) == LET q == [p EXCEPT !.i = @ + 1] IN IF p.i = 0 \/ check(q, "error") THEN Fail(p) ELSE q
consume(p, t) == IF check(p, t) THEN advance_parser(p) ELSE Fail(p)
Optional(p, t) == IF check(p, t) THEN advance_parser(p) ELSE p
\* The token consumed last, by a call that consumes one of these types.
Name(p, ts) == IF At(p, ts) THEN Gives(advance_parser(p), Tok(p).w) ELSE Fail(p)
Colon(p)  == consume(p, ":")
Header(p) == consume(Colon(p), "newline")
IsEnd(p)  == At(p, {"dedent", "eof", "error"})

RECURSIVE Newlines(_), Past(_, _)
Newlines(p) == IF check(p, "newline") THEN Newlines(advance_parser(p)) ELSE p
Past(p, stops) == IF At(p, stops \cup {"error"}) THEN p ELSE Past(advance_parser(p), stops)

Id == {"identifier"}
\* Mutant of Like: a keyword of statements may name a variable.
LikeIf == Id \cup {"enum", "struct", "trait", "match", "init", "if"}
Like == Id \cup {"enum", "struct", "trait", "match", "init"} \* match_identifier_like

(***************************************************************************)
(* Expressions.                                                            *)
(***************************************************************************)
\* A string is its text between quotes, in the parts [src, e] of Interp; one
\* that holds an expression between braces is evaluated each time.
Plain(raw) == FoldLeft(LAMBDA s, part : s \o part.src, "", raw)
Text(raw)  == IF \E i \in DOMAIN raw : raw[i].e # NoExpr THEN Interp(raw) ELSE StrE(Plain(raw))

\* The functions call one another through Parse.
RECURSIVE Parse(_, _)
Expression(p) == Parse("expression", p)
ABlock(p)     == Parse("block", p)
Statement(p)  == Parse("statement", p)
Declaration(p) == Parse("declaration", p)
TypeOf(p)     == Parse("annotation", p)
List(kind, p) == Parse(kind, p) \* e, e, ...: see Items

\* e, e, ... up to (not including) the token that closes them, which may
\* follow a comma.
Spreading(p) == IF check(p, "..") THEN Optional(advance_parser(p), ".") ELSE p
Unnamed(p) ==
  LET q == advance_parser(p)
  IN  IF ~check(p, "identifier") THEN p ELSE IF check(q, ":") THEN advance_parser(q) ELSE IF q.i = 0 THEN q ELSE p
Annotation(p) == IF check(p, ":") THEN TypeOf(advance_parser(p)) ELSE Gives(p, "")
Default(p)    == IF check(p, "=") THEN Expression(advance_parser(p)) ELSE Gives(p, NoExpr)
OneParam(p) ==
  LET name == Name(p, {"self", "identifier"})
      type == Annotation(name)
      dflt == Default(type)
  IN  Gives(dflt, Param(name.v, dflt.v, type.v))
Entry(p) ==
  LET q == Expression(Colon(consume(p, "string")))
  IN  Gives(q, <<Plain(Tok(p).raw), q.v>>)
Alias(p) == IF check(p, "as") THEN Name(advance_parser(p), Id) ELSE Gives(p, "")
Item(kind, p) ==
  CASE p.i = 0             -> p
    [] kind = "element"    -> LET q == Expression(Spreading(p)) IN IF check(p, "..") THEN Gives(q, Spread(q.v)) ELSE q
    [] kind = "argument"   -> Expression(Unnamed(p))
    [] kind = "member"     -> Expression(p)
    [] kind = "entry"      -> IF check(p, "string") THEN Entry(p) ELSE Fail(p)
    [] kind = "param"      -> OneParam(p)
    [] kind = "asyncparam" -> LET q == Name(p, {"self", "identifier"}) IN Gives(q, Param(q.v, NoExpr, ""))
    [] kind = "macroparam" -> LET q == Name(p, Id) IN Gives(q, Param(q.v, NoExpr, ""))
    [] kind = "pragma"     -> IF At(p, {"string", "identifier", "number"}) THEN Gives(advance_parser(p), Tok(p)) ELSE Fail(p)
    [] kind = "type"       -> TypeOf(p)
    [] kind = "typeparam"  -> Name(p, Id)
    [] kind = "import"     -> LET name == Name(p, Id)
                                  alias == Alias(name)
                              IN  Gives(alias, [name |-> name.v, alias |-> alias.v])
ClosedBy == [element |-> "]", argument |-> ")", member |-> ")", entry |-> "}", param |-> ")", asyncparam |-> ")",
             macroparam |-> ")", pragma |-> ")", type |-> "", typeparam |-> "", import |-> ""]
\* A required parameter may not follow one with a default.
Ordered(kind, acc, item) ==
  IF kind = "param" /\ item.i # 0 /\ item.v.dflt = NoExpr /\ \E j \in DOMAIN acc : acc[j].dflt # NoExpr THEN Fail(item) ELSE item
RECURSIVE Items(_, _, _)
Items(kind, p, acc) ==
  LET q == Ordered(kind, acc, Item(kind, p))
  IN  IF check(p, ClosedBy[kind]) THEN Gives(p, acc)
      ELSE IF check(q, ",") THEN Items(kind, advance_parser(q), Append(acc, q.v)) ELSE Gives(q, Append(acc, q.v))
Bracketed(kind, p) == consume(List(kind, advance_parser(p)), ClosedBy[kind])

parse_type_annotation(p) ==
  LET q == advance_parser(p)
  IN  CASE ~check(p, "identifier") -> Gives(p, "")
        [] check(q, "[")           -> Gives(consume(List("type", advance_parser(q)), "]"), Tok(p).w)
        [] OTHER                   -> Gives(q, Tok(p).w)

Parenthesised(p) ==
  LET first == Expression(p)
      rest  == List("member", advance_parser(first))
  IN  CASE check(p, ")")     -> Gives(advance_parser(p), TupleE(<< >>))
        [] check(first, ",") -> consume(Gives(rest, IF rest.i = 0 THEN NoExpr ELSE TupleE(<<first.v>> \o rest.v)), ")")
        [] OTHER             -> consume(first, ")")
primary(p) ==
  LET t == Tok(p)
      q == advance_parser(p)
      of(kind) == Bracketed(kind, p)
  IN  CASE t.t \in {"true", "false"} -> Gives(q, BoolE(t.t = "true"))
        [] t.t = "nil"               -> Gives(q, NilE)
        [] t.t = "super"             -> IF At(q, {".", "->"})
                                        THEN LET m == Name(advance_parser(q), Id \cup {"init"}) IN Gives(m, Super(m.v))
                                        ELSE Fail(p)
        [] t.t = "comptime"          -> LET e == Expression(consume(q, "(")) IN consume(Gives(e, ComptimeE(e.v)), ")")
        [] t.t = "("                 -> Parenthesised(q)
        [] t.t = "{"                 -> LET d == of("entry")
                                        IN  Gives(d, IF d.i = 0 THEN NoExpr
                                                     ELSE DictE([i \in DOMAIN d.v |-> d.v[i][1]], [i \in DOMAIN d.v |-> d.v[i][2]]))
        [] t.t = "["                 -> LET a == of("element") IN Gives(a, ArrayE(a.v))
        [] t.t = "number"            -> Gives(q, IntE(t.n))
        [] t.t = "string"            -> Gives(q, Text(t.raw))
        [] t.t \in Like \cup {"self"} -> Gives(q, Var(t.w))
        [] OTHER                     -> Fail(p)

\* Keywords that may name a property.
Members == Id \cup {"init", "class", "self", "super", "in", "import", "end", "spawn"}
Subscript(p) ==
  LET x    == p.v
      lo   == IF check(advance_parser(p), ":") THEN Gives(advance_parser(p), NoExpr) ELSE Expression(advance_parser(p))
      past == advance_parser(lo)
      hi   == IF check(past, "]") THEN Gives(past, NoExpr) ELSE Expression(past)
  IN  IF check(lo, ":") THEN consume(Gives(hi, Slice(x, lo.v, hi.v)), "]") ELSE consume(Gives(lo, Index(x, lo.v)), "]")
RECURSIVE Postfix(_)
Postfix(p) ==
  LET q    == advance_parser(p)
      name == Name(q, IF check(p, "?.") THEN Id ELSE Members)
  IN  CASE check(p, "(")          -> LET as == Bracketed("argument", p) IN Postfix(Gives(as, Call(p.v, as.v)))
        [] check(p, "[")          -> Postfix(Subscript(p))
        [] At(p, {".", "->"})    -> Postfix(Gives(name, Get(p.v, name.v)))
        [] check(p, "?.")         -> Postfix(Gives(name, OptChain(p.v, name.v)))
        [] check(p, "!")          -> Postfix(Gives(q, Unwrap(p.v)))
        [] check(p, "?")          -> Postfix(Gives(q, Propagate(p.v)))
        [] OTHER                  -> p

RECURSIVE unary(_)
unary(p) ==
  LET e == unary(advance_parser(p))
  IN  CASE check(p, "-")          -> Gives(e, Bin(IntE(0), "-", e.v))
        [] At(p, {"not", "~"})   -> Gives(e, Unary(Tok(p).t, e.v))
        [] check(p, "await")      -> Gives(e, Await(e.v))
        [] OTHER                  -> Postfix(primary(p))

\* Binary operators by level, the tightest first.
Levels == <<{"*", "/", "%"}, {"+", "-"}, {"<<", ">>"}, {">", "<", ">=", "<="}, {"==", "!="},
            {"&"}, {"^"}, {"|"}, {"and"}, {"or"}, {"??"}>>
Joined(op, l, r) == IF op = "??" THEN NullCoal(l, r) ELSE Bin(l, op, r)
Level(p) == IF \E k \in DOMAIN Levels : At(p, Levels[k]) THEN CHOOSE k \in DOMAIN Levels : At(p, Levels[k]) ELSE Len(Levels) + 1
\* The functions term to null_coalesce, each of which calls the one above it for
\* its operands.  p.v is the left operand, read at a tighter level than k: it is
\* joined to what follows by operators up to level k.
RECURSIVE Binary(_, _), LeftAssoc(_, _)
Binary(k, p) == LeftAssoc(k, unary(p))
\* Mutant of LeftAssoc: the right operand takes operators of the same level.
RightAssoc(k, p) ==
  LET q == Binary(Level(p), advance_parser(p))
  IN  IF Level(p) > k THEN p ELSE LeftAssoc(k, Gives(q, Joined(Tok(p).t, p.v, q.v)))
LeftAssoc(k, p) ==
  LET q == Binary(Level(p) - 1, advance_parser(p))
  IN  IF Level(p) > k THEN p ELSE LeftAssoc(k, Gives(q, Joined(Tok(p).t, p.v, q.v)))
Loosest(p) == Binary(Len(Levels), p)

RangeFrom(low) ==
  LET high == Loosest(advance_parser(low))
  IN  IF At(low, {"..", "..="}) THEN Gives(high, RangeE(low.v, high.v, check(low, "..="))) ELSE low
range_expr(p) == RangeFrom(Loosest(p))

\* An assignment to a property, an element or a variable; x op= e for
\* variables only.
Augmented == [t \in {"+=", "-=", "*=", "/="} |-> CASE t = "+=" -> "+" [] t = "-=" -> "-" [] t = "*=" -> "*" [] OTHER -> "/"]
Target(x, op, e) ==
  CASE x.k = "get"   -> SetE(x.x, x.name, e)
    [] x.k = "index" -> IndexSet(x.x, x.i, e)
    [] x.k = "var"   -> Assign(x.name, IF op = "=" THEN e ELSE Bin(x, Augmented[op], e))
RECURSIVE assignment(_), AssignedTo(_)
AssignedTo(q) ==
  LET r == assignment(advance_parser(q))
  IN  IF (check(q, "=") /\ q.v.k \in {"get", "index", "var"}) \/ (At(q, DOMAIN Augmented) /\ q.v.k = "var")
      THEN IF r.i = 0 THEN r ELSE Gives(r, Target(q.v, Tok(q).t, r.v))
      ELSE q
assignment(p) == AssignedTo(range_expr(p))

\* One level deeper; only a call that returns comes back up.
Deeper(p)   == IF p.depth + 1 > MaxParserDepth THEN [Fail(p) EXCEPT !.depth = @ + 1] ELSE [p EXCEPT !.depth = @ + 1]
Shallower(p) == IF p.i = 0 THEN p ELSE [p EXCEPT !.depth = @ - 1]
expression(p) == IF p.i = 0 THEN p ELSE LET q == Deeper(p) IN IF q.i = 0 THEN q ELSE Shallower(assignment(q))

(***************************************************************************)
(* Blocks and compound statements; p stands after the keyword.             *)
(***************************************************************************)
RECURSIVE Body(_, _)
Body(p, acc) ==
  LET d == Declaration(p)
  IN  CASE IsEnd(p)            -> Gives(p, acc)
        [] check(p, "newline") -> Body(advance_parser(p), acc)
        [] OTHER               -> Body(d, IF d.v = NoStmt THEN acc ELSE Append(acc, d.v))
\* Mutant of block: an empty block stays one level deeper.
EndStaysDeep(p) ==
  LET q    == Newlines(Deeper(p))
      body == consume(Body(consume(q, "indent"), << >>), "dedent")
  IN  CASE p.i = 0         -> p
        [] check(q, "end") -> Gives(advance_parser(q), Block(<< >>))
        [] OTHER           -> Shallower(Gives(body, Block(body.v)))
\* A block is indented; "end" stands for an empty one.
block(p) ==
  LET q    == Newlines(Deeper(p))
      body == consume(Body(consume(q, "indent"), << >>), "dedent")
  IN  CASE p.i = 0         -> p
        [] check(q, "end") -> Shallower(Gives(advance_parser(q), Block(<< >>)))
        [] OTHER           -> Shallower(Gives(body, Block(body.v)))

RECURSIVE if_statement(_)
if_statement(p) ==
  LET c    == Expression(p)
      then == ABlock(Header(c))
      elif == if_statement(advance_parser(then))
      else == ABlock(Header(advance_parser(then)))
  IN  CASE check(then, "if") /\ Tok(then).w = "elif" /\ then.ts[then.i - 1].t = "dedent" -> Gives(elif, If(c.v, then.v, elif.v))
        [] check(then, "else")                       -> Gives(else, If(c.v, then.v, else.v))
        [] OTHER                                     -> Gives(then, If(c.v, then.v, NoStmt))
while_statement(p) ==
  LET c == Expression(p)
      s == ABlock(Header(c))
  IN  Gives(s, While(c.v, s.v))
for_statement(p) ==
  LET name == Name(p, Id)
      e    == Expression(consume(name, "in"))
      s    == ABlock(Header(e))
  IN  Gives(s, For(name.v, e.v, s.v))

RECURSIVE Catches(_, _)
Catches(p, acc) ==
  LET name == Name(advance_parser(p), Id)
      s    == ABlock(Header(name))
  IN  IF ~check(p, "catch") THEN Gives(p, acc) ELSE Catches(s, Append(acc, Catch(name.v, s.v)))
try_statement(p) ==
  LET s  == ABlock(Header(p))
      cs == Catches(s, << >>)
      fin == IF check(cs, "finally") THEN ABlock(Header(advance_parser(cs))) ELSE Gives(cs, NoStmt)
  IN  Gives(fin, Try(s.v, cs.v, fin.v))

\* defer: and a block, or defer and a statement.
defer_statement(p) ==
  LET s == IF check(p, ":") THEN ABlock(Header(p)) ELSE Statement(p) IN Gives(s, Defer(s.v))
yield_statement(p) == LET e == IF At(p, {"newline", "eof", "dedent"}) THEN Gives(p, NoExpr) ELSE Expression(p) IN Gives(e, Yield(e.v))

\* The arms of a match, in the forms "case p if g:", "default:" and
\* "p if g =>"; _ without a guard is the default of the last form only.
Guard(p) == IF check(p, "if") THEN Expression(advance_parser(p)) ELSE Gives(p, NoExpr)
ArrowBody(p) == IF check(p, "indent") THEN ABlock(p) ELSE LET d == Declaration(p) IN Optional(d, "newline")
RECURSIVE Arms(_, _)
Arms(p0, acc) ==
  LET p       == Newlines(p0)
      dflt    == ABlock(Newlines(Colon(advance_parser(p))))
      isCase  == check(p, "case")
      pattern == Expression(IF isCase THEN advance_parser(p) ELSE p)
      guard   == Guard(pattern)
      body    == IF isCase THEN ABlock(Newlines(Colon(guard))) ELSE ArrowBody(Newlines(consume(guard, "=>")))
  IN  CASE IsEnd(p)             -> Gives(p, acc)
        [] check(p, "default")  -> Arms(dflt, [acc EXCEPT !.dflt = dflt.v])
        [] ~isCase /\ pattern.v = Var("_") /\ guard.v = NoExpr -> Arms(body, [acc EXCEPT !.dflt = body.v])
        [] OTHER                -> Arms(body, [acc EXCEPT !.cases = Append(@, Case(pattern.v, guard.v, body.v))])
match_statement(p) ==
  LET e    == Expression(p)
      arms == Arms(consume(Header(e), "indent"), [cases |-> << >>, dflt |-> NoStmt])
  IN  Gives(Optional(arms, "dedent"), Match(e.v, arms.v.cases, arms.v.dflt))

comptime_statement(p) ==
  LET s == ABlock(Header(p)) IN IF At(p, {"let", "var"}) THEN Declaration(p) ELSE Gives(s, ComptimeS(s.v))

statement(p) ==
  LET q == advance_parser(p)
      e == Expression(p)
      f == Expression(q)
  IN  CASE check(p, "print")    -> Gives(f, PrintS(f.v))
        [] check(p, "if")       -> if_statement(q)
        [] check(p, "while")    -> while_statement(q)
        [] check(p, "for")      -> for_statement(q)
        [] check(p, "try")      -> try_statement(q)
        [] check(p, "raise")    -> Gives(f, Raise(f.v))
        [] check(p, "yield")    -> yield_statement(q)
        [] check(p, "defer")    -> defer_statement(q)
        [] check(p, "match")    -> match_statement(q)
        [] check(p, "comptime") -> comptime_statement(q)
        [] check(p, "unsafe")   -> ABlock(Header(q))
        [] check(p, "break")    -> Gives(q, Break)
        [] check(p, "continue") -> Gives(q, Continue)
        [] check(p, "end")      -> Gives(q, ExprS(NilE))
        [] OTHER                -> Gives(e, ExprS(e.v))

(***************************************************************************)
(* Declarations; p stands after the keyword.                               *)
(***************************************************************************)
TypeParams(p) == IF check(p, "[") THEN consume(List("typeparam", advance_parser(p)), "]") ELSE p
Params(kind, p) == consume(List(kind, consume(p, "(")), ")")
ReturnType(p) == IF check(p, "->") THEN TypeOf(advance_parser(p)) ELSE p

proc_declaration(p) ==
  LET name == Name(p, Id \cup {"init"})
      ps   == Params("param", TypeParams(name))
      s    == ABlock(Header(ReturnType(ps)))
  IN  Gives(s, Proc(name.v, ps.v, s.v))
async_proc_declaration(p) ==
  LET name == Name(consume(p, "proc"), Id)
      ps   == Params("asyncparam", name)
      s    == ABlock(Header(ps))
  IN  Gives(s, AsyncProc(name.v, ps.v, s.v))
macro_declaration(p) ==
  LET name == Name(p, Id)
      ps   == Params("macroparam", name)
      s    == ABlock(Header(ps))
  IN  Gives(s, MacroDef(name.v, ps.v, s.v))

\* The indented lines of a class, a trait or an impl: methods only.
RECURSIVE Methods(_, _, _)
Methods(async, p, acc) ==
  LET m == IF check(p, "proc") THEN proc_declaration(advance_parser(p)) ELSE async_proc_declaration(advance_parser(p))
  IN  CASE IsEnd(p)            -> Gives(p, acc)
        [] check(p, "newline") -> Methods(async, advance_parser(p), acc)
        [] check(p, "proc") \/ (async /\ check(p, "async")) -> Methods(async, m, Append(acc, m.v))
        [] OTHER               -> Fail(p)
Opened(p) == consume(Header(p), "indent")
class_declaration(p) ==
  LET name == Name(p, Id)
      up   == IF check(name, "(") THEN consume(Name(advance_parser(name), Id), ")") ELSE Gives(name, "")
      ms   == consume(Methods(TRUE, Opened(up), << >>), "dedent")
  IN  Gives(ms, Class(name.v, up.v, ms.v))
trait_declaration(p) ==
  LET name == Name(p, Id)
      ms   == consume(Methods(FALSE, Opened(name), << >>), "dedent")
  IN  Gives(ms, Trait(name.v, ms.v))
impl_declaration(p) ==
  LET name == Name(p, Id)
      ms   == consume(Methods(FALSE, Opened(name), << >>), "dedent")
  IN  Gives(ms, Impl(name.v, ms.v))

RECURSIVE Fields(_, _)
Fields(p, acc) ==
  LET name == Name(p, Id)
  IN  CASE IsEnd(p)            -> Gives(p, acc)
        [] check(p, "newline") -> Fields(advance_parser(p), acc)
        [] OTHER               -> Fields(Optional(Annotation(name), "newline"), Append(acc, name.v))
struct_declaration(p) ==
  LET name == Name(p, Id)
      fs   == consume(Fields(Opened(TypeParams(name)), << >>), "dedent")
  IN  Gives(fs, Struct(name.v, fs.v))

\* The fields of a variant end at the first one no comma follows; of a
\* type only one name is read.
RECURSIVE VariantFields(_, _)
VariantFields(p, acc) ==
  LET name == Name(p, Id)
      type == IF check(name, ":") THEN Optional(advance_parser(name), "identifier") ELSE name
  IN  CASE check(p, ")") \/ p.i = 0 -> Gives(p, acc)
        [] check(type, ",")         -> VariantFields(advance_parser(type), Append(acc, name.v))
        [] OTHER                    -> Gives(type, Append(acc, name.v))
RECURSIVE Variants(_, _)
Variants(p, acc) ==
  LET name == Name(p, Id)
      fs   == IF check(name, "(") THEN consume(VariantFields(advance_parser(name), << >>), ")") ELSE Gives(name, << >>)
  IN  CASE IsEnd(p)            -> Gives(p, acc)
        [] check(p, "newline") -> Variants(advance_parser(p), acc)
        [] OTHER               -> Variants(Optional(fs, "newline"), Append(acc, [name |-> name.v, fields |-> fs.v]))
enum_declaration(p) ==
  LET name == Name(p, Id)
      vs   == consume(Variants(Opened(name), << >>), "dedent")
  IN  Gives(vs, Enum(name.v, vs.v))

\* A type of an external procedure is all the tokens up to a comma or the
\* end; from a variadic parameter on, the rest of the list is skipped.
Spelled(p, stops) == LET q == Past(p, stops) IN Gives(q, SubSeq(p.ts, p.i, q.i - 1))
RECURSIVE ExternParams(_, _)
ExternParams(p, acc) ==
  LET name == Name(p, {"identifier", "self"})
      type == IF check(name, ":") THEN Spelled(advance_parser(name), {",", ")", "newline", "eof"})
              ELSE Gives(name, <<Named("identifier", "any")>>)
      all  == Append(acc, Param(name.v, NoExpr, type.v))
  IN  CASE At(p, {"..", "..="})                         -> Gives(Past(p, {")", "newline", "eof"}), acc)
        [] ~At(p, {"identifier", "self"})               -> Gives(p, acc)
        [] check(type, ",")                              -> ExternParams(advance_parser(type), all)
        [] OTHER                                         -> Gives(type, all)
extern_proc_declaration(p, pragmas) ==
  LET name == Name(p, Id \cup {"init"})
      ps   == consume(ExternParams(consume(name, "("), << >>), ")")
      ret  == IF check(ps, "->") THEN Spelled(advance_parser(ps), {"newline", "eof", "dedent"})
              ELSE Gives(ps, <<Named("identifier", "void")>>)
      libs == SelectSeq(pragmas, LAMBDA g : g.name = "clib" /\ g.args # << >>)
  IN  Gives(Optional(ret, "newline"), Extern(name.v, ps.v, ret.v, IF libs = << >> THEN << >> ELSE <<Head(Head(libs).args)>>))

RECURSIVE Dotted(_)
Dotted(p) ==
  LET part == Name(advance_parser(p), Like)
  IN  IF ~check(p, ".") THEN p ELSE IF part.i = 0 THEN part ELSE Dotted(Gives(part, p.v \o "." \o part.v))
import_statement(p) ==
  LET from  == consume(Dotted(Name(advance_parser(p), Id)), "import")
      items == List("import", from)
      whole == Alias(Dotted(Name(p, Id)))
  IN  CASE ~check(p, "from") -> Gives(whole, Import(Dotted(Name(p, Id)).v, << >>, whole.v))
        [] check(from, "*")  -> Gives(advance_parser(from), Import(from.v, <<[name |-> "*", alias |-> ""]>>, ""))
        [] OTHER             -> Gives(items, Import(from.v, items.v, ""))

(***************************************************************************)
(* Bindings.                                                               *)
(***************************************************************************)
TypeNames == {"int", "float", "double", "str", "bool", "num", "byte", "any", "Array", "Dict", "Tuple"}
\* A type, a name and "=" or the end of the line: a binding, if q (after the
\* name) is at one of these; otherwise the type is an expression.
IsTypeFirst(p) ==
  /\ check(p, "identifier") /\ Tok(p).w \in TypeNames
  /\ check(advance_parser(p), "identifier")
  /\ At(advance_parser(advance_parser(p)), {"=", "newline", "eof"})
\* Looking for one, the parser may meet an error of the lexer.
LookedInto(p) ==
  LET one == advance_parser(p)
      two == advance_parser(one)
  IN  IF check(p, "identifier") /\ Tok(p).w \in TypeNames /\ (one.i = 0 \/ (check(one, "identifier") /\ two.i = 0)) THEN Fail(p) ELSE p
TypeFirst(p) ==
  LET name == advance_parser(p)
      init == Default(advance_parser(name))
  IN  Gives(init, TypedLet(Tok(name).w, Tok(p).w, init.v, TRUE))

\* [a, b, ..rest]: up to the first name no comma follows.
RECURSIVE Pattern(_, _)
Pattern(p, acc) ==
  LET name == Name(p, Like)
      rest == Name(advance_parser(p), Id)
  IN  CASE acc.rests /\ At(p, {"..", "..="}) -> IF rest.i = 0 THEN Gives(advance_parser(p), acc) ELSE Gives(rest, [acc EXCEPT !.rest = rest.v])
        [] ~At(p, Like)         -> Gives(p, acc)
        [] check(name, ",")      -> Pattern(advance_parser(name), [acc EXCEPT !.names = Append(@, name.v)])
        [] OTHER                 -> Gives(name, [acc EXCEPT !.names = Append(@, name.v)])
NoNames(rests) == [names |-> << >>, rest |-> "", rests |-> rests]
LetS(name, e) == Let(name, e, FALSE)
\* The value is bound to a name of its own, its elements to the names of the
\* pattern; the rest gets the whole value.
ArrayPattern(p) ==
  LET pat  == consume(Pattern(p, NoNames(TRUE)), "]")
      init == Expression(consume(Gives(Annotation(pat), pat.v), "="))
      tmp  == "__destruct_" \o ToString(init.ids.array)
      ns   == pat.v.names
      rest == IF pat.v.rest = "" THEN << >> ELSE <<LetS(pat.v.rest, Var(tmp))>>
      line == Optional(init, "newline")
  IN  IF line.i = 0 THEN line
      ELSE Gives([line EXCEPT !.ids.array = @ + 1],
                 Block(<<LetS(tmp, init.v)>> \o [i \in DOMAIN ns |-> LetS(ns[i], Index(Var(tmp), IntE(i - 1)))] \o rest))
DictPattern(p) ==
  LET pat  == consume(Pattern(p, NoNames(FALSE)), "}")
      init == Expression(consume(pat, "="))
      tmp  == "__destructd_" \o ToString(init.ids.dict)
      ns   == pat.v.names
      line == Optional(init, "newline")
  IN  IF line.i = 0 THEN line
      ELSE Gives([line EXCEPT !.ids.dict = @ + 1],
                 Block(<<LetS(tmp, init.v)>> \o [i \in DOMAIN ns |-> LetS(ns[i], Index(Var(tmp), StrE(ns[i])))]))
OneName(p, mutable) ==
  LET name == Name(p, Like)
      type == IF check(name, ":") /\ ~At(advance_parser(name), {"identifier", "error"}) THEN Gives(name, "") ELSE Annotation(name)
      init == Default(type)
  IN  Gives(init, IF type.v = "" THEN Let(name.v, init.v, mutable) ELSE TypedLet(name.v, type.v, init.v, mutable))

(***************************************************************************)
(* Annotations and pragmas.  A block annotation ends the declaration it    *)
(* stands before; a pragma goes with it.  Only @safe and @clib are looked  *)
(* at by the rest of the program.                                          *)
(***************************************************************************)
BlockAnnotations == {"manual", "gc", "trusted", "unsafe", "owned"}
AnnotatedBlock(p) == \* p is at the name
  LET name == Tok(p).w
      note == advance_parser(p)
      past == IF check(note, "(") THEN Optional(Past(advance_parser(note), {")", "eof"}), ")") ELSE note
      s    == IF check(past, ":") THEN ABlock(advance_parser(past)) ELSE Statement(Newlines(past))
  IN  Gives(s, Annotated(name, s.v))
RECURSIVE Pragmas(_, _)
Pragmas(p, acc) ==
  LET name == Name(advance_parser(p), Id)
      args == IF check(name, "(") THEN Bracketed("pragma", name) ELSE Gives(name, << >>)
  IN  IF ~check(p, "@") THEN Gives(p, acc)
      ELSE IF At(advance_parser(p), {"identifier", "unsafe"}) /\ Tok(advance_parser(p)).w \in BlockAnnotations THEN Gives(p, acc)
      ELSE Pragmas(Newlines(args), <<[name |-> name.v, args |-> args.v]>> \o acc)

With(pragmas, p) ==
  IF p.i # 0 /\ \E i \in DOMAIN pragmas : pragmas[i].name = "safe" THEN Gives(p, p.v @@ [safe |-> TRUE]) ELSE p
\* A word that opens a declaration only before a name.
OpensNamed(p) == At(p, {"struct", "enum", "trait", "impl"}) /\ check(advance_parser(p), "identifier")

Declared(p0, pragmas) ==
  LET looked == IF At(p0, {"struct", "enum", "trait", "impl"}) /\ advance_parser(p0).i = 0 THEN Fail(p0) ELSE p0
      q == advance_parser(looked)
      IsExtern == check(looked, "identifier") /\ Tok(looked).w = "extern"
      p == IF IsExtern THEN q ELSE looked \* the word is lost unless "proc" follows
      r == advance_parser(p)
      return == IF check(r, "newline") THEN Gives(r, NoExpr) ELSE Expression(r)
      line(s) == Optional(s, "newline")
  IN  CASE check(p0, "macro")       -> With(pragmas, macro_declaration(q))
        [] check(p0, "class")       -> With(pragmas, class_declaration(q))
        [] OpensNamed(p0)           -> With(pragmas, CASE check(p0, "struct") -> struct_declaration(q)
                                                       [] check(p0, "enum")   -> enum_declaration(q)
                                                       [] check(p0, "trait")  -> trait_declaration(q)
                                                       [] OTHER               -> impl_declaration(q))
        [] check(p0, "spawn")       -> LET s == ABlock(Colon(q)) IN With(pragmas, Gives(s, Spawn(s.v)))
        [] check(p0, "async")       -> With(pragmas, async_proc_declaration(q))
        [] check(p0, "proc")        -> With(pragmas, proc_declaration(q))
        [] IsExtern /\ check(p, "proc") -> extern_proc_declaration(r, pragmas)
        [] check(p, "import")       -> line(import_statement(r))
        [] check(p, "from")         -> line(import_statement(p))
        [] check(p, "return")       -> line(Gives(return, Return(return.v)))
        [] IsTypeFirst(p)           -> line(With(pragmas, TypeFirst(p)))
        [] At(p, {"let", "var", "const"}) /\ check(r, "[") -> ArrayPattern(advance_parser(r))
        [] At(p, {"let", "var", "const"}) /\ check(r, "{") -> DictPattern(advance_parser(r))
        [] At(p, {"let", "var", "const"}) -> line(With(pragmas, OneName(r, check(p, "var"))))
        [] OTHER                    -> line(With(pragmas, Statement(LookedInto(p))))

RECURSIVE Docs(_)
Docs(p) == IF check(p, "doc") THEN Docs(Optional(advance_parser(p), "newline")) ELSE p

\* NoStmt at the end of a block or of the text.
declaration(p0) ==
  LET p == Docs(Newlines(p0))
      g == Pragmas(p, << >>)
  IN  CASE IsEnd(p)      -> Gives(p, NoStmt)
        [] check(g, "@") -> AnnotatedBlock(advance_parser(g))
        [] OTHER         -> Declared(g, g.v)

\* The next statement of a text, from where the last one ended.
parse(p) == IF check(Newlines(p), "eof") THEN Gives(Newlines(p), NoStmt) ELSE declaration(p)

Parse(rule, p) ==
  CASE rule = "expression"  -> expression(p)
    [] rule = "block"       -> block(p)
    [] rule = "statement"   -> statement(p)
    [] rule = "declaration" -> declaration(p)
    [] rule = "annotation"  -> parse_type_annotation(p)
    [] rule = "parse"       -> parse(p)
    [] rule \in DOMAIN ClosedBy -> Items(rule, p, << >>)
=============================================================================
