------------------------------ MODULE Frontend ------------------------------
(***************************************************************************)
(* Reading texts one after another, as the REPL and the command line do    *)
(* (main.c): a text is given to the lexer and the parser, which hand out   *)
(* its statements one by one until its end or the first error.  The static *)
(* variables of the parser live from one text to the next.                 *)
(*                                                                         *)
(* A source is what somebody typed:                                        *)
(*    "program"  the statements it means, written terse or not (Printer),  *)
(*    "layout"   lines that differ only in how they are laid out,          *)
(*    "text"     any other text.                                           *)
(***************************************************************************)
EXTENDS Parser, Printer, FiniteSets

CONSTANTS Sources, \* the texts that may be typed
          Garbled, \* those that may be typed before
          MaxTexts \* bound: how many texts are typed

VARIABLES source, \* the text being read
          parser, \* the state of the parser
          trees,  \* the statements it has handed out
          phase,  \* "idle", "reading"; at the end of a text "done", after an error "refused"
          count   \* texts typed

vars == <<source, parser, trees, phase, count>>

\* A line: how far it is indented, and what it holds: a word, a word and an
\* opening bracket, a closing bracket, or nothing.  The words are
\* numbered.
Content(i, c) ==
  CASE c = "x" -> <<Word(ToString(i))>>
    [] c = "(" -> <<Word(ToString(i)), Ch("(")>>
    [] c = ")" -> <<Ch(")")>>
    [] c = ""  -> << >>
Laid(ls) == Flat([i \in DOMAIN ls |-> Blank(ls[i].n) \o Content(i, ls[i].c) \o <<Ch("\n")>>])
TextOf(s) == CASE s.k = "program" -> Program(s.terse, s.ss) [] s.k = "layout" -> Laid(s.lines) [] s.k = "text" -> s.text

\* init_lexer and parser_init; the depth and the counters stay as they are.
parser_init(p, text) == LET q == [p EXCEPT !.ts = Lex(text), !.i = 1, !.v = NoStmt] IN IF check(q, "error") THEN Fail(q) ELSE q

Init ==
  /\ source = [k |-> "text", text |-> << >>]
  /\ parser = [ts |-> Lex(<< >>), i |-> 1, v |-> NoStmt, depth |-> 0, ids |-> [array |-> 0, dict |-> 0]]
  /\ trees = << >>
  /\ phase = "idle"
  /\ count = 0

Submit(s) ==
  /\ phase # "reading" /\ count < MaxTexts
  /\ parser' = parser_init(parser, TextOf(s))
  /\ phase' = IF check(parser', "error") THEN "refused" ELSE "reading"
  /\ source' = s
  /\ trees' = << >>
  /\ count' = count + 1

\* The parser returns: an error, the end of the text, or a statement.
Returned(p) ==
  /\ parser' = p
  /\ trees' = IF p.i = 0 \/ p.v = NoStmt THEN trees ELSE Append(trees, p.v)
  /\ phase' = IF p.i = 0 THEN "refused" ELSE IF p.v = NoStmt THEN "done" ELSE phase
ParseNext ==
  /\ phase = "reading"
  /\ Returned(Parse("parse", parser))
  /\ UNCHANGED <<source, count>>

Next == (\E s \in IF count = MaxTexts - 1 THEN Sources ELSE Garbled : Submit(s)) \/ ParseNext
Spec == Init /\ [][Next]_vars

-----------------------------------------------------------------------------
(***************************************************************************)
(* What is written is what is read: a program, in either style and         *)
(* whatever was typed and refused before it, is read to its end as the     *)
(* statements it was written from.                                         *)
(***************************************************************************)
RoundTrip ==
  source.k = "program" => /\ phase # "refused"
                          /\ IsPrefix(trees, source.ss)
                          /\ phase = "done" => trees = source.ss

(***************************************************************************)
(* A text is only done with at its end: none of it is dropped unread.      *)
(* Printed in either style and read again it gives the same statements: no *)
(* reading depends on how a text is spelled, and no statement has a form   *)
(* of its own.                                                             *)
(***************************************************************************)
RECURSIVE All(_, _), Rest(_, _)
Rest(p, acc) ==
  CASE p.i = 0      -> <<[k |-> "refused"]>>
    [] p.v = NoStmt -> acc
    [] OTHER        -> All(p, Append(acc, p.v))
All(p, acc) == Rest(Parse("parse", p), acc)
Read(text) == All(parser_init([parser EXCEPT !.depth = 0, !.ids = [array |-> 0, dict |-> 0]], text), << >>)
PrintedAgain ==
  phase = "done" =>
    /\ check(parser, "eof")
    /\ source.k = "text" => \A terse \in BOOLEAN : Read(Program(terse, trees)) = trees

(***************************************************************************)
(* Layout is nesting.  Of the lines that count (not blank, not inside      *)
(* brackets), one lies inside an earlier one that is less indented when    *)
(* all between them are deeper too.  The tokens of a text nest its words   *)
(* exactly so; they end with an error where a line returns to an           *)
(* indentation that no line around it has, or where too many are open.     *)
(***************************************************************************)
OpenBrackets(ls, i) == Cardinality({j \in 1..i : ls[j].c = "("}) - Cardinality({j \in 1..i : ls[j].c = ")"})
Counting(ls)  == {i \in DOMAIN ls : ls[i].c # "" /\ OpenBrackets(ls, i - 1) = 0}
OpenAt(ls, i) == {ls[j].n : j \in {j \in Counting(ls) : j <= i /\ \A k \in Counting(ls) \cap (j..i) : ls[k].n >= ls[j].n}} \ {0}
Before(ls, i) == {j \in Counting(ls) : j < i}
Misfit(ls, i) ==
  \/ Cardinality(OpenAt(ls, i)) >= MaxIndentLevels
  \/ \E j \in Before(ls, i) : j = Max(Before(ls, i)) /\ ls[i].n < ls[j].n /\ ls[i].n \notin OpenAt(ls, j) \cup {0}
Nests(ls) ==
  LET misfits == {i \in Counting(ls) : Misfit(ls, i)}
      read    == {i \in DOMAIN ls : \A j \in misfits : i < j}
  IN  [error |-> misfits # {},
       words |-> {<<ToString(i), Cardinality(OpenAt(ls, i))>> : i \in {i \in read : ls[i].c \in {"x", "("}}}]
Nested(ts) ==
  LET Many(t, i) == Cardinality({j \in 1..i : ts[j].t = t})
  IN  [error |-> Last(ts) = Token("error"),
       words |-> {<<ts[i].w, Many("indent", i) - Many("dedent", i)>> : i \in {i \in DOMAIN ts : ts[i].t = "identifier"}}]
LayoutIsNesting == source.k = "layout" => Nested(parser.ts) = Nests(source.lines)

(***************************************************************************)
(* However deep a text nests, what is read from it leaves the parser at    *)
(* the depth it was at.                                                    *)
(***************************************************************************)
ReadingKeepsDepth == [][phase = "reading" /\ phase' # "refused" => parser'.depth = parser.depth]_vars
=============================================================================
