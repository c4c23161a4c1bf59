------------------------------- MODULE Lexer -------------------------------
(***************************************************************************)
(* The lexer (lexer.c): a text becomes tokens, and its layout becomes      *)
(* "indent", "dedent" and "newline" tokens.                                *)
(*                                                                         *)
(* A text is a sequence of pieces: the characters the lexer looks at one   *)
(* by one (blanks, ends of line, operators, brackets), words, numbers,     *)
(* quoted strings, and comments up to the end of their line.  How the      *)
(* characters of a word or of a number are put together is left out; line  *)
(* and column numbers too.                                                 *)
(***************************************************************************)
EXTENDS Integers, Sequences, SequencesExt

CONSTANT MaxIndentLevels \* MAX_INDENT_LEVELS

Ch(c)       == [k |-> "char", c |-> c]
Word(w)     == [k |-> "word", w |-> w]
Num(n)      == [k |-> "num", n |-> n]
Quoted(raw) == [k |-> "quoted", raw |-> raw] \* its characters and {expressions}
Comment     == [k |-> "comment"]
Doc         == [k |-> "doc"]

Token(t) == [t |-> t]
Named(t, w) == [t |-> t, w |-> w]

Keywords ==
  {"let", "var", "const", "proc", "if", "elif", "else", "while", "for", "in", "return", "print", "and", "or", "not", "break",
   "continue", "class", "self", "init", "super", "match", "case", "default", "try", "catch", "finally", "raise", "yield", "defer",
   "async", "await", "spawn", "import", "from", "as", "struct", "enum", "trait", "impl", "macro", "comptime", "quote", "unquote",
   "unsafe", "end", "true", "false", "nil"}
\* "elif" is another spelling of the token "if".
identifier_type(w) == IF w = "elif" THEN "if" ELSE IF w \in Keywords THEN w ELSE "identifier"

Opening == {"(", "[", "{"}
Closing == {")", "]", "}"}
Doubled == {"+=", "->", "-=", "*=", "/=", "..", "!=", "??", "?.", "==", "=>", "<<", "<=", ">>", ">="}
Singles == {"+", "-", "*", "/", "%", ",", ":", ".", "!", "?", "=", "<", ">", "&", "|", "^", "~", "@"} \cup Opening \cup Closing

(***************************************************************************)
(* The state of the lexer: what it reads and where, whether a line begins, *)
(* the indentations that are open, the dedents still to be handed out, and *)
(* how many brackets are open.                                             *)
(***************************************************************************)
init_lexer(text) == [text |-> text, at |-> 1, bol |-> TRUE, indents |-> <<0>>, pending |-> 0, brackets |-> 0]

IsAtEnd(lx)   == lx.at > Len(lx.text)
Is(lx, n, c)  == lx.at + n <= Len(lx.text) /\ lx.text[lx.at + n] = Ch(c)
Skip(lx, n)   == [lx EXCEPT !.at = @ + n]
Emit(lx, tok) == [lex |-> lx, tok |-> tok]

Blanks(lx, cs) ==
  LET rest == SubSeq(lx.text, lx.at, Len(lx.text))
      past == {n \in DOMAIN rest : ~\E c \in cs : rest[n] = Ch(c)}
  IN  IF past = {} THEN Len(rest) ELSE (CHOOSE n \in past : \A m \in past : n <= m) - 1

\* Mutant of Indented: one dedent too many for each that is not at once.
OneTooMany(lx, n) ==
  LET kept == SelectSeq(lx.indents, LAMBDA s : s <= n)
  IN  IF n > Last(lx.indents) THEN Emit([lx EXCEPT !.indents = Append(@, n)], Token("indent"))
      ELSE IF Last(kept) # n THEN Emit(lx, Token("error"))
      ELSE Emit([lx EXCEPT !.indents = kept, !.pending = Len(lx.indents) - Len(kept)], Token("dedent"))
\* A line indented by n: deeper than the last open one, level with it, or
\* level with one that was opened before.
Indented(lx, n) ==
  LET kept == SelectSeq(lx.indents, LAMBDA s : s <= n)
  IN  IF n > Last(lx.indents)
      THEN IF Len(lx.indents) >= MaxIndentLevels THEN Emit(lx, Token("error"))
           ELSE Emit([lx EXCEPT !.indents = Append(@, n)], Token("indent"))
      ELSE IF Last(kept) # n THEN Emit(lx, Token("error"))
      ELSE Emit([lx EXCEPT !.indents = kept, !.pending = Len(lx.indents) - Len(kept) - 1], Token("dedent"))

AtEnd(lx) ==
  IF Len(lx.indents) > 1 THEN Emit([lx EXCEPT !.indents = Front(@)], Token("dedent")) ELSE Emit(lx, Token("eof"))

Operator(lx) ==
  LET c    == lx.text[lx.at].c
      next == Skip(lx, 1)
      pair == IF IsAtEnd(next) \/ next.text[next.at].k # "char" THEN c ELSE c \o next.text[next.at].c
  IN  CASE pair = ".." /\ Is(lx, 2, "=") -> Emit(Skip(lx, 3), Token("..="))
        [] pair \in Doubled             -> Emit(Skip(lx, 2), Token(pair))
        [] c \in Opening                -> Emit([next EXCEPT !.brackets = @ + 1], Token(c))
        [] c \in Closing                -> Emit([next EXCEPT !.brackets = IF @ > 0 THEN @ - 1 ELSE 0], Token(c))
        [] c \in Singles                -> Emit(next, Token(c))
        [] OTHER                        -> Emit(next, Token("error"))

RECURSIVE scan_token(_), Scan(_)
Scan(lx0) ==
  LET lx    == Skip(lx0, Blanks(lx0, {" ", "\r", "\t"}))
      piece == lx.text[lx.at]
      next  == Skip(lx, 1)
  IN  IF IsAtEnd(lx) THEN AtEnd(lx)
      ELSE CASE piece = Ch("\n") /\ lx.brackets > 0 -> scan_token([next EXCEPT !.bol = TRUE])
             [] piece = Ch("\n")                    -> Emit([next EXCEPT !.bol = TRUE], Token("newline"))
             [] piece.k = "comment"                 -> scan_token(next)
             [] piece.k = "doc"                     -> Emit(next, Token("doc"))
             [] piece.k = "word"                    -> Emit(next, Named(identifier_type(piece.w), piece.w))
             [] piece.k = "num"                     -> Emit(next, [t |-> "number", n |-> piece.n])
             [] piece.k = "quoted"                  -> Emit(next, [t |-> "string", raw |-> piece.raw])
             [] OTHER                               -> Operator(lx)

\* The next token.  A blank line is skipped before its indentation counts;
\* a line that only holds a comment is not.
scan_token(lx) ==
  LET n    == Blanks(lx, {" "})
      line == [Skip(lx, n) EXCEPT !.bol = FALSE]
  IN  CASE lx.pending > 0 /\ lx.brackets = 0 -> Emit([lx EXCEPT !.pending = @ - 1], Token("dedent"))
        [] lx.bol /\ Is(line, 0, "\n")       -> scan_token([Skip(line, 1) EXCEPT !.bol = TRUE])
        [] lx.bol /\ line.brackets = 0 /\ n # Last(lx.indents) -> Indented(line, n)
        [] OTHER                             -> Scan(IF lx.bol THEN line ELSE lx)

\* All the tokens, up to the end of the text or to the first error.
RECURSIVE Tokens(_)
Tokens(lx) == LET r == scan_token(lx) IN IF r.tok.t \in {"eof", "error"} THEN <<r.tok>> ELSE <<r.tok>> \o Tokens(r.lex)
Lex(text) == Tokens(init_lexer(text))
=============================================================================
