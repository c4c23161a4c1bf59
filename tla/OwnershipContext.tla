-------------------------- MODULE OwnershipContext --------------------------
(***************************************************************************)
(* What the ownership checker (src/src/safety.c) knows while it reads a    *)
(* program, and the checks it makes of one name.                           *)
(*                                                                         *)
(* The context is [scopes, diags]: the scopes innermost first, each with   *)
(* whether it is safe and its variables, newest first, and the diagnostics *)
(* reported so far.  The counters of borrows, the lifetimes and the Send   *)
(* and Sync marks are left out: no statement changes them, so the checks   *)
(* on them never report anything.                                          *)
(***************************************************************************)
EXTENDS Integers, Sequences, FiniteSetsExt, SequencesExt

CONSTANT Mode \* "strict" or "annotated": whether all of a program is safe
ASSUME ModeAssumption == Mode \in {"strict", "annotated"}

PushScope(c, safe) ==
  [c EXCEPT !.scopes = <<[safe |-> safe \/ (@ # << >> /\ @[1].safe), vars |-> << >>]>> \o @]
PopScope(c) == [c EXCEPT !.scopes = Tail(@)]
NewContext == PushScope([scopes |-> << >>, diags |-> << >>], Mode = "strict")

\* Mutant of Declare: a new variable is found after the older ones.
DeclareLast(c, name, st, copy) ==
  [c EXCEPT !.scopes[1].vars = @ \o <<[name |-> name, st |-> st, copy |-> copy]>>]
Declare(c, name, st, copy) ==
  [c EXCEPT !.scopes[1].vars = <<[name |-> name, st |-> st, copy |-> copy]>> \o @]

Place(vs, name)  == SelectInSeq(vs, LAMBDA v : v.name = name)
Home(c, name)    == SelectInSeq(c.scopes, LAMBDA s : Place(s.vars, name) # 0)
Lookup(c, name)  == LET vs == c.scopes[Home(c, name)].vars IN vs[Place(vs, name)]
IsKnown(c, name) == Home(c, name) # 0
Emit(c, diag)    == [c EXCEPT !.diags = Append(@, diag)]

(***************************************************************************)
(* The checks.                                                             *)
(***************************************************************************)
CheckUse(c, name) ==
  IF ~IsKnown(c, name) THEN c
  ELSE CASE Lookup(c, name).st = "moved"  -> Emit(c, "use-after-move")
         [] Lookup(c, name).st = "uninit" -> Emit(c, "uninitialized")
         [] OTHER                         -> c

MarkMoved(c, name) ==
  LET i == Home(c, name)
      j == Place(c.scopes[i].vars, name)
  IN  [c EXCEPT !.scopes[i].vars[j].st = "moved"]

\* Mutant of CheckMove: what is of a Copy type is not told apart.
CheckMoveAll(c, name) ==
  IF ~IsKnown(c, name) THEN c
  ELSE IF Lookup(c, name).st = "moved" THEN Emit(c, "double-move") ELSE MarkMoved(c, name)
CheckMove(c, name) ==
  IF ~IsKnown(c, name) \/ Lookup(c, name).copy THEN c
  ELSE IF Lookup(c, name).st = "moved" THEN Emit(c, "double-move") ELSE MarkMoved(c, name)

\* Passing a variable on moves it, in a safe scope.
PassOn(c, e) == IF e.k = "var" /\ c.scopes[1].safe THEN CheckMove(c, e.name) ELSE c

(***************************************************************************)
(* A let declares its variable, reads its initialiser, and finishes.       *)
(***************************************************************************)
\* An integer is no literal of a Copy type here: only other numbers are.
IsCopyLiteral(e) == e.k \in {"float", "bool", "str"}
NilInSafe(c, e)  == IF e.k = "nil" /\ c.scopes[1].safe THEN Emit(c, "no-nil") ELSE c
Initialized(c)   == [c EXCEPT !.scopes[1].vars[1].st = "owned"]
CopyIf(c, b)     == [c EXCEPT !.scopes[1].vars[1].copy = @ \/ b]

\* Mutant of FinishLet: the move out of the initialiser is forgotten.
FinishLetOnly(c, e, typed) == CopyIf(Initialized(c), IsCopyLiteral(e))
\* typed: the let is annotated with a Copy type.
FinishLet(c, e, typed) ==
  CopyIf(IF typed THEN Initialized(c) ELSE PassOn(Initialized(c), e), IsCopyLiteral(e))
=============================================================================
