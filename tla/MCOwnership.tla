---------------------------- MODULE MCOwnership ----------------------------
(***************************************************************************)
(* The ownership checker on programs of a prelude and two or three         *)
(* statements over the variables x and y, and beside a run of any text.    *)
(***************************************************************************)
EXTENDS OwnershipWalk, Ast, TLC

CONSTANTS Programs, MaxTurns \* as in Ownership
ASSUME MaxTurnsAssumption == MaxTurns \in Nat

VARIABLES
  walking, \* whether it is the text or a program that is checked
  program, pc, context, todo, scopes, wrong \* as in Ownership
whole == <<program, pc, context, todo, scopes, wrong>>
Whole == INSTANCE Ownership WITH ctx <- context, owned <- scopes, misused <- wrong

X == Var("x")
Y == Var("y")
Take(e)  == ExprS(Call(Var("take"), <<e>>))
Fresh    == ArrayE(<<IntE(1)>>)
Flag     == Bin(IntE(1), "<", IntE(2))
Body(s)  == Block(<<s>>)
Prelude  == <<Let("x", Fresh, TRUE), Let("y", StrE("a"), TRUE)>>

\* Statements that may move x, or use it, in every position.
Simple ==
  {Take(X), Take(Y), PrintS(X), PrintS(Bin(Y, "+", X)), Let("y", X, TRUE), Let("x", Fresh, TRUE), Let("x", Y, TRUE),
   ExprS(Call(Var("take"), <<X, X>>)), ExprS(Call(Var("take"), <<ArrayE(<<X>>)>>)), ExprS(SetE(Y, "f", X)),
   PrintS(Bin(Flag, "and", Call(Var("take"), <<X>>)))}
Assignments == {ExprS(Assign("x", Fresh)), ExprS(Assign("y", X))}
Small == {Take(X), PrintS(X), Let("x", Fresh, TRUE)}
Branching ==
  {If(Flag, Body(s), NoStmt) : s \in Small} \cup {If(Flag, Body(s), Body(t)) : s, t \in Small}
    \cup {Block(<<s, t>>) : s, t \in Small}
    \cup {Try(Block(<<Take(Y), s>>), <<Catch("e", Body(t))>>, NoStmt) : s, t \in Small}
    \cup {Try(Body(s), << >>, Body(t)) : s, t \in Small}
\* Loops whose body moves only what it binds.
Loops ==
  {While(Flag, Block(<<Let("z", Fresh, TRUE), Take(Var("z")), s>>)) : s \in {PrintS(X), Let("x", Fresh, TRUE)}}
    \cup {For("i", X, Block(<<Take(Var("i")), Take(Var("i"))>>)), For("x", X, Block(<<Take(X)>>))}
Statements == Simple \cup Assignments \cup Branching \cup Loops

MCPrograms ==
  {Prelude \o <<s, t>> : s, t \in Statements}
    \cup {Prelude \o <<s, t, u>> : s, t, u \in Simple \cup {Block(<<Let("x", Fresh, TRUE), Take(X)>>)}}

(***************************************************************************)
(* A text, as far as it reports one thing, and is no more than three       *)
(* scopes deep with three variables in them, two in any one.               *)
(***************************************************************************)
MaxReports  == 1
MaxScopes   == 3
MaxVars     == 2
MaxDeclared == 3
InBounds ==
  /\ Len(ctx.diags) <= MaxReports
  /\ Len(ctx.scopes) <= MaxScopes
  /\ \A i \in DOMAIN ctx.scopes : Len(ctx.scopes[i].vars) <= MaxVars
  /\ FoldLeft(LAMBDA sum, s : sum + Len(s.vars), 0, ctx.scopes) <= MaxDeclared

EitherInit == /\ Init /\ Whole!Init /\ walking \in BOOLEAN
              /\ walking => program = Prelude \o <<Take(X), PrintS(X)>>
EitherNext == \/ walking /\ Next /\ InBounds' /\ UNCHANGED <<whole, walking>>
              \/ ~walking /\ Whole!Next /\ UNCHANGED <<vars, walking>>
EitherSpec == EitherInit /\ [][EitherNext]_<<vars, whole, walking>>
Symmetry == Permutations(Name)

\* A program that the strict checker accepts never uses or moves a value that was moved
\* before, whatever way it takes (safety_check_use, safety_check_move).
AcceptedIsSafe == Whole!AcceptedIsSafe

\* In a straight-line program the checker reports a move error only when the program
\* makes one (safety_declare, safety_lookup).
AlarmsAreReal == Whole!AlarmsAreReal
=============================================================================
