---------------------------- MODULE OwnershipWalk ----------------------------
(***************************************************************************)
(* The ownership checker (src/src/safety.c) beside a run of the program it *)
(* reads.  The checker goes through the text once.  The run goes through   *)
(* the same text, but not through all of it: it skips branches and what    *)
(* "and" and "or" do not need, and an exception, a return or a break takes *)
(* it out of scopes the checker reads to their end.  The text is any text: *)
(* its next piece is whatever action is taken next.                        *)
(*                                                                         *)
(* Left to the module Ownership: what makes the run take another order     *)
(* than the text has (calls, the further turns of a loop, defer).          *)
(*                                                                         *)
(* The scopes of the run are those of the text.  The interpreter opens one *)
(* for a procedure, a for loop, a catch clause and an arm of match, and    *)
(* none for a branch, a block or a while loop (STMT_BLOCK): for it, what   *)
(* is shown here is about texts that mention a name bound in one of these  *)
(* nowhere outside of it.                                                  *)
(***************************************************************************)
EXTENDS OwnershipContext

CONSTANT Name \* the names of variables

VARIABLES
  ctx,     \* the context of the checker
  owned,   \* the scopes of the run, innermost first: how each name stands there
  skipped, \* how many scopes the checker is in that the run is not
  letting, \* the let under way, if any: its name and whether its type is Copy
  misused, \* whether the run used or moved a value that was gone
  exact    \* history: the run has done all that the checker read, and no more
vars == <<ctx, owned, skipped, letting, misused, exact>>

\* How a name stands in a scope of the run: not bound there, bound to a value that
\* can be moved, to one that is copied, or to one that was moved.
Frame   == [Name -> {"none", "held", "copied", "gone"}]
NoNames == [n \in Name |-> "none"]

\* What a let may be initialised with, as far as FinishLet tells it apart.
Variable    == [k : {"var"}, name : Name]
Initialiser == Variable \cup [k : {"nil", "str", "call"}]

Init == /\ ctx = NewContext
        /\ owned = <<NoNames>>
        /\ skipped = 0
        /\ letting = << >>
        /\ misused = FALSE
        /\ exact = TRUE

(***************************************************************************)
(* The run.                                                                *)
(***************************************************************************)
Here == skipped = 0
Bind(own, n, copy) == [own EXCEPT ![1][n] = IF copy THEN "copied" ELSE "held"]
Holder(n)   == SelectInSeq(owned, LAMBDA f : f[n] # "none")
Standing(n) == IF Holder(n) = 0 THEN "none" ELSE owned[Holder(n)][n]
Mark(n, st) == [owned EXCEPT ![Holder(n)][n] = st]
\* A value that is passed on in a safe scope is gone.
Passed(n) == IF ctx.scopes[1].safe /\ Standing(n) = "held" THEN Mark(n, "gone") ELSE owned
Meets(n)  == misused' = (misused \/ Standing(n) = "gone")
\* The initialiser of a let does not see the variable of the let.
Own(n)    == letting # << >> /\ letting[1].name = n

(***************************************************************************)
(* Variables in expressions, which the run evaluates or does not.          *)
(***************************************************************************)
Use(n) ==
  /\ Here
  /\ ctx' = CheckUse(ctx, n)
  /\ Meets(n)
  /\ exact' = (exact /\ ~Own(n))
  /\ UNCHANGED <<owned, skipped, letting>>

ReadUse(n) ==
  /\ ctx' = CheckUse(ctx, n)
  /\ exact' = FALSE
  /\ UNCHANGED <<owned, skipped, letting, misused>>

\* An argument of a call, or the value a name or a property is set to.
Pass(n) ==
  /\ Here
  /\ ctx' = PassOn(CheckUse(ctx, n), [k |-> "var", name |-> n])
  /\ Meets(n) /\ owned' = Passed(n)
  /\ exact' = (exact /\ ~Own(n))
  /\ UNCHANGED <<skipped, letting>>

ReadPass(n) ==
  /\ ctx' = PassOn(CheckUse(ctx, n), [k |-> "var", name |-> n])
  /\ exact' = FALSE
  /\ UNCHANGED <<owned, skipped, letting, misused>>

\* An assignment gives the name a value again; the checker takes no notice.
Restore(n) ==
  /\ Here
  /\ owned' = IF Standing(n) = "gone" THEN Mark(n, "held") ELSE owned
  /\ exact' = FALSE
  /\ UNCHANGED <<ctx, skipped, letting, misused>>

(***************************************************************************)
(* Scopes: branches and their blocks, bodies, clauses.                     *)
(***************************************************************************)
Enter(safe) ==
  /\ Here /\ letting = << >>
  /\ ctx' = PushScope(ctx, safe)
  /\ owned' = <<NoNames>> \o owned
  /\ UNCHANGED <<skipped, letting, misused, exact>>

\* The run takes another branch, or is in one that it left.
ReadEnter(safe) ==
  /\ letting = << >>
  /\ ctx' = PushScope(ctx, safe)
  /\ skipped' = skipped + 1
  /\ exact' = FALSE
  /\ UNCHANGED <<owned, letting, misused>>

Leave ==
  /\ letting = << >> /\ Len(ctx.scopes) > 1
  /\ ctx' = PopScope(ctx)
  /\ IF Here THEN owned' = Tail(owned) /\ UNCHANGED skipped
             ELSE skipped' = skipped - 1 /\ UNCHANGED owned
  /\ UNCHANGED <<letting, misused, exact>>

\* An exception, a return, a break or a continue takes the run out of a scope.
Escape ==
  /\ owned # << >>
  /\ owned' = Tail(owned)
  /\ skipped' = skipped + 1
  /\ exact' = FALSE
  /\ UNCHANGED <<ctx, letting, misused>>

(***************************************************************************)
(* Declarations.                                                           *)
(***************************************************************************)
\* Parameters and loop variables are "owned" from the start; the variable of a catch
\* clause and that of a let without an initialiser are "uninit".
Introduce(n, st, copy) ==
  /\ letting = << >>
  /\ ctx' = Declare(ctx, n, st, copy)
  /\ owned' = IF Here THEN Bind(owned, n, copy) ELSE owned
  /\ UNCHANGED <<skipped, letting, misused, exact>>

BeginLet(n, typed) ==
  /\ letting = << >>
  /\ ctx' = Declare(ctx, n, "uninit", typed)
  /\ letting' = <<[name |-> n, typed |-> typed]>>
  /\ UNCHANGED <<owned, skipped, misused, exact>>

\* The initialiser has been read, but for e itself: the last that is read of it is e
\* when it is a variable, and there is nothing in e otherwise.
ReadInit(e) ==
  LET c == NilInSafe(ctx, e)
  IN  ctx' = FinishLet(IF e \in Variable THEN CheckUse(c, e.name) ELSE c, e, letting[1].typed)

EndLet(e) ==
  /\ Here /\ letting # << >>
  /\ ReadInit(e)
  /\ letting' = << >>
  /\ LET own == IF e \in Variable /\ ~letting[1].typed THEN Passed(e.name) ELSE owned
     IN  owned' = Bind(own, letting[1].name, letting[1].typed \/ IsCopyLiteral(e))
  /\ IF e \in Variable THEN Meets(e.name) /\ exact' = (exact /\ ~Own(e.name))
                       ELSE UNCHANGED <<misused, exact>>
  /\ UNCHANGED skipped

ReadEndLet(e) ==
  /\ ~Here /\ letting # << >>
  /\ ReadInit(e)
  /\ letting' = << >>
  /\ UNCHANGED <<owned, skipped, misused, exact>>

(***************************************************************************)
(* The specification.                                                      *)
(***************************************************************************)
OnName(n) ==
  \/ Use(n) \/ ReadUse(n) \/ Pass(n) \/ ReadPass(n) \/ Restore(n)
  \/ \E st \in {"uninit", "owned"}, copy \in BOOLEAN : Introduce(n, st, copy)
  \/ \E typed \in BOOLEAN : BeginLet(n, typed)
Scoping == Leave \/ Escape \/ \E safe \in BOOLEAN : Enter(safe) \/ ReadEnter(safe)

Next == \/ \E n \in Name : OnName(n)
        \/ Scoping
        \/ \E e \in Initialiser : EndLet(e) \/ ReadEndLet(e)
Spec == Init /\ [][Next]_vars

(***************************************************************************)
(* Properties.                                                             *)
(***************************************************************************)
\* As long as the checker has nothing to report, the run has used and moved no value
\* that was moved before: whichever branches it skipped and scopes it was thrown out
\* of, and whatever shadows what (safety_check_use, safety_check_move,
\* safety_push_scope, safety_pop_scope).
SilenceIsSafe == ctx.diags = << >> => ~misused

\* When the run did all that the checker read, and no let mentions its own variable in
\* its initialiser, a report of a moved value is true: moves in a scope do not taint a
\* variable of the same name outside (safety_declare, safety_lookup).
MoveAlarms == {"use-after-move", "double-move"}
MoveAlarmsAreReal == exact /\ Range(ctx.diags) \cap MoveAlarms # {} => misused
=============================================================================
