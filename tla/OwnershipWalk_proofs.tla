------------------------ MODULE OwnershipWalk_proofs ------------------------
(***************************************************************************)
(* That a silent ownership checker vouches for the run beside it, and that *)
(* it raises no false alarm about a run that does all it reads: for every  *)
(* text, however deep its scopes and long its lists of variables.          *)
(***************************************************************************)
EXTENDS OwnershipWalk, WellFoundedInduction, TLAPS

State == {"uninit", "owned", "moved"}
Var   == [name : Name, st : State, copy : BOOLEAN]
Scope == [safe : BOOLEAN, vars : Seq(Var)]
Diag  == MoveAlarms \cup {"uninitialized", "no-nil"}
Context == [scopes : Seq(Scope), diags : Seq(Diag)]
Let   == [name : Name, typed : BOOLEAN]

\* What the checker sees of a name in a list of variables.
Seen(vs, n) == IF Place(vs, n) = 0 THEN [st |-> "none", copy |-> FALSE]
               ELSE [st |-> vs[Place(vs, n)].st, copy |-> vs[Place(vs, n)].copy]
Sight == [st : State \cup {"none"}, copy : BOOLEAN]
Marked(v) == [st |-> "moved", copy |-> v.copy]

\* The variables of a scope that the run knows of: all but that of the let under way,
\* which is the first of the innermost scope (open: whether there is one).
Bound(c, open, j) == IF j = 1 /\ open THEN Tail(c.scopes[1].vars) ELSE c.scopes[j].vars
View(c, open, j, n) == Seen(Bound(c, open, j), n)
Letting == letting # << >>

(***************************************************************************)
(* The invariant, of a context c and the scopes own of a run: k scopes of  *)
(* c are not the run's, ms is whether the run misused a value, and ex      *)
(* whether it did all that the checker read.                               *)
(***************************************************************************)
\* The scopes correspond, each name is bound in the same of them, and as much of a
\* Copy type in the one as in the other.
Matches(f, v) == (f = "none" <=> v.st = "none") /\ (f = "copied" <=> v.copy)
Aligned(c, own, k, open) ==
  /\ c \in Context /\ own \in Seq(Frame) /\ k \in Nat /\ open \in BOOLEAN
  /\ c.scopes # << >> /\ (open => c.scopes[1].vars # << >>)
  /\ Len(c.scopes) = Len(own) + k
  /\ \A i \in 1 .. Len(own), n \in Name : Matches(own[i][n], View(c, open, i + k, n))

\* What is gone in the run, a silent checker has marked.
Covers(c, own, k, open) ==
  \A i \in 1 .. Len(own), n \in Name : own[i][n] = "gone" => View(c, open, i + k, n).st = "moved"
Silent(c, own, k, open, ms) == c.diags = << >> => ~ms /\ Covers(c, own, k, open)

\* What the checker has marked is gone in a run that does all that the checker reads.
Alarmed(c) == \E i \in 1 .. Len(c.diags) : c.diags[i] \in MoveAlarms
Reflects(c, own, k, open) ==
  \A i \in 1 .. Len(own), n \in Name : View(c, open, i + k, n).st = "moved" => own[i][n] = "gone"
Real(c, own, k, open, ms, ex) == ex /\ ~ms => k = 0 /\ ~Alarmed(c) /\ Reflects(c, own, k, open)

Fits(c, own, k, open, ms, ex) == /\ Aligned(c, own, k, open)
                                 /\ Silent(c, own, k, open, ms)
                                 /\ Real(c, own, k, open, ms, ex)

\* The variable of the let under way is the newest of the innermost scope.
LetOK == /\ letting \in {<< >>} \cup {<<l>> : l \in Let}
         /\ Letting => LET v == ctx.scopes[1].vars[1]
                       IN  /\ v.name = letting[1].name /\ v.copy = letting[1].typed
                           /\ ctx.diags = << >> => v.st = "uninit"

IInv == /\ LetOK /\ misused \in BOOLEAN /\ exact \in BOOLEAN
        /\ Fits(ctx, owned, skipped, Letting, misused, exact)

-----------------------------------------------------------------------------
(* Looking a name up. *)

LEMMA MinIs == ASSUME NEW S \in SUBSET Nat, S # {}
               PROVE  Min(S) \in S /\ \A y \in S : Min(S) <= y
<1>1. PICK x \in S : \A y \in S : ~ (<<y, x>> \in OpToRel(<, Nat))
  BY NatLessThanWellFounded, WFMin
<1>2. ASSUME NEW y \in S PROVE x <= y
  <2>1. x \in Nat /\ y \in Nat /\ <<y, x>> \in Nat \X Nat
    OBVIOUS
  <2>2. <<y, x>>[1] = y /\ <<y, x>>[2] = x
    OBVIOUS
  <2>3. ~ (y < x)
    BY <1>1, <2>1, <2>2 DEF OpToRel
  <2>4. QED BY <2>1, <2>3
<1>3. QED
  BY <1>2 DEF Min

LEMMA PlaceIs ==
  ASSUME NEW vs \in Seq(Var), NEW n \in Name
  PROVE  /\ Place(vs, n) \in 0 .. Len(vs)
         /\ Place(vs, n) # 0 => vs[Place(vs, n)].name = n
         /\ \A i \in 1 .. Len(vs) : vs[i].name = n => Place(vs, n) # 0 /\ Place(vs, n) <= i
<1> DEFINE I == {i \in 1 .. Len(vs) : vs[i].name = n}
<1>1. Place(vs, n) = IF I # {} THEN Min(I) ELSE 0
  BY DEF Place, SelectInSeq
<1>2. I \in SUBSET Nat /\ \A i \in 1 .. Len(vs) : vs[i].name = n => i \in I
  OBVIOUS
<1>3. CASE I = {}
  BY <1>1, <1>2, <1>3
<1>4. CASE I # {}
  <2>1. Min(I) \in I /\ \A i \in I : Min(I) <= i
    BY <1>2, <1>4, MinIs
  <2>2. Min(I) \in 1 .. Len(vs) /\ vs[Min(I)].name = n
    BY <2>1
  <2>3. Place(vs, n) = Min(I)
    BY <1>1, <1>4
  <2>4. \A i \in 1 .. Len(vs) : vs[i].name = n => Min(I) <= i
    BY <1>2, <2>1
  <2> HIDE DEF I
  <2>5. QED
    BY <2>2, <2>3, <2>4
<1>5. QED
  BY <1>3, <1>4

\* A place is settled by what is known of it.
LEMMA PlaceAt ==
  ASSUME NEW vs \in Seq(Var), NEW n \in Name, NEW p \in 1 .. Len(vs), vs[p].name = n,
         \A i \in 1 .. p - 1 : vs[i].name # n
  PROVE  Place(vs, n) = p
BY PlaceIs

LEMMA PlaceNone ==
  ASSUME NEW vs \in Seq(Var), NEW n \in Name, \A i \in 1 .. Len(vs) : vs[i].name # n
  PROVE  Place(vs, n) = 0
BY PlaceIs

LEMMA SeenIs ==
  ASSUME NEW vs \in Seq(Var), NEW n \in Name
  PROVE  /\ Seen(vs, n) \in Sight
         /\ Seen(vs, n).st = "none" <=> Place(vs, n) = 0
         /\ Place(vs, n) # 0 => /\ vs[Place(vs, n)] \in Var
                                /\ Seen(vs, n).st = vs[Place(vs, n)].st
                                /\ Seen(vs, n).copy = vs[Place(vs, n)].copy
<1>1. CASE Place(vs, n) = 0
  BY <1>1 DEF Seen, Sight
<1>2. CASE Place(vs, n) # 0
  <2>1. vs[Place(vs, n)] \in Var
    BY <1>2, PlaceIs
  <2>2. QED
    BY <1>2, <2>1 DEF Seen, Sight, Var, State
<1>3. QED
  BY <1>1, <1>2

LEMMA SeenEmpty == ASSUME NEW n \in Name PROVE Seen(<< >>, n) = [st |-> "none", copy |-> FALSE]
<1> DEFINE vs == << >>
<1>1. vs \in Seq(Var) /\ Len(vs) = 0
  OBVIOUS
<1> HIDE DEF vs
<1>2. Place(vs, n) = 0
  <2>1. ASSUME NEW ws \in Seq(Var), Len(ws) = 0 PROVE Place(ws, n) = 0
    <3>1. Place(ws, n) \in 0 .. 0
      BY <2>1, PlaceIs
    <3>2. QED BY <3>1
  <2>2. QED BY <1>1, <2>1
<1>3. QED
  BY <1>2 DEF Seen, vs

\* The newest variable hides the others of its name.
LEMMA SeenHead ==
  ASSUME NEW vs \in Seq(Var), vs # << >>, NEW n \in Name
  PROVE  /\ Tail(vs) \in Seq(Var)
         /\ Place(vs, n) = IF vs[1].name = n THEN 1
                           ELSE IF Place(Tail(vs), n) = 0 THEN 0 ELSE Place(Tail(vs), n) + 1
         /\ Seen(vs, n) = IF vs[1].name = n THEN [st |-> vs[1].st, copy |-> vs[1].copy]
                          ELSE Seen(Tail(vs), n)
<1> DEFINE ws == Tail(vs)
<1>1. /\ ws \in Seq(Var) /\ Len(ws) = Len(vs) - 1 /\ Len(vs) \in Nat /\ Len(vs) > 0
      /\ \A i \in 1 .. Len(ws) : ws[i] = vs[i + 1]
  OBVIOUS
<1>2. CASE vs[1].name = n
  <2>1. Place(vs, n) = 1
    BY <1>1, <1>2, PlaceAt
  <2>2. QED
    BY <1>1, <1>2, <2>1 DEF Seen
<1>3. CASE vs[1].name # n /\ Place(ws, n) = 0
  <2>1. \A i \in 1 .. Len(ws) : ws[i].name # n
    BY <1>1, <1>3, PlaceIs
  <2>2. \A i \in 1 .. Len(vs) : vs[i].name # n
    <3>1. TAKE i \in 1 .. Len(vs)
    <3>2. CASE i = 1
      BY <3>2, <1>3
    <3>3. CASE i # 1
      <4>1. i - 1 \in 1 .. Len(ws) /\ ws[i - 1] = vs[i]
        BY <3>3, <1>1
      <4>2. QED BY <4>1, <2>1
    <3>4. QED BY <3>2, <3>3
  <2>3. Place(vs, n) = 0
    BY <2>2, PlaceNone
  <2>4. QED
    BY <1>1, <1>3, <2>3 DEF Seen
<1>4. CASE vs[1].name # n /\ Place(ws, n) # 0
  <2> DEFINE p == Place(ws, n)
  <2>1. p \in 1 .. Len(ws) /\ ws[p].name = n /\ \A i \in 1 .. Len(ws) : ws[i].name = n => p <= i
    <3> HIDE DEF ws
    <3>1. QED BY <1>1, <1>4, PlaceIs
  <2>2. p + 1 \in 1 .. Len(vs) /\ vs[p + 1] = ws[p]
    BY <1>1, <2>1
  <2>3. \A i \in 1 .. (p + 1) - 1 : vs[i].name # n
    <3>1. TAKE i \in 1 .. (p + 1) - 1
    <3>2. CASE i = 1
      BY <3>2, <1>4
    <3>3. CASE i # 1
      <4>1. i - 1 \in 1 .. Len(ws) /\ ws[i - 1] = vs[i] /\ i - 1 < p
        BY <3>3, <1>1, <2>1
      <4>2. QED BY <4>1, <2>1
    <3>4. QED BY <3>2, <3>3
  <2>4. Place(vs, n) = p + 1
    BY <2>1, <2>2, <2>3, PlaceAt
  <2>5. QED
    BY <1>1, <1>4, <2>1, <2>2, <2>4 DEF Seen
<1>5. QED
  BY <1>2, <1>3, <1>4

\* A list of which one variable is marked, position by position.
LEMMA SeenMarked ==
  ASSUME NEW vs \in Seq(Var), NEW n \in Name, NEW p \in 1 .. Len(vs), p = Place(vs, n),
         NEW ws \in Seq(Var), Len(ws) = Len(vs),
         \A i \in 1 .. Len(vs) : i # p => ws[i] = vs[i],
         ws[p].name = vs[p].name /\ ws[p].copy = vs[p].copy /\ ws[p].st = "moved"
  PROVE  /\ \A m \in Name : Place(ws, m) = Place(vs, m)
         /\ \A m \in Name : Seen(ws, m) = IF m = n THEN Marked(Seen(vs, m)) ELSE Seen(vs, m)
<1>1. vs[p].name = n /\ Len(vs) \in Nat /\ \A i \in 1 .. Len(vs) : ws[i].name = vs[i].name
  BY PlaceIs
<1>2. ASSUME NEW m \in Name PROVE Place(ws, m) = Place(vs, m)
  <2>1. CASE Place(vs, m) = 0
    <3>1. \A i \in 1 .. Len(ws) : ws[i].name # m
      BY <2>1, <1>1, PlaceIs
    <3>2. QED BY <3>1, <2>1, PlaceNone
  <2>2. CASE Place(vs, m) # 0
    <3> DEFINE q == Place(vs, m)
    <3>1. q \in 1 .. Len(vs) /\ vs[q].name = m /\ \A i \in 1 .. Len(vs) : vs[i].name = m => q <= i
      BY <2>2, PlaceIs
    <3>2. q \in 1 .. Len(ws) /\ ws[q].name = m /\ \A i \in 1 .. q - 1 : ws[i].name # m
      BY <3>1, <1>1
    <3>3. QED
      BY <3>2, PlaceAt
  <2>3. QED BY <2>1, <2>2
<1>3. ASSUME NEW m \in Name
      PROVE  Seen(ws, m) = IF m = n THEN Marked(Seen(vs, m)) ELSE Seen(vs, m)
  <2>1. CASE m = n
    <3>1. Place(ws, m) = p /\ Place(vs, m) = p /\ p # 0
      BY <2>1, <1>2
    <3>2. /\ Seen(ws, m) = [st |-> ws[p].st, copy |-> ws[p].copy]
          /\ Seen(vs, m) = [st |-> vs[p].st, copy |-> vs[p].copy]
      BY <3>1 DEF Seen
    <3>3. QED BY <2>1, <3>2 DEF Marked
  <2>2. CASE m # n /\ Place(vs, m) # 0
    <3>1. Place(vs, m) \in 1 .. Len(vs) /\ vs[Place(vs, m)].name = m
      BY <2>2, PlaceIs
    <3>2. Place(vs, m) # p
      BY <3>1, <1>1, <2>2
    <3>3. QED BY <3>1, <3>2, <1>2, <2>2 DEF Seen
  <2>3. CASE m # n /\ Place(vs, m) = 0
    BY <2>3, <1>2 DEF Seen
  <2>4. QED BY <2>1, <2>2, <2>3
<1>4. QED
  BY <1>2, <1>3

LEMMA HomeIs ==
  ASSUME NEW c \in Context, NEW n \in Name
  PROVE  /\ Home(c, n) \in 0 .. Len(c.scopes)
         /\ Home(c, n) # 0 => Place(c.scopes[Home(c, n)].vars, n) # 0
         /\ \A i \in 1 .. Len(c.scopes) :
               Place(c.scopes[i].vars, n) # 0 => Home(c, n) # 0 /\ Home(c, n) <= i
<1> DEFINE I == {i \in 1 .. Len(c.scopes) : Place(c.scopes[i].vars, n) # 0}
<1>1. Home(c, n) = IF I # {} THEN Min(I) ELSE 0
  BY DEF Home, SelectInSeq
<1>2. I \in SUBSET Nat /\ \A i \in 1 .. Len(c.scopes) : Place(c.scopes[i].vars, n) # 0 => i \in I
  OBVIOUS
<1>3. CASE I = {}
  <2>1. Len(c.scopes) \in Nat
    BY DEF Context
  <2>2. QED BY <1>1, <1>2, <1>3, <2>1
<1>4. CASE I # {}
  <2>1. Min(I) \in I /\ \A i \in I : Min(I) <= i
    BY <1>2, <1>4, MinIs
  <2>2. Min(I) \in 1 .. Len(c.scopes) /\ Place(c.scopes[Min(I)].vars, n) # 0
    BY <2>1
  <2>3. Home(c, n) = Min(I)
    BY <1>1, <1>4
  <2>4. \A i \in 1 .. Len(c.scopes) : Place(c.scopes[i].vars, n) # 0 => Min(I) <= i
    BY <1>2, <2>1
  <2> HIDE DEF I
  <2>5. QED
    BY <2>2, <2>3, <2>4
<1>5. QED
  BY <1>3, <1>4

LEMMA HolderIs ==
  ASSUME owned \in Seq(Frame), NEW n \in Name
  PROVE  /\ Holder(n) \in 0 .. Len(owned)
         /\ Holder(n) # 0 => owned[Holder(n)][n] # "none"
         /\ \A i \in 1 .. Len(owned) : owned[i][n] # "none" => Holder(n) # 0 /\ Holder(n) <= i
<1> DEFINE I == {i \in 1 .. Len(owned) : owned[i][n] # "none"}
<1>1. Holder(n) = IF I # {} THEN Min(I) ELSE 0
  BY DEF Holder, SelectInSeq
<1>2. I \in SUBSET Nat /\ \A i \in 1 .. Len(owned) : owned[i][n] # "none" => i \in I
  OBVIOUS
<1>3. CASE I = {}
  BY <1>1, <1>2, <1>3
<1>4. CASE I # {}
  <2>1. Min(I) \in I /\ \A i \in I : Min(I) <= i
    BY <1>2, <1>4, MinIs
  <2>2. Min(I) \in 1 .. Len(owned) /\ owned[Min(I)][n] # "none"
    BY <2>1
  <2>3. Holder(n) = Min(I)
    BY <1>1, <1>4
  <2>4. \A i \in 1 .. Len(owned) : owned[i][n] # "none" => Min(I) <= i
    BY <1>2, <2>1
  <2> HIDE DEF I
  <2>5. QED
    BY <2>2, <2>3, <2>4
<1>5. QED
  BY <1>3, <1>4

\* What the lookup of a known name comes to.
LEMMA Known ==
  ASSUME NEW c \in Context, NEW n \in Name, Home(c, n) # 0
  PROVE  /\ Home(c, n) \in 1 .. Len(c.scopes)
         /\ c.scopes[Home(c, n)] \in Scope /\ c.scopes[Home(c, n)].vars \in Seq(Var)
         /\ Place(c.scopes[Home(c, n)].vars, n) # 0
         /\ Lookup(c, n) \in Var
         /\ Lookup(c, n).st = Seen(c.scopes[Home(c, n)].vars, n).st
         /\ Lookup(c, n).copy = Seen(c.scopes[Home(c, n)].vars, n).copy
<1>1. /\ Home(c, n) \in 1 .. Len(c.scopes) /\ Place(c.scopes[Home(c, n)].vars, n) # 0
  BY HomeIs
<1>2. c.scopes[Home(c, n)] \in Scope
  BY <1>1 DEF Context
<1>3. c.scopes[Home(c, n)].vars \in Seq(Var)
  BY <1>2 DEF Scope
<1>4. QED
  BY <1>1, <1>2, <1>3, SeenIs DEF Lookup

\* Where the same names are bound in the same scopes, both find a name in the same one.
LEMMA HomeIsHolder ==
  ASSUME NEW c \in Context, owned \in Seq(Frame), Len(c.scopes) = Len(owned), NEW n \in Name,
         \A i \in 1 .. Len(owned) : owned[i][n] = "none" <=> Seen(c.scopes[i].vars, n).st = "none"
  PROVE  Home(c, n) = Holder(n)
<1>1. ASSUME NEW i \in 1 .. Len(owned)
      PROVE  owned[i][n] = "none" <=> Place(c.scopes[i].vars, n) = 0
  <2>1. c.scopes[i] \in Scope
    BY <1>1 DEF Context
  <2>2. c.scopes[i].vars \in Seq(Var)
    BY <2>1 DEF Scope
  <2>3. QED BY <2>2, <1>1, SeenIs
<1>2. /\ Home(c, n) \in 0 .. Len(owned)
      /\ Home(c, n) # 0 => owned[Home(c, n)][n] # "none"
      /\ \A i \in 1 .. Len(owned) : owned[i][n] # "none" => Home(c, n) # 0 /\ Home(c, n) <= i
  BY <1>1, HomeIs
<1>3. QED
  BY <1>2, HolderIs

-----------------------------------------------------------------------------
(* What the checks do to a context. *)

LEMMA EmitDoes ==
  ASSUME NEW c \in Context, NEW d \in Diag
  PROVE  /\ Emit(c, d) \in Context /\ Emit(c, d).scopes = c.scopes
         /\ Emit(c, d).diags # << >>
         /\ Alarmed(Emit(c, d)) <=> Alarmed(c) \/ d \in MoveAlarms
<1>1. c.diags \in Seq(Diag) /\ Len(c.diags) \in Nat
  BY DEF Context
<1>2. /\ Emit(c, d) \in Context /\ Emit(c, d).scopes = c.scopes
      /\ Emit(c, d).diags = Append(c.diags, d)
  <2>1. Append(c.diags, d) \in Seq(Diag)
    BY <1>1
  <2>2. QED BY <2>1 DEF Emit, Context
<1>3. Append(c.diags, d) \in Seq(Diag) /\ Append(c.diags, d) # << >>
      /\ Len(Append(c.diags, d)) = Len(c.diags) + 1 /\ Append(c.diags, d)[Len(c.diags) + 1] = d
      /\ \A i \in 1 .. Len(c.diags) : Append(c.diags, d)[i] = c.diags[i]
  <2> DEFINE ds == c.diags
  <2>1. ds \in Seq(Diag)
    BY <1>1
  <2> HIDE DEF ds
  <2>2. /\ Append(ds, d) \in Seq(Diag) /\ Append(ds, d) # << >>
        /\ Len(Append(ds, d)) = Len(ds) + 1 /\ Append(ds, d)[Len(ds) + 1] = d
        /\ \A i \in 1 .. Len(ds) : Append(ds, d)[i] = ds[i]
    BY <2>1
  <2>3. QED BY <2>2 DEF ds
<1>4. Alarmed(Emit(c, d)) <=> Alarmed(c) \/ d \in MoveAlarms
  <2>1. ASSUME Alarmed(Emit(c, d)) PROVE Alarmed(c) \/ d \in MoveAlarms
    BY <2>1, <1>1, <1>2, <1>3 DEF Alarmed
  <2>2. ASSUME Alarmed(c) PROVE Alarmed(Emit(c, d))
    BY <2>2, <1>1, <1>2, <1>3 DEF Alarmed
  <2>3. ASSUME d \in MoveAlarms PROVE Alarmed(Emit(c, d))
    BY <2>3, <1>1, <1>2, <1>3 DEF Alarmed
  <2>4. QED BY <2>1, <2>2, <2>3
<1>5. QED
  BY <1>2, <1>3, <1>4

LEMMA CheckUseDoes ==
  ASSUME NEW c \in Context, NEW n \in Name
  PROVE  /\ CheckUse(c, n) \in Context /\ CheckUse(c, n).scopes = c.scopes
         /\ CheckUse(c, n).diags = << >> => /\ c.diags = << >>
                                            /\ Home(c, n) # 0 => Lookup(c, n).st = "owned"
         /\ Alarmed(CheckUse(c, n)) => Alarmed(c) \/ (Home(c, n) # 0 /\ Lookup(c, n).st = "moved")
<1>1. "use-after-move" \in Diag /\ "uninitialized" \in Diag /\ "uninitialized" \notin MoveAlarms
  BY DEF Diag, MoveAlarms
<1>2. CASE Home(c, n) = 0
  BY <1>2 DEF CheckUse, IsKnown
<1>3. CASE Home(c, n) # 0
  <2>1. Lookup(c, n).st \in State
    BY <1>3, Known DEF Var
  <2>2. CASE Lookup(c, n).st = "moved"
    <3>1. CheckUse(c, n) = Emit(c, "use-after-move")
      BY <1>3, <2>2 DEF CheckUse, IsKnown
    <3>2. QED BY <3>1, <1>1, <1>3, <2>2, EmitDoes
  <2>3. CASE Lookup(c, n).st = "uninit"
    <3>1. CheckUse(c, n) = Emit(c, "uninitialized")
      BY <1>3, <2>3 DEF CheckUse, IsKnown
    <3>2. QED BY <3>1, <1>1, <1>3, <2>3, EmitDoes
  <2>4. CASE Lookup(c, n).st = "owned"
    BY <1>3, <2>4 DEF CheckUse, IsKnown
  <2>5. QED
    BY <2>1, <2>2, <2>3, <2>4 DEF State
<1>4. QED
  BY <1>2, <1>3

\* The variable of the let under way hides the others of its name.
Hidden(c, open, n) == open /\ c.scopes[1].vars[1].name = n

\* What marking a variable does to a list, and to the list without its head.
LEMMA ListMarked ==
  ASSUME NEW vs \in Seq(Var), NEW n \in Name, Place(vs, n) # 0
  PROVE  LET ws == [vs EXCEPT ![Place(vs, n)].st = "moved"]
         IN  /\ ws \in Seq(Var) /\ vs # << >> /\ ws # << >>
             /\ ws[1].name = vs[1].name /\ ws[1].copy = vs[1].copy
             /\ vs[1].name # n => ws[1] = vs[1]
             /\ \A m \in Name : Seen(ws, m) = IF m = n THEN Marked(Seen(vs, m)) ELSE Seen(vs, m)
             /\ \A m \in Name : Seen(Tail(ws), m) = IF m = n /\ vs[1].name # n
                                                     THEN Marked(Seen(Tail(vs), m))
                                                     ELSE Seen(Tail(vs), m)
<1> DEFINE p == Place(vs, n)
           x == [vs[p] EXCEPT !.st = "moved"]
           ws == [vs EXCEPT ![p].st = "moved"]
           tv == Tail(vs)
           tw == Tail(ws)
           q == Place(tv, n)
<1>1. p \in 1 .. Len(vs) /\ vs[p] \in Var /\ vs[p].name = n /\ vs # << >> /\ Len(vs) \in Nat
  BY PlaceIs, SeenIs
<1>2. x \in Var /\ x.name = n /\ x.st = "moved" /\ x.copy = vs[p].copy
  BY <1>1 DEF Var, State
<1>3. ws = [vs EXCEPT ![p] = x]
  OBVIOUS
<1>4. /\ ws \in Seq(Var) /\ Len(ws) = Len(vs) /\ ws[p] = x
      /\ \A i \in 1 .. Len(vs) : i # p => ws[i] = vs[i]
  <2> HIDE DEF x, p
  <2>1. QED BY <1>1, <1>2, <1>3
<1> HIDE DEF ws, x
<1>5. /\ ws # << >> /\ tv \in Seq(Var) /\ tw \in Seq(Var)
      /\ Len(tv) = Len(vs) - 1 /\ Len(tw) = Len(vs) - 1
      /\ \A i \in 1 .. Len(vs) - 1 : tv[i] = vs[i + 1] /\ tw[i] = ws[i + 1]
  BY <1>1, <1>4
<1>6. ws[1].name = vs[1].name /\ ws[1].copy = vs[1].copy /\ (vs[1].name # n => ws[1] = vs[1])
  BY <1>1, <1>2, <1>4
<1>7. \A m \in Name : Seen(ws, m) = IF m = n THEN Marked(Seen(vs, m)) ELSE Seen(vs, m)
  <2>1. ws[p].name = vs[p].name /\ ws[p].copy = vs[p].copy /\ ws[p].st = "moved"
    BY <1>1, <1>2, <1>4
  <2>2. QED BY <2>1, <1>1, <1>4, SeenMarked
<1>8. CASE vs[1].name = n
  <2>1. p = 1
    BY <1>1, <1>8, SeenHead
  <2> HIDE DEF p
  <2>2. tw = tv
    BY <1>1, <1>4, <1>5, <2>1
  <2>3. QED BY <1>1, <1>4, <1>5, <1>6, <1>7, <1>8, <2>2 DEF ws, p
<1>9. CASE vs[1].name # n
  <2>1. p # 1 /\ q # 0 /\ p = q + 1
    BY <1>1, <1>9, SeenHead
  <2> HIDE DEF tv, tw
  <2>2. q \in 1 .. Len(vs) - 1
    <3>1. q \in 0 .. Len(tv)
      BY <1>5, PlaceIs
    <3>2. QED BY <3>1, <2>1, <1>5
  <2>3. tw[q].name = tv[q].name /\ tw[q].copy = tv[q].copy /\ tw[q].st = "moved"
    <3>1. tw[q] = ws[p] /\ tv[q] = vs[p]
      BY <1>5, <2>1, <2>2
    <3>2. QED BY <3>1, <1>1, <1>2, <1>4
  <2>4. ASSUME NEW i \in 1 .. Len(tv), i # q PROVE tw[i] = tv[i]
    <3>1. i + 1 # p /\ i + 1 \in 1 .. Len(vs) /\ i \in 1 .. Len(vs) - 1
      BY <2>4, <2>1, <2>2, <1>1, <1>5
    <3>2. QED BY <3>1, <1>4, <1>5
  <2>5. \A m \in Name : Seen(tw, m) = IF m = n THEN Marked(Seen(tv, m)) ELSE Seen(tv, m)
    <3>1. Len(tw) = Len(tv) /\ q \in 1 .. Len(tv) /\ q = Place(tv, n)
      BY <1>5, <2>2
    <3> HIDE DEF q
    <3>2. \A i \in 1 .. Len(tv) : i # q => tw[i] = tv[i]
      BY <2>4
    <3>3. tv \in Seq(Var) /\ tw \in Seq(Var)
      BY <1>5
    <3>4. QED BY <2>3, <3>1, <3>2, <3>3, SeenMarked
  <2>6. QED BY <1>1, <1>4, <1>5, <1>6, <1>7, <1>9, <2>5 DEF tv, tw, ws, p
<1>10. QED
  BY <1>8, <1>9

LEMMA MarkMovedDoes ==
  ASSUME NEW c \in Context, NEW n \in Name, Home(c, n) # 0,
         NEW open \in BOOLEAN, open => c.scopes[1].vars # << >>,
         NEW d, d = MarkMoved(c, n)
  PROVE  /\ d \in Context /\ d.diags = c.diags /\ Len(d.scopes) = Len(c.scopes)
         /\ \A j \in 1 .. Len(c.scopes) : d.scopes[j].safe = c.scopes[j].safe
         /\ open => /\ d.scopes[1].vars # << >>
                    /\ d.scopes[1].vars[1].name = c.scopes[1].vars[1].name
                    /\ d.scopes[1].vars[1].copy = c.scopes[1].vars[1].copy
                    /\ ~Hidden(c, open, n) => d.scopes[1].vars[1].st = c.scopes[1].vars[1].st
         /\ \A j \in 1 .. Len(c.scopes), m \in Name :
               View(d, open, j, m) = IF j = Home(c, n) /\ m = n /\ ~Hidden(c, open, n)
                                     THEN Marked(View(c, open, j, m)) ELSE View(c, open, j, m)
<1> DEFINE h == Home(c, n)
           vs == c.scopes[h].vars
           ws == [vs EXCEPT ![Place(vs, n)].st = "moved"]
<1>1. h \in 1 .. Len(c.scopes) /\ c.scopes[h] \in Scope /\ vs \in Seq(Var) /\ Place(vs, n) # 0
  BY Known
<1>2. c.scopes \in Seq(Scope) /\ DOMAIN c.scopes = 1 .. Len(c.scopes) /\ Len(c.scopes) \in Nat
  BY DEF Context
<1>3. d = [c EXCEPT !.scopes = [c.scopes EXCEPT ![h] = [c.scopes[h] EXCEPT !.vars = ws]]]
  BY DEF MarkMoved
<1>4. /\ ws \in Seq(Var) /\ vs # << >> /\ ws # << >>
      /\ ws[1].name = vs[1].name /\ ws[1].copy = vs[1].copy
      /\ vs[1].name # n => ws[1] = vs[1]
      /\ \A m \in Name : Seen(ws, m) = IF m = n THEN Marked(Seen(vs, m)) ELSE Seen(vs, m)
      /\ \A m \in Name : Seen(Tail(ws), m) = IF m = n /\ vs[1].name # n
                                              THEN Marked(Seen(Tail(vs), m)) ELSE Seen(Tail(vs), m)
  BY <1>1, ListMarked
<1>5. /\ d.scopes = [c.scopes EXCEPT ![h] = [c.scopes[h] EXCEPT !.vars = ws]]
      /\ d.diags = c.diags
  BY <1>3 DEF Context
<1>6. /\ d.scopes \in Seq(Scope) /\ Len(d.scopes) = Len(c.scopes)
      /\ d.scopes[h].vars = ws /\ d.scopes[h].safe = c.scopes[h].safe
      /\ \A j \in 1 .. Len(c.scopes) : j # h => d.scopes[j] = c.scopes[j]
  <2>1. [c.scopes[h] EXCEPT !.vars = ws] \in Scope
    BY <1>1, <1>4 DEF Scope
  <2> HIDE DEF ws
  <2>2. QED BY <1>1, <1>2, <1>5, <2>1 DEF Scope
<1>7. d \in Context
  <2> HIDE DEF ws
  <2>1. QED BY <1>3, <1>5, <1>6 DEF Context
<1>8. open => /\ d.scopes[1].vars # << >>
              /\ d.scopes[1].vars[1].name = c.scopes[1].vars[1].name
              /\ d.scopes[1].vars[1].copy = c.scopes[1].vars[1].copy
              /\ ~Hidden(c, open, n) => d.scopes[1].vars[1].st = c.scopes[1].vars[1].st
  <2>1. CASE h = 1
    <3> HIDE DEF ws
    <3>1. QED BY <2>1, <1>4, <1>6 DEF Hidden
  <2>2. CASE h # 1
    <3>1. d.scopes[1] = c.scopes[1]
      BY <2>2, <1>1, <1>6
    <3>2. QED BY <3>1
  <2>3. QED BY <2>1, <2>2
<1>9. ASSUME NEW j \in 1 .. Len(c.scopes), NEW m \in Name
      PROVE  View(d, open, j, m) = IF j = h /\ m = n /\ ~Hidden(c, open, n)
                                   THEN Marked(View(c, open, j, m)) ELSE View(c, open, j, m)
  <2>1. CASE j # h
    <3>1. d.scopes[j] = c.scopes[j]
      BY <2>1, <1>6
    <3>2. Bound(d, open, j) = Bound(c, open, j)
      BY <3>1 DEF Bound
    <3>3. QED BY <2>1, <3>2 DEF View
  <2>2. CASE j = h /\ ~(j = 1 /\ open)
    <3>1. Bound(d, open, j) = ws /\ Bound(c, open, j) = vs
      BY <2>2, <1>6 DEF Bound
    <3>2. Seen(ws, m) = IF m = n THEN Marked(Seen(vs, m)) ELSE Seen(vs, m)
      BY <1>4
    <3>3. ~Hidden(c, open, n)
      <4>1. SUFFICES ASSUME open, c.scopes[1].vars[1].name = n PROVE FALSE
        BY DEF Hidden
      <4>2. c.scopes[1] \in Scope
        BY <1>2, <1>1
      <4>3. c.scopes[1].vars \in Seq(Var)
        BY <4>2 DEF Scope
      <4>4. Place(c.scopes[1].vars, n) = 1
        BY <4>1, <4>3, SeenHead
      <4>5. h <= 1
        BY <4>4, HomeIs, <1>1
      <4>6. QED BY <4>5, <4>1, <2>2, <1>1
    <3> HIDE DEF ws, vs
    <3>4. QED BY <2>2, <3>1, <3>2, <3>3 DEF View
  <2>3. CASE j = h /\ j = 1 /\ open
    <3>1. Bound(d, open, j) = Tail(ws) /\ Bound(c, open, j) = Tail(vs)
      BY <2>3, <1>6 DEF Bound
    <3>2. Seen(Tail(ws), m) = IF m = n /\ vs[1].name # n THEN Marked(Seen(Tail(vs), m)) ELSE Seen(Tail(vs), m)
      BY <1>4
    <3>3. Hidden(c, open, n) <=> vs[1].name = n
      BY <2>3 DEF Hidden
    <3> HIDE DEF ws, vs
    <3>4. QED BY <2>3, <3>1, <3>2, <3>3 DEF View
  <2>4. QED BY <2>1, <2>2, <2>3
<1>10. QED
  <2> HIDE DEF ws, vs
  <2>1. QED BY <1>5, <1>6, <1>7, <1>8, <1>9

LEMMA ViewIsSeen ==
  ASSUME NEW c \in Context, NEW open \in BOOLEAN, c.scopes # << >>, open => c.scopes[1].vars # << >>,
         NEW j \in 1 .. Len(c.scopes), NEW m \in Name
  PROVE  /\ c.scopes[j] \in Scope /\ c.scopes[j].vars \in Seq(Var)
         /\ View(c, open, j, m) \in Sight
         /\ ~Hidden(c, open, m) => View(c, open, j, m) = Seen(c.scopes[j].vars, m)
<1>1. c.scopes[j] \in Scope /\ c.scopes[j].vars \in Seq(Var)
  <2>1. c.scopes[j] \in Scope
    BY DEF Context
  <2>2. QED BY <2>1 DEF Scope
<1>2. CASE j = 1 /\ open
  <2> DEFINE vs == c.scopes[1].vars
  <2>1. vs \in Seq(Var) /\ vs # << >>
    BY <1>1, <1>2
  <2>2. View(c, open, j, m) = Seen(Tail(vs), m) /\ (Hidden(c, open, m) <=> vs[1].name = m)
    BY <1>2 DEF View, Bound, Hidden
  <2>3. /\ Tail(vs) \in Seq(Var) /\ (vs[1].name # m => Seen(vs, m) = Seen(Tail(vs), m))
    BY <2>1, SeenHead
  <2> HIDE DEF vs
  <2>4. Seen(Tail(vs), m) \in Sight
    BY <2>3, SeenIs
  <2>5. QED BY <1>1, <1>2, <2>2, <2>3, <2>4 DEF vs
<1>3. CASE ~(j = 1 /\ open)
  <2>1. View(c, open, j, m) = Seen(c.scopes[j].vars, m)
    BY <1>3 DEF View, Bound
  <2>2. QED BY <1>1, <2>1, SeenIs
<1>4. QED
  BY <1>2, <1>3

\* Whether passing a name on marks it.
Moves(c, n) == c.scopes[1].safe /\ Home(c, n) # 0 /\ ~Lookup(c, n).copy /\ Lookup(c, n).st # "moved"
VarE(n) == [k |-> "var", name |-> n]

\* The variable of the let under way stays what it is, but for its own initialiser.
KeepsLet(c, n, open, d) ==
  open => /\ d.scopes[1].vars # << >>
          /\ d.scopes[1].vars[1].name = c.scopes[1].vars[1].name
          /\ d.scopes[1].vars[1].copy = c.scopes[1].vars[1].copy
          /\ ~Hidden(c, open, n) => d.scopes[1].vars[1].st = c.scopes[1].vars[1].st

\* What passing n on makes of c.
IsPassOn(c, n, open, d) ==
  /\ d \in Context /\ Len(d.scopes) = Len(c.scopes)
  /\ d.diags = << >> => c.diags = << >>
  /\ Alarmed(d) => Alarmed(c) \/ (Home(c, n) # 0 /\ Lookup(c, n).st = "moved")
  /\ KeepsLet(c, n, open, d)
  /\ \A j \in 1 .. Len(c.scopes), m \in Name :
        View(d, open, j, m) = IF Moves(c, n) /\ j = Home(c, n) /\ m = n /\ ~Hidden(c, open, n)
                              THEN Marked(View(c, open, j, m)) ELSE View(c, open, j, m)

LEMMA PassOnDoes ==
  ASSUME NEW c \in Context, NEW n \in Name, c.scopes # << >>,
         NEW open \in BOOLEAN, open => c.scopes[1].vars # << >>,
         NEW d, d = PassOn(c, VarE(n))
  PROVE  IsPassOn(c, n, open, d)
<1>1. PassOn(c, VarE(n)) = IF c.scopes[1].safe THEN CheckMove(c, n) ELSE c
  BY DEF PassOn, VarE
<1>2. CASE d.scopes = c.scopes /\ ~Moves(c, n)
  <2>1. CASE d = c
    BY <2>1, <1>2 DEF IsPassOn, KeepsLet
  <2>2. CASE d # c
    <3>1. c.scopes[1].safe /\ Home(c, n) # 0 /\ Lookup(c, n).st = "moved" /\ d = Emit(c, "double-move")
      BY <1>1, <1>2, <2>2 DEF CheckMove, Moves, IsKnown
    <3>2. "double-move" \in Diag
      BY DEF Diag, MoveAlarms
    <3>3. d \in Context /\ d.diags # << >>
      BY <3>1, <3>2, EmitDoes
    <3>4. View(d, open, 1, n) = View(d, open, 1, n) /\ \A j, m : View(d, open, j, m) = View(c, open, j, m)
      BY <1>2 DEF View, Bound
    <3>5. QED BY <1>2, <3>1, <3>3, <3>4 DEF IsPassOn, KeepsLet
  <2>3. QED BY <2>1, <2>2
<1>3. CASE Moves(c, n)
  <2>1. d = MarkMoved(c, n) /\ Home(c, n) # 0
    BY <1>1, <1>3 DEF CheckMove, Moves, IsKnown
  <2>2. d.diags = c.diags
    BY <2>1, MarkMovedDoes
  <2>3. Alarmed(d) <=> Alarmed(c)
    BY <2>2 DEF Alarmed
  <2>4. /\ d \in Context /\ Len(d.scopes) = Len(c.scopes)
        /\ open => /\ d.scopes[1].vars # << >>
                   /\ d.scopes[1].vars[1].name = c.scopes[1].vars[1].name
                   /\ d.scopes[1].vars[1].copy = c.scopes[1].vars[1].copy
                   /\ ~Hidden(c, open, n) => d.scopes[1].vars[1].st = c.scopes[1].vars[1].st
        /\ \A j \in 1 .. Len(c.scopes), m \in Name :
              View(d, open, j, m) = IF j = Home(c, n) /\ m = n /\ ~Hidden(c, open, n)
                                    THEN Marked(View(c, open, j, m)) ELSE View(c, open, j, m)
    BY <2>1, MarkMovedDoes
  <2>5. QED BY <1>3, <2>2, <2>3, <2>4 DEF IsPassOn, KeepsLet
<1>4. CASE ~Moves(c, n) /\ d.scopes # c.scopes
  <2>1. d # c /\ c.scopes[1].safe /\ Home(c, n) # 0 /\ ~Lookup(c, n).copy
    BY <1>1, <1>4 DEF CheckMove, IsKnown
  <2>2. d = Emit(c, "double-move") /\ "double-move" \in Diag
    BY <1>1, <1>4, <2>1 DEF CheckMove, IsKnown, Moves, Diag, MoveAlarms
  <2>3. QED BY <2>2, <1>4, EmitDoes
<1>5. QED
  BY <1>2, <1>3, <1>4

\* What reading n makes of c, and passing it on if it moves.
IsReading(c, n, open, moves, d) ==
  /\ d \in Context /\ Len(d.scopes) = Len(c.scopes)
  /\ d.diags = << >> => c.diags = << >> /\ (Home(c, n) # 0 => Lookup(c, n).st = "owned")
  /\ Alarmed(d) /\ ~Hidden(c, open, n) =>
       Alarmed(c) \/ (Home(c, n) # 0 /\ Lookup(c, n).st = "moved")
  /\ \A j \in 1 .. Len(c.scopes), m \in Name :
        View(d, open, j, m) =
          IF moves /\ Moves(c, n) /\ j = Home(c, n) /\ m = n /\ ~Hidden(c, open, n)
          THEN Marked(View(c, open, j, m)) ELSE View(c, open, j, m)

LEMMA UsingDoes ==
  ASSUME NEW c \in Context, NEW n \in Name, NEW open \in BOOLEAN, open => c.scopes[1].vars # << >>,
         NEW d, d = CheckUse(c, n)
  PROVE  IsReading(c, n, open, FALSE, d) /\ KeepsLet(c, n, open, d)
<1>1. /\ d \in Context /\ d.scopes = c.scopes
      /\ d.diags = << >> => c.diags = << >> /\ (Home(c, n) # 0 => Lookup(c, n).st = "owned")
      /\ Alarmed(d) => Alarmed(c) \/ (Home(c, n) # 0 /\ Lookup(c, n).st = "moved")
  BY CheckUseDoes
<1>2. \A j, m : View(d, open, j, m) = View(c, open, j, m)
  BY <1>1 DEF View, Bound
<1>3. KeepsLet(c, n, open, d)
  BY <1>1 DEF KeepsLet
<1>4. QED
  BY <1>1, <1>2, <1>3 DEF IsReading

LEMMA ReadingDoes ==
  ASSUME NEW c \in Context, NEW n \in Name, c.scopes # << >>,
         NEW open \in BOOLEAN, open => c.scopes[1].vars # << >>,
         NEW d, d = PassOn(CheckUse(c, n), VarE(n))
  PROVE  IsReading(c, n, open, TRUE, d) /\ KeepsLet(c, n, open, d)
<1> DEFINE b == CheckUse(c, n)
<1>1. /\ b \in Context /\ b.scopes = c.scopes
      /\ b.diags = << >> => c.diags = << >> /\ (Home(c, n) # 0 => Lookup(c, n).st = "owned")
      /\ Alarmed(b) => Alarmed(c) \/ (Home(c, n) # 0 /\ Lookup(c, n).st = "moved")
  BY CheckUseDoes
<1>2. d = PassOn(b, VarE(n))
  OBVIOUS
<1> HIDE DEF b
<1>3. Home(b, n) = Home(c, n) /\ Lookup(b, n) = Lookup(c, n)
  BY <1>1 DEF Home, Lookup
<1>4. /\ Moves(b, n) <=> Moves(c, n)
      /\ Hidden(b, open, n) <=> Hidden(c, open, n)
      /\ \A j, m : View(b, open, j, m) = View(c, open, j, m)
  BY <1>1, <1>3 DEF Moves, Hidden, View, Bound
<1>5. IsPassOn(b, n, open, d)
  <2>1. b \in Context /\ b.scopes # << >> /\ (open => b.scopes[1].vars # << >>)
    BY <1>1
  <2>2. QED BY <2>1, <1>2, PassOnDoes
<1>6. KeepsLet(c, n, open, d)
  BY <1>1, <1>4, <1>5 DEF IsPassOn, KeepsLet
<1>7. IsReading(c, n, open, TRUE, d)
  BY <1>1, <1>3, <1>4, <1>5 DEF IsPassOn, IsReading
<1>8. QED
  BY <1>6, <1>7

\* What entering a scope makes of c.
IsPush(c, d) ==
  /\ d \in Context /\ d.diags = c.diags /\ Len(d.scopes) = Len(c.scopes) + 1 /\ d.scopes # << >>
  /\ \A m \in Name : View(d, FALSE, 1, m).st = "none" /\ ~View(d, FALSE, 1, m).copy
  /\ \A j \in 1 .. Len(c.scopes), m \in Name : View(d, FALSE, j + 1, m) = View(c, FALSE, j, m)

LEMMA PushDoes ==
  ASSUME NEW c \in Context, NEW safe \in BOOLEAN, NEW d, d = PushScope(c, safe)
  PROVE  IsPush(c, d)
<1> DEFINE s == [safe |-> safe \/ (c.scopes # << >> /\ c.scopes[1].safe), vars |-> << >>]
           ss == <<s>> \o c.scopes
<1>1. c.scopes \in Seq(Scope) /\ Len(c.scopes) \in Nat
  BY DEF Context
<1>2. s \in Scope
  <2>1. (safe \/ (c.scopes # << >> /\ c.scopes[1].safe)) \in BOOLEAN
    OBVIOUS
  <2>2. QED BY <2>1 DEF Scope
<1>3. d.scopes = ss /\ d.diags = c.diags /\ d = [c EXCEPT !.scopes = ss]
  BY DEF PushScope, Context
<1>4. s.vars = << >>
  OBVIOUS
<1> HIDE DEF s
<1>5. /\ ss \in Seq(Scope) /\ Len(ss) = Len(c.scopes) + 1 /\ ss # << >> /\ ss[1] = s
      /\ \A j \in 1 .. Len(c.scopes) : ss[j + 1] = c.scopes[j]
  <2> DEFINE cs == c.scopes
  <2>1. cs \in Seq(Scope)
    BY <1>1
  <2> HIDE DEF cs
  <2>2. /\ (<<s>> \o cs) \in Seq(Scope) /\ Len(<<s>> \o cs) = Len(cs) + 1 /\ (<<s>> \o cs) # << >>
        /\ (<<s>> \o cs)[1] = s /\ \A j \in 1 .. Len(cs) : (<<s>> \o cs)[j + 1] = cs[j]
    BY <2>1, <1>2
  <2>3. QED BY <2>2 DEF cs
<1> HIDE DEF ss
<1>6. d \in Context
  BY <1>3, <1>5 DEF Context
<1>7. ASSUME NEW m \in Name PROVE View(d, FALSE, 1, m).st = "none" /\ ~View(d, FALSE, 1, m).copy
  <2>1. View(d, FALSE, 1, m) = Seen(<< >>, m)
    BY <1>3, <1>4, <1>5 DEF View, Bound
  <2>2. Seen(<< >>, m).st = "none" /\ ~Seen(<< >>, m).copy
    BY SeenEmpty
  <2>3. QED BY <2>1, <2>2
<1>8. \A j \in 1 .. Len(c.scopes), m \in Name : View(d, FALSE, j + 1, m) = View(c, FALSE, j, m)
  BY <1>3, <1>5 DEF View, Bound
<1>9. QED
  BY <1>3, <1>5, <1>6, <1>7, <1>8 DEF IsPush

\* What leaving one makes of it.
IsPop(c, d) ==
  /\ d \in Context /\ d.diags = c.diags /\ Len(d.scopes) = Len(c.scopes) - 1 /\ d.scopes # << >>
  /\ \A j \in 1 .. Len(c.scopes) - 1, m \in Name : View(d, FALSE, j, m) = View(c, FALSE, j + 1, m)

LEMMA PopDoes ==
  ASSUME NEW c \in Context, Len(c.scopes) > 1, NEW d, d = PopScope(c)
  PROVE  IsPop(c, d)
<1> DEFINE ss == Tail(c.scopes)
<1>1. c.scopes \in Seq(Scope) /\ Len(c.scopes) \in Nat
  BY DEF Context
<1>2. d.scopes = ss /\ d.diags = c.diags /\ d = [c EXCEPT !.scopes = ss]
  BY DEF PopScope, Context
<1>3. /\ ss \in Seq(Scope) /\ Len(ss) = Len(c.scopes) - 1 /\ ss # << >>
      /\ \A j \in 1 .. Len(c.scopes) - 1 : ss[j] = c.scopes[j + 1]
  <2> DEFINE cs == c.scopes
  <2>1. cs \in Seq(Scope) /\ Len(cs) > 1
    BY <1>1
  <2> HIDE DEF cs
  <2>2. /\ Tail(cs) \in Seq(Scope) /\ Len(Tail(cs)) = Len(cs) - 1 /\ Tail(cs) # << >>
        /\ \A j \in 1 .. Len(cs) - 1 : Tail(cs)[j] = cs[j + 1]
    <3>1. Tail(cs) \in Seq(Scope) /\ Len(Tail(cs)) = Len(cs) - 1
      BY <2>1
    <3>2. Tail(cs) # << >>
      <4> DEFINE ts == Tail(cs)
      <4>1. ts \in Seq(Scope) /\ Len(ts) > 0
        BY <2>1, <3>1
      <4> HIDE DEF ts
      <4>2. ts # << >>
        BY <4>1
      <4>3. QED BY <4>2 DEF ts
    <3>3. \A j \in 1 .. Len(cs) - 1 : Tail(cs)[j] = cs[j + 1]
      BY <2>1
    <3>4. QED BY <3>1, <3>2, <3>3
  <2>3. QED BY <2>2 DEF cs
<1> HIDE DEF ss
<1>4. d \in Context
  BY <1>2, <1>3 DEF Context
<1>5. \A j \in 1 .. Len(c.scopes) - 1, m \in Name : View(d, FALSE, j, m) = View(c, FALSE, j + 1, m)
  BY <1>2, <1>3, <1>1 DEF View, Bound
<1>6. QED
  BY <1>2, <1>3, <1>4, <1>5 DEF IsPop

\* A context of which the variables of the innermost scope are others.
LEMMA FirstDoes ==
  ASSUME NEW c \in Context, c.scopes # << >>, NEW vs \in Seq(Var)
  PROVE  LET d == [c EXCEPT !.scopes[1].vars = vs]
         IN  /\ d \in Context /\ d.diags = c.diags /\ Len(d.scopes) = Len(c.scopes) /\ d.scopes # << >>
             /\ d.scopes[1].vars = vs /\ d.scopes[1].safe = c.scopes[1].safe
             /\ \A j \in 1 .. Len(c.scopes) : j # 1 => d.scopes[j] = c.scopes[j]
<1> DEFINE s == [c.scopes[1] EXCEPT !.vars = vs]
           ss == [c.scopes EXCEPT ![1] = s]
           d == [c EXCEPT !.scopes = ss]
<1>1. c.scopes \in Seq(Scope) /\ Len(c.scopes) \in Nat /\ 1 \in 1 .. Len(c.scopes)
  BY DEF Context
<1>2. c.scopes[1] \in Scope
  BY <1>1
<1>3. s \in Scope /\ s.vars = vs /\ s.safe = c.scopes[1].safe
  BY <1>2 DEF Scope
<1>4. d.scopes = ss /\ d.diags = c.diags
  BY DEF Context
<1>5. d = [c EXCEPT !.scopes[1].vars = vs]
  OBVIOUS
<1> HIDE DEF s
<1>6. /\ ss \in Seq(Scope) /\ Len(ss) = Len(c.scopes) /\ ss[1] = s /\ ss # << >>
      /\ \A j \in 1 .. Len(c.scopes) : j # 1 => ss[j] = c.scopes[j]
  BY <1>1, <1>3
<1> HIDE DEF ss
<1>7. d \in Context
  BY <1>6 DEF Context
<1> HIDE DEF d
<1>8. QED
  BY <1>3, <1>4, <1>5, <1>6, <1>7

\* What a declaration makes of c.
IsDeclare(c, n, st, copy, d) ==
  /\ d \in Context /\ d.diags = c.diags /\ Len(d.scopes) = Len(c.scopes) /\ d.scopes # << >>
  /\ d.scopes[1].vars # << >>
  /\ d.scopes[1].vars[1] = [name |-> n, st |-> st, copy |-> copy]
  /\ \A j \in 1 .. Len(c.scopes), m \in Name :
        /\ View(d, TRUE, j, m) = View(c, FALSE, j, m)
        /\ View(d, FALSE, j, m) = IF j = 1 /\ m = n THEN [st |-> st, copy |-> copy]
                                  ELSE View(c, FALSE, j, m)

LEMMA DeclareDoes ==
  ASSUME NEW c \in Context, c.scopes # << >>, NEW n \in Name, NEW st \in State, NEW copy \in BOOLEAN,
         NEW d, d = Declare(c, n, st, copy)
  PROVE  IsDeclare(c, n, st, copy, d)
<1> DEFINE old == c.scopes[1].vars
           v == [name |-> n, st |-> st, copy |-> copy]
           vs == <<v>> \o old
<1>1. 1 \in 1 .. Len(c.scopes)
  BY DEF Context
<1>2. c.scopes[1] \in Scope
  BY <1>1 DEF Context
<1>3. old \in Seq(Var)
  BY <1>2 DEF Scope
<1>4. v \in Var /\ v.name = n /\ v.st = st /\ v.copy = copy
  BY DEF Var
<1>5. d = [c EXCEPT !.scopes[1].vars = vs]
  BY DEF Declare
<1> HIDE DEF v, old
<1>6. vs \in Seq(Var) /\ vs # << >> /\ vs[1] = v /\ Tail(vs) = old
  BY <1>3, <1>4
<1> HIDE DEF vs
<1>7. /\ d \in Context /\ d.diags = c.diags /\ Len(d.scopes) = Len(c.scopes) /\ d.scopes # << >>
      /\ d.scopes[1].vars = vs
      /\ \A j \in 1 .. Len(c.scopes) : j # 1 => d.scopes[j] = c.scopes[j]
  BY <1>5, <1>6, FirstDoes
<1>8. ASSUME NEW j \in 1 .. Len(c.scopes), NEW m \in Name
      PROVE  /\ View(d, TRUE, j, m) = View(c, FALSE, j, m)
             /\ View(d, FALSE, j, m) = IF j = 1 /\ m = n THEN [st |-> st, copy |-> copy]
                                       ELSE View(c, FALSE, j, m)
  <2>1. CASE j = 1
    <3>1. Seen(vs, m) = IF v.name = m THEN [st |-> v.st, copy |-> v.copy] ELSE Seen(old, m)
      BY <1>6, SeenHead
    <3>2. /\ View(d, TRUE, j, m) = Seen(Tail(vs), m) /\ View(d, FALSE, j, m) = Seen(vs, m)
          /\ View(c, FALSE, j, m) = Seen(old, m)
      BY <1>7, <2>1 DEF View, Bound, old
    <3>3. QED BY <2>1, <3>1, <3>2, <1>4, <1>6
  <2>2. CASE j # 1
    BY <2>2, <1>7 DEF View, Bound
  <2>3. QED BY <2>1, <2>2
<1>9. QED
  BY <1>6, <1>7, <1>8 DEF v, IsDeclare

\* A context of which the newest variable has another state.
LEMMA NewestDoes ==
  ASSUME NEW c \in Context, c.scopes # << >>, c.scopes[1].vars # << >>,
         NEW v \in Var, v.name = c.scopes[1].vars[1].name
  PROVE  LET d == [c EXCEPT !.scopes[1].vars[1] = v]
         IN  /\ d \in Context /\ d.diags = c.diags /\ Len(d.scopes) = Len(c.scopes) /\ d.scopes # << >>
             /\ d.scopes[1].vars # << >> /\ d.scopes[1].vars[1] = v /\ d.scopes[1].safe = c.scopes[1].safe
             /\ Tail(d.scopes[1].vars) = Tail(c.scopes[1].vars)
             /\ \A j \in 1 .. Len(c.scopes) : j # 1 => d.scopes[j] = c.scopes[j]
             /\ \A j \in 1 .. Len(c.scopes), m \in Name : View(d, TRUE, j, m) = View(c, TRUE, j, m)
<1> DEFINE old == c.scopes[1].vars
           vs == [old EXCEPT ![1] = v]
           d == [c EXCEPT !.scopes[1].vars = vs]
<1>1. 1 \in 1 .. Len(c.scopes)
  BY DEF Context
<1>2. c.scopes[1] \in Scope
  BY <1>1 DEF Context
<1>3. old \in Seq(Var) /\ old # << >>
  BY <1>2 DEF Scope
<1>4. d = [c EXCEPT !.scopes[1].vars[1] = v]
  OBVIOUS
<1> HIDE DEF old
<1>5. vs \in Seq(Var) /\ vs # << >> /\ vs[1] = v /\ Tail(vs) = Tail(old)
  <2>1. vs \in Seq(Var) /\ Len(vs) = Len(old) /\ vs[1] = v /\ \A i \in 2 .. Len(old) : vs[i] = old[i]
    BY <1>3
  <2> HIDE DEF vs
  <2>2. QED BY <1>3, <2>1
<1> HIDE DEF vs
<1>6. /\ d \in Context /\ d.diags = c.diags /\ Len(d.scopes) = Len(c.scopes) /\ d.scopes # << >>
      /\ d.scopes[1].vars = vs /\ d.scopes[1].safe = c.scopes[1].safe
      /\ \A j \in 1 .. Len(c.scopes) : j # 1 => d.scopes[j] = c.scopes[j]
  BY <1>5, FirstDoes
<1> HIDE DEF d
<1>7. ASSUME NEW j \in 1 .. Len(c.scopes), NEW m \in Name PROVE View(d, TRUE, j, m) = View(c, TRUE, j, m)
  <2>1. CASE j = 1
    BY <2>1, <1>5, <1>6 DEF View, Bound, old
  <2>2. CASE j # 1
    BY <2>2, <1>6 DEF View, Bound
  <2>3. QED BY <2>1, <2>2
<1>8. QED
  BY <1>4, <1>5, <1>6, <1>7 DEF old

\* When the let is done its variable can be seen.
LEMMA CloseLet ==
  ASSUME NEW c \in Context, c.scopes # << >>, c.scopes[1].vars # << >>,
         NEW j \in 1 .. Len(c.scopes), NEW m \in Name
  PROVE  LET v == c.scopes[1].vars[1]
         IN  IF j = 1 /\ v.name = m
             THEN View(c, FALSE, j, m).st = v.st /\ View(c, FALSE, j, m).copy = v.copy
             ELSE View(c, FALSE, j, m) = View(c, TRUE, j, m)
<1> DEFINE vs == c.scopes[1].vars
<1>1. vs \in Seq(Var) /\ vs # << >>
  <2>1. 1 \in 1 .. Len(c.scopes)
    BY DEF Context
  <2>2. c.scopes[1] \in Scope
    BY <2>1 DEF Context
  <2>3. QED BY <2>2 DEF Scope
<1>2. Seen(vs, m) = IF vs[1].name = m THEN [st |-> vs[1].st, copy |-> vs[1].copy] ELSE Seen(Tail(vs), m)
  BY <1>1, SeenHead
<1>3. CASE j = 1 /\ vs[1].name = m
  <2>1. View(c, FALSE, j, m) = Seen(vs, m)
    BY <1>3 DEF View, Bound
  <2>2. Seen(vs, m).st = vs[1].st /\ Seen(vs, m).copy = vs[1].copy
    BY <1>2, <1>3
  <2>3. QED BY <1>3, <2>1, <2>2
<1>4. CASE ~(j = 1 /\ vs[1].name = m)
  <2>1. View(c, FALSE, j, m) = View(c, TRUE, j, m)
    BY <1>2, <1>4 DEF View, Bound
  <2>2. QED BY <1>4, <2>1
<1>5. QED
  BY <1>3, <1>4

LEMMA NewestIs ==
  ASSUME NEW c \in Context, c.scopes # << >>, c.scopes[1].vars # << >>
  PROVE  c.scopes[1].vars \in Seq(Var) /\ c.scopes[1].vars[1] \in Var
<1>1. 1 \in 1 .. Len(c.scopes)
  BY DEF Context
<1>2. c.scopes[1] \in Scope
  BY <1>1 DEF Context
<1> DEFINE vs == c.scopes[1].vars
<1>3. vs \in Seq(Var) /\ vs # << >>
  BY <1>2 DEF Scope
<1> HIDE DEF vs
<1>4. vs[1] \in Var
  BY <1>3
<1>5. QED BY <1>3, <1>4 DEF vs

\* The state of the newest variable decides nothing about which variable a name is.
LEMMA SameHome ==
  ASSUME NEW c \in Context, c.scopes # << >>, c.scopes[1].vars # << >>,
         NEW d \in Context, Len(d.scopes) = Len(c.scopes), d.scopes # << >>, d.scopes[1].vars # << >>,
         d.scopes[1].vars[1].name = c.scopes[1].vars[1].name,
         Tail(d.scopes[1].vars) = Tail(c.scopes[1].vars),
         \A j \in 1 .. Len(c.scopes) : j # 1 => d.scopes[j] = c.scopes[j],
         NEW n \in Name
  PROVE  /\ Home(d, n) = Home(c, n)
         /\ ~Hidden(c, TRUE, n) /\ Home(c, n) # 0 =>
              Lookup(d, n).st = Lookup(c, n).st /\ Lookup(d, n).copy = Lookup(c, n).copy
<1> DEFINE vs == c.scopes[1].vars
           ws == d.scopes[1].vars
<1>1. vs \in Seq(Var) /\ ws \in Seq(Var) /\ vs # << >> /\ ws # << >>
  BY NewestIs
<1>2. Place(ws, n) = Place(vs, n) /\ (vs[1].name # n => Seen(ws, n) = Seen(vs, n))
  <2>1. vs[1].name = ws[1].name /\ Tail(vs) = Tail(ws)
    OBVIOUS
  <2> HIDE DEF vs, ws
  <2>2. /\ Place(vs, n) = IF vs[1].name = n THEN 1
                          ELSE IF Place(Tail(vs), n) = 0 THEN 0 ELSE Place(Tail(vs), n) + 1
        /\ vs[1].name # n => Seen(vs, n) = Seen(Tail(vs), n)
    BY <1>1, SeenHead
  <2>3. /\ Place(ws, n) = IF ws[1].name = n THEN 1
                          ELSE IF Place(Tail(ws), n) = 0 THEN 0 ELSE Place(Tail(ws), n) + 1
        /\ ws[1].name # n => Seen(ws, n) = Seen(Tail(ws), n)
    BY <1>1, SeenHead
  <2>4. QED BY <2>1, <2>2, <2>3
<1>3. ASSUME NEW j \in 1 .. Len(c.scopes)
      PROVE  /\ Place(d.scopes[j].vars, n) = Place(c.scopes[j].vars, n)
             /\ ~Hidden(c, TRUE, n) => Seen(d.scopes[j].vars, n) = Seen(c.scopes[j].vars, n)
  BY <1>2 DEF Hidden
<1>4. Home(d, n) = Home(c, n)
  <2>1. /\ Home(d, n) \in 0 .. Len(c.scopes)
        /\ Home(d, n) # 0 => Place(c.scopes[Home(d, n)].vars, n) # 0
        /\ \A i \in 1 .. Len(c.scopes) :
              Place(c.scopes[i].vars, n) # 0 => Home(d, n) # 0 /\ Home(d, n) <= i
    <3>1. /\ Home(d, n) \in 0 .. Len(d.scopes)
          /\ Home(d, n) # 0 => Place(d.scopes[Home(d, n)].vars, n) # 0
          /\ \A i \in 1 .. Len(d.scopes) :
                Place(d.scopes[i].vars, n) # 0 => Home(d, n) # 0 /\ Home(d, n) <= i
      BY HomeIs
    <3>2. Home(d, n) # 0 => Home(d, n) \in 1 .. Len(c.scopes)
      BY <3>1
    <3>3. QED BY <3>1, <3>2, <1>3
  <2>2. /\ Home(c, n) \in 0 .. Len(c.scopes)
        /\ Home(c, n) # 0 => Place(c.scopes[Home(c, n)].vars, n) # 0
        /\ \A i \in 1 .. Len(c.scopes) :
              Place(c.scopes[i].vars, n) # 0 => Home(c, n) # 0 /\ Home(c, n) <= i
    BY HomeIs
  <2>3. Len(c.scopes) \in Nat
    BY DEF Context
  <2>4. QED BY <2>1, <2>2, <2>3
<1>5. ASSUME ~Hidden(c, TRUE, n), Home(c, n) # 0
      PROVE  Lookup(d, n).st = Lookup(c, n).st /\ Lookup(d, n).copy = Lookup(c, n).copy
  <2>1. Home(c, n) \in 1 .. Len(c.scopes)
    BY <1>5, Known
  <2>2. Seen(d.scopes[Home(c, n)].vars, n) = Seen(c.scopes[Home(c, n)].vars, n)
    BY <1>3, <1>5, <2>1
  <2>3. QED BY <1>4, <1>5, <2>2, Known
<1>6. QED
  BY <1>4, <1>5

\* What making the newest variable "owned" makes of c.
IsInitialized(c, d) ==
  /\ d \in Context /\ d.diags = c.diags /\ Len(d.scopes) = Len(c.scopes) /\ d.scopes # << >>
  /\ d.scopes[1].vars # << >> /\ d.scopes[1].safe = c.scopes[1].safe
  /\ d.scopes[1].vars[1].name = c.scopes[1].vars[1].name
  /\ d.scopes[1].vars[1].copy = c.scopes[1].vars[1].copy
  /\ d.scopes[1].vars[1].st = "owned"
  /\ \A n \in Name : Home(d, n) = Home(c, n) /\ (Hidden(d, TRUE, n) <=> Hidden(c, TRUE, n))
  /\ \A n \in Name : ~Hidden(c, TRUE, n) /\ Home(c, n) # 0 =>
       Lookup(d, n).st = Lookup(c, n).st /\ Lookup(d, n).copy = Lookup(c, n).copy
  /\ \A j \in 1 .. Len(c.scopes), m \in Name : View(d, TRUE, j, m) = View(c, TRUE, j, m)

LEMMA InitializedDoes ==
  ASSUME NEW c \in Context, c.scopes # << >>, c.scopes[1].vars # << >>,
         NEW d, d = Initialized(c)
  PROVE  IsInitialized(c, d)
<1> DEFINE w == c.scopes[1].vars[1]
           v == [w EXCEPT !.st = "owned"]
<1>1. v \in Var /\ v.name = w.name /\ v.copy = w.copy /\ v.st = "owned"
  BY NewestIs DEF Var, State
<1>2. d = [c EXCEPT !.scopes[1].vars[1] = v]
  BY DEF Initialized
<1> HIDE DEF v
<1>3. /\ d \in Context /\ d.diags = c.diags /\ Len(d.scopes) = Len(c.scopes) /\ d.scopes # << >>
      /\ d.scopes[1].vars # << >> /\ d.scopes[1].vars[1] = v /\ d.scopes[1].safe = c.scopes[1].safe
      /\ Tail(d.scopes[1].vars) = Tail(c.scopes[1].vars)
      /\ \A j \in 1 .. Len(c.scopes) : j # 1 => d.scopes[j] = c.scopes[j]
      /\ \A j \in 1 .. Len(c.scopes), m \in Name : View(d, TRUE, j, m) = View(c, TRUE, j, m)
  <2> DEFINE D == [c EXCEPT !.scopes[1].vars[1] = v]
  <2>1. /\ D \in Context /\ D.diags = c.diags /\ Len(D.scopes) = Len(c.scopes) /\ D.scopes # << >>
        /\ D.scopes[1].vars # << >> /\ D.scopes[1].vars[1] = v /\ D.scopes[1].safe = c.scopes[1].safe
        /\ Tail(D.scopes[1].vars) = Tail(c.scopes[1].vars)
        /\ \A j \in 1 .. Len(c.scopes) : j # 1 => D.scopes[j] = c.scopes[j]
        /\ \A j \in 1 .. Len(c.scopes), m \in Name : View(D, TRUE, j, m) = View(c, TRUE, j, m)
    <3>1. v \in Var /\ v.name = c.scopes[1].vars[1].name
      BY <1>1
    <3>2. QED BY <3>1, NewestDoes
  <2>2. d = D
    BY <1>2
  <2> HIDE DEF D
  <2>3. QED BY <2>1, <2>2
<1>4. ASSUME NEW n \in Name
      PROVE  /\ Home(d, n) = Home(c, n) /\ (Hidden(d, TRUE, n) <=> Hidden(c, TRUE, n))
             /\ ~Hidden(c, TRUE, n) /\ Home(c, n) # 0 =>
                  Lookup(d, n).st = Lookup(c, n).st /\ Lookup(d, n).copy = Lookup(c, n).copy
  BY <1>1, <1>3, SameHome DEF Hidden
<1>5. QED
  BY <1>1, <1>3, <1>4 DEF IsInitialized

\* What making it of a Copy type, if b, makes of c.
IsCopyIf(c, b, d) ==
  /\ d \in Context /\ d.diags = c.diags /\ Len(d.scopes) = Len(c.scopes) /\ d.scopes # << >>
  /\ d.scopes[1].vars # << >>
  /\ d.scopes[1].vars[1].name = c.scopes[1].vars[1].name
  /\ d.scopes[1].vars[1].copy = (c.scopes[1].vars[1].copy \/ b)
  /\ d.scopes[1].vars[1].st = c.scopes[1].vars[1].st
  /\ \A j \in 1 .. Len(c.scopes), m \in Name : View(d, TRUE, j, m) = View(c, TRUE, j, m)

LEMMA CopyIfDoes ==
  ASSUME NEW c \in Context, c.scopes # << >>, c.scopes[1].vars # << >>, NEW b \in BOOLEAN,
         NEW d, d = CopyIf(c, b)
  PROVE  IsCopyIf(c, b, d)
<1> DEFINE w == c.scopes[1].vars[1]
           v == [w EXCEPT !.copy = w.copy \/ b]
<1>1. v \in Var /\ v.name = w.name /\ v.copy = (w.copy \/ b) /\ v.st = w.st
  <2>1. w \in Var
    BY NewestIs
  <2>2. (w.copy \/ b) \in BOOLEAN
    OBVIOUS
  <2> DEFINE x == w.copy \/ b
  <2> HIDE DEF w, x
  <2>3. [w EXCEPT !.copy = x] \in Var /\ [w EXCEPT !.copy = x].name = w.name
        /\ [w EXCEPT !.copy = x].copy = x /\ [w EXCEPT !.copy = x].st = w.st
    BY <2>1, <2>2 DEF Var, x
  <2>4. QED BY <2>3 DEF x
<1>2. d = [c EXCEPT !.scopes[1].vars[1] = v]
  BY DEF CopyIf
<1> HIDE DEF v
<1>3. /\ d \in Context /\ d.diags = c.diags /\ Len(d.scopes) = Len(c.scopes) /\ d.scopes # << >>
      /\ d.scopes[1].vars # << >> /\ d.scopes[1].vars[1] = v
      /\ \A j \in 1 .. Len(c.scopes), m \in Name : View(d, TRUE, j, m) = View(c, TRUE, j, m)
  <2> DEFINE D == [c EXCEPT !.scopes[1].vars[1] = v]
  <2>1. /\ D \in Context /\ D.diags = c.diags /\ Len(D.scopes) = Len(c.scopes) /\ D.scopes # << >>
        /\ D.scopes[1].vars # << >> /\ D.scopes[1].vars[1] = v /\ D.scopes[1].safe = c.scopes[1].safe
        /\ Tail(D.scopes[1].vars) = Tail(c.scopes[1].vars)
        /\ \A j \in 1 .. Len(c.scopes) : j # 1 => D.scopes[j] = c.scopes[j]
        /\ \A j \in 1 .. Len(c.scopes), m \in Name : View(D, TRUE, j, m) = View(c, TRUE, j, m)
    <3>1. v \in Var /\ v.name = c.scopes[1].vars[1].name
      BY <1>1
    <3>2. QED BY <3>1, NewestDoes
  <2>2. d = D
    BY <1>2
  <2> HIDE DEF D
  <2>3. QED BY <2>1, <2>2
<1>4. QED
  BY <1>1, <1>3 DEF IsCopyIf

\* What the rest of a let of a variable makes of c.
IsFinishVariable(c, n, typed, d) ==
  /\ IsReading(c, n, TRUE, ~typed, d)
  /\ d.scopes[1].vars # << >>
  /\ d.scopes[1].vars[1].name = c.scopes[1].vars[1].name
  /\ d.scopes[1].vars[1].copy = c.scopes[1].vars[1].copy
  /\ ~Hidden(c, TRUE, n) => d.scopes[1].vars[1].st = "owned"

LEMMA FinishVariable ==
  ASSUME NEW c \in Context, c.scopes # << >>, c.scopes[1].vars # << >>,
         NEW n \in Name, NEW typed \in BOOLEAN,
         NEW d, d = FinishLet(CheckUse(c, n), VarE(n), typed)
  PROVE  IsFinishVariable(c, n, typed, d)
<1> DEFINE a == CheckUse(c, n)
           i == Initialized(a)
           p == IF typed THEN i ELSE PassOn(i, VarE(n))
<1>1. /\ a \in Context /\ a.scopes = c.scopes
      /\ a.diags = << >> => c.diags = << >> /\ (Home(c, n) # 0 => Lookup(c, n).st = "owned")
      /\ Alarmed(a) => Alarmed(c) \/ (Home(c, n) # 0 /\ Lookup(c, n).st = "moved")
  BY CheckUseDoes
<1>2. d = CopyIf(p, FALSE)
  <2>1. IsCopyLiteral(VarE(n)) = FALSE
    BY DEF IsCopyLiteral, VarE
  <2>2. d = CopyIf(p, IsCopyLiteral(VarE(n)))
    BY DEF FinishLet
  <2>3. QED BY <2>1, <2>2
<1>2a. i = Initialized(a)
  OBVIOUS
<1> HIDE DEF a, i
<1>3. /\ Home(a, n) = Home(c, n) /\ Lookup(a, n) = Lookup(c, n)
      /\ Hidden(a, TRUE, n) <=> Hidden(c, TRUE, n)
      /\ \A j, m : View(a, TRUE, j, m) = View(c, TRUE, j, m)
  BY <1>1 DEF Home, Lookup, Hidden, View, Bound
<1>4. /\ i \in Context /\ i.diags = a.diags /\ Len(i.scopes) = Len(a.scopes) /\ i.scopes # << >>
      /\ i.scopes[1].vars # << >> /\ i.scopes[1].safe = a.scopes[1].safe
      /\ i.scopes[1].vars[1].name = a.scopes[1].vars[1].name
      /\ i.scopes[1].vars[1].copy = a.scopes[1].vars[1].copy
      /\ i.scopes[1].vars[1].st = "owned"
      /\ Home(i, n) = Home(a, n) /\ (Hidden(i, TRUE, n) <=> Hidden(a, TRUE, n))
      /\ ~Hidden(a, TRUE, n) /\ Home(a, n) # 0 =>
           Lookup(i, n).st = Lookup(a, n).st /\ Lookup(i, n).copy = Lookup(a, n).copy
      /\ \A j \in 1 .. Len(a.scopes), m \in Name : View(i, TRUE, j, m) = View(a, TRUE, j, m)
  <2>1. a.scopes # << >> /\ a.scopes[1].vars # << >>
    BY <1>1
  <2>2. IsInitialized(a, i)
    BY <1>1, <1>2a, <2>1, InitializedDoes
  <2>3. QED BY <2>2 DEF IsInitialized
<1>5. ~Hidden(c, TRUE, n) => (Moves(i, n) <=> Moves(c, n))
  BY <1>1, <1>3, <1>4 DEF Moves
<1>6. /\ p \in Context /\ Len(p.scopes) = Len(c.scopes) /\ p.scopes # << >>
      /\ p.scopes[1].vars # << >>
      /\ p.scopes[1].vars[1].name = c.scopes[1].vars[1].name
      /\ p.scopes[1].vars[1].copy = c.scopes[1].vars[1].copy
      /\ ~Hidden(c, TRUE, n) => p.scopes[1].vars[1].st = "owned"
      /\ p.diags = << >> => a.diags = << >>
      /\ Alarmed(p) /\ ~Hidden(c, TRUE, n) =>
           Alarmed(a) \/ (Home(c, n) # 0 /\ Lookup(c, n).st = "moved")
      /\ \A j \in 1 .. Len(c.scopes), m \in Name :
            View(p, TRUE, j, m) =
              IF ~typed /\ Moves(c, n) /\ j = Home(c, n) /\ m = n /\ ~Hidden(c, TRUE, n)
              THEN Marked(View(c, TRUE, j, m)) ELSE View(c, TRUE, j, m)
  <2>0. Alarmed(i) <=> Alarmed(a)
    BY <1>4 DEF Alarmed
  <2>1. CASE typed
    <3>1. p = i
      BY <2>1
    <3> HIDE DEF p
    <3>2. QED BY <2>0, <2>1, <3>1, <1>1, <1>3, <1>4
  <2>2. CASE ~typed
    <3>1. p = PassOn(i, VarE(n))
      BY <2>2
    <3>1a. i \in Context /\ i.scopes # << >> /\ i.scopes[1].vars # << >> /\ TRUE \in BOOLEAN
      BY <1>4
    <3> HIDE DEF p
    <3>2. /\ p \in Context /\ Len(p.scopes) = Len(i.scopes)
          /\ p.diags = << >> => i.diags = << >>
          /\ Alarmed(p) => Alarmed(i) \/ (Home(i, n) # 0 /\ Lookup(i, n).st = "moved")
          /\ p.scopes[1].vars # << >>
          /\ p.scopes[1].vars[1].name = i.scopes[1].vars[1].name
          /\ p.scopes[1].vars[1].copy = i.scopes[1].vars[1].copy
          /\ ~Hidden(i, TRUE, n) => p.scopes[1].vars[1].st = i.scopes[1].vars[1].st
          /\ \A j \in 1 .. Len(i.scopes), m \in Name :
                View(p, TRUE, j, m) = IF Moves(i, n) /\ j = Home(i, n) /\ m = n /\ ~Hidden(i, TRUE, n)
                                      THEN Marked(View(i, TRUE, j, m)) ELSE View(i, TRUE, j, m)
      <4>1. IsPassOn(i, n, TRUE, p)
        BY <3>1, <3>1a, PassOnDoes
      <4>2. QED BY <4>1 DEF IsPassOn, KeepsLet
    <3>3. p.scopes # << >>
      <4>1. p.scopes \in Seq(Scope) /\ i.scopes \in Seq(Scope)
        BY <3>2, <1>4 DEF Context
      <4>2. QED BY <4>1, <3>2, <1>4
    <3>4. \A j \in 1 .. Len(c.scopes), m \in Name :
            View(p, TRUE, j, m) =
              IF ~typed /\ Moves(c, n) /\ j = Home(c, n) /\ m = n /\ ~Hidden(c, TRUE, n)
              THEN Marked(View(c, TRUE, j, m)) ELSE View(c, TRUE, j, m)
      <4>1. TAKE j \in 1 .. Len(c.scopes), m \in Name
      <4>2. View(i, TRUE, j, m) = View(c, TRUE, j, m) /\ j \in 1 .. Len(i.scopes)
        BY <1>1, <1>3, <1>4
      <4>3. Home(i, n) = Home(c, n) /\ (Hidden(i, TRUE, n) <=> Hidden(c, TRUE, n))
        BY <1>3, <1>4
      <4>4. View(p, TRUE, j, m) = IF Moves(i, n) /\ j = Home(i, n) /\ m = n /\ ~Hidden(i, TRUE, n)
                                  THEN Marked(View(i, TRUE, j, m)) ELSE View(i, TRUE, j, m)
        BY <3>2, <4>2
      <4>5. QED BY <2>2, <4>2, <4>3, <4>4, <1>5
    <3>5. QED BY <2>0, <2>2, <3>2, <3>3, <3>4, <1>1, <1>3, <1>4
  <2>3. QED BY <2>1, <2>2
<1> HIDE DEF p
<1>7. /\ d \in Context /\ d.diags = p.diags /\ Len(d.scopes) = Len(p.scopes) /\ d.scopes # << >>
      /\ d.scopes[1].vars # << >>
      /\ d.scopes[1].vars[1].name = p.scopes[1].vars[1].name
      /\ d.scopes[1].vars[1].copy = (p.scopes[1].vars[1].copy \/ FALSE)
      /\ d.scopes[1].vars[1].st = p.scopes[1].vars[1].st
      /\ \A j \in 1 .. Len(p.scopes), m \in Name : View(d, TRUE, j, m) = View(p, TRUE, j, m)
  <2>1. IsCopyIf(p, FALSE, d)
    BY <1>2, <1>6, CopyIfDoes
  <2>2. QED BY <2>1 DEF IsCopyIf
<1>8. Alarmed(d) <=> Alarmed(p)
  BY <1>7 DEF Alarmed
<1>9. p.scopes[1].vars[1].copy \in BOOLEAN
  <2>1. p.scopes[1].vars[1] \in Var
    BY <1>6, NewestIs
  <2>2. QED BY <2>1 DEF Var
<1>10. QED
  BY <1>1, <1>6, <1>7, <1>8, <1>9 DEF IsFinishVariable, IsReading

\* What the rest of another let makes of c.
IsFinishOther(c, e, d) ==
  /\ d \in Context /\ Len(d.scopes) = Len(c.scopes) /\ d.scopes # << >>
  /\ d.scopes[1].vars # << >>
  /\ d.scopes[1].vars[1].name = c.scopes[1].vars[1].name
  /\ d.scopes[1].vars[1].copy = (c.scopes[1].vars[1].copy \/ IsCopyLiteral(e))
  /\ d.scopes[1].vars[1].st = "owned"
  /\ d.diags = << >> => c.diags = << >>
  /\ Alarmed(d) => Alarmed(c)
  /\ \A j \in 1 .. Len(c.scopes), m \in Name : View(d, TRUE, j, m) = View(c, TRUE, j, m)

\* A let of which the initialiser is no variable.
LEMMA FinishOther ==
  ASSUME NEW c \in Context, c.scopes # << >>, c.scopes[1].vars # << >>,
         NEW e, e.k \in {"nil", "str", "call"}, NEW typed \in BOOLEAN,
         NEW d, d = FinishLet(NilInSafe(c, e), e, typed)
  PROVE  IsFinishOther(c, e, d)
<1> DEFINE a == NilInSafe(c, e)
           i == Initialized(a)
<1>1. a \in Context /\ a.scopes = c.scopes /\ (a.diags = << >> => c.diags = << >>) /\ (Alarmed(a) => Alarmed(c))
  <2>1. "no-nil" \in Diag /\ "no-nil" \notin MoveAlarms
    BY DEF Diag, MoveAlarms
  <2>2. a = c \/ a = Emit(c, "no-nil")
    BY DEF NilInSafe
  <2>3. QED BY <2>1, <2>2, EmitDoes
<1>2. d = CopyIf(i, IsCopyLiteral(e)) /\ IsCopyLiteral(e) \in BOOLEAN
  BY DEF FinishLet, PassOn, IsCopyLiteral
<1> HIDE DEF a
<1>3. /\ i \in Context /\ i.diags = a.diags /\ Len(i.scopes) = Len(a.scopes) /\ i.scopes # << >>
      /\ i.scopes[1].vars # << >>
      /\ i.scopes[1].vars[1].name = a.scopes[1].vars[1].name
      /\ i.scopes[1].vars[1].copy = a.scopes[1].vars[1].copy
      /\ i.scopes[1].vars[1].st = "owned"
      /\ \A j \in 1 .. Len(a.scopes), m \in Name : View(i, TRUE, j, m) = View(a, TRUE, j, m)
  <2>1. a.scopes # << >> /\ a.scopes[1].vars # << >>
    BY <1>1
  <2>2. IsInitialized(a, i)
    BY <1>1, <2>1, InitializedDoes
  <2> HIDE DEF i
  <2>3. QED BY <2>2 DEF IsInitialized
<1> HIDE DEF i
<1>4. /\ d \in Context /\ d.diags = i.diags /\ Len(d.scopes) = Len(i.scopes) /\ d.scopes # << >>
      /\ d.scopes[1].vars # << >>
      /\ d.scopes[1].vars[1].name = i.scopes[1].vars[1].name
      /\ d.scopes[1].vars[1].copy = (i.scopes[1].vars[1].copy \/ IsCopyLiteral(e))
      /\ d.scopes[1].vars[1].st = i.scopes[1].vars[1].st
      /\ \A j \in 1 .. Len(i.scopes), m \in Name : View(d, TRUE, j, m) = View(i, TRUE, j, m)
  <2>1. IsCopyIf(i, IsCopyLiteral(e), d)
    BY <1>2, <1>3, CopyIfDoes
  <2>2. QED BY <2>1 DEF IsCopyIf
<1>5. Alarmed(d) <=> Alarmed(a)
  BY <1>3, <1>4 DEF Alarmed
<1>6. \A j, m : View(a, TRUE, j, m) = View(c, TRUE, j, m)
  BY <1>1 DEF View, Bound
<1>7. QED
  BY <1>1, <1>3, <1>4, <1>5, <1>6 DEF IsFinishOther

-----------------------------------------------------------------------------
(* The invariant, one piece of the text at a time. *)

LEMMA HomeView ==
  ASSUME NEW c \in Context, NEW open \in BOOLEAN, c.scopes # << >>, open => c.scopes[1].vars # << >>,
         NEW n \in Name, ~Hidden(c, open, n), Home(c, n) # 0
  PROVE  /\ Home(c, n) \in 1 .. Len(c.scopes)
         /\ Lookup(c, n).st \in State
         /\ View(c, open, Home(c, n), n).st = Lookup(c, n).st
         /\ View(c, open, Home(c, n), n).copy = Lookup(c, n).copy
<1>1. /\ Home(c, n) \in 1 .. Len(c.scopes) /\ Lookup(c, n) \in Var
      /\ Lookup(c, n).st = Seen(c.scopes[Home(c, n)].vars, n).st
      /\ Lookup(c, n).copy = Seen(c.scopes[Home(c, n)].vars, n).copy
  BY Known
<1>2. View(c, open, Home(c, n), n) = Seen(c.scopes[Home(c, n)].vars, n)
  BY <1>1, ViewIsSeen
<1>3. QED
  BY <1>1, <1>2 DEF Var

\* The run and the checker find a name in the same scope.
LEMMA Meeting ==
  ASSUME NEW open, Aligned(ctx, owned, 0, open), NEW n \in Name, ~Hidden(ctx, open, n)
  PROVE  Home(ctx, n) = Holder(n)
<1>1. /\ ctx \in Context /\ owned \in Seq(Frame) /\ Len(ctx.scopes) = Len(owned) /\ open \in BOOLEAN
      /\ ctx.scopes # << >> /\ (open => ctx.scopes[1].vars # << >>)
  BY DEF Aligned
<1>2. ASSUME NEW i \in 1 .. Len(owned)
      PROVE  owned[i][n] = "none" <=> Seen(ctx.scopes[i].vars, n).st = "none"
  <2>1. i + 0 = i
    OBVIOUS
  <2>2. Matches(owned[i][n], View(ctx, open, i, n))
    BY <2>1 DEF Aligned
  <2>3. View(ctx, open, i, n) = Seen(ctx.scopes[i].vars, n)
    BY <1>1, ViewIsSeen
  <2>4. QED BY <2>2, <2>3 DEF Matches
<1>3. QED
  BY <1>1, <1>2, HomeIsHolder

\* Reading a name leaves the scopes aligned.
LEMMA ReadAligned ==
  ASSUME NEW c, NEW own, NEW k, NEW open, Aligned(c, own, k, open),
         NEW n \in Name, NEW moves \in BOOLEAN, NEW d, IsReading(c, n, open, moves, d),
         KeepsLet(c, n, open, d) \/ d.scopes[1].vars # << >>
  PROVE  /\ Aligned(d, own, k, open)
         /\ \A i \in 1 .. Len(own), m \in Name :
              /\ i + k \in 1 .. Len(c.scopes)
              /\ View(d, open, i + k, m) =
                   IF moves /\ Moves(c, n) /\ i + k = Home(c, n) /\ m = n /\ ~Hidden(c, open, n)
                   THEN Marked(View(c, open, i + k, m)) ELSE View(c, open, i + k, m)
<1>1. /\ c \in Context /\ own \in Seq(Frame) /\ k \in Nat /\ open \in BOOLEAN /\ Len(own) \in Nat
      /\ c.scopes # << >> /\ (open => c.scopes[1].vars # << >>) /\ Len(c.scopes) = Len(own) + k
  BY DEF Aligned
<1>2. d \in Context /\ Len(d.scopes) = Len(c.scopes)
  BY DEF IsReading
<1>3. d.scopes # << >>
  <2>1. d.scopes \in Seq(Scope) /\ c.scopes \in Seq(Scope)
    BY <1>1, <1>2 DEF Context
  <2>2. QED BY <1>1, <1>2, <2>1
<1>4. open => d.scopes[1].vars # << >>
  BY DEF KeepsLet
<1>5. ASSUME NEW i \in 1 .. Len(own), NEW m \in Name
      PROVE  /\ i + k \in 1 .. Len(c.scopes)
             /\ View(d, open, i + k, m) =
                  IF moves /\ Moves(c, n) /\ i + k = Home(c, n) /\ m = n /\ ~Hidden(c, open, n)
                  THEN Marked(View(c, open, i + k, m)) ELSE View(c, open, i + k, m)
             /\ Matches(own[i][m], View(d, open, i + k, m))
  <2>1. i + k \in 1 .. Len(c.scopes)
    BY <1>1
  <2>2. View(d, open, i + k, m) =
          IF moves /\ Moves(c, n) /\ i + k = Home(c, n) /\ m = n /\ ~Hidden(c, open, n)
          THEN Marked(View(c, open, i + k, m)) ELSE View(c, open, i + k, m)
    BY <2>1 DEF IsReading
  <2>3. Matches(own[i][m], View(c, open, i + k, m))
    BY DEF Aligned
  <2>4. CASE moves /\ Moves(c, n) /\ i + k = Home(c, n) /\ m = n /\ ~Hidden(c, open, n)
    <3>1. Home(c, n) # 0
      BY <2>4 DEF Moves
    <3>2. Lookup(c, n).st \in State /\ View(c, open, i + k, m).st = Lookup(c, n).st
      BY <1>1, <2>4, <3>1, HomeView
    <3>3. View(c, open, i + k, m).st # "none"
      BY <3>2 DEF State
    <3>4. QED BY <2>1, <2>2, <2>3, <2>4, <3>3 DEF Matches, Marked
  <2>5. CASE ~(moves /\ Moves(c, n) /\ i + k = Home(c, n) /\ m = n /\ ~Hidden(c, open, n))
    BY <2>1, <2>2, <2>3, <2>5
  <2>6. QED BY <2>4, <2>5
<1>6. Aligned(d, own, k, open)
  BY <1>1, <1>2, <1>3, <1>4, <1>5 DEF Aligned
<1>7. QED
  BY <1>5, <1>6

\* What the checker reads and the run does not.
LEMMA ReadFits ==
  ASSUME NEW c, NEW own, NEW k, NEW open, NEW ms, NEW ex, Fits(c, own, k, open, ms, ex),
         NEW n \in Name, NEW moves \in BOOLEAN, NEW d, IsReading(c, n, open, moves, d),
         KeepsLet(c, n, open, d) \/ d.scopes[1].vars # << >>
  PROVE  Fits(d, own, k, open, ms, FALSE)
<1>1. Aligned(c, own, k, open)
  BY DEF Fits
<1>2. /\ Aligned(d, own, k, open)
      /\ \A i \in 1 .. Len(own), m \in Name :
           \/ View(d, open, i + k, m) = Marked(View(c, open, i + k, m))
           \/ View(d, open, i + k, m) = View(c, open, i + k, m)
  BY <1>1, ReadAligned
<1>3. Silent(d, own, k, open, ms)
  <2>1. SUFFICES ASSUME d.diags = << >> PROVE ~ms /\ Covers(d, own, k, open)
    BY DEF Silent
  <2>2. c.diags = << >>
    BY <2>1 DEF IsReading
  <2>3. ~ms /\ Covers(c, own, k, open)
    BY <2>2 DEF Fits, Silent
  <2>4. ASSUME NEW i \in 1 .. Len(own), NEW m \in Name, own[i][m] = "gone"
        PROVE  View(d, open, i + k, m).st = "moved"
    <3>1. View(c, open, i + k, m).st = "moved"
      BY <2>3, <2>4 DEF Covers
    <3>2. Marked(View(c, open, i + k, m)).st = "moved"
      BY DEF Marked
    <3>3. QED BY <3>1, <3>2, <1>2
  <2>5. QED BY <2>3, <2>4 DEF Covers
<1>4. QED
  BY <1>2, <1>3 DEF Fits, Real

LEMMA HeadFound ==
  ASSUME NEW c \in Context, c.scopes # << >>, c.scopes[1].vars # << >>,
         NEW n \in Name, c.scopes[1].vars[1].name = n
  PROVE  Home(c, n) # 0 /\ Lookup(c, n).st = c.scopes[1].vars[1].st
<1>1. 1 \in 1 .. Len(c.scopes)
  BY DEF Context
<1>2. c.scopes[1].vars \in Seq(Var)
  BY NewestIs
<1>3. Place(c.scopes[1].vars, n) = 1
  BY <1>2, SeenHead
<1>4. Home(c, n) # 0 /\ Home(c, n) <= 1 /\ Home(c, n) \in 1 .. Len(c.scopes)
  BY <1>1, <1>3, HomeIs
<1>5. Home(c, n) = 1
  BY <1>4
<1>6. QED
  BY <1>3, <1>5 DEF Lookup

\* What becomes of the scopes of the run when it passes a name on.
LEMMA PassedIs ==
  ASSUME owned \in Seq(Frame), NEW n \in Name
  PROVE  /\ Passed(n) \in Seq(Frame) /\ Len(Passed(n)) = Len(owned)
         /\ \A i \in 1 .. Len(owned), m \in Name :
              Passed(n)[i][m] = IF ctx.scopes[1].safe /\ i = Holder(n) /\ m = n /\ owned[i][m] = "held"
                                THEN "gone" ELSE owned[i][m]
<1> DEFINE h == Holder(n)
<1>1. CASE ctx.scopes[1].safe /\ Standing(n) = "held"
  <2>1. h \in 1 .. Len(owned) /\ owned[h] \in Frame /\ owned[h][n] = "held"
    <3>1. h # 0 /\ owned[h][n] = "held"
      BY <1>1 DEF Standing
    <3>2. h \in 1 .. Len(owned)
      BY <3>1, HolderIs
    <3>3. QED BY <3>1, <3>2
  <2>2. Passed(n) = [owned EXCEPT ![h][n] = "gone"]
    BY <1>1 DEF Passed, Mark
  <2> HIDE DEF h
  <2> DEFINE f == [owned[h] EXCEPT ![n] = "gone"]
  <2>3. f \in Frame /\ \A m \in Name : f[m] = IF m = n THEN "gone" ELSE owned[h][m]
    BY <2>1 DEF Frame
  <2>4. Passed(n) = [owned EXCEPT ![h] = f]
    BY <2>2
  <2> HIDE DEF f
  <2>5. /\ Passed(n) \in Seq(Frame) /\ Len(Passed(n)) = Len(owned)
        /\ \A i \in 1 .. Len(owned) : Passed(n)[i] = IF i = h THEN f ELSE owned[i]
    BY <2>1, <2>3, <2>4
  <2>6. QED BY <1>1, <2>1, <2>3, <2>5 DEF h
<1>2. CASE ~(ctx.scopes[1].safe /\ Standing(n) = "held")
  <2>1. Passed(n) = owned
    BY <1>2 DEF Passed
  <2>2. ASSUME ctx.scopes[1].safe, NEW i \in 1 .. Len(owned), i = h, owned[i][n] = "held" PROVE FALSE
    BY <1>2, <2>2 DEF Standing
  <2>3. QED BY <2>1, <2>2
<1>3. QED
  BY <1>1, <1>2

\* What both do: the run is where the checker is.
LEMMA RunFits ==
  ASSUME IInv, Here, NEW n \in Name, NEW moves \in BOOLEAN, NEW d,
         IsReading(ctx, n, Letting, moves, d), KeepsLet(ctx, n, Letting, d) \/ d.scopes[1].vars # << >>,
         NEW own, own = IF moves THEN Passed(n) ELSE owned
  PROVE  Fits(d, own, 0, Letting, misused \/ Standing(n) = "gone", exact /\ ~Own(n))
<1> DEFINE open == Letting
           h == Holder(n)
           ms == misused \/ Standing(n) = "gone"
           ex == exact /\ ~Own(n)
<1>1. /\ Aligned(ctx, owned, 0, open) /\ Silent(ctx, owned, 0, open, misused)
      /\ Real(ctx, owned, 0, open, misused, exact)
  BY DEF IInv, Fits, Here
<1>2. /\ ctx \in Context /\ owned \in Seq(Frame) /\ Len(ctx.scopes) = Len(owned) /\ open \in BOOLEAN
      /\ Len(owned) \in Nat /\ ctx.scopes # << >> /\ (open => ctx.scopes[1].vars # << >>)
  BY <1>1 DEF Aligned
<1>3. Hidden(ctx, open, n) <=> Own(n)
  BY DEF IInv, LetOK, Hidden, Own, Letting
<1>4. /\ Aligned(d, owned, 0, open)
      /\ \A i \in 1 .. Len(owned), m \in Name :
           View(d, open, i + 0, m) =
             IF moves /\ Moves(ctx, n) /\ i + 0 = Home(ctx, n) /\ m = n /\ ~Hidden(ctx, open, n)
             THEN Marked(View(ctx, open, i + 0, m)) ELSE View(ctx, open, i + 0, m)
  BY <1>1, ReadAligned
<1>5. /\ own \in Seq(Frame) /\ Len(own) = Len(owned)
      /\ \A i \in 1 .. Len(owned), m \in Name :
           own[i][m] = IF moves /\ ctx.scopes[1].safe /\ i = h /\ m = n /\ owned[i][m] = "held"
                       THEN "gone" ELSE owned[i][m]
  <2>1. CASE moves
    BY <2>1, <1>2, PassedIs
  <2>2. CASE ~moves
    BY <2>2, <1>2
  <2>3. QED BY <2>1, <2>2
<1> HIDE DEF open, h
<1>6. Aligned(d, own, 0, open)
  <2>1. ASSUME NEW i \in 1 .. Len(own), NEW m \in Name PROVE Matches(own[i][m], View(d, open, i + 0, m))
    <3>1. Matches(owned[i][m], View(d, open, i + 0, m))
      BY <1>4, <1>5 DEF Aligned
    <3>2. own[i][m] = owned[i][m] \/ (own[i][m] = "gone" /\ owned[i][m] = "held")
      BY <1>5
    <3>3. QED BY <3>1, <3>2 DEF Matches
  <2>2. QED BY <2>1, <1>4, <1>5 DEF Aligned
\* What the two know of the name.
<1>7. ASSUME ~Own(n)
      PROVE  /\ Home(ctx, n) = h /\ ~Hidden(ctx, open, n)
             /\ h # 0 => /\ h \in 1 .. Len(owned) /\ h + 0 = h
                         /\ Standing(n) = owned[h][n]
                         /\ Lookup(ctx, n).st \in State
                         /\ View(ctx, open, h + 0, n).st = Lookup(ctx, n).st
                         /\ View(ctx, open, h + 0, n).copy = Lookup(ctx, n).copy
                         /\ Matches(owned[h][n], View(ctx, open, h + 0, n))
             /\ h = 0 => Standing(n) = "none"
  <2>1. Home(ctx, n) = h /\ ~Hidden(ctx, open, n)
    BY <1>1, <1>3, <1>7, Meeting DEF h
  <2>2. h = 0 => Standing(n) = "none"
    BY DEF h, Standing
  <2>3. ASSUME h # 0
        PROVE  /\ h \in 1 .. Len(owned) /\ h + 0 = h
               /\ Standing(n) = owned[h][n]
               /\ Lookup(ctx, n).st \in State
               /\ View(ctx, open, h + 0, n).st = Lookup(ctx, n).st
               /\ View(ctx, open, h + 0, n).copy = Lookup(ctx, n).copy
               /\ Matches(owned[h][n], View(ctx, open, h + 0, n))
    <3>1. h \in 1 .. Len(owned) /\ h + 0 = h /\ Standing(n) = owned[h][n]
      BY <2>3, <1>2, HolderIs DEF h, Standing
    <3>2. /\ Lookup(ctx, n).st \in State
          /\ View(ctx, open, h, n).st = Lookup(ctx, n).st
          /\ View(ctx, open, h, n).copy = Lookup(ctx, n).copy
      BY <2>1, <2>3, <1>2, HomeView
    <3>3. Matches(owned[h][n], View(ctx, open, h + 0, n))
      BY <3>1, <1>1 DEF Aligned
    <3>4. QED BY <3>1, <3>2, <3>3
  <2>4. QED BY <2>1, <2>2, <2>3
<1>8. Silent(d, own, 0, open, ms)
  <2>1. SUFFICES ASSUME d.diags = << >> PROVE ~ms /\ Covers(d, own, 0, open)
    BY DEF Silent
  <2>2. ctx.diags = << >> /\ (Home(ctx, n) # 0 => Lookup(ctx, n).st = "owned")
    BY <2>1 DEF IsReading, open
  <2>3. ~misused /\ Covers(ctx, owned, 0, open)
    BY <2>2, <1>1 DEF Silent
  <2>4. ~Own(n)
    <3>1. SUFFICES ASSUME Own(n) PROVE FALSE
      OBVIOUS
    <3>2. open /\ ctx.scopes[1].vars[1].name = n /\ ctx.scopes[1].vars[1].st = "uninit"
      BY <3>1, <1>3, <2>2 DEF Hidden, IInv, LetOK, open, Own, Letting
    <3>3. Home(ctx, n) # 0 /\ Lookup(ctx, n).st = "uninit"
      BY <3>2, <1>2, HeadFound
    <3>4. QED BY <3>3, <2>2
  <2>5. Standing(n) # "gone"
    <3>1. SUFFICES ASSUME Standing(n) = "gone" PROVE FALSE
      OBVIOUS
    <3>2. h # 0 /\ owned[h][n] = "gone"
      BY <3>1, <2>4, <1>7
    <3>3. View(ctx, open, h + 0, n).st = "moved"
      BY <3>2, <2>3, <2>4, <1>7 DEF Covers
    <3>4. QED BY <3>2, <3>3, <2>2, <2>4, <1>7
  <2>6. ASSUME NEW i \in 1 .. Len(own), NEW m \in Name, own[i][m] = "gone"
        PROVE  View(d, open, i + 0, m).st = "moved"
    <3>1. Marked(View(ctx, open, i + 0, m)).st = "moved"
      BY DEF Marked
    <3>2. CASE owned[i][m] = "gone"
      <4>1. View(ctx, open, i + 0, m).st = "moved"
        BY <3>2, <2>3, <1>5 DEF Covers
      <4>2. QED BY <4>1, <3>1, <1>4, <1>5
    <3>3. CASE owned[i][m] # "gone"
      <4>1. moves /\ ctx.scopes[1].safe /\ i = h /\ m = n /\ owned[i][m] = "held"
        BY <3>3, <2>6, <1>5
      <4>2. h # 0
        BY <4>1, <1>5, <1>2
      <4>3. Lookup(ctx, n).st = "owned" /\ Lookup(ctx, n).copy = FALSE
        <5>1. Lookup(ctx, n).copy = View(ctx, open, h + 0, n).copy
          BY <4>2, <2>4, <1>7
        <5>2. ~View(ctx, open, h + 0, n).copy
          BY <4>1, <4>2, <2>4, <1>7 DEF Matches
        <5>3. View(ctx, open, h + 0, n).copy \in BOOLEAN
          BY <4>2, <2>4, <1>2, <1>7, ViewIsSeen DEF Sight
        <5>4. QED BY <5>1, <5>2, <5>3, <2>2, <2>4, <1>7, <4>2
      <4>4. Moves(ctx, n)
        BY <4>1, <4>2, <4>3, <2>4, <1>7 DEF Moves
      <4>5. QED BY <4>1, <4>2, <4>4, <3>1, <2>4, <1>4, <1>5, <1>7
    <3>4. QED BY <3>2, <3>3
  <2>7. QED BY <2>3, <2>5, <2>6 DEF Covers
<1>9. Real(d, own, 0, open, ms, ex)
  <2>1. SUFFICES ASSUME exact, ~Own(n), ~misused, Standing(n) # "gone"
                 PROVE  ~Alarmed(d) /\ Reflects(d, own, 0, open)
    BY DEF Real
  <2>2. ~Alarmed(ctx) /\ Reflects(ctx, owned, 0, open)
    BY <2>1, <1>1 DEF Real
  <2>3. ~Alarmed(d)
    <3>1. SUFFICES ASSUME Alarmed(d) PROVE FALSE
      OBVIOUS
    <3>2. Home(ctx, n) # 0 /\ Lookup(ctx, n).st = "moved"
      BY <3>1, <2>1, <2>2, <1>7 DEF IsReading, open
    <3>3. View(ctx, open, h + 0, n).st = "moved" /\ h \in 1 .. Len(owned) /\ Standing(n) = owned[h][n]
      BY <3>2, <2>1, <1>7
    <3>4. owned[h][n] = "gone"
      BY <3>3, <2>2 DEF Reflects
    <3>5. QED BY <3>3, <3>4, <2>1
  <2>4. ASSUME NEW i \in 1 .. Len(own), NEW m \in Name, View(d, open, i + 0, m).st = "moved"
        PROVE  own[i][m] = "gone"
    <3>1. CASE View(ctx, open, i + 0, m).st = "moved"
      <4>1. owned[i][m] = "gone"
        BY <3>1, <2>2, <1>5 DEF Reflects
      <4>2. QED BY <4>1, <1>5
    <3>2. CASE View(ctx, open, i + 0, m).st # "moved"
      <4>1. moves /\ Moves(ctx, n) /\ i + 0 = Home(ctx, n) /\ m = n
        BY <3>2, <2>4, <1>4, <1>5
      <4>2. i = h /\ h # 0 /\ ctx.scopes[1].safe /\ ~Lookup(ctx, n).copy
        BY <4>1, <2>1, <1>2, <1>5, <1>7 DEF Moves
      <4>3. owned[h][n] # "none" /\ owned[h][n] # "copied"
        BY <4>2, <2>1, <1>7 DEF Matches, State
      <4>4. owned[h][n] \in {"none", "held", "copied", "gone"}
        <5>1. owned[h] \in Frame
          BY <4>2, <2>1, <1>2, <1>7
        <5>2. QED BY <5>1 DEF Frame
      <4>5. QED BY <4>1, <4>2, <4>3, <4>4, <1>5
    <3>3. QED BY <3>1, <3>2
  <2>5. QED BY <2>3, <2>4 DEF Reflects
<1>10. QED
  BY <1>6, <1>8, <1>9 DEF Fits, open

\* A context in which the run sees what it saw, and of which as much was reported.
LEMMA QuietFits ==
  ASSUME NEW c, NEW own, NEW k, NEW open, NEW ms, NEW ex, Fits(c, own, k, open, ms, ex),
         NEW d \in Context, NEW still \in BOOLEAN, Len(d.scopes) = Len(c.scopes), d.scopes # << >>,
         still => d.scopes[1].vars # << >>,
         d.diags = << >> => c.diags = << >>, Alarmed(d) => Alarmed(c),
         \A i \in 1 .. Len(own), m \in Name : View(d, still, i + k, m) = View(c, open, i + k, m)
  PROVE  Fits(d, own, k, still, ms, ex)
<1>1. Aligned(d, own, k, still)
  BY DEF Fits, Aligned
<1>2. Silent(d, own, k, still, ms)
  BY DEF Fits, Silent, Covers
<1>3. Real(d, own, k, still, ms, ex)
  BY DEF Fits, Real, Reflects
<1>4. QED
  BY <1>1, <1>2, <1>3 DEF Fits

\* What is aligned.
LEMMA AlignedIs ==
  ASSUME NEW c, NEW own, NEW k, NEW open, NEW ms, NEW ex, Fits(c, own, k, open, ms, ex)
  PROVE  /\ c \in Context /\ own \in Seq(Frame) /\ Len(own) \in Nat /\ k \in Nat /\ open \in BOOLEAN
         /\ Len(c.scopes) = Len(own) + k
         /\ c.scopes # << >> /\ (open => c.scopes[1].vars # << >>)
         /\ \A i \in 1 .. Len(own), m \in Name : Matches(own[i][m], View(c, open, i + k, m))
<1>1. Aligned(c, own, k, open)
  BY DEF Fits
<1>2. /\ c \in Context /\ own \in Seq(Frame) /\ k \in Nat /\ open \in BOOLEAN
      /\ Len(c.scopes) = Len(own) + k
      /\ c.scopes # << >> /\ (open => c.scopes[1].vars # << >>)
      /\ \A i \in 1 .. Len(own), m \in Name : Matches(own[i][m], View(c, open, i + k, m))
  BY <1>1 DEF Aligned
<1>3. Len(own) \in Nat
  BY <1>2
<1>4. QED
  BY <1>2, <1>3

\* And where the run is.
LEMMA AlignedHere ==
  ASSUME NEW c, NEW own, NEW open, NEW ms, NEW ex, Fits(c, own, 0, open, ms, ex)
  PROVE  /\ c \in Context /\ own \in Seq(Frame) /\ Len(own) \in Nat /\ Len(c.scopes) = Len(own)
         /\ c.scopes # << >> /\ (open => c.scopes[1].vars # << >>)
         /\ \A i \in 1 .. Len(own), m \in Name : Matches(own[i][m], View(c, open, i + 0, m))
<1>1. Aligned(c, own, 0, open)
  BY DEF Fits
<1>2. /\ c \in Context /\ own \in Seq(Frame) /\ Len(c.scopes) = Len(own) + 0
      /\ c.scopes # << >> /\ (open => c.scopes[1].vars # << >>)
      /\ \A i \in 1 .. Len(own), m \in Name : Matches(own[i][m], View(c, open, i + 0, m))
  BY <1>1 DEF Aligned
<1>3. Len(own) \in Nat /\ Len(own) + 0 = Len(own)
  BY <1>2
<1>4. QED
  BY <1>2, <1>3

\* A let begins.
LEMMA OpenFits ==
  ASSUME NEW c, NEW own, NEW k, NEW ms, NEW ex, Fits(c, own, k, FALSE, ms, ex),
         NEW n, NEW st, NEW copy, NEW d, IsDeclare(c, n, st, copy, d)
  PROVE  Fits(d, own, k, TRUE, ms, ex)
<1>1. /\ c \in Context /\ k \in Nat /\ Len(own) \in Nat /\ Len(c.scopes) = Len(own) + k
  BY AlignedIs
<1>2. /\ d \in Context /\ d.diags = c.diags /\ Len(d.scopes) = Len(c.scopes) /\ d.scopes # << >>
      /\ d.scopes[1].vars # << >>
      /\ \A j \in 1 .. Len(c.scopes), m \in Name : View(d, TRUE, j, m) = View(c, FALSE, j, m)
  BY DEF IsDeclare
<1>3. Alarmed(d) => Alarmed(c)
  BY <1>2 DEF Alarmed
<1>4. \A i \in 1 .. Len(own), m \in Name : View(d, TRUE, i + k, m) = View(c, FALSE, i + k, m)
  <2>1. \A i \in 1 .. Len(own) : i + k \in 1 .. Len(c.scopes)
    BY <1>1
  <2>2. QED BY <1>2, <2>1
<1>5. QED
  BY <1>2, <1>3, <1>4, QuietFits

\* It ends where the run is not.
LEMMA CloseAway ==
  ASSUME NEW c, NEW own, NEW k, NEW ms, NEW ex, Fits(c, own, k, TRUE, ms, ex), k # 0
  PROVE  Fits(c, own, k, FALSE, ms, ex)
<1>1. /\ c \in Context /\ k \in Nat /\ Len(own) \in Nat /\ c.scopes # << >>
  BY AlignedIs
<1>2. \A i \in 1 .. Len(own), m \in Name : View(c, FALSE, i + k, m) = View(c, TRUE, i + k, m)
  <2>1. \A i \in 1 .. Len(own) : i + k # 1
    BY <1>1
  <2>2. QED BY <2>1 DEF View, Bound
<1>3. QED
  BY <1>1, <1>2, QuietFits

\* It ends where the run is: both have a variable more.
LEMMA CloseFits ==
  ASSUME NEW c, NEW own, NEW ms, NEW ex, Fits(c, own, 0, TRUE, ms, ex),
         NEW n \in Name, c.scopes[1].vars[1].name = n,
         NEW copy \in BOOLEAN, c.scopes[1].vars[1].copy = copy,
         ex /\ ~ms => c.scopes[1].vars[1].st # "moved"
  PROVE  Fits(c, Bind(own, n, copy), 0, FALSE, ms, ex)
<1> DEFINE v == c.scopes[1].vars[1]
           f == IF copy THEN "copied" ELSE "held"
           new == Bind(own, n, copy)
<1>1. /\ c \in Context /\ own \in Seq(Frame) /\ Len(own) \in Nat /\ c.scopes # << >>
      /\ c.scopes[1].vars # << >> /\ Len(c.scopes) = Len(own)
      /\ \A i \in 1 .. Len(own), m \in Name : Matches(own[i][m], View(c, TRUE, i + 0, m))
  BY AlignedHere
<1>2. v \in Var
  BY <1>1, NewestIs
<1>3. 1 \in 1 .. Len(own) /\ own[1] \in Frame
  <2>1. c.scopes \in Seq(Scope)
    BY <1>1 DEF Context
  <2>2. 1 \in 1 .. Len(own)
    BY <1>1, <2>1
  <2>3. QED BY <1>1, <2>2
<1>4. /\ new \in Seq(Frame) /\ Len(new) = Len(own)
      /\ \A i \in 1 .. Len(own), m \in Name : new[i][m] = IF i = 1 /\ m = n THEN f ELSE own[i][m]
  <2> DEFINE g == [own[1] EXCEPT ![n] = f]
  <2>1. g \in Frame /\ \A m \in Name : g[m] = IF m = n THEN f ELSE own[1][m]
    BY <1>3 DEF Frame
  <2>2. new = [own EXCEPT ![1] = g]
    BY DEF Bind
  <2> HIDE DEF g, f
  <2>3. new \in Seq(Frame) /\ Len(new) = Len(own) /\ \A i \in 1 .. Len(own) : new[i] = IF i = 1 THEN g ELSE own[i]
    BY <1>1, <1>3, <2>1, <2>2
  <2>4. QED BY <2>1, <2>3
<1> HIDE DEF new, f
<1>5. ASSUME NEW i \in 1 .. Len(own), NEW m \in Name
      PROVE  IF i = 1 /\ m = n
             THEN View(c, FALSE, i + 0, m).st = v.st /\ View(c, FALSE, i + 0, m).copy = v.copy
             ELSE View(c, FALSE, i + 0, m) = View(c, TRUE, i + 0, m)
  <2>1. i + 0 = i /\ i \in 1 .. Len(c.scopes)
    BY <1>1
  <2>2. IF i = 1 /\ v.name = m
        THEN View(c, FALSE, i, m).st = v.st /\ View(c, FALSE, i, m).copy = v.copy
        ELSE View(c, FALSE, i, m) = View(c, TRUE, i, m)
    BY <1>1, <2>1, CloseLet
  <2>3. QED BY <2>1, <2>2
<1>6. v.st \in State /\ v.copy = copy
  BY <1>2 DEF Var
<1> HIDE DEF v
<1>7. ASSUME NEW i \in 1 .. Len(own), NEW m \in Name
      PROVE  /\ Matches(new[i][m], View(c, FALSE, i + 0, m))
             /\ i = 1 /\ m = n => new[i][m] # "gone" /\ View(c, FALSE, i + 0, m).st = v.st
             /\ ~(i = 1 /\ m = n) => /\ new[i][m] = own[i][m]
                                     /\ View(c, FALSE, i + 0, m) = View(c, TRUE, i + 0, m)
  <2>1. CASE i = 1 /\ m = n
    <3>1. /\ new[i][m] = f /\ View(c, FALSE, i + 0, m).st = v.st
          /\ View(c, FALSE, i + 0, m).copy = v.copy
      BY <2>1, <1>4, <1>5
    <3>2. v.st # "none" /\ f # "none" /\ f # "gone" /\ (f = "copied" <=> copy)
      BY <1>6 DEF State, f
    <3>3. QED BY <2>1, <3>1, <3>2, <1>6 DEF Matches
  <2>2. CASE ~(i = 1 /\ m = n)
    <3>1. new[i][m] = own[i][m] /\ View(c, FALSE, i + 0, m) = View(c, TRUE, i + 0, m)
      BY <2>2, <1>4, <1>5
    <3>2. Matches(own[i][m], View(c, TRUE, i + 0, m))
      BY <1>1
    <3>3. QED BY <2>2, <3>1, <3>2
  <2>3. QED BY <2>1, <2>2
<1>8. Aligned(c, new, 0, FALSE)
  <2>1. \A i \in 1 .. Len(new), m \in Name : Matches(new[i][m], View(c, FALSE, i + 0, m))
    BY <1>4, <1>7
  <2>2. Len(c.scopes) = Len(new) + 0
    BY <1>1, <1>4
  <2>3. QED BY <2>1, <2>2, <1>1, <1>4 DEF Aligned
<1>9. Silent(c, new, 0, FALSE, ms)
  <2>1. SUFFICES ASSUME c.diags = << >> PROVE ~ms /\ Covers(c, new, 0, FALSE)
    BY DEF Silent
  <2>2. ~ms /\ Covers(c, own, 0, TRUE)
    BY <2>1 DEF Fits, Silent
  <2>3. ASSUME NEW i \in 1 .. Len(new), NEW m \in Name, new[i][m] = "gone"
        PROVE  View(c, FALSE, i + 0, m).st = "moved"
    <3>1. i \in 1 .. Len(own)
      BY <1>4
    <3>2. own[i][m] = "gone" /\ View(c, FALSE, i + 0, m) = View(c, TRUE, i + 0, m)
      BY <2>3, <3>1, <1>7
    <3>3. QED BY <3>1, <3>2, <2>2 DEF Covers
  <2>4. QED BY <2>2, <2>3 DEF Covers
<1>10. Real(c, new, 0, FALSE, ms, ex)
  <2>1. SUFFICES ASSUME ex, ~ms PROVE ~Alarmed(c) /\ Reflects(c, new, 0, FALSE)
    BY DEF Real
  <2>2. ~Alarmed(c) /\ Reflects(c, own, 0, TRUE) /\ v.st # "moved"
    BY <2>1 DEF Fits, Real, v
  <2>3. ASSUME NEW i \in 1 .. Len(new), NEW m \in Name, View(c, FALSE, i + 0, m).st = "moved"
        PROVE  new[i][m] = "gone"
    <3>1. i \in 1 .. Len(own)
      BY <1>4
    <3>2. new[i][m] = own[i][m] /\ View(c, FALSE, i + 0, m) = View(c, TRUE, i + 0, m)
      BY <2>2, <2>3, <3>1, <1>7
    <3>3. QED BY <2>2, <2>3, <3>1, <3>2 DEF Reflects
  <2>4. QED BY <2>2, <2>3 DEF Reflects
<1>11. QED
  BY <1>8, <1>9, <1>10 DEF Fits, new

\* Both enter a scope.
LEMMA PushFits ==
  ASSUME NEW c, NEW own, NEW ms, NEW ex, Fits(c, own, 0, FALSE, ms, ex), NEW d, IsPush(c, d)
  PROVE  Fits(d, <<NoNames>> \o own, 0, FALSE, ms, ex)
<1> DEFINE new == <<NoNames>> \o own
<1>1. /\ c \in Context /\ own \in Seq(Frame) /\ Len(own) \in Nat /\ Len(c.scopes) = Len(own)
      /\ \A i \in 1 .. Len(own), m \in Name : Matches(own[i][m], View(c, FALSE, i + 0, m))
  BY AlignedHere
<1>2. NoNames \in Frame /\ \A m \in Name : NoNames[m] = "none"
  BY DEF NoNames, Frame
<1>3. /\ new \in Seq(Frame) /\ Len(new) = Len(own) + 1 /\ new[1] = NoNames
      /\ \A i \in 1 .. Len(own) : new[i + 1] = own[i]
  BY <1>1, <1>2
<1> HIDE DEF new
<1>4. /\ d \in Context /\ d.diags = c.diags /\ Len(d.scopes) = Len(new) /\ d.scopes # << >>
      /\ \A m \in Name : View(d, FALSE, 1, m).st = "none" /\ ~View(d, FALSE, 1, m).copy
      /\ \A j \in 1 .. Len(own), m \in Name : View(d, FALSE, j + 1, m) = View(c, FALSE, j, m)
  BY <1>1, <1>3 DEF IsPush
\* A scope of the new ones is the innermost, or one of the old.
<1>5. ASSUME NEW i \in 1 .. Len(new), NEW m \in Name
      PROVE  \/ new[i][m] = "none" /\ View(d, FALSE, i + 0, m).st = "none" /\ ~View(d, FALSE, i + 0, m).copy
             \/ /\ i - 1 \in 1 .. Len(own) /\ new[i][m] = own[i - 1][m]
                /\ View(d, FALSE, i + 0, m) = View(c, FALSE, (i - 1) + 0, m)
  <2>1. CASE i = 1
    <3>1. i + 0 = 1
      BY <2>1
    <3>2. QED BY <2>1, <3>1, <1>2, <1>3, <1>4
  <2>2. CASE i # 1
    <3>1. i - 1 \in 1 .. Len(own) /\ (i - 1) + 1 = i /\ i + 0 = i /\ (i - 1) + 0 = i - 1
      BY <2>2, <1>1, <1>3
    <3>2. new[(i - 1) + 1] = own[i - 1] /\ View(d, FALSE, (i - 1) + 1, m) = View(c, FALSE, i - 1, m)
      BY <3>1, <1>3, <1>4
    <3>3. QED BY <3>1, <3>2
  <2>3. QED BY <2>1, <2>2
<1>6. ASSUME NEW i \in 1 .. Len(new), NEW m \in Name
      PROVE  /\ Matches(new[i][m], View(d, FALSE, i + 0, m))
             /\ Covers(c, own, 0, FALSE) /\ new[i][m] = "gone" => View(d, FALSE, i + 0, m).st = "moved"
             /\ Reflects(c, own, 0, FALSE) /\ View(d, FALSE, i + 0, m).st = "moved" => new[i][m] = "gone"
  <2>1. CASE new[i][m] = "none" /\ View(d, FALSE, i + 0, m).st = "none" /\ ~View(d, FALSE, i + 0, m).copy
    BY <2>1 DEF Matches
  <2>2. CASE /\ i - 1 \in 1 .. Len(own) /\ new[i][m] = own[i - 1][m]
             /\ View(d, FALSE, i + 0, m) = View(c, FALSE, (i - 1) + 0, m)
    <3>1. Matches(own[i - 1][m], View(c, FALSE, (i - 1) + 0, m))
      BY <2>2, <1>1
    <3>2. /\ Covers(c, own, 0, FALSE) /\ own[i - 1][m] = "gone" => View(c, FALSE, (i - 1) + 0, m).st = "moved"
          /\ Reflects(c, own, 0, FALSE) /\ View(c, FALSE, (i - 1) + 0, m).st = "moved" => own[i - 1][m] = "gone"
      BY <2>2 DEF Covers, Reflects
    <3>3. QED BY <2>2, <3>1, <3>2
  <2>3. QED BY <2>1, <2>2, <1>5
<1>7. Aligned(d, new, 0, FALSE)
  <2>1. Len(d.scopes) = Len(new) + 0
    BY <1>1, <1>3, <1>4
  <2>2. QED BY <2>1, <1>3, <1>4, <1>6 DEF Aligned
<1>8. Silent(d, new, 0, FALSE, ms)
  <2>1. SUFFICES ASSUME d.diags = << >> PROVE ~ms /\ Covers(d, new, 0, FALSE)
    BY DEF Silent
  <2>2. ~ms /\ Covers(c, own, 0, FALSE)
    BY <2>1, <1>4 DEF Fits, Silent
  <2>3. Covers(d, new, 0, FALSE)
    BY <2>2, <1>6 DEF Covers
  <2>4. QED BY <2>2, <2>3
<1>9. Real(d, new, 0, FALSE, ms, ex)
  <2>1. SUFFICES ASSUME ex, ~ms PROVE ~Alarmed(d) /\ Reflects(d, new, 0, FALSE)
    BY DEF Real
  <2>2. ~Alarmed(c) /\ Reflects(c, own, 0, FALSE)
    BY <2>1 DEF Fits, Real
  <2>3. Alarmed(d) <=> Alarmed(c)
    BY <1>4 DEF Alarmed
  <2>4. Reflects(d, new, 0, FALSE)
    BY <2>2, <1>6 DEF Reflects
  <2>5. QED BY <2>2, <2>3, <2>4
<1>10. QED
  BY <1>7, <1>8, <1>9 DEF Fits, new

\* The checker enters one alone.
LEMMA PushAway ==
  ASSUME NEW c, NEW own, NEW k, NEW ms, NEW ex, Fits(c, own, k, FALSE, ms, ex), NEW d, IsPush(c, d)
  PROVE  Fits(d, own, k + 1, FALSE, ms, FALSE)
<1>1. /\ c \in Context /\ own \in Seq(Frame) /\ Len(own) \in Nat /\ k \in Nat
      /\ Len(c.scopes) = Len(own) + k
      /\ \A i \in 1 .. Len(own), m \in Name : Matches(own[i][m], View(c, FALSE, i + k, m))
  BY AlignedIs
<1>2. /\ d \in Context /\ d.diags = c.diags /\ Len(d.scopes) = Len(c.scopes) + 1 /\ d.scopes # << >>
      /\ \A j \in 1 .. Len(c.scopes), m \in Name : View(d, FALSE, j + 1, m) = View(c, FALSE, j, m)
  BY DEF IsPush
<1>3. ASSUME NEW i \in 1 .. Len(own), NEW m \in Name
      PROVE  View(d, FALSE, i + (k + 1), m) = View(c, FALSE, i + k, m)
  <2>1. i + k \in 1 .. Len(c.scopes) /\ i + (k + 1) = (i + k) + 1
    BY <1>1
  <2>2. QED BY <2>1, <1>2
<1>4. Aligned(d, own, k + 1, FALSE)
  <2>1. Len(d.scopes) = Len(own) + (k + 1) /\ k + 1 \in Nat
    BY <1>1, <1>2
  <2>2. \A i \in 1 .. Len(own), m \in Name : Matches(own[i][m], View(d, FALSE, i + (k + 1), m))
    BY <1>1, <1>3
  <2>3. QED BY <1>1, <1>2, <2>1, <2>2 DEF Aligned
<1>5. Silent(d, own, k + 1, FALSE, ms)
  BY <1>2, <1>3 DEF Fits, Silent, Covers
<1>6. QED
  BY <1>4, <1>5 DEF Fits, Real

\* Both leave a scope.
LEMMA PopFits ==
  ASSUME NEW c, NEW own, NEW ms, NEW ex, Fits(c, own, 0, FALSE, ms, ex), Len(c.scopes) > 1,
         NEW d, IsPop(c, d)
  PROVE  Fits(d, Tail(own), 0, FALSE, ms, ex)
<1> DEFINE new == Tail(own)
<1>1. /\ c \in Context /\ own \in Seq(Frame) /\ Len(own) \in Nat /\ Len(c.scopes) = Len(own)
      /\ \A i \in 1 .. Len(own), m \in Name : Matches(own[i][m], View(c, FALSE, i + 0, m))
  BY AlignedHere
<1>2. /\ new \in Seq(Frame) /\ Len(new) = Len(own) - 1 /\ \A i \in 1 .. Len(new) : new[i] = own[i + 1]
  BY <1>1
<1> HIDE DEF new
<1>3. /\ d \in Context /\ d.diags = c.diags /\ Len(d.scopes) = Len(new) /\ d.scopes # << >>
      /\ \A j \in 1 .. Len(new), m \in Name : View(d, FALSE, j, m) = View(c, FALSE, j + 1, m)
  BY <1>1, <1>2 DEF IsPop
<1>4. ASSUME NEW i \in 1 .. Len(new), NEW m \in Name
      PROVE  /\ i + 1 \in 1 .. Len(own) /\ new[i][m] = own[i + 1][m]
             /\ View(d, FALSE, i + 0, m) = View(c, FALSE, (i + 1) + 0, m)
  <2>1. i + 1 \in 1 .. Len(own) /\ i + 0 = i /\ (i + 1) + 0 = i + 1
    BY <1>1, <1>2
  <2>2. QED BY <2>1, <1>2, <1>3
<1>5. Aligned(d, new, 0, FALSE)
  <2>1. ASSUME NEW i \in 1 .. Len(new), NEW m \in Name PROVE Matches(new[i][m], View(d, FALSE, i + 0, m))
    BY <1>1, <1>4
  <2>2. Len(d.scopes) = Len(new) + 0
    BY <1>1, <1>2, <1>3
  <2>3. QED BY <2>1, <2>2, <1>2, <1>3 DEF Aligned
<1>6. Silent(d, new, 0, FALSE, ms)
  <2>1. SUFFICES ASSUME d.diags = << >> PROVE ~ms /\ Covers(d, new, 0, FALSE)
    BY DEF Silent
  <2>2. ~ms /\ Covers(c, own, 0, FALSE)
    BY <2>1, <1>3 DEF Fits, Silent
  <2>3. ASSUME NEW i \in 1 .. Len(new), NEW m \in Name, new[i][m] = "gone"
        PROVE  View(d, FALSE, i + 0, m).st = "moved"
    <3>1. View(c, FALSE, (i + 1) + 0, m).st = "moved"
      BY <2>2, <2>3, <1>4 DEF Covers
    <3>2. QED BY <3>1, <1>4
  <2>4. QED BY <2>2, <2>3 DEF Covers
<1>7. Real(d, new, 0, FALSE, ms, ex)
  <2>1. SUFFICES ASSUME ex, ~ms PROVE ~Alarmed(d) /\ Reflects(d, new, 0, FALSE)
    BY DEF Real
  <2>2. ~Alarmed(c) /\ Reflects(c, own, 0, FALSE)
    BY <2>1 DEF Fits, Real
  <2>3. Alarmed(d) <=> Alarmed(c)
    BY <1>3 DEF Alarmed
  <2>4. ASSUME NEW i \in 1 .. Len(new), NEW m \in Name, View(d, FALSE, i + 0, m).st = "moved"
        PROVE  new[i][m] = "gone"
    <3>1. View(c, FALSE, (i + 1) + 0, m).st = "moved"
      BY <2>4, <1>4
    <3>2. QED BY <3>1, <2>2, <1>4 DEF Reflects
  <2>5. QED BY <2>2, <2>3, <2>4 DEF Reflects
<1>8. QED
  BY <1>5, <1>6, <1>7 DEF Fits, new

\* The checker leaves one that the run is not in.
LEMMA PopAway ==
  ASSUME NEW c, NEW own, NEW k, NEW ms, NEW ex, Fits(c, own, k, FALSE, ms, ex), k # 0,
         Len(c.scopes) > 1, NEW d, IsPop(c, d)
  PROVE  Fits(d, own, k - 1, FALSE, ms, ex)
<1>1. /\ c \in Context /\ own \in Seq(Frame) /\ Len(own) \in Nat /\ k \in Nat
      /\ Len(c.scopes) = Len(own) + k
      /\ \A i \in 1 .. Len(own), m \in Name : Matches(own[i][m], View(c, FALSE, i + k, m))
  BY AlignedIs
<1>2. /\ d \in Context /\ d.diags = c.diags /\ Len(d.scopes) = Len(c.scopes) - 1 /\ d.scopes # << >>
      /\ \A j \in 1 .. Len(c.scopes) - 1, m \in Name : View(d, FALSE, j, m) = View(c, FALSE, j + 1, m)
  BY DEF IsPop
<1>3. ASSUME NEW i \in 1 .. Len(own), NEW m \in Name
      PROVE  View(d, FALSE, i + (k - 1), m) = View(c, FALSE, i + k, m)
  <2>1. i + (k - 1) \in 1 .. Len(c.scopes) - 1 /\ (i + (k - 1)) + 1 = i + k
    BY <1>1
  <2>2. QED BY <2>1, <1>2
<1>4. Aligned(d, own, k - 1, FALSE)
  <2>1. Len(d.scopes) = Len(own) + (k - 1) /\ k - 1 \in Nat
    BY <1>1, <1>2
  <2>2. \A i \in 1 .. Len(own), m \in Name : Matches(own[i][m], View(d, FALSE, i + (k - 1), m))
    BY <1>1, <1>3
  <2>3. QED BY <1>1, <1>2, <2>1, <2>2 DEF Aligned
<1>5. Silent(d, own, k - 1, FALSE, ms)
  BY <1>2, <1>3 DEF Fits, Silent, Covers
<1>6. Real(d, own, k - 1, FALSE, ms, ex)
  BY DEF Fits, Real
<1>7. QED
  BY <1>4, <1>5, <1>6 DEF Fits

\* The run is thrown out of one.
LEMMA EscapeFits ==
  ASSUME NEW c, NEW own, NEW k, NEW open, NEW ms, NEW ex, Fits(c, own, k, open, ms, ex), own # << >>
  PROVE  Fits(c, Tail(own), k + 1, open, ms, FALSE)
<1> DEFINE new == Tail(own)
<1>1. /\ c \in Context /\ own \in Seq(Frame) /\ Len(own) \in Nat /\ k \in Nat /\ open \in BOOLEAN
      /\ Len(c.scopes) = Len(own) + k /\ c.scopes # << >> /\ (open => c.scopes[1].vars # << >>)
      /\ \A i \in 1 .. Len(own), m \in Name : Matches(own[i][m], View(c, open, i + k, m))
  BY AlignedIs
<1>2. /\ new \in Seq(Frame) /\ Len(new) = Len(own) - 1 /\ \A i \in 1 .. Len(new) : new[i] = own[i + 1]
  BY <1>1
<1> HIDE DEF new
<1>3. ASSUME NEW i \in 1 .. Len(new)
      PROVE  i + 1 \in 1 .. Len(own) /\ i + (k + 1) = (i + 1) + k /\ new[i] = own[i + 1]
  BY <1>1, <1>2
<1>4. Aligned(c, new, k + 1, open)
  <2>1. ASSUME NEW i \in 1 .. Len(new), NEW m \in Name PROVE Matches(new[i][m], View(c, open, i + (k + 1), m))
    BY <1>1, <1>3
  <2>2. QED BY <2>1, <1>1, <1>2 DEF Aligned
<1>5. Silent(c, new, k + 1, open, ms)
  <2>1. SUFFICES ASSUME c.diags = << >> PROVE ~ms /\ Covers(c, new, k + 1, open)
    BY DEF Silent
  <2>2. ~ms /\ Covers(c, own, k, open)
    BY <2>1 DEF Fits, Silent
  <2>3. ASSUME NEW i \in 1 .. Len(new), NEW m \in Name, new[i][m] = "gone"
        PROVE  View(c, open, i + (k + 1), m).st = "moved"
    BY <2>2, <2>3, <1>3 DEF Covers
  <2>4. QED BY <2>2, <2>3 DEF Covers
<1>6. QED
  BY <1>4, <1>5 DEF Fits, Real, new

\* A name of the run gets a value again.
LEMMA RestoreFits ==
  ASSUME NEW c, NEW k, NEW open, NEW ms, NEW ex, Fits(c, owned, k, open, ms, ex), NEW n \in Name,
         NEW own, own = IF Standing(n) = "gone" THEN Mark(n, "held") ELSE owned
  PROVE  Fits(c, own, k, open, ms, FALSE)
<1> DEFINE h == Holder(n)
<1>1. /\ c \in Context /\ owned \in Seq(Frame) /\ Len(owned) \in Nat /\ k \in Nat /\ open \in BOOLEAN
      /\ Len(c.scopes) = Len(owned) + k
      /\ c.scopes # << >> /\ (open => c.scopes[1].vars # << >>)
      /\ \A i \in 1 .. Len(owned), m \in Name : Matches(owned[i][m], View(c, open, i + k, m))
  BY AlignedIs
<1>2. /\ own \in Seq(Frame) /\ Len(own) = Len(owned)
      /\ \A i \in 1 .. Len(owned), m \in Name :
           own[i][m] = owned[i][m] \/ (owned[i][m] = "gone" /\ own[i][m] = "held")
  <2>1. CASE Standing(n) = "gone"
    <3>1. h # 0 /\ owned[h][n] = "gone"
      BY <2>1 DEF Standing
    <3>2. h \in 1 .. Len(owned)
      BY <3>1, <1>1, HolderIs
    <3>3. own = [owned EXCEPT ![h][n] = "held"]
      BY <2>1 DEF Mark
    <3> HIDE DEF h
    <3> DEFINE f == [owned[h] EXCEPT ![n] = "held"]
    <3>4. owned[h] \in Frame
      BY <3>2, <1>1
    <3>5. f \in Frame /\ \A m \in Name : f[m] = IF m = n THEN "held" ELSE owned[h][m]
      BY <3>4 DEF Frame
    <3>6. own = [owned EXCEPT ![h] = f]
      BY <3>3
    <3> HIDE DEF f
    <3>7. own \in Seq(Frame) /\ Len(own) = Len(owned) /\ \A i \in 1 .. Len(owned) : own[i] = IF i = h THEN f ELSE owned[i]
      <4>1. owned \in Seq(Frame) /\ f \in Frame
        BY <1>1, <3>5
      <4>2. QED BY ONLY <3>2, <3>6, <4>1
    <3>8. QED BY <3>1, <3>5, <3>7
  <2>2. CASE Standing(n) # "gone"
    BY <2>2, <1>1
  <2>3. QED BY <2>1, <2>2
<1>3. Aligned(c, own, k, open)
  <2>1. \A i \in 1 .. Len(own), m \in Name : Matches(own[i][m], View(c, open, i + k, m))
    BY <1>1, <1>2 DEF Matches
  <2>2. QED BY <2>1, <1>1, <1>2 DEF Aligned
<1>4. Silent(c, own, k, open, ms)
  <2>1. SUFFICES ASSUME c.diags = << >> PROVE ~ms /\ Covers(c, own, k, open)
    BY DEF Silent
  <2>2. ~ms /\ Covers(c, owned, k, open)
    BY <2>1 DEF Fits, Silent
  <2>3. ASSUME NEW i \in 1 .. Len(own), NEW m \in Name, own[i][m] = "gone"
        PROVE  View(c, open, i + k, m).st = "moved"
    BY <2>2, <2>3, <1>2 DEF Covers
  <2>4. QED BY <2>2, <2>3 DEF Covers
<1>5. QED
  BY <1>3, <1>4 DEF Fits, Real

-----------------------------------------------------------------------------
(* The steps. *)

LEMMA InitInv == Init => IInv
<1>1. SUFFICES ASSUME Init PROVE IInv
  OBVIOUS
<1> DEFINE c == [scopes |-> << >>, diags |-> << >>]
           safe == Mode = "strict"
           d == PushScope(c, safe)
<1>2. c \in Context /\ c.diags = << >> /\ Len(c.scopes) = 0 /\ safe \in BOOLEAN
  <2>1. << >> \in Seq(Scope) /\ << >> \in Seq(Diag) /\ Len(<< >>) = 0
    OBVIOUS
  <2>2. QED BY <2>1 DEF Context
<1>3. ctx = d
  BY <1>1 DEF Init, NewContext
<1> HIDE DEF c, safe
<1>4. IsPush(c, d)
  BY <1>2, PushDoes
<1> HIDE DEF d
<1>5. /\ ctx \in Context /\ ctx.diags = << >> /\ Len(ctx.scopes) = 1 /\ ctx.scopes # << >>
      /\ \A m \in Name : View(ctx, FALSE, 1, m).st = "none" /\ ~View(ctx, FALSE, 1, m).copy
  <2>1. d.diags = c.diags /\ Len(d.scopes) = Len(c.scopes) + 1 /\ d \in Context /\ d.scopes # << >>
    BY <1>4 DEF IsPush
  <2>2. ctx.diags = << >> /\ Len(ctx.scopes) = 1
    BY <1>2, <1>3, <2>1
  <2>3. QED BY <1>3, <1>4, <2>1, <2>2 DEF IsPush
<1>6. NoNames \in Frame /\ \A m \in Name : NoNames[m] = "none"
  BY DEF NoNames, Frame
<1>7. owned \in Seq(Frame) /\ Len(owned) = 1 /\ owned[1] = NoNames
  BY <1>1, <1>6 DEF Init
<1>8. skipped = 0 /\ letting = << >> /\ misused = FALSE /\ exact = TRUE /\ Letting = FALSE
  BY <1>1 DEF Init, Letting
<1>9. ASSUME NEW i \in 1 .. Len(owned), NEW m \in Name
      PROVE  /\ owned[i][m] = "none" /\ View(ctx, FALSE, i + 0, m).st = "none"
             /\ ~View(ctx, FALSE, i + 0, m).copy
  <2>1. i = 1 /\ i + 0 = 1
    BY <1>7
  <2>2. QED BY <2>1, <1>5, <1>6, <1>7
<1>10. Aligned(ctx, owned, 0, FALSE)
  <2>1. Len(ctx.scopes) = Len(owned) + 0
    BY <1>5, <1>7
  <2>2. \A i \in 1 .. Len(owned), m \in Name : Matches(owned[i][m], View(ctx, FALSE, i + 0, m))
    BY <1>9 DEF Matches
  <2>3. QED BY <2>1, <2>2, <1>5, <1>7 DEF Aligned
<1>11. Covers(ctx, owned, 0, FALSE) /\ Reflects(ctx, owned, 0, FALSE)
  BY <1>9 DEF Covers, Reflects
<1>12. ~Alarmed(ctx)
  BY <1>5 DEF Alarmed
<1>13. Fits(ctx, owned, 0, FALSE, FALSE, TRUE)
  BY <1>10, <1>11, <1>12 DEF Fits, Silent, Real
<1>14. QED
  BY <1>8, <1>13 DEF IInv, LetOK

\* What every step knows.
LEMMA Knowing ==
  ASSUME IInv
  PROVE  /\ ctx \in Context /\ owned \in Seq(Frame) /\ skipped \in Nat /\ Letting \in BOOLEAN
         /\ Len(owned) \in Nat /\ Len(ctx.scopes) = Len(owned) + skipped
         /\ ctx.scopes # << >> /\ (Letting => ctx.scopes[1].vars # << >>)
         /\ misused \in BOOLEAN /\ exact \in BOOLEAN
         /\ ~Letting => letting = << >> /\ Letting = FALSE
         /\ Letting => letting[1] \in Let /\ Letting = TRUE
<1>1. Fits(ctx, owned, skipped, Letting, misused, exact)
  BY DEF IInv
<1>2. letting \in {<< >>} \cup {<<l>> : l \in Let}
  BY DEF IInv, LetOK
<1>3. Letting => letting[1] \in Let
  BY <1>2 DEF Letting
<1>4. QED
  BY <1>1, <1>3, AlignedIs DEF IInv, Letting

LEMMA LetKept ==
  ASSUME IInv, NEW n \in Name, NEW moves \in BOOLEAN, IsReading(ctx, n, Letting, moves, ctx'),
         KeepsLet(ctx, n, Letting, ctx'), letting' = letting
  PROVE  LetOK'
<1>1. Letting' = Letting /\ letting' \in {<< >>} \cup {<<l>> : l \in Let}
  BY DEF IInv, LetOK, Letting
<1>2. ASSUME Letting
      PROVE  LET v == ctx'.scopes[1].vars[1]
             IN  /\ v.name = letting'[1].name /\ v.copy = letting'[1].typed
                 /\ ctx'.diags = << >> => v.st = "uninit"
  <2>1. /\ ctx'.scopes[1].vars[1].name = letting'[1].name
        /\ ctx'.scopes[1].vars[1].copy = letting'[1].typed
    BY <1>2 DEF IInv, LetOK, KeepsLet
  <2>2. ASSUME ctx'.diags = << >> PROVE ctx'.scopes[1].vars[1].st = "uninit"
    <3>1. ctx.diags = << >> /\ (Home(ctx, n) # 0 => Lookup(ctx, n).st = "owned")
      BY <2>2 DEF IsReading
    <3>2. ctx.scopes[1].vars[1].st = "uninit"
      BY <1>2, <3>1 DEF IInv, LetOK
    <3>3. ctx \in Context /\ ctx.scopes # << >> /\ ctx.scopes[1].vars # << >>
      BY <1>2, Knowing
    <3>4. ~Hidden(ctx, Letting, n)
      <4>1. SUFFICES ASSUME ctx.scopes[1].vars[1].name = n PROVE FALSE
        BY DEF Hidden
      <4>2. Home(ctx, n) # 0 /\ Lookup(ctx, n).st = "uninit"
        BY <4>1, <3>2, <3>3, HeadFound
      <4>3. QED BY <4>2, <3>1
    <3>5. QED BY <1>2, <3>2, <3>4 DEF KeepsLet
  <2>3. QED BY <2>1, <2>2
<1>3. QED
  BY <1>1, <1>2 DEF LetOK

LEMMA UseInv == ASSUME IInv, NEW n \in Name, Use(n) PROVE IInv'
<1>1. /\ Here /\ ctx' = CheckUse(ctx, n) /\ misused' = (misused \/ Standing(n) = "gone")
      /\ exact' = (exact /\ ~Own(n)) /\ owned' = owned /\ skipped' = 0 /\ letting' = letting
  BY DEF Use, Meets, Here
<1>2. IsReading(ctx, n, Letting, FALSE, ctx') /\ KeepsLet(ctx, n, Letting, ctx')
  BY <1>1, Knowing, UsingDoes
<1>3. Fits(ctx', owned', 0, Letting, misused', exact')
  BY <1>1, <1>2, RunFits
<1>4. LetOK'
  BY <1>1, <1>2, LetKept
<1>5. QED
  BY <1>1, <1>3, <1>4, Knowing DEF IInv, Letting

LEMMA PassInv == ASSUME IInv, NEW n \in Name, Pass(n) PROVE IInv'
<1>1. /\ Here /\ ctx' = PassOn(CheckUse(ctx, n), VarE(n))
      /\ misused' = (misused \/ Standing(n) = "gone") /\ exact' = (exact /\ ~Own(n))
      /\ owned' = Passed(n) /\ skipped' = 0 /\ letting' = letting
  BY DEF Pass, Meets, Here, VarE
<1>2. IsReading(ctx, n, Letting, TRUE, ctx') /\ KeepsLet(ctx, n, Letting, ctx')
  BY <1>1, Knowing, ReadingDoes
<1>3. Fits(ctx', owned', 0, Letting, misused', exact')
  BY <1>1, <1>2, RunFits
<1>4. LetOK'
  BY <1>1, <1>2, LetKept
<1>5. QED
  BY <1>1, <1>3, <1>4, Knowing DEF IInv, Letting

LEMMA ReadInv ==
  ASSUME IInv, NEW n \in Name, ReadUse(n) \/ ReadPass(n)
  PROVE  IInv'
<1>1. /\ exact' = FALSE /\ UNCHANGED <<owned, skipped, letting, misused>>
      /\ ctx' = CheckUse(ctx, n) \/ ctx' = PassOn(CheckUse(ctx, n), VarE(n))
  BY DEF ReadUse, ReadPass, VarE
<1>2. PICK moves \in BOOLEAN : IsReading(ctx, n, Letting, moves, ctx') /\ KeepsLet(ctx, n, Letting, ctx')
  <2>1. CASE ctx' = CheckUse(ctx, n)
    BY <2>1, Knowing, UsingDoes
  <2>2. CASE ctx' = PassOn(CheckUse(ctx, n), VarE(n))
    BY <2>2, Knowing, ReadingDoes
  <2>3. QED BY <1>1, <2>1, <2>2
<1>3. Fits(ctx', owned, skipped, Letting, misused, FALSE)
  <2>1. Fits(ctx, owned, skipped, Letting, misused, exact)
    BY DEF IInv
  <2>2. QED BY <2>1, <1>2, ReadFits
<1>4. LetOK'
  BY <1>1, <1>2, LetKept
<1>5. QED
  BY <1>1, <1>3, <1>4, Knowing DEF IInv, Letting

LEMMA RestoreInv == ASSUME IInv, NEW n \in Name, Restore(n) PROVE IInv'
<1>1. /\ owned' = IF Standing(n) = "gone" THEN Mark(n, "held") ELSE owned
      /\ exact' = FALSE /\ UNCHANGED <<ctx, skipped, letting, misused>>
  BY DEF Restore
<1>2. Fits(ctx, owned', skipped, Letting, misused, FALSE)
  <2>1. Fits(ctx, owned, skipped, Letting, misused, exact)
    BY DEF IInv
  <2>2. QED BY <2>1, <1>1, RestoreFits
<1>3. LetOK'
  BY <1>1 DEF IInv, LetOK, Letting
<1>4. QED
  BY <1>1, <1>2, <1>3, Knowing DEF IInv, Letting

\* Scopes are entered and left between lets.
LEMMA LetIdle ==
  ASSUME IInv, letting = << >>
  PROVE  /\ Letting = FALSE /\ Fits(ctx, owned, skipped, FALSE, misused, exact)
         /\ letting' = letting => Letting' = FALSE /\ LetOK'
<1>1. Letting = FALSE
  BY DEF Letting
<1>2. Fits(ctx, owned, skipped, FALSE, misused, exact)
  BY <1>1 DEF IInv
<1>3. letting' = letting => Letting' = FALSE /\ LetOK'
  BY DEF Letting, LetOK
<1>4. QED
  BY <1>1, <1>2, <1>3

LEMMA EnterInv == ASSUME IInv, NEW safe \in BOOLEAN, Enter(safe) PROVE IInv'
<1>1. /\ skipped = 0 /\ letting = << >> /\ ctx' = PushScope(ctx, safe)
      /\ owned' = <<NoNames>> \o owned /\ UNCHANGED <<skipped, letting, misused, exact>>
  BY DEF Enter, Here
<1>2. IsPush(ctx, ctx')
  BY <1>1, Knowing, PushDoes
<1>3. Fits(ctx, owned, 0, FALSE, misused, exact) /\ Letting' = FALSE /\ LetOK'
  BY <1>1, LetIdle
<1>4. Fits(ctx', owned', 0, FALSE, misused, exact)
  BY <1>1, <1>2, <1>3, PushFits
<1>5. QED
  BY <1>1, <1>3, <1>4, Knowing DEF IInv

LEMMA ReadEnterInv == ASSUME IInv, NEW safe \in BOOLEAN, ReadEnter(safe) PROVE IInv'
<1>1. /\ letting = << >> /\ ctx' = PushScope(ctx, safe) /\ skipped' = skipped + 1 /\ exact' = FALSE
      /\ UNCHANGED <<owned, letting, misused>>
  BY DEF ReadEnter
<1>2. IsPush(ctx, ctx')
  BY <1>1, Knowing, PushDoes
<1>3. Fits(ctx, owned, skipped, FALSE, misused, exact) /\ Letting' = FALSE /\ LetOK'
  BY <1>1, LetIdle
<1>4. Fits(ctx', owned, skipped + 1, FALSE, misused, FALSE)
  BY <1>2, <1>3, PushAway
<1>5. QED
  BY <1>1, <1>3, <1>4, Knowing DEF IInv

LEMMA LeaveInv == ASSUME IInv, Leave PROVE IInv'
<1>1. /\ letting = << >> /\ Len(ctx.scopes) > 1 /\ ctx' = PopScope(ctx)
      /\ UNCHANGED <<letting, misused, exact>>
  BY DEF Leave
<1>2. IsPop(ctx, ctx')
  BY <1>1, Knowing, PopDoes
<1>3. Fits(ctx, owned, skipped, FALSE, misused, exact) /\ Letting' = FALSE /\ LetOK'
  BY <1>1, LetIdle
<1>4. Fits(ctx', owned', skipped', FALSE, misused, exact)
  <2>1. CASE Here
    <3>1. skipped = 0 /\ owned' = Tail(owned) /\ skipped' = 0
      BY <2>1 DEF Leave, Here
    <3>2. QED BY <3>1, <1>1, <1>2, <1>3, PopFits
  <2>2. CASE ~Here
    <3>1. skipped # 0 /\ owned' = owned /\ skipped' = skipped - 1
      BY <2>2 DEF Leave, Here
    <3>2. QED BY <3>1, <1>1, <1>2, <1>3, PopAway
  <2>3. QED BY <2>1, <2>2
<1>5. QED
  BY <1>1, <1>3, <1>4, Knowing DEF IInv

LEMMA EscapeInv == ASSUME IInv, Escape PROVE IInv'
<1>1. /\ owned # << >> /\ owned' = Tail(owned) /\ skipped' = skipped + 1 /\ exact' = FALSE
      /\ UNCHANGED <<ctx, letting, misused>>
  BY DEF Escape
<1>2. Fits(ctx, owned, skipped, Letting, misused, exact)
  BY DEF IInv
<1>3. Fits(ctx, owned', skipped + 1, Letting, misused, FALSE)
  BY <1>1, <1>2, EscapeFits
<1>4. LetOK' /\ Letting' = Letting
  BY <1>1 DEF IInv, LetOK, Letting
<1>5. QED
  BY <1>1, <1>3, <1>4, Knowing DEF IInv

LEMMA IntroduceInv ==
  ASSUME IInv, NEW n \in Name, NEW st \in {"uninit", "owned"}, NEW copy \in BOOLEAN,
         Introduce(n, st, copy)
  PROVE  IInv'
<1>1. /\ letting = << >> /\ ctx' = Declare(ctx, n, st, copy)
      /\ owned' = (IF Here THEN Bind(owned, n, copy) ELSE owned)
      /\ UNCHANGED <<skipped, letting, misused, exact>>
  BY DEF Introduce
<1>2. IsDeclare(ctx, n, st, copy, ctx')
  <2>1. st \in State
    BY DEF State
  <2>2. QED BY <2>1, <1>1, Knowing, DeclareDoes
<1>3. Fits(ctx, owned, skipped, FALSE, misused, exact) /\ Letting' = FALSE /\ LetOK'
  BY <1>1, LetIdle
<1>4. Fits(ctx', owned, skipped, TRUE, misused, exact)
  BY <1>2, <1>3, OpenFits
<1>5. /\ ctx'.scopes[1].vars[1].name = n /\ ctx'.scopes[1].vars[1].copy = copy
      /\ ctx'.scopes[1].vars[1].st # "moved"
  <2> DEFINE v == [name |-> n, st |-> st, copy |-> copy]
  <2>1. v.name = n /\ v.copy = copy /\ v.st # "moved"
    OBVIOUS
  <2>2. ctx'.scopes[1].vars[1] = v
    BY <1>2 DEF IsDeclare
  <2> HIDE DEF v
  <2>3. QED BY <2>1, <2>2
<1>6. Fits(ctx', owned', skipped, FALSE, misused, exact)
  <2>1. CASE Here
    <3>1. skipped = 0 /\ owned' = Bind(owned, n, copy)
      BY <2>1, <1>1 DEF Here
    <3>2. Fits(ctx', owned, 0, TRUE, misused, exact)
      BY <1>4, <3>1
    <3>3. QED BY <3>1, <3>2, <1>5, CloseFits
  <2>2. CASE ~Here
    <3>1. skipped # 0 /\ owned' = owned
      BY <2>2, <1>1 DEF Here
    <3>2. QED BY <3>1, <1>4, CloseAway
  <2>3. QED BY <2>1, <2>2
<1>7. QED
  BY <1>1, <1>3, <1>6, Knowing DEF IInv

LEMMA BeginLetInv ==
  ASSUME IInv, NEW n \in Name, NEW typed \in BOOLEAN, BeginLet(n, typed)
  PROVE  IInv'
<1> DEFINE l == [name |-> n, typed |-> typed]
<1>1. /\ letting = << >> /\ ctx' = Declare(ctx, n, "uninit", typed) /\ letting' = <<l>>
      /\ UNCHANGED <<owned, skipped, misused, exact>>
  BY DEF BeginLet
<1>2. IsDeclare(ctx, n, "uninit", typed, ctx')
  <2>1. "uninit" \in State
    BY DEF State
  <2>2. QED BY <2>1, <1>1, Knowing, DeclareDoes
<1>3. Fits(ctx, owned, skipped, FALSE, misused, exact)
  BY <1>1, LetIdle
<1>4. Fits(ctx', owned, skipped, TRUE, misused, exact)
  BY <1>2, <1>3, OpenFits
<1>5. l \in Let /\ l.name = n /\ l.typed = typed
  BY DEF Let
<1> HIDE DEF l
<1>6. Letting' = TRUE /\ letting'[1] = l /\ letting' \in {<< >>} \cup {<<x>> : x \in Let}
  BY <1>1, <1>5 DEF Letting
<1>7. /\ ctx'.scopes[1].vars[1].name = n /\ ctx'.scopes[1].vars[1].copy = typed
      /\ ctx'.scopes[1].vars[1].st = "uninit"
  <2> DEFINE v == [name |-> n, st |-> "uninit", copy |-> typed]
  <2>1. v.name = n /\ v.copy = typed /\ v.st = "uninit"
    OBVIOUS
  <2>2. ctx'.scopes[1].vars[1] = v
    BY <1>2 DEF IsDeclare
  <2> HIDE DEF v
  <2>3. QED BY <2>1, <2>2
<1>8. LetOK'
  BY <1>5, <1>6, <1>7 DEF LetOK
<1>9. QED
  BY <1>1, <1>4, <1>6, <1>8, Knowing DEF IInv

\* The initialiser is a variable, or there is none to read in it.
LEMMA ReadInitDoes ==
  ASSUME IInv, Letting, NEW e \in Initialiser, ReadInit(e)
  PROVE  \/ /\ e \in Variable /\ e.name \in Name
            /\ IsFinishVariable(ctx, e.name, letting[1].typed, ctx')
            /\ IsCopyLiteral(e) = FALSE
         \/ /\ e \notin Variable /\ IsFinishOther(ctx, e, ctx') /\ IsCopyLiteral(e) \in BOOLEAN
<1>1. letting[1].typed \in BOOLEAN
  BY Knowing DEF Let
<1>2. CASE e \in Variable
  <2>1. e.name \in Name /\ e.k = "var" /\ e = VarE(e.name)
    BY <1>2 DEF Variable, VarE
  <2>2. NilInSafe(ctx, e) = ctx /\ IsCopyLiteral(e) = FALSE
    BY <2>1 DEF NilInSafe, IsCopyLiteral
  <2>3. ctx' = FinishLet(CheckUse(ctx, e.name), VarE(e.name), letting[1].typed)
    <3>1. ctx' = FinishLet(CheckUse(NilInSafe(ctx, e), e.name), e, letting[1].typed)
      BY <1>2 DEF ReadInit
    <3>2. QED BY <2>1, <2>2, <3>1
  <2>4. QED BY <1>1, <1>2, <2>1, <2>2, <2>3, Knowing, FinishVariable
<1>3. CASE e \notin Variable
  <2>1. e.k \in {"nil", "str", "call"}
    BY <1>3 DEF Initialiser
  <2>2. ctx' = FinishLet(NilInSafe(ctx, e), e, letting[1].typed)
    BY <1>3 DEF ReadInit
  <2>3. IsCopyLiteral(e) \in BOOLEAN
    BY DEF IsCopyLiteral
  <2>4. QED BY <1>1, <1>3, <2>1, <2>2, <2>3, Knowing, FinishOther
<1>4. QED
  BY <1>2, <1>3

LEMMA EndLetInv == ASSUME IInv, NEW e \in Initialiser, EndLet(e) PROVE IInv'
<1> DEFINE n == letting[1].name
           typed == letting[1].typed
           own == IF e \in Variable /\ ~typed THEN Passed(e.name) ELSE owned
<1>1. /\ Here /\ skipped = 0 /\ letting # << >> /\ ReadInit(e) /\ letting' = << >> /\ skipped' = 0
      /\ owned' = Bind(own, n, typed \/ IsCopyLiteral(e))
      /\ e \in Variable => /\ misused' = (misused \/ Standing(e.name) = "gone")
                           /\ exact' = (exact /\ ~Own(e.name))
      /\ e \notin Variable => misused' = misused /\ exact' = exact
  BY DEF EndLet, Here, Meets
<1>2. /\ Letting = TRUE /\ n \in Name /\ typed \in BOOLEAN
      /\ ctx.scopes[1].vars[1].name = n /\ ctx.scopes[1].vars[1].copy = typed
  BY <1>1, Knowing DEF Letting, Let, IInv, LetOK
<1>3. Letting' = FALSE /\ LetOK'
  BY <1>1 DEF Letting, LetOK
<1>4. misused' \in BOOLEAN /\ exact' \in BOOLEAN
  BY <1>1, Knowing
<1> HIDE DEF own, n, typed
<1>5. Fits(ctx', owned', 0, FALSE, misused', exact')
  <2>1. CASE e \in Variable
    <3>1. /\ e.name \in Name /\ IsFinishVariable(ctx, e.name, typed, ctx') /\ IsCopyLiteral(e) = FALSE
      BY <2>1, <1>1, <1>2, ReadInitDoes DEF typed
    <3>2. /\ IsReading(ctx, e.name, Letting, ~typed, ctx') /\ ctx'.scopes[1].vars # << >>
          /\ ctx'.scopes[1].vars[1].name = n /\ ctx'.scopes[1].vars[1].copy = typed
          /\ ~Hidden(ctx, TRUE, e.name) => ctx'.scopes[1].vars[1].st = "owned"
      BY <3>1, <1>2 DEF IsFinishVariable
    <3>3. own = IF ~typed THEN Passed(e.name) ELSE owned
      BY <2>1 DEF own
    <3>4. Fits(ctx', own, 0, TRUE, misused', exact')
      BY <2>1, <3>1, <3>2, <3>3, <1>1, <1>2, RunFits
    <3>5. exact' /\ ~misused' => ctx'.scopes[1].vars[1].st # "moved"
      BY <2>1, <3>2, <1>1, <1>2 DEF Hidden, Own, n
    <3>6. owned' = Bind(own, n, typed)
      BY <3>1, <1>1, <1>2
    <3>7. QED BY <3>2, <3>4, <3>5, <3>6, <1>2, CloseFits
  <2>2. CASE e \notin Variable
    <3>1. IsFinishOther(ctx, e, ctx') /\ IsCopyLiteral(e) \in BOOLEAN
      BY <2>2, <1>1, <1>2, ReadInitDoes
    <3>2. /\ ctx' \in Context /\ Len(ctx'.scopes) = Len(ctx.scopes) /\ ctx'.scopes # << >>
          /\ ctx'.scopes[1].vars # << >>
          /\ ctx'.scopes[1].vars[1].name = n
          /\ ctx'.scopes[1].vars[1].copy = (typed \/ IsCopyLiteral(e))
          /\ ctx'.scopes[1].vars[1].st = "owned"
          /\ ctx'.diags = << >> => ctx.diags = << >>
          /\ Alarmed(ctx') => Alarmed(ctx)
          /\ \A j \in 1 .. Len(ctx.scopes), m \in Name : View(ctx', TRUE, j, m) = View(ctx, TRUE, j, m)
      BY <3>1, <1>2 DEF IsFinishOther
    <3>3. own = owned /\ misused' = misused /\ exact' = exact
      BY <2>2, <1>1 DEF own
    <3>4. Fits(ctx, owned, 0, TRUE, misused, exact)
      BY <1>1, <1>2 DEF IInv
    <3>5. Fits(ctx', own, 0, TRUE, misused', exact')
      <4>1. \A i \in 1 .. Len(owned), m \in Name : View(ctx', TRUE, i + 0, m) = View(ctx, TRUE, i + 0, m)
        <5>1. \A i \in 1 .. Len(owned) : i + 0 \in 1 .. Len(ctx.scopes)
          BY <1>1, Knowing
        <5>2. QED BY <5>1, <3>2
      <4>2. Fits(ctx', owned, 0, TRUE, misused, exact)
        BY <3>2, <3>4, <4>1, QuietFits
      <4>3. QED BY <3>3, <4>2
    <3>6. (typed \/ IsCopyLiteral(e)) \in BOOLEAN
      OBVIOUS
    <3>7. QED BY <3>2, <3>5, <3>6, <1>1, <1>2, CloseFits
  <2>3. QED BY <2>1, <2>2
<1>6. QED
  BY <1>1, <1>3, <1>4, <1>5 DEF IInv

LEMMA ReadEndLetInv == ASSUME IInv, NEW e \in Initialiser, ReadEndLet(e) PROVE IInv'
<1>1. /\ skipped # 0 /\ letting # << >> /\ ReadInit(e) /\ letting' = << >>
      /\ UNCHANGED <<owned, skipped, misused, exact>>
  BY DEF ReadEndLet, Here
<1>2. Letting = TRUE /\ Letting' = FALSE /\ LetOK' /\ letting[1].typed \in BOOLEAN
  BY <1>1, Knowing DEF Letting, Let, LetOK
<1>3. Fits(ctx, owned, skipped, TRUE, misused, exact)
  BY <1>2 DEF IInv
<1>4. Fits(ctx', owned, skipped, TRUE, misused, exact)
  <2>1. CASE e \in Variable
    <3>1. e.name \in Name /\ IsFinishVariable(ctx, e.name, letting[1].typed, ctx')
      BY <2>1, <1>1, <1>2, ReadInitDoes
    <3>2. IsReading(ctx, e.name, TRUE, ~letting[1].typed, ctx') /\ ctx'.scopes[1].vars # << >>
      BY <3>1 DEF IsFinishVariable
    <3>3. (~letting[1].typed) \in BOOLEAN
      OBVIOUS
    <3>4. Fits(ctx', owned, skipped, TRUE, misused, FALSE)
      BY <3>1, <3>2, <3>3, <1>3, ReadFits
    <3>5. QED
      BY <3>4, <1>1, <1>3 DEF Fits, Real
  <2>2. CASE e \notin Variable
    <3>1. IsFinishOther(ctx, e, ctx')
      BY <2>2, <1>1, <1>2, ReadInitDoes
    <3>2. /\ ctx' \in Context /\ Len(ctx'.scopes) = Len(ctx.scopes) /\ ctx'.scopes # << >>
          /\ ctx'.scopes[1].vars # << >>
          /\ ctx'.diags = << >> => ctx.diags = << >>
          /\ Alarmed(ctx') => Alarmed(ctx)
          /\ \A j \in 1 .. Len(ctx.scopes), m \in Name : View(ctx', TRUE, j, m) = View(ctx, TRUE, j, m)
      BY <3>1 DEF IsFinishOther
    <3>3. \A i \in 1 .. Len(owned), m \in Name : View(ctx', TRUE, i + skipped, m) = View(ctx, TRUE, i + skipped, m)
      <4>1. \A i \in 1 .. Len(owned) : i + skipped \in 1 .. Len(ctx.scopes)
        BY Knowing
      <4>2. QED BY <4>1, <3>2
    <3>4. QED BY <3>2, <3>3, <1>3, QuietFits
  <2>3. QED BY <2>1, <2>2
<1>5. Fits(ctx', owned, skipped, FALSE, misused, exact)
  BY <1>1, <1>4, CloseAway
<1>6. QED
  BY <1>1, <1>2, <1>5, Knowing DEF IInv

-----------------------------------------------------------------------------
(* The theorems. *)

\* However the run goes through the text, the checker's context fits it.
THEOREM Invariant == Spec => []IInv
<1>1. Init => IInv
  BY InitInv
<1>2. IInv /\ [Next]_vars => IInv'
  <2>1. SUFFICES ASSUME IInv, [Next]_vars PROVE IInv'
    OBVIOUS
  <2>2. CASE UNCHANGED vars
    <3>1. UNCHANGED <<ctx, owned, skipped, letting, misused, exact>>
      BY <2>2 DEF vars
    <3>2. LetOK' /\ Letting' = Letting
      BY <2>1, <3>1 DEF IInv, LetOK, Letting
    <3>3. QED BY <2>1, <3>1, <3>2 DEF IInv
  <2>3. ASSUME NEW n \in Name, OnName(n) PROVE IInv'
    <3>1. CASE Use(n)
      BY <2>1, <3>1, UseInv
    <3>2. CASE ReadUse(n) \/ ReadPass(n)
      BY <2>1, <3>2, ReadInv
    <3>3. CASE Pass(n)
      BY <2>1, <3>3, PassInv
    <3>4. CASE Restore(n)
      BY <2>1, <3>4, RestoreInv
    <3>5. ASSUME NEW st \in {"uninit", "owned"}, NEW copy \in BOOLEAN, Introduce(n, st, copy)
          PROVE  IInv'
      BY <2>1, <3>5, IntroduceInv
    <3>6. ASSUME NEW typed \in BOOLEAN, BeginLet(n, typed) PROVE IInv'
      BY <2>1, <3>6, BeginLetInv
    <3>7. QED BY <2>3, <3>1, <3>2, <3>3, <3>4, <3>5, <3>6 DEF OnName
  <2>4. CASE Scoping
    <3>1. CASE Leave
      BY <2>1, <3>1, LeaveInv
    <3>2. CASE Escape
      BY <2>1, <3>2, EscapeInv
    <3>3. ASSUME NEW safe \in BOOLEAN, Enter(safe) PROVE IInv'
      BY <2>1, <3>3, EnterInv
    <3>4. ASSUME NEW safe \in BOOLEAN, ReadEnter(safe) PROVE IInv'
      BY <2>1, <3>4, ReadEnterInv
    <3>5. QED BY <2>4, <3>1, <3>2, <3>3, <3>4 DEF Scoping
  <2>5. ASSUME NEW e \in Initialiser, EndLet(e) \/ ReadEndLet(e) PROVE IInv'
    BY <2>1, <2>5, EndLetInv, ReadEndLetInv
  <2>6. QED BY <2>1, <2>2, <2>3, <2>4, <2>5 DEF Next
<1>3. QED
  BY <1>1, <1>2, PTL DEF Spec

\* As long as the checker has nothing to report, the run has used and moved no value
\* that was moved before (safety_check_use, safety_check_move).
THEOREM SilenceVouches == Spec => []SilenceIsSafe
<1>1. IInv => SilenceIsSafe
  BY DEF IInv, Fits, Silent, SilenceIsSafe
<1>2. QED
  BY <1>1, Invariant, PTL

\* Where the run does all that the checker reads, a report of a moved value is true
\* (safety_declare, safety_lookup).
THEOREM AlarmsAreTrue == Spec => []MoveAlarmsAreReal
<1>1. IInv => MoveAlarmsAreReal
  <2>1. SUFFICES ASSUME IInv, exact, Range(ctx.diags) \cap MoveAlarms # {} PROVE misused
    BY DEF MoveAlarmsAreReal
  <2>2. PICK x \in MoveAlarms : x \in Range(ctx.diags)
    BY <2>1
  <2>3. PICK i \in DOMAIN ctx.diags : ctx.diags[i] = x
    BY <2>2 DEF Range
  <2>4. DOMAIN ctx.diags = 1 .. Len(ctx.diags)
    BY <2>1, Knowing DEF Context
  <2>5. Alarmed(ctx)
    BY <2>2, <2>3, <2>4 DEF Alarmed
  <2>6. QED
    BY <2>1, <2>5 DEF IInv, Fits, Real
<1>2. QED
  BY <1>1, Invariant, PTL
=============================================================================
