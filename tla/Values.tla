------------------------------- MODULE Values -------------------------------
(***************************************************************************)
(* The values of the language, the objects they refer to and the scopes    *)
(* that hold them: value.c, env.c and the type tests of include/value.h.   *)
(*                                                                         *)
(* A value is a record whose field "t" is its type; arrays, dictionaries,  *)
(* instances, classes, generators and modules are references into a heap.  *)
(* The world a program runs in is one record:                              *)
(*   out     what it printed so far,                                       *)
(*   envs    the scopes created so far, the global one first,              *)
(*   heap    the objects created so far,                                   *)
(*   resume  the statement a generator resumes after (g_resume_target),    *)
(*   depth   the calls in progress (g_recursion_depth),                    *)
(*   gas     the limit on metered steps, negative for none, and the steps  *)
(*           used so far (g_gas_limit, g_gas_used),                        *)
(*   gcOn    whether automatic collection is enabled,                      *)
(*   astray  history: memory was accessed outside of a block.              *)
(* Numbers are integers, strings are TLC's strings.  The order in which    *)
(* the hash table of a dictionary lists its keys is not modelled: programs *)
(* list or print dictionaries of at most one key.                          *)
(***************************************************************************)
EXTENDS Ast, FiniteSets, Functions, SequencesExt, TLC

Nil         == [t |-> "nil"]
IntV(n)     == [t |-> "int", n |-> n]
BoolV(b)    == [t |-> "bool", b |-> b]
StrV(s)     == [t |-> "str", s |-> s]
TupleV(vs)  == [t |-> "tuple", vs |-> vs]
ExcV(msg)   == [t |-> "exc", s |-> msg]
NativeV(nm) == [t |-> "native", s |-> nm]
FunV(proc, en) == [t |-> "fun", proc |-> proc, en |-> en]
Ref(t, id)  == [t |-> t, id |-> id]

IsA(v, t) == v.t = t

InitialWorld(natives) ==
  [out |-> << >>, heap |-> << >>, resume |-> NoStmt, depth |-> 0,
   gas |-> [limit |-> -1, used |-> 0], gcOn |-> TRUE, astray |-> FALSE,
   envs |-> <<[up |-> 0, vars |-> [nm \in natives |-> [v |-> NativeV(nm), const |-> TRUE]]]>>]

(***************************************************************************)
(* Scopes.  A variable keeps the "const" of its first definition in its    *)
(* scope, whatever defines it again.                                       *)
(***************************************************************************)
EnvCreate(st, up) ==
  [st EXCEPT !.envs = Append(@, [up |-> up, vars |-> << >>])]
NewEnv(st) == Len(st.envs) + 1

DefineAs(st, en, name, v, const) ==
  LET vars == st.envs[en].vars
      c    == IF name \in DOMAIN vars THEN vars[name].const ELSE const
  IN  [st EXCEPT !.envs[en].vars = (name :> [v |-> v, const |-> c]) @@ vars]
Define(st, en, name, v)      == DefineAs(st, en, name, v, FALSE)
DefineConst(st, en, name, v) == DefineAs(st, en, name, v, TRUE)

\* The innermost scope that holds the name, 0 when there is none.
RECURSIVE Owner(_, _, _)
Owner(st, en, name) ==
  IF en = 0 THEN 0
  ELSE IF name \in DOMAIN st.envs[en].vars THEN en
  ELSE Owner(st, st.envs[en].up, name)

Bound(st, en, name)  == Owner(st, en, name) # 0
ValueOf(st, en, name) ==
  LET o == Owner(st, en, name)
  IN  IF o = 0 THEN Nil ELSE st.envs[o].vars[name].v
IsConst(st, en, name) == st.envs[Owner(st, en, name)].vars[name].const

\* Overwrites the slot of a bound variable.
SetSlot(st, en, name, v) ==
  [st EXCEPT !.envs[Owner(st, en, name)].vars[name].v = v]

\* The walk up the scopes stops at the first definition: an immutable one
\* leaves everything as it was.
EnvAssign(st, en, name, v) ==
  IF Bound(st, en, name) /\ ~IsConst(st, en, name)
  THEN SetSlot(st, en, name, v) ELSE st

(***************************************************************************)
(* Objects.                                                                *)
(***************************************************************************)
Alloc(st, obj) == [st EXCEPT !.heap = Append(@, obj)]
NewId(st)      == Len(st.heap) + 1
Obj(st, v)     == st.heap[v.id]

ArrObj(vs) == [k |-> "arr", vs |-> vs]
DictObj(m) == [k |-> "dict", m |-> m]
InstObj(cls, fields) == [k |-> "inst", cls |-> cls, m |-> fields]
ClassObj(name, up, en) ==
  [k |-> "cls", name |-> name, up |-> up, en |-> en, ms |-> << >>, struct |-> FALSE]
GenObj(body, params, en) ==
  [k |-> "gen", s |-> body, ps |-> params, up |-> en, en |-> 0, cur |-> NoStmt,
   started |-> FALSE, done |-> FALSE, target |-> FALSE]

Elems(st, v)  == Obj(st, v).vs
Fields(st, v) == Obj(st, v).m

ArrayPush(st, a, v)   == [st EXCEPT !.heap[a.id].vs = Append(@, v)]
At(vs, i)             == IF i \in 0 .. Len(vs) - 1 THEN vs[i + 1] ELSE Nil
ArraySet(st, a, i, v) ==
  IF i \in 0 .. Len(Elems(st, a)) - 1 THEN [st EXCEPT !.heap[a.id].vs[i + 1] = v] ELSE st
DictGet(st, d, key)    == IF key \in DOMAIN Fields(st, d) THEN Fields(st, d)[key] ELSE Nil
DictSet(st, d, key, v) == [st EXCEPT !.heap[d.id].m = (key :> v) @@ @]
DictDelete(st, d, key) ==
  [st EXCEPT !.heap[d.id].m = Restrict(@, DOMAIN @ \ {key})]
DictKeys(st, d) == SetToSeq(DOMAIN Fields(st, d))

FirstOf(s, n) == SubSeq(s, 1, IF n < Len(s) THEN n ELSE Len(s))
\* The part of a sequence between two indices, which count from its end
\* when negative.
Between(s, lo, hi) ==
  LET from == IF lo < 0 THEN lo + Len(s) ELSE lo
      to   == IF hi < 0 THEN hi + Len(s) ELSE hi
  IN  SubSeq(s, (IF from < 0 THEN 0 ELSE from) + 1, IF to > Len(s) THEN Len(s) ELSE to)

ClassAddMethod(st, c, proc) == [st EXCEPT !.heap[c.id].ms = Append(@, proc)]
\* The class of the hierarchy that defines a method, and the first method
\* of that name in it.
RECURSIVE MethodOwner(_, _, _)
MethodOwner(st, c, name) ==
  IF c = Nil THEN Nil
  ELSE IF \E i \in DOMAIN Obj(st, c).ms : Obj(st, c).ms[i].name = name THEN c
  ELSE MethodOwner(st, Obj(st, c).up, name)
FindMethod(st, c, name) ==
  LET o == MethodOwner(st, c, name)
  IN  IF o = Nil THEN NoStmt
      ELSE SelectSeq(Obj(st, o).ms, LAMBDA m : m.name = name)[1]

IsStruct(st, v) == IsA(v, "inst") /\ Obj(st, Obj(st, v).cls).struct
\* A structure is copied when it is bound: a new instance, the same fields.
CopyStruct(st, v) == Alloc(st, InstObj(Obj(st, v).cls, Fields(st, v)))

(***************************************************************************)
(* Truth, equality and text.                                               *)
(***************************************************************************)
IsTruthy(v) == CASE IsA(v, "nil")  -> FALSE
                 [] IsA(v, "bool") -> v.b
                 [] IsA(v, "int")  -> v.n # 0
                 [] IsA(v, "str")  -> v.s # ""
                 [] OTHER          -> TRUE

RECURSIVE SameValue(_, _, _)
SameAll(st, vs, ws) == /\ Len(vs) = Len(ws)
                       /\ \A i \in DOMAIN vs : SameValue(st, vs[i], ws[i])
SameFields(st, m, n) == /\ DOMAIN m = DOMAIN n
                        /\ \A key \in DOMAIN m : SameValue(st, m[key], n[key])
\* Arrays, dictionaries and instances are compared by content, functions by
\* their procedure alone, whatever scope they closed over.
SameValue(st, v, w) ==
  /\ v.t = w.t
  /\ CASE IsA(v, "fun")   -> v.proc = w.proc
       [] IsA(v, "tuple") -> SameAll(st, v.vs, w.vs)
       [] IsA(v, "arr")   -> v = w \/ SameAll(st, Elems(st, v), Elems(st, w))
       [] IsA(v, "dict")  -> v = w \/ SameFields(st, Fields(st, v), Fields(st, w))
       [] IsA(v, "inst")  -> v = w \/ /\ Obj(st, v).cls = Obj(st, w).cls
                                      /\ SameFields(st, Fields(st, v), Fields(st, w))
       [] OTHER           -> v = w

MaxPrintDepth == 32

Joined(strs, sep) ==
  FoldLeftDomain(LAMBDA acc, i : acc \o (IF i > 1 THEN sep ELSE "") \o strs[i], "", strs)

RECURSIVE Shown(_, _, _)
ShownAll(st, vs, d) == Joined([i \in DOMAIN vs |-> Shown(st, vs[i], d)], ", ")
ShownDict(st, m, d) ==
  LET type == IF "__type" \in DOMAIN m THEN m["__type"] ELSE Nil
      tag  == CASE type = StrV("option.some") -> "Some(" [] type = StrV("result.ok")  -> "Ok("
                [] type = StrV("result.err")  -> "Err("  [] OTHER -> ""
      keys == SetToSeq({key \in DOMAIN m : Len(key) < 2 \/ SubSeq(key, 1, 2) # "__"})
      text == [key \in DOMAIN m |-> Shown(st, m[key], d)]
  IN  CASE tag # "" -> tag \o text["__val"] \o ")"
        [] type = StrV("range") ->
             text["low"] \o (IF IsTruthy(m["inclusive"]) THEN "..=" ELSE "..") \o text["high"]
        [] OTHER -> "{" \o Joined([i \in DOMAIN keys |-> "\"" \o keys[i] \o "\": " \o text[keys[i]]], ", ") \o "}"
\* What print writes; d values enclose this one.
Shown(st, v, d) ==
  IF d >= MaxPrintDepth THEN "<...>"
  ELSE CASE IsA(v, "nil")    -> "nil"
         [] IsA(v, "int")    -> ToString(v.n)
         [] IsA(v, "bool")   -> IF v.b THEN "true" ELSE "false"
         [] IsA(v, "str")    -> v.s
         [] IsA(v, "exc")    -> "Exception: " \o v.s
         [] IsA(v, "fun")    -> "<fn>"
         [] IsA(v, "native") -> "<native fn>"
         [] IsA(v, "tuple")  -> "(" \o ShownAll(st, v.vs, d + 1) \o
                                   (IF Len(v.vs) = 1 THEN ",)" ELSE ")")
         [] IsA(v, "arr")    -> "[" \o ShownAll(st, Elems(st, v), d + 1) \o "]"
         [] IsA(v, "dict")   -> ShownDict(st, Fields(st, v), d + 1)
         [] IsA(v, "inst")   -> "<instance of " \o Obj(st, Obj(st, v).cls).name \o ">"
         [] IsA(v, "cls")    -> "<class " \o Obj(st, v).name \o ">"
         [] IsA(v, "gen")    -> CASE Obj(st, v).done    -> "<generator (exhausted)>"
                                  [] Obj(st, v).started -> "<generator (active)>"
                                  [] OTHER              -> "<generator>"
         [] OTHER            -> "<module>"
ValueToString(st, v) == Shown(st, v, 0)

Quot(a, b) == IF (a < 0) = (b < 0) THEN a \div b ELSE -((-a) \div b)
=============================================================================
