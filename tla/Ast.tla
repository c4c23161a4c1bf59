-------------------------------- MODULE Ast --------------------------------
(***************************************************************************)
(* The syntax trees of the language: the node types of include/ast.h,      *)
(* with one operator for each constructor of ast.c.  The parser builds     *)
(* them; the passes, the checker, the interpreter and the compilers walk   *)
(* over them.                                                              *)
(*                                                                         *)
(* A node is a record whose field "k" says what it is.  A token is the     *)
(* name or the operator it spells, a list of statements linked by "next"   *)
(* is a sequence, and an absent child is NoExpr or NoStmt.  Positions,     *)
(* documentation, type parameters and the inline caches of variables are   *)
(* left out.  The raw text of an interpolated string is kept as the        *)
(* sequence of its literal parts and of the expressions between braces.    *)
(***************************************************************************)
EXTENDS Integers, Sequences

NoExpr == [k |-> "noexpr"]
NoStmt == [k |-> "nostmt"]

(***************************************************************************)
(* Expressions.                                                            *)
(***************************************************************************)
IntE(n)                  == [k |-> "int", n |-> n]
StrE(s)                  == [k |-> "str", s |-> s]
BoolE(b)                 == [k |-> "bool", b |-> b]
NilE                     == [k |-> "nil"]
Var(name)                == [k |-> "var", name |-> name]
Bin(left, op, right)     == [k |-> "bin", op |-> op, l |-> left, r |-> right]
ArrayE(elements)         == [k |-> "array", es |-> elements]
TupleE(elements)         == [k |-> "tuple", es |-> elements]
DictE(keys, values)      == [k |-> "dict", keys |-> keys, es |-> values]
Index(array, index)      == [k |-> "index", x |-> array, i |-> index]
IndexSet(a, index, val)  == [k |-> "indexset", x |-> a, i |-> index, e |-> val]
Slice(a, start, end)     == [k |-> "slice", x |-> a, lo |-> start, hi |-> end]
Get(object, property)    == [k |-> "get", x |-> object, name |-> property]
SetE(obj, property, val) == [k |-> "set", x |-> obj, name |-> property, e |-> val]
Call(callee, args)       == [k |-> "call", f |-> callee, es |-> args]
Await(expr)              == [k |-> "await", e |-> expr]
Super(method)            == [k |-> "super", name |-> method]
ComptimeE(expr)          == [k |-> "comptime", e |-> expr]
Unwrap(operand)          == [k |-> "unwrap", e |-> operand]
Propagate(operand)       == [k |-> "propagate", e |-> operand]
NullCoal(left, right)    == [k |-> "nullcoal", l |-> left, r |-> right]
OptChain(object, member) == [k |-> "optchain", x |-> object, name |-> member]
RangeE(low, high, inc)   == [k |-> "range", lo |-> low, hi |-> high, inc |-> inc]
Interp(parts)            == [k |-> "interp", parts |-> parts]

\* x = e is a SET without an object; -x, not x and ~x keep their operand on
\* the left; a.. among the elements of an array spreads a.
Assign(name, val) == SetE(NoExpr, name, val)
Unary(op, e)      == Bin(e, op, NoExpr)
Spread(e)         == Bin(e, "..", NoExpr)

(***************************************************************************)
(* Statements.  A procedure has parameters [name, dflt, type], with the    *)
(* name of the type in its annotation, "" without one.                     *)
(***************************************************************************)
Param(name, dflt, type)  == [name |-> name, dflt |-> dflt, type |-> type]
PrintS(e)                == [k |-> "print", e |-> e]
ExprS(e)                 == [k |-> "expr", e |-> e]
Let(name, init, mutable) == [k |-> "let", name |-> name, e |-> init, mut |-> mutable]
TypedLet(name, t, init, mutable) == [k |-> "let", name |-> name, e |-> init, mut |-> mutable, type |-> t]
If(c, then, else)        == [k |-> "if", c |-> c, s |-> then, alt |-> else]
While(c, body)           == [k |-> "while", c |-> c, s |-> body]
For(name, iter, body)    == [k |-> "for", name |-> name, e |-> iter, s |-> body]
Block(stmts)             == [k |-> "block", ss |-> stmts]
Annotated(annot, body)   == [k |-> "annotated", annot |-> annot, s |-> body]
Proc(name, params, body) == [k |-> "proc", name |-> name, ps |-> params, s |-> body]
AsyncProc(name, ps, s)   == [k |-> "async", name |-> name, ps |-> ps, s |-> s]
MacroDef(name, ps, s)    == [k |-> "macro", name |-> name, ps |-> ps, s |-> s]
Return(e)                == [k |-> "return", e |-> e]
Break                    == [k |-> "break"]
Continue                 == [k |-> "continue"]
Class(name, up, methods) == [k |-> "class", name |-> name, up |-> up, ss |-> methods]
Struct(name, fields)     == [k |-> "struct", name |-> name, fields |-> fields]
Enum(name, variants)     == [k |-> "enum", name |-> name, variants |-> variants]
Trait(name, methods)     == [k |-> "trait", name |-> name, ss |-> methods]
Impl(target, methods)    == [k |-> "impl", name |-> target, ss |-> methods]
Case(pattern, guard, s)  == [p |-> pattern, c |-> guard, s |-> s]
Match(e, cases, default) == [k |-> "match", e |-> e, cases |-> cases, s |-> default]
Defer(s)                 == [k |-> "defer", s |-> s]
Catch(var, body)         == [name |-> var, s |-> body]
Try(s, catches, finally) == [k |-> "try", s |-> s, catches |-> catches, fin |-> finally]
Raise(e)                 == [k |-> "raise", e |-> e]
Yield(e)                 == [k |-> "yield", e |-> e]
Spawn(s)                 == [k |-> "spawn", s |-> s]
ComptimeS(s)             == [k |-> "comptimes", s |-> s]
\* items is << >> for a whole module; an item is [name, alias].
Import(m, items, alias)  == [k |-> "import", name |-> m, items |-> items, alias |-> alias]
\* Types are the tokens that spell them; lib is that of the pragma @clib.
Extern(name, ps, ret, lib) == [k |-> "extern", name |-> name, ps |-> ps, ret |-> ret, lib |-> lib]

(***************************************************************************)
(* All the nodes of a tree, wherever they are.                             *)
(***************************************************************************)
NodeFields == {"e", "l", "r", "x", "i", "lo", "hi", "f", "c", "p", "s", "alt", "fin", "dflt"}
ListFields == {"es", "ss", "cases", "catches", "parts", "ps"}
IsText(n) == "k" \in DOMAIN n /\ n.k = "str"
RECURSIVE Nodes(_)
Nodes(n) == {n} \cup UNION {Nodes(n[x]) : x \in IF IsText(n) THEN {} ELSE NodeFields \cap DOMAIN n}
                \cup UNION {UNION {Nodes(n[x][i]) : i \in DOMAIN n[x]} : x \in ListFields \cap DOMAIN n}
=============================================================================
