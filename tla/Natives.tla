------------------------------ MODULE Natives ------------------------------
(***************************************************************************)
(* The outcome of evaluating something (ExecResult), the built-in          *)
(* functions of interpreter.c that neither run Sage code nor leave the     *)
(* process, and the built-in methods of strings, arrays and dictionaries.  *)
(*                                                                         *)
(* An outcome has the signal that ended the evaluation:                    *)
(*   "ok"  a value          "ret"  is_returning     "brk"  is_breaking     *)
(*   "thr" is_throwing      "yld"  is_yielding      "cont" is_continuing   *)
(*   "exit" the process ended inside a built-in                            *)
(* and, for a yield, the statement to resume at.                           *)
(***************************************************************************)
EXTENDS Memory

R(sig, v, st) == [sig |-> sig, v |-> v, st |-> st, next |-> NoStmt]
Ok(v, st)     == R("ok", v, st)
Thr(msg, st)  == R("thr", ExcV(msg), st)

\* An expression goes on with whatever its operand gave unless that threw:
\* is_returning is not looked at.
Then(r, Go(_, _)) == IF r.sig \in {"thr", "exit"} THEN r ELSE Go(r.v, r.st)

(***************************************************************************)
(* Built-in functions.  One called with the wrong arguments gives nil.     *)
(***************************************************************************)
HasTypes(vs, types) == /\ Len(vs) = Len(types)
                       /\ \A i \in DOMAIN vs : types[i] = "any" \/ IsA(vs[i], types[i])
Checked(vs, types, r, st) == IF HasTypes(vs, types) THEN r ELSE Ok(Nil, st)

NewArray(vs, st) == Ok(Ref("arr", NewId(st)), Alloc(st, ArrObj(vs)))
NewDict(m, st)   == Ok(Ref("dict", NewId(st)), Alloc(st, DictObj(m)))
Tagged(type, v, st) == NewDict(("__type" :> StrV(type)) @@ ("__val" :> v), st)

println(vs, st) ==
  Ok(Nil, [st EXCEPT !.out =
             Append(@, Joined([i \in DOMAIN vs |-> ValueToString(st, vs[i])], " "))])
TypeNames == [t \in {"arr", "dict", "tuple", "cls", "exc", "gen", "mod", "fun", "native"} |->
                CASE t = "arr" -> "Array"     [] t = "dict" -> "Dict"     [] t = "tuple" -> "Tuple"
                  [] t = "cls" -> "Class"     [] t = "exc" -> "Exception" [] t = "gen"   -> "Generator"
                  [] t = "mod" -> "Module"    [] OTHER -> "function"]
typeof(vs, st) ==
  Ok(CASE Len(vs) # 1               -> StrV("nil")
       [] IsA(vs[1], "inst")        -> StrV(Obj(st, Obj(st, vs[1]).cls).name)
       [] vs[1].t \in DOMAIN TypeNames -> StrV(TypeNames[vs[1].t])
       [] OTHER                     -> StrV(vs[1].t), st)
int(vs, st) ==
  Ok(IF Len(vs) # 1 THEN Nil
     ELSE CASE IsA(vs[1], "int")  -> vs[1]
            [] IsA(vs[1], "bool") -> IntV(IF vs[1].b THEN 1 ELSE 0)
            [] OTHER              -> Nil, st)
len(vs, st) ==
  Ok(IF Len(vs) # 1 THEN Nil
     ELSE CASE IsA(vs[1], "arr")   -> IntV(Len(Elems(st, vs[1])))
            [] IsA(vs[1], "str")   -> IntV(Len(vs[1].s))
            [] IsA(vs[1], "tuple") -> IntV(Len(vs[1].vs))
            [] IsA(vs[1], "dict")  -> IntV(Cardinality(DOMAIN Fields(st, vs[1])))
            [] OTHER               -> Nil, st)
push(vs, st) == Checked(vs, <<"arr", "any">>, Ok(Nil, ArrayPush(st, vs[1], vs[2])), st)
array_extend(vs, st) ==
  Checked(vs, <<"arr", "arr">>, Ok(Nil, [st EXCEPT !.heap[vs[1].id].vs = @ \o Elems(st, vs[2])]), st)
ArrayPop(st, a) ==
  IF Elems(st, a) = << >> THEN Ok(Nil, st)
  ELSE Ok(Last(Elems(st, a)), [st EXCEPT !.heap[a.id].vs = Front(@)])
pop(vs, st) == Checked(vs, <<"arr">>, ArrayPop(st, vs[1]), st)
range(vs, st) ==
  IF \/ HasTypes(vs, <<"int">>) \/ HasTypes(vs, <<"int", "int">>)
  THEN LET lo == IF Len(vs) = 1 THEN 0 ELSE vs[1].n
           hi == Last(vs).n
       IN  NewArray([i \in 1 .. (IF hi > lo THEN hi - lo ELSE 0) |-> IntV(lo + i - 1)], st)
  ELSE Ok(Nil, st)
SliceOf(v, lo, hi, st) ==
  IF IsA(v, "arr") THEN NewArray(Between(Elems(st, v), lo, hi), st)
                   ELSE Ok(StrV(Between(v.s, lo, hi)), st)
slice(vs, st) ==
  IF HasTypes(vs, <<"arr", "int", "int">>) \/ HasTypes(vs, <<"str", "int", "int">>)
  THEN SliceOf(vs[1], vs[2].n, vs[3].n, st) ELSE Ok(Nil, st)
dict_keys(vs, st) ==
  Checked(vs, <<"dict">>,
          NewArray([i \in DOMAIN DictKeys(st, vs[1]) |-> StrV(DictKeys(st, vs[1])[i])], st), st)
DictValues(st, d) == [i \in DOMAIN DictKeys(st, d) |-> Fields(st, d)[DictKeys(st, d)[i]]]
dict_values(vs, st) ==
  Checked(vs, <<"dict">>, NewArray(DictValues(st, vs[1]), st), st)
dict_has(vs, st) ==
  Checked(vs, <<"dict", "str">>, Ok(BoolV(vs[2].s \in DOMAIN Fields(st, vs[1])), st), st)
dict_delete(vs, st) ==
  Checked(vs, <<"dict", "str">>, Ok(Nil, DictDelete(st, vs[1], vs[2].s)), st)

Some(vs, st) == IF vs = << >> THEN Ok(Nil, st) ELSE Tagged("option.some", vs[1], st)
OkOf(vs, st) == Tagged("result.ok", At(vs, 0), st)
Err(vs, st)  == Tagged("result.err", At(vs, 0), st)

(***************************************************************************)
(* Strings.                                                                *)
(***************************************************************************)
FoundAt(s, part) ==
  LET hits == {i \in 1 .. Len(s) - Len(part) + 1 : SubSeq(s, i, i + Len(part) - 1) = part}
  IN  IF hits = {} THEN 0 ELSE CHOOSE i \in hits : \A j \in hits : i <= j
HasPart(s, part)      == FoundAt(s, part) # 0
StartsWith(s, prefix) == Len(prefix) <= Len(s) /\ SubSeq(s, 1, Len(prefix)) = prefix
EndsWith(s, suffix)   == Len(suffix) <= Len(s) /\ SubSeq(s, Len(s) - Len(suffix) + 1, Len(s)) = suffix

\* The pieces between the occurrences of a delimiter: every character when
\* it is empty.
RECURSIVE PiecesOf(_, _)
PiecesOf(s, delimiter) ==
  LET i == FoundAt(s, delimiter)
  IN  CASE delimiter = "" -> [j \in 1 .. Len(s) |-> SubSeq(s, j, j)]
        [] i = 0          -> <<s>>
        [] OTHER -> <<SubSeq(s, 1, i - 1)>> \o PiecesOf(SubSeq(s, i + Len(delimiter), Len(s)), delimiter)
ReplacedIn(s, old, new) == IF old = "" THEN s ELSE Joined(PiecesOf(s, old), new)

Capitals == "ABCDEFGHIJKLMNOPQRSTUVWXYZ"
Smalls   == "abcdefghijklmnopqrstuvwxyz"
Recased(s, from, to) ==
  Joined([i \in 1 .. Len(s) |-> LET c == SubSeq(s, i, i)
                                    j == FoundAt(from, c)
                                IN  IF j = 0 THEN c ELSE SubSeq(to, j, j)], "")
UpperOf(s) == Recased(s, Smalls, Capitals)
LowerOf(s) == Recased(s, Capitals, Smalls)
StripOf(s) ==
  LET dark == {i \in 1 .. Len(s) : SubSeq(s, i, i) \notin {" ", "\t", "\n"}}
  IN  IF dark = {} THEN ""
      ELSE SubSeq(s, CHOOSE i \in dark : \A j \in dark : i <= j, CHOOSE i \in dark : \A j \in dark : i >= j)

split(vs, st) ==
  IF HasTypes(vs, <<"str", "str">>)
  THEN LET pieces == PiecesOf(vs[1].s, vs[2].s) IN NewArray([i \in DOMAIN pieces |-> StrV(pieces[i])], st)
  ELSE Ok(Nil, st)
\* The elements that have no text count as empty.
JoinedElements(st, a, sep) ==
  LET Piece(v) == IF v.t \in {"str", "int", "bool", "nil"} THEN ValueToString(st, v) ELSE ""
  IN  Joined([i \in DOMAIN Elems(st, a) |-> Piece(Elems(st, a)[i])], sep)
join(vs, st) ==
  IF HasTypes(vs, <<"arr", "str">>) THEN Ok(StrV(JoinedElements(st, vs[1], vs[2].s)), st) ELSE Ok(Nil, st)
replace(vs, st) ==
  IF HasTypes(vs, <<"str", "str", "str">>) THEN Ok(StrV(ReplacedIn(vs[1].s, vs[2].s, vs[3].s)), st) ELSE Ok(Nil, st)
Rewrite(To(_), vs, st) == IF HasTypes(vs, <<"str">>) THEN Ok(StrV(To(vs[1].s)), st) ELSE Ok(Nil, st)
upper(vs, st) == Rewrite(UpperOf, vs, st)
lower(vs, st) == Rewrite(LowerOf, vs, st)
strip(vs, st) == Rewrite(StripOf, vs, st)
TestPart(Holds(_, _), vs, st) ==
  IF HasTypes(vs, <<"str", "str">>) THEN Ok(BoolV(Holds(vs[1].s, vs[2].s)), st) ELSE Ok(Nil, st)
startswith(vs, st) == TestPart(StartsWith, vs, st)
endswith(vs, st)   == TestPart(EndsWith, vs, st)
contains(vs, st)   == TestPart(HasPart, vs, st)
type_native(vs, st) ==
  Ok(IF Len(vs) # 1 THEN Nil
     ELSE StrV(CASE vs[1].t \in {"nil", "int", "bool", "dict", "native", "tuple"} -> vs[1].t
                 [] IsA(vs[1], "str") -> "string"    [] IsA(vs[1], "arr")  -> "array"
                 [] IsA(vs[1], "fun") -> "function"  [] IsA(vs[1], "inst") -> "instance"
                 [] IsA(vs[1], "gen") -> "generator" [] OTHER              -> "unknown"), st)

(***************************************************************************)
(* Raw memory.  A pointer refers to a block, which stays when it is freed; *)
(* what goes on after an access that leaves its block, or one to anything  *)
(* else than integers and printable text, is not modelled.                 *)
(***************************************************************************)
Astray(st) == R("exit", Nil, [st EXCEPT !.astray = TRUE])

chr(vs, st) ==
  CASE ~HasTypes(vs, <<"int">>) \/ vs[1].n \notin 0 .. 127 -> Ok(Nil, st)
    [] vs[1].n = 0            -> Ok(StrV(""), st)
    [] IsPrintable(vs[1].n)   -> Ok(StrV(CharOf(vs[1].n)), st)
    [] OTHER                  -> Astray(st)
ord(vs, st) ==
  Ok(IF HasTypes(vs, <<"str">>) /\ vs[1].s # "" THEN IntV(CodeOf(SubSeq(vs[1].s, 1, 1))) ELSE Nil, st)

MaxBlock == 64 * 1024 * 1024
NewBlock(size, st) == Ok(Ref("ptr", NewId(st)), Alloc(st, NewBytes(size)))
mem_alloc(vs, st) == IF HasTypes(vs, <<"int">>) /\ vs[1].n \in 1 .. MaxBlock THEN NewBlock(vs[1].n, st) ELSE Ok(Nil, st)
mem_free(vs, st) ==
  Checked(vs, <<"ptr">>, Ok(Nil, [st EXCEPT !.heap[vs[1].id] = [@ EXCEPT !.live = FALSE, !.bytes = << >>]]), st)
mem_size(vs, st) == IF HasTypes(vs, <<"ptr">>) THEN Ok(IntV(Len(Obj(st, vs[1]).bytes)), st) ELSE Ok(Nil, st)

\* The bytes an access needs: one of an unknown type needs none, and does
\* nothing.
Needed(types, type) == IF type \in DOMAIN types THEN types[type] ELSE 0
\* An access is refused outside of the block, except in one of no bytes.
Allowed(st, vs, types) ==
  LET block == Obj(st, vs[1])
  IN  block.live /\ vs[2].n >= 0 /\ (block.bytes = << >> \/ InBlock(block, vs[2].n, Needed(types, vs[3].s)))
ReadTypes  == [byte |-> 1, int |-> 4, string |-> 1]
WriteTypes == [byte |-> 1, int |-> 4]
ValueAt(block, offset, type) ==
  CASE type # "string"              -> IntV(LoadNumber(block, offset, ReadTypes[type]))
    [] EndOfText(block, offset) = 0 -> Nil
    [] OTHER                        -> StrV(TextAt(block, offset))
mem_read(vs, st) ==
  CASE ~HasTypes(vs, <<"ptr", "int", "str">>) \/ ~Allowed(st, vs, ReadTypes) -> Ok(Nil, st)
    [] vs[3].s = "double" \/ (vs[3].s = "string" /\ ~Legible(Obj(st, vs[1]), vs[2].n)) -> Astray(st)
    [] vs[3].s \notin DOMAIN ReadTypes -> Ok(Nil, st)
    [] Obj(st, vs[1]).bytes = << >>    -> Astray(st)
    [] OTHER -> Ok(ValueAt(Obj(st, vs[1]), vs[2].n, vs[3].s), st)
mem_write(vs, st) ==
  CASE ~HasTypes(vs, <<"ptr", "int", "str", "any">>) \/ ~Allowed(st, vs, WriteTypes) -> Ok(Nil, st)
    [] vs[3].s \notin {"double"} \cup DOMAIN WriteTypes \/ ~IsA(vs[4], "int") -> Ok(Nil, st)
    [] vs[3].s = "double" \/ Obj(st, vs[1]).bytes = << >> -> Astray(st)
    [] OTHER -> Ok(Nil, [st EXCEPT !.heap[vs[1].id] = StoreNumber(@, vs[2].n, WriteTypes[vs[3].s], vs[4].n)])

(***************************************************************************)
(* C structures.  A definition is a dictionary from the fields to their    *)
(* offsets, sizes and types.                                               *)
(***************************************************************************)
IsField(st, f) ==
  /\ IsA(f, "arr") /\ HasTypes(Elems(st, f), <<"str", "str">>)
  /\ Elems(st, f)[2].s \in DOMAIN struct_type_info
FieldsOf(st, a) ==
  [i \in DOMAIN Elems(st, a) |-> LET f == Elems(st, Elems(st, a)[i]) IN [name |-> f[1].s, type |-> f[2].s]]
InfoOf(field) == TupleV(<<IntV(field.offset), IntV(struct_type_info[field.type]), StrV(field.type)>>)
StructDict(layout) ==
  ("__size__" :> IntV(layout.size)) @@ ("__align__" :> IntV(layout.align)) @@
    FoldLeft(LAMBDA m, f : (f.name :> InfoOf(f)) @@ m, << >>, layout.fields)
struct_def(vs, st) ==
  IF HasTypes(vs, <<"arr">>) /\ \A f \in Range(Elems(st, vs[1])) : IsField(st, f)
  THEN NewDict(StructDict(Layout(FieldsOf(st, vs[1]))), st) ELSE Ok(Nil, st)
SizeOf(vs, st) == IF HasTypes(vs, <<"dict">>) THEN DictGet(st, vs[1], "__size__") ELSE Nil
struct_size(vs, st) == Ok(IF IsA(SizeOf(vs, st), "int") THEN SizeOf(vs, st) ELSE Nil, st)
struct_new(vs, st) == IF IsA(SizeOf(vs, st), "int") THEN NewBlock(SizeOf(vs, st).n, st) ELSE Ok(Nil, st)

\* The offset is that of the definition, whatever the block is.
WithField(vs, st, Go(_, _)) ==
  LET info == DictGet(st, vs[2], vs[3].s)
  IN  CASE ~Obj(st, vs[1]).live \/ ~IsA(info, "tuple") -> Ok(Nil, st)
        [] info.vs[3].s \in NumberTypes /\ InBlock(Obj(st, vs[1]), info.vs[1].n, info.vs[2].n) -> Go(info.vs[1].n, info.vs[2].n)
        [] OTHER -> Astray(st)
struct_get(vs, st) ==
  IF HasTypes(vs, <<"ptr", "dict", "str">>)
  THEN WithField(vs, st, LAMBDA offset, size : Ok(IntV(LoadNumber(Obj(st, vs[1]), offset, size)), st)) ELSE Ok(Nil, st)
struct_set(vs, st) ==
  IF HasTypes(vs, <<"ptr", "dict", "str", "int">>)
  THEN WithField(vs, st, LAMBDA offset, size :
         Ok(Nil, [st EXCEPT !.heap[vs[1].id] = StoreNumber(@, offset, size, vs[4].n)])) ELSE Ok(Nil, st)

gc_enable(vs, st)  == Ok(Nil, [st EXCEPT !.gcOn = TRUE])
gc_disable(vs, st) == Ok(Nil, [st EXCEPT !.gcOn = FALSE])
gc_collect(vs, st) == Ok(Nil, st)
\* Setting the limit also forgets what was used.
vm_gas_limit_set(vs, st) ==
  IF vs # << >> /\ IsA(vs[1], "int") THEN Ok(Nil, [st EXCEPT !.gas = [limit |-> vs[1].n, used |-> 0]]) ELSE Ok(Nil, st)

NativeNames == {"println", "typeof", "int", "len", "push", "append", "array_extend", "pop", "range",
                "slice", "dict_keys", "dict_values", "dict_has", "dict_delete", "Some", "Ok", "Err",
                "gc_enable", "gc_disable", "gc_collect", "vm_gas_limit_set", "str", "next", "split", "join",
                "replace", "upper", "lower", "strip", "startswith", "endswith", "contains", "type", "chr", "ord",
                "mem_alloc", "mem_free", "mem_read", "mem_write", "mem_size",
                "struct_def", "struct_new", "struct_get", "struct_set", "struct_size"}

CallNative(name, vs, st) ==
  CASE name = "println" -> println(vs, st)     [] name = "typeof"       -> typeof(vs, st)
    [] name = "int"     -> int(vs, st)         [] name = "len"          -> len(vs, st)
    [] name = "push"    -> push(vs, st)        [] name = "append"       -> push(vs, st)
    [] name = "pop"     -> pop(vs, st)         [] name = "array_extend" -> array_extend(vs, st)
    [] name = "range"   -> range(vs, st)       [] name = "slice"        -> slice(vs, st)
    [] name = "Some"    -> Some(vs, st)        [] name = "dict_keys"    -> dict_keys(vs, st)
    [] name = "Ok"      -> OkOf(vs, st)        [] name = "dict_values"  -> dict_values(vs, st)
    [] name = "Err"     -> Err(vs, st)         [] name = "dict_has"     -> dict_has(vs, st)
    [] name = "split"   -> split(vs, st)       [] name = "join"         -> join(vs, st)
    [] name = "replace" -> replace(vs, st)     [] name = "type"         -> type_native(vs, st)
    [] name = "upper"   -> upper(vs, st)       [] name = "lower"        -> lower(vs, st)
    [] name = "strip"   -> strip(vs, st)       [] name = "contains"     -> contains(vs, st)
    [] name = "chr"     -> chr(vs, st)         [] name = "ord"          -> ord(vs, st)
    [] name = "mem_alloc"  -> mem_alloc(vs, st)  [] name = "mem_free"   -> mem_free(vs, st)
    [] name = "mem_read"   -> mem_read(vs, st)   [] name = "mem_write"  -> mem_write(vs, st)
    [] name = "mem_size"   -> mem_size(vs, st)   [] name = "struct_def" -> struct_def(vs, st)
    [] name = "struct_new" -> struct_new(vs, st) [] name = "struct_get" -> struct_get(vs, st)
    [] name = "struct_set" -> struct_set(vs, st) [] name = "struct_size" -> struct_size(vs, st)
    [] name = "startswith"       -> startswith(vs, st)
    [] name = "endswith"         -> endswith(vs, st)
    [] name = "gc_collect"       -> gc_collect(vs, st)
    [] name = "gc_enable"        -> gc_enable(vs, st)
    [] name = "gc_disable"       -> gc_disable(vs, st)
    [] name = "dict_delete"      -> dict_delete(vs, st)
    [] name = "vm_gas_limit_set" -> vm_gas_limit_set(vs, st)

(***************************************************************************)
(* Built-in methods (builtin_method_call).  The methods that only rewrite  *)
(* the characters of a string are left out.                                *)
(***************************************************************************)
MethodsOf(t) == CASE t = "str"  -> {"encode"}
                  [] t = "arr"  -> {"push", "append", "pop", "len", "contains", "reverse", "clear", "slice", "indexOf"}
                  [] t = "dict" -> {"keys", "values", "len", "contains_key", "get", "delete"}
                  [] OTHER      -> {}

IndexOf(st, a, v) ==
  LET hits == {i \in DOMAIN Elems(st, a) : SameValue(st, Elems(st, a)[i], v)}
  IN  IF hits = {} THEN -1 ELSE (CHOOSE i \in hits : \A j \in hits : i <= j) - 1
IntOr(vs, i, default) == IF Len(vs) >= i /\ IsA(vs[i], "int") THEN vs[i].n ELSE default
KeyOf(vs) == IF vs # << >> /\ IsA(vs[1], "str") THEN vs[1].s ELSE ""

ArrayMethod(a, name, vs, st) ==
  CASE name \in {"push", "append"} -> Ok(Nil, IF vs = << >> THEN st ELSE ArrayPush(st, a, vs[1]))
    [] name = "pop"      -> ArrayPop(st, a)
    [] name = "len"      -> Ok(IntV(Len(Elems(st, a))), st)
    [] name = "contains" -> Ok(BoolV(vs # << >> /\ IndexOf(st, a, vs[1]) >= 0), st)
    [] name = "indexOf"  -> Ok(IntV(IF vs = << >> THEN -1 ELSE IndexOf(st, a, vs[1])), st)
    [] name = "reverse"  -> Ok(Nil, [st EXCEPT !.heap[a.id].vs = Reverse(@)])
    [] name = "clear"    -> Ok(Nil, [st EXCEPT !.heap[a.id].vs = << >>])
    [] name = "slice"    -> SliceOf(a, IntOr(vs, 1, 0), IntOr(vs, 2, Len(Elems(st, a))), st)

DictMethod(d, name, vs, st) ==
  CASE name = "keys"   -> dict_keys(<<d>>, st)
    [] name = "values" -> dict_values(<<d>>, st)
    [] name = "len"    -> len(<<d>>, st)
    [] name = "contains_key" -> Ok(BoolV(DictGet(st, d, KeyOf(vs)) # Nil), st)
    [] name = "get"    -> LET v == DictGet(st, d, KeyOf(vs))
                          IN  Ok(IF v # Nil THEN v ELSE At(vs, 1), st)
    [] name = "delete" -> Ok(Nil, DictDelete(st, d, KeyOf(vs)))

BuiltinMethod(object, name, vs, st) ==
  CASE IsA(object, "str")  -> Ok(object, st)
    [] IsA(object, "arr")  -> ArrayMethod(object, name, vs, st)
    [] IsA(object, "dict") -> DictMethod(object, name, vs, st)
=============================================================================
