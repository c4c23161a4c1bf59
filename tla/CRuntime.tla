------------------------------ MODULE CRuntime ------------------------------
(***************************************************************************)
(* The runtime that emit_runtime_prelude writes in front of every program  *)
(* the C backend generates: its objects, its mark and sweep collector and  *)
(* the helpers that generated code calls.  Bitwise operators, input and    *)
(* clocks are left out.                                                    *)
(*                                                                         *)
(* Numbers are integers.  Strings are objects here, as arrays,             *)
(* dictionaries (instances among them) and tuples are.  The world of a     *)
(* generated program is one record:                                        *)
(*   procs, classes   its functions and its classes                        *)
(*   out      what it printed so far                                       *)
(*   heap     its objects; a swept one is Freed                            *)
(*   acts     the slots of the functions called so far, main's first       *)
(*   frames   the functions whose roots are linked, the last one on top    *)
(*   dead     the functions that are no longer running                     *)
(*   tries    the saved contexts, below sage_try_depth: whether the        *)
(*            program is still inside the try statement                    *)
(*   exc      sage_exception_value                                         *)
(*   gcOn, next, min   whether to collect, the number of objects to        *)
(*            collect at, and the least such number                        *)
(*   rtl      whether the C compiler evaluates arguments from the last     *)
(*   mem      its blocks of raw memory, which addresses name               *)
(*   astray   history: memory was accessed outside of a block              *)
(*   wild     history: something freed or left was used                    *)
(*   differs  history: a helper met a value it treats in another way than  *)
(*            the interpreter does                                         *)
(***************************************************************************)
EXTENDS Natives

Freed == [k |-> "freed"]
NoSlot == [defined |-> FALSE, v |-> Nil]

StartWorld(globals, procs, classes, trigger, rtl) ==
  [procs |-> procs, classes |-> classes, out |-> << >>, heap |-> << >>, acts |-> <<[name \in globals |-> NoSlot]>>, frames |-> <<1>>,
   dead |-> {}, tries |-> << >>, exc |-> Nil, gcOn |-> TRUE, next |-> trigger, min |-> trigger,
   rtl |-> rtl, mem |-> << >>, astray |-> FALSE, wild |-> FALSE, differs |-> FALSE]

Exit(st) == R("exit", Nil, st)
Wild(st) == Exit([st EXCEPT !.wild = TRUE])

IsRef(v) == "id" \in DOMAIN v
Dangling(st, v) == IsRef(v) /\ Obj(st, v) = Freed
Text(st, v) == Obj(st, v).s

(***************************************************************************)
(* The collector.  A helper that pins it allocates without collecting.     *)
(***************************************************************************)
Count(st) == Cardinality({i \in DOMAIN st.heap : st.heap[i] # Freed})

Parts(obj) == CASE obj.k \in {"arr", "tuple"} -> Range(obj.vs)
                [] obj.k = "dict"             -> Range(obj.m)
                [] OTHER                      -> {}
Ids(vs) == {v.id : v \in {w \in vs : IsRef(w)}}
RECURSIVE sage_gc_mark_value(_, _)
sage_gc_mark_value(st, ids) ==
  LET more == ids \cup UNION {Ids(Parts(st.heap[i])) : i \in ids}
  IN  IF more = ids THEN ids ELSE sage_gc_mark_value(st, more)

\* The slots of the linked frames, and the exception while a try is open.
\* Mutant of Roots: the frame on top is not scanned.
RootsBelow(st) ==
  {slot.v : slot \in {s \in UNION {Range(st.acts[a]) : a \in Range(Front(st.frames))} : s.defined}}
    \cup (IF st.tries = << >> THEN {} ELSE {st.exc})
Roots(st) ==
  {slot.v : slot \in {s \in UNION {Range(st.acts[a]) : a \in Range(st.frames)} : s.defined}}
    \cup (IF st.tries = << >> THEN {} ELSE {st.exc})

AtLeast(n, least) == IF n < least THEN least ELSE n
sage_gc_recompute_thresholds(st, reclaimed) ==
  LET live    == Count(st)
      half    == st.min \div 2
      padding == AtLeast(live \div 2, half)
      scaled  == CASE reclaimed <= live \div 8 -> AtLeast(padding \div 2, half)
                   [] reclaimed >= live        -> 2 * padding
                   [] OTHER                    -> padding
  IN  [st EXCEPT !.next = AtLeast(live + scaled, st.min)]

Sweep(st, marked) ==
  [st EXCEPT !.heap = [i \in DOMAIN @ |-> IF i \in marked THEN @[i] ELSE Freed]]
\* The frame of a function that was left by a jump, or that yielded, is still
\* linked: marking it reads a stack that is gone.
sage_gc_collect(st) ==
  CASE ~st.gcOn -> Ok(Nil, st)
    [] Range(st.frames) \cap st.dead # {} \/ (\E v \in Roots(st) : Dangling(st, v)) -> Wild(st)
    [] OTHER -> LET swept == Sweep(st, sage_gc_mark_value(st, Ids(Roots(st))))
                IN  Ok(Nil, sage_gc_recompute_thresholds(swept, Count(st) - Count(swept)))

sage_gc_should_collect(st) == Count(st) + 1 >= st.next
PinnedAlloc(t, obj, st) == Ok(Ref(t, NewId(st)), Alloc(st, obj))
sage_gc_alloc(t, obj, st) ==
  IF sage_gc_should_collect(st)
  THEN Then(sage_gc_collect(st), LAMBDA v, s : PinnedAlloc(t, obj, s)) ELSE PinnedAlloc(t, obj, st)

sage_gc_push_frame(st, slots) ==
  [st EXCEPT !.acts = Append(@, slots), !.frames = Append(@, Len(st.acts) + 1)]
\* Only the frame on top is unlinked.
sage_gc_pop_frame(st, act) ==
  IF st.frames # << >> /\ Last(st.frames) = act THEN [st EXCEPT !.frames = Front(@)] ELSE st

(***************************************************************************)
(* Making objects, slots, exceptions.                                      *)
(***************************************************************************)
StrObj(s) == [k |-> "str", s |-> s]
sage_string(s, st) == sage_gc_alloc("str", StrObj(s), st)
sage_array(st)     == sage_gc_alloc("arr", ArrObj(<< >>), st)
sage_make_dict(st) == sage_gc_alloc("dict", DictObj(<< >>), st)

sage_make_array(vs, st) == PinnedAlloc("arr", ArrObj(vs), st)
sage_make_tuple(vs, st) == PinnedAlloc("tuple", [k |-> "tuple", vs |-> vs], st)
sage_make_dict_from_entries(keys, vs, st) ==
  PinnedAlloc("dict", DictObj(FoldLeftDomain(LAMBDA m, i : (keys[i] :> vs[i]) @@ m, << >>, keys)), st)
PinnedStrings(strs, st) ==
  Ok(TupleV([i \in DOMAIN strs |-> Ref("str", Len(st.heap) + i)]),
     [st EXCEPT !.heap = @ \o [i \in DOMAIN strs |-> StrObj(strs[i])]])
ArrayOf(strs, st) == Then(PinnedStrings(strs, st), LAMBDA vs, s : sage_make_array(vs.vs, s))

sage_load_slot(st, act, name) ==
  IF st.acts[act][name].defined THEN Ok(st.acts[act][name].v, st) ELSE Exit(st)
sage_define_slot(st, act, name, v) ==
  [st EXCEPT !.acts[act][name] = [defined |-> TRUE, v |-> v]]
sage_assign_slot(st, act, name, v) ==
  IF st.acts[act][name].defined THEN Ok(v, sage_define_slot(st, act, name, v)) ELSE Exit(st)

\* The jump goes to the last saved context, whether or not the program is
\* still inside that try statement.
sage_raise(v, st) ==
  CASE st.tries = << >>     -> Exit(st)
    [] ~Last(st.tries)      -> Wild(st)
    [] OTHER                -> R("thr", v, [st EXCEPT !.exc = v])

(***************************************************************************)
(* The helpers.  Operands of a wrong type end the process.                 *)
(***************************************************************************)
Truthy(st, v) == IF IsA(v, "str") THEN Text(st, v) # "" ELSE IsTruthy(v)

RECURSIVE sage_values_equal(_, _, _)
sage_values_equal(st, v, w) ==
  /\ v.t = w.t
  /\ CASE v = w -> TRUE
       [] IsA(v, "str") -> Text(st, v) = Text(st, w)
       [] v.t \in {"arr", "tuple"} ->
            /\ Len(Elems(st, v)) = Len(Elems(st, w))
            /\ \A i \in DOMAIN Elems(st, v) : sage_values_equal(st, Elems(st, v)[i], Elems(st, w)[i])
       [] OTHER -> FALSE

RECURSIVE Written(_, _)
WrittenAll(st, vs) == Joined([i \in DOMAIN vs |-> Written(st, vs[i])], ", ")
\* What sage_print_value writes.
Written(st, v) ==
  CASE IsA(v, "str")   -> Text(st, v)
    [] IsA(v, "arr")   -> "[" \o WrittenAll(st, Elems(st, v)) \o "]"
    [] IsA(v, "tuple") -> "(" \o WrittenAll(st, Elems(st, v)) \o ")"
    [] IsA(v, "dict")  -> LET keys == DictKeys(st, v)
                          IN  "{" \o Joined([i \in DOMAIN keys |-> "\"" \o keys[i] \o "\": " \o Written(st, Fields(st, v)[keys[i]])], ", ") \o "}"
    [] OTHER           -> ValueToString(st, v)
sage_print_ln(vs, st) == Ok(Nil, [st EXCEPT !.out = Append(@, Written(st, vs[1]))])

sage_str(vs, st) ==
  CASE IsA(vs[1], "str")   -> Ok(vs[1], st)
    [] IsA(vs[1], "arr")   -> sage_string("<array>", st)
    [] IsA(vs[1], "dict")  -> sage_string("<dict>", st)
    [] IsA(vs[1], "tuple") -> sage_string("<tuple>", st)
    [] OTHER               -> sage_string(ValueToString(st, vs[1]), st)
sage_len(vs, st) ==
  Ok(CASE IsA(vs[1], "str")            -> IntV(Len(Text(st, vs[1])))
       [] vs[1].t \in {"arr", "tuple"} -> IntV(Len(Elems(st, vs[1])))
       [] IsA(vs[1], "dict")           -> IntV(Cardinality(DOMAIN Fields(st, vs[1])))
       [] OTHER                        -> Nil, st)

Character(s, i, st) == IF i \in 0 .. Len(s) - 1 THEN sage_string(SubSeq(s, i + 1, i + 1), st) ELSE Ok(Nil, st)
sage_index(vs, st) ==
  CASE vs[1].t \in {"arr", "tuple"} /\ IsA(vs[2], "int") -> Ok(At(Elems(st, vs[1]), vs[2].n), st)
    [] HasTypes(vs, <<"dict", "str">>) -> Ok(DictGet(st, vs[1], Text(st, vs[2])), st)
    [] HasTypes(vs, <<"str", "int">>)  -> Character(Text(st, vs[1]), vs[2].n, st)
    [] OTHER -> Ok(Nil, st)
sage_index_set(vs, st) ==
  Ok(Nil, CASE HasTypes(vs, <<"arr", "int", "any">>)  -> ArraySet(st, vs[1], vs[2].n, vs[3])
            [] HasTypes(vs, <<"dict", "str", "any">>) -> DictSet(st, vs[1], Text(st, vs[2]), vs[3])
            [] OTHER -> st)
sage_slice(vs, st) ==
  IF IsA(vs[1], "arr") /\ vs[2].t \in {"int", "nil"} /\ vs[3].t \in {"int", "nil"}
  THEN sage_make_array(Between(Elems(st, vs[1]), IF vs[2] = Nil THEN 0 ELSE vs[2].n,
                               IF vs[3] = Nil THEN Len(Elems(st, vs[1])) ELSE vs[3].n), st)
  ELSE Ok(Nil, st)
sage_push(vs, st) == Checked(vs, <<"arr", "any">>, Ok(Nil, ArrayPush(st, vs[1], vs[2])), st)
sage_pop(vs, st)  == Checked(vs, <<"arr">>, ArrayPop(st, vs[1]), st)
sage_range2(vs, st) ==
  Checked(vs, <<"int", "int">>,
          sage_make_array([i \in 1 .. AtLeast(vs[2].n - vs[1].n, 0) |-> IntV(vs[1].n + i - 1)], st), st)

sage_add(vs, st) ==
  CASE HasTypes(vs, <<"int", "int">>) -> Ok(IntV(vs[1].n + vs[2].n), st)
    [] HasTypes(vs, <<"str", "str">>) -> sage_string(Text(st, vs[1]) \o Text(st, vs[2]), st)
    [] OTHER -> Exit(st)
Numeric(op, m, n) ==
  CASE op = "-"  -> IntV(m - n)    [] op = "*"  -> IntV(m * n)
    [] op = "/"  -> IF n = 0 THEN Nil ELSE IntV(Quot(m, n))
    [] op = "%"  -> IF n = 0 THEN Nil ELSE IntV(m - n * Quot(m, n))
    [] op = "<"  -> BoolV(m < n)   [] op = ">"  -> BoolV(m > n)
    [] op = "<=" -> BoolV(m <= n)  [] op = ">=" -> BoolV(m >= n)
NumericOp(op, vs, st) ==
  IF HasTypes(vs, <<"int", "int">>) THEN Ok(Numeric(op, vs[1].n, vs[2].n), st) ELSE Exit(st)
\* Both operands have been evaluated: "and" and "or" only combine them.
\* Mutant of Logical: an "or" of which one operand is false is false.
LogicalOr(op, vs, st) ==
  Ok(BoolV(CASE op = "not" -> ~Truthy(st, vs[1]) [] OTHER -> Truthy(st, vs[1]) /\ Truthy(st, vs[2])), st)
Logical(op, vs, st) ==
  Ok(BoolV(CASE op = "not" -> ~Truthy(st, vs[1])
             [] op = "and" -> Truthy(st, vs[1]) /\ Truthy(st, vs[2])
             [] op = "or"  -> Truthy(st, vs[1]) \/ Truthy(st, vs[2])), st)
BinaryHelper(op, vs, st) ==
  CASE op = "+"  -> sage_add(vs, st)
    [] op = "==" -> Ok(BoolV(sage_values_equal(st, vs[1], vs[2])), st)
    [] op = "!=" -> Ok(BoolV(~sage_values_equal(st, vs[1], vs[2])), st)
    [] op \in {"and", "or", "not"} -> Logical(op, vs, st)
    [] OTHER     -> NumericOp(op, vs, st)

sage_dict_keys_fn(vs, st) ==
  IF IsA(vs[1], "dict") THEN ArrayOf(DictKeys(st, vs[1]), st) ELSE sage_array(st)
sage_dict_values_fn(vs, st) ==
  LET keys == DictKeys(st, vs[1])
  IN  IF IsA(vs[1], "dict") THEN sage_make_array([i \in DOMAIN keys |-> Fields(st, vs[1])[keys[i]]], st)
      ELSE sage_array(st)
HasKey(vs, st) == HasTypes(vs, <<"dict", "str">>) /\ Text(st, vs[2]) \in DOMAIN Fields(st, vs[1])
sage_dict_has_fn(vs, st) == Ok(BoolV(HasKey(vs, st)), st)
sage_dict_delete_fn(vs, st) ==
  IF HasTypes(vs, <<"dict", "str">>)
  THEN Ok(BoolV(HasKey(vs, st)), DictDelete(st, vs[1], Text(st, vs[2]))) ELSE Ok(Nil, st)

sage_type(vs, st) ==
  sage_string(CASE vs[1].t \in {"nil", "bool", "dict"} -> vs[1].t [] IsA(vs[1], "int") -> "number"
                [] IsA(vs[1], "str") -> "string" [] IsA(vs[1], "arr") -> "array" [] OTHER -> "unknown", st)

\* What join takes from the elements: only the strings have a text.
JoinedTexts(vs, st) == [i \in DOMAIN vs |-> IF IsA(vs[i], "str") THEN Text(st, vs[i]) ELSE ""]
AllText(vs) == \A i \in DOMAIN vs : IsA(vs[i], "str")
TextTest(Test(_, _), vs, st) == Ok(BoolV(AllText(vs) /\ Test(Text(st, vs[1]), Text(st, vs[2]))), st)
Rewritten(Map(_), vs, st) == IF AllText(vs) THEN sage_string(Map(Text(st, vs[1])), st) ELSE Ok(Nil, st)
sage_startswith(vs, st) == TextTest(StartsWith, vs, st)
sage_endswith(vs, st)   == TextTest(EndsWith, vs, st)
sage_contains(vs, st)   == TextTest(HasPart, vs, st)
sage_upper(vs, st)      == Rewritten(UpperOf, vs, st)
sage_lower(vs, st)      == Rewritten(LowerOf, vs, st)
sage_strip_fn(vs, st)   == Rewritten(StripOf, vs, st)
sage_split_fn(vs, st) ==
  IF AllText(vs) THEN ArrayOf(PiecesOf(Text(st, vs[1]), Text(st, vs[2])), st) ELSE sage_array(st)
sage_join_fn(vs, st) ==
  IF HasTypes(vs, <<"arr", "str">>)
  THEN sage_string(Joined(JoinedTexts(Elems(st, vs[1]), st), Text(st, vs[2])), st) ELSE Ok(Nil, st)
sage_replace_fn(vs, st) ==
  IF AllText(vs) THEN sage_string(ReplacedIn(Text(st, vs[1]), Text(st, vs[2]), Text(st, vs[3])), st) ELSE Ok(Nil, st)

sage_chr(vs, st) ==
  CASE ~IsA(vs[1], "int")          -> Ok(Nil, st)
    [] vs[1].n % 256 = 0           -> sage_string("", st)
    [] IsPrintable(vs[1].n % 256)  -> sage_string(CharOf(vs[1].n % 256), st)
    [] OTHER                       -> Astray(st)
sage_ord(vs, st) ==
  Ok(IF AllText(vs) /\ Text(st, vs[1]) # "" THEN IntV(CodeOf(SubSeq(Text(st, vs[1]), 1, 1))) ELSE Nil, st)

(***************************************************************************)
(* Raw memory.  A pointer is the address of a handle, as a number: any     *)
(* number but zero is followed, and a freed handle is gone.  What goes on  *)
(* then, or after an access outside of a block, is not modelled.           *)
(***************************************************************************)
AddrV(i) == [t |-> "addr", at |-> i]
NewHandle(size, st) == Ok(AddrV(Len(st.mem) + 1), [st EXCEPT !.mem = Append(@, NewBytes(size))])
sage_mem_alloc(vs, st) == IF IsA(vs[1], "int") /\ vs[1].n \in 1 .. MaxBlock THEN NewHandle(vs[1].n, st) ELSE Ok(Nil, st)
sage_as_pointer(v, st, Go(_)) ==
  CASE IsA(v, "addr") /\ st.mem[v.at].live        -> Go(st.mem[v.at])
    [] IsA(v, "addr") \/ (IsA(v, "int") /\ v.n # 0) -> Astray(st)
    [] OTHER                                      -> Ok(Nil, st)
sage_mem_free(vs, st) ==
  sage_as_pointer(vs[1], st, LAMBDA block : Ok(Nil, [st EXCEPT !.mem[vs[1].at].live = FALSE]))
sage_mem_size(vs, st) == sage_as_pointer(vs[1], st, LAMBDA block : Ok(IntV(Len(block.bytes)), st))

Place(vs, types, st) == HasTypes(FirstOf(vs, 3), <<"any", "int", "str">>) /\ Text(st, vs[3]) \in {"double"} \cup DOMAIN types
CValueAt(block, offset, type, st) ==
  CASE type = "double" \/ ~InBlock(block, offset, ReadTypes[type]) -> Astray(st)
    [] type # "string"                                          -> Ok(IntV(LoadNumber(block, offset, ReadTypes[type])), st)
    [] EndOfText(block, offset) = 0 \/ ~Legible(block, offset)     -> Astray(st)
    [] OTHER                                                    -> sage_string(TextAt(block, offset), st)
sage_mem_read(vs, st) ==
  sage_as_pointer(vs[1], st, LAMBDA block :
    IF Place(vs, ReadTypes, st) THEN CValueAt(block, vs[2].n, Text(st, vs[3]), st) ELSE Ok(Nil, st))
CStore(v, offset, type, sizes, n, st) ==
  IF type \in NumberTypes /\ InBlock(st.mem[v.at], offset, sizes[type])
  THEN Ok(Nil, [st EXCEPT !.mem[v.at] = StoreNumber(@, offset, sizes[type], n)]) ELSE Astray(st)
sage_mem_write(vs, st) ==
  sage_as_pointer(vs[1], st, LAMBDA block :
    IF Place(vs, WriteTypes, st) /\ IsA(vs[4], "int")
    THEN CStore(vs[1], vs[2].n, Text(st, vs[3]), WriteTypes, vs[4].n, st) ELSE Ok(Nil, st))

\* What is no field of a known type is skipped.
CFieldsOf(st, a) ==
  LET Known(f) == /\ IsA(f, "arr") /\ Len(Elems(st, f)) >= 2
                  /\ AllText(FirstOf(Elems(st, f), 2)) /\ Text(st, Elems(st, f)[2]) \in DOMAIN struct_type_info
      known == SelectSeq(Elems(st, a), Known)
  IN  [i \in DOMAIN known |-> [name |-> Text(st, Elems(st, known[i])[1]), type |-> Text(st, Elems(st, known[i])[2])]]
\* Each field is an array of its offset and its type, all of it pinned.
PinnedInfos(fields, types, st) ==
  Ok(TupleV([i \in DOMAIN fields |-> Ref("arr", Len(st.heap) + i)]),
     [st EXCEPT !.heap = @ \o [i \in DOMAIN fields |-> ArrObj(<<IntV(fields[i].offset), types[i]>>)]])
StructOf(fields, sizes, st) ==
  Then(PinnedStrings([i \in DOMAIN fields |-> fields[i].type], st), LAMBDA types, s1 :
    Then(PinnedInfos(fields, types.vs, s1), LAMBDA infos, s2 :
      sage_make_dict_from_entries([i \in DOMAIN fields |-> fields[i].name] \o <<"__size__", "__align__">>,
                                  infos.vs \o sizes, s2)))
sage_struct_def(vs, st) ==
  IF ~IsA(vs[1], "arr") THEN Ok(Nil, st)
  ELSE LET layout == Layout(CFieldsOf(st, vs[1]))
       IN  StructOf(layout.fields, <<IntV(layout.size), IntV(layout.align)>>, st)
CSizeOf(v, st) == IF IsA(v, "dict") THEN DictGet(st, v, "__size__") ELSE Nil
sage_struct_size(vs, st) == Ok(CSizeOf(vs[1], st), st)
sage_struct_new(vs, st) ==
  IF IsA(CSizeOf(vs[1], st), "int") THEN NewHandle(CSizeOf(vs[1], st).n, st) ELSE Ok(Nil, st)
WithInfo(vs, st, Go(_, _, _)) ==
  sage_as_pointer(vs[1], st, LAMBDA block :
    LET info == IF HasTypes(FirstOf(vs, 3), <<"any", "dict", "str">>) THEN DictGet(st, vs[2], Text(st, vs[3])) ELSE Nil
    IN  IF ~IsA(info, "arr") THEN Ok(Nil, st)
        ELSE Go(block, Elems(st, info)[1].n, Text(st, Elems(st, info)[2])))
sage_struct_get(vs, st) ==
  WithInfo(vs, st, LAMBDA block, offset, type :
    IF type \in NumberTypes /\ InBlock(block, offset, struct_type_info[type])
    THEN Ok(IntV(LoadNumber(block, offset, struct_type_info[type])), st) ELSE Astray(st))
sage_struct_set(vs, st) ==
  WithInfo(vs, st, LAMBDA block, offset, type :
    IF IsA(vs[4], "int") THEN CStore(vs[1], offset, type, struct_type_info, vs[4].n, st) ELSE Ok(Nil, st))

sage_gc_collect_fn(st) == Then(sage_gc_collect(st), LAMBDA v, s : Ok(Nil, s))
SetEnabled(st, b) == Ok(Nil, [st EXCEPT !.gcOn = b])

ListArity  == [str |-> {1}, len |-> {1}, push |-> {2}, pop |-> {1}, range |-> {1, 2},
               dict_keys |-> {1}, dict_values |-> {1}, dict_has |-> {2}, dict_delete |-> {2}]
TextArity  == [gc_collect |-> {0}, gc_enable |-> {0}, gc_disable |-> {0}, upper |-> {1}, lower |-> {1},
               strip |-> {1}, split |-> {2}, join |-> {2}, replace |-> {3}]
BlockArity == [mem_alloc |-> {1}, mem_free |-> {1}, mem_read |-> {3}, mem_write |-> {4}, mem_size |-> {1},
               struct_def |-> {1}, struct_new |-> {1}, struct_get |-> {3}, struct_set |-> {4}, struct_size |-> {1}]
Arity == ListArity @@ TextArity @@ BlockArity @@ [slice |-> {3}]
\* Those that classes come before, and that a wrong number of arguments does
\* not name.
LateArity == [type |-> {1}, chr |-> {1}, ord |-> {1}, startswith |-> {2}, endswith |-> {2}, contains |-> {2}]

Builtin(name, vs, st) ==
  CASE name = "str"         -> sage_str(vs, st)         [] name = "len"         -> sage_len(vs, st)
    [] name = "push"        -> sage_push(vs, st)        [] name = "pop"         -> sage_pop(vs, st)
    [] name = "slice"       -> sage_slice(vs, st)       [] name = "type"        -> sage_type(vs, st)
    [] name = "dict_keys"   -> sage_dict_keys_fn(vs, st) [] name = "dict_values" -> sage_dict_values_fn(vs, st)
    [] name = "dict_has"    -> sage_dict_has_fn(vs, st) [] name = "dict_delete" -> sage_dict_delete_fn(vs, st)
    [] name = "range"       -> sage_range2(IF Len(vs) = 1 THEN <<IntV(0), vs[1]>> ELSE vs, st)
    [] name = "upper"       -> sage_upper(vs, st)       [] name = "lower"     -> sage_lower(vs, st)
    [] name = "strip"       -> sage_strip_fn(vs, st)    [] name = "split"     -> sage_split_fn(vs, st)
    [] name = "join"        -> sage_join_fn(vs, st)     [] name = "replace"     -> sage_replace_fn(vs, st)
    [] name = "startswith"  -> sage_startswith(vs, st)
    [] name = "endswith"    -> sage_endswith(vs, st)
    [] name = "contains"    -> sage_contains(vs, st)
    [] name = "chr"         -> sage_chr(vs, st)         [] name = "ord"         -> sage_ord(vs, st)
    [] name = "mem_alloc"   -> sage_mem_alloc(vs, st)   [] name = "mem_free"    -> sage_mem_free(vs, st)
    [] name = "mem_read"    -> sage_mem_read(vs, st)    [] name = "mem_write"   -> sage_mem_write(vs, st)
    [] name = "mem_size"    -> sage_mem_size(vs, st)    [] name = "struct_def"  -> sage_struct_def(vs, st)
    [] name = "struct_new"  -> sage_struct_new(vs, st)  [] name = "struct_size" -> sage_struct_size(vs, st)
    [] name = "struct_get"  -> sage_struct_get(vs, st)  [] name = "struct_set"  -> sage_struct_set(vs, st)
    [] name = "gc_collect"  -> sage_gc_collect_fn(st)
    [] name = "gc_enable"   -> SetEnabled(st, TRUE)
    [] name = "gc_disable"  -> SetEnabled(st, FALSE)

\* The values for which a helper is known to differ from what the interpreter
\* does with them.
IsInstance(st, v) == IsA(v, "dict") /\ "__class__" \in DOMAIN Fields(st, v)
\* A number of more digits is written with an exponent.
HasSixDigits(n) == n \in -999999 .. 999999
RECURSIVE Plain(_, _)
Plain(st, v) ==
  CASE IsA(v, "arr")   -> \A i \in DOMAIN Elems(st, v) : Plain(st, Elems(st, v)[i])
    [] IsA(v, "tuple") -> Len(Elems(st, v)) # 1 /\ \A i \in DOMAIN Elems(st, v) : Plain(st, Elems(st, v)[i])
    [] IsA(v, "dict")  -> /\ ~IsInstance(st, v) /\ Cardinality(DOMAIN Fields(st, v)) <= 1
                          /\ \A key \in DOMAIN Fields(st, v) : Plain(st, Fields(st, v)[key])
    [] IsA(v, "int")   -> HasSixDigits(v.n)
    [] OTHER           -> ~IsA(v, "addr")
\* What carries a value as it is, and what takes an address for a pointer.
Carriers == {"call", "array", "tuple", "dict", "set", "[]", "[]=", "push", "truthy", "raise"}
TakesPointer == {"mem_free", "mem_read", "mem_write", "mem_size", "struct_get", "struct_set"}
Differs(name, vs, st) ==
  CASE \E i \in DOMAIN vs : IsA(vs[i], "addr") /\ name \notin Carriers /\ ~(i = 1 /\ name \in TakesPointer) -> TRUE
    [] name = "struct_def" -> ~IsA(vs[1], "arr") \/ Len(CFieldsOf(st, vs[1])) # Len(Elems(st, vs[1]))
    [] name = "print"  -> ~Plain(st, vs[1])
    [] name = "str"    -> vs[1].t \in {"arr", "dict", "tuple"} \/ ~Plain(st, vs[1])
    [] name = "type"   -> vs[1].t \in {"int", "tuple"} \/ IsInstance(st, vs[1])
    [] name \in {"==", "!="} -> vs[1].t \in {"arr", "tuple", "dict"}
    [] name = "/"      -> HasTypes(vs, <<"int", "int">>) /\ vs[2].n # 0 /\ vs[1].n % vs[2].n # 0
    [] name = "[]"     -> IsA(vs[2], "int") /\ vs[2].n < 0
    [] name = "[]="    -> ~HasTypes(vs, <<"arr", "int", "any">>) /\ ~HasTypes(vs, <<"dict", "str", "any">>)
    [] name = "slice"  -> ~HasTypes(vs, <<"arr", "int", "int">>)
    [] name = "[:]"    -> ~IsA(vs[1], "arr")
    [] name = "for"    -> vs[1].t \notin {"arr", "str"}
    [] name = "dict_delete" -> TRUE
    [] name = "len"    -> IsInstance(st, vs[1])
    [] name \in {"dict_keys", "dict_values", "dict_has"} -> ~IsA(vs[1], "dict") \/ IsInstance(st, vs[1])
    [] name \in {"split", "startswith", "endswith", "contains"} -> ~AllText(vs)
    [] name = "join"   -> IsA(vs[1], "arr") /\ ~AllText(Elems(st, vs[1]))
    [] name = "raise"  -> vs[1].t # "str" /\ ~IsInstance(st, vs[1])
    [] OTHER           -> FALSE

\* A call of a helper: an operand that has been freed is read or kept.
Helper(name, Run(_, _), vs, st) ==
  IF \E i \in DOMAIN vs : Dangling(st, vs[i]) THEN Wild(st)
  ELSE Run(vs, IF Differs(name, vs, st) THEN [st EXCEPT !.differs = TRUE] ELSE st)
=============================================================================
