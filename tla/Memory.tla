------------------------------- MODULE Memory -------------------------------
(***************************************************************************)
(* Raw memory, as the memory built-ins of the interpreter and the runtime  *)
(* of the C backend see it: blocks of bytes, little-endian integers of the *)
(* sizes of a 64-bit Linux, and the layout of C structures.  Floating      *)
(* numbers and pointers are laid out but neither read nor written.         *)
(***************************************************************************)
EXTENDS Values

NewBytes(size) == [k |-> "block", bytes |-> [i \in 1 .. size |-> 0], live |-> TRUE]

\* The printable characters, the first of which has the code 32; a tab stands for
\* the back quote, which is left out.
Printable == " !\"#$%&'()*+,-./0123456789:;<=>?@ABCDEFGHIJKLMNOPQRSTUVWXYZ[\\]^_\tabcdefghijklmnopqrstuvwxyz{|}~"
IsPrintable(code) == code \in 32 .. 126 \ {96}
CharOf(code) == SubSeq(Printable, code - 31, code - 31)
CodeOf(c) == 31 + CHOOSE i \in 1 .. Len(Printable) : SubSeq(Printable, i, i) = c

(***************************************************************************)
(* Integers in memory.  TLC's integers have four bytes: the others of a    *)
(* long repeat its sign.                                                   *)
(***************************************************************************)
BytesOf(n, size) ==
  [i \in 1 .. size |-> IF i <= 4 THEN (n \div 256 ^ (i - 1)) % 256 ELSE IF n < 0 THEN 255 ELSE 0]
NumberOf(bytes) ==
  FoldRight(LAMBDA b, acc : 256 * acc + b, bytes, IF Len(bytes) > 1 /\ Last(bytes) >= 128 THEN -1 ELSE 0)

InBlock(block, offset, size) == offset >= 0 /\ offset + size <= Len(block.bytes)
LoadNumber(block, offset, size) == NumberOf(SubSeq(block.bytes, offset + 1, offset + size))
StoreNumber(block, offset, size, n) ==
  LET new == BytesOf(n, size)
  IN  [block EXCEPT !.bytes = [i \in DOMAIN @ |-> IF i - offset \in DOMAIN new THEN new[i - offset] ELSE @[i]]]
\* Where the string that starts at an offset ends, 0 when it does not.
EndOfText(block, offset) ==
  LET zeros == {i \in offset + 1 .. Len(block.bytes) : block.bytes[i] = 0}
  IN  IF zeros = {} THEN 0 ELSE CHOOSE i \in zeros : \A j \in zeros : i <= j
TextAt(block, offset) ==
  Joined([i \in 1 .. EndOfText(block, offset) - offset - 1 |-> CharOf(block.bytes[offset + i])], "")
Legible(block, offset) == \A i \in offset + 1 .. EndOfText(block, offset) - 1 : IsPrintable(block.bytes[i])

(***************************************************************************)
(* The layout of a structure: fields is a sequence of names and types.     *)
(***************************************************************************)
struct_type_info == [char |-> 1, byte |-> 1, short |-> 2, int |-> 4, long |-> 8, float |-> 4, double |-> 8, ptr |-> 8]
\* The types whose values are modelled.
NumberTypes == {"char", "byte", "short", "int", "long"}

align_to(offset, alignment) == offset + ((-offset) % alignment)

\* Every field keeps its room, also one whose name a later field has.
RECURSIVE Offset(_, _)
EndOf(fields, i) == IF i = 0 THEN 0 ELSE Offset(fields, i) + struct_type_info[fields[i].type]
Offset(fields, i) == align_to(EndOf(fields, i - 1), struct_type_info[fields[i].type])
Placed(fields) == [i \in DOMAIN fields |-> [name |-> fields[i].name, type |-> fields[i].type, offset |-> Offset(fields, i)]]
Alignment(fields) == FoldLeft(LAMBDA acc, f : IF struct_type_info[f.type] > acc THEN struct_type_info[f.type] ELSE acc, 1, fields)
Layout(fields) ==
  [size |-> align_to(EndOf(fields, Len(fields)), Alignment(fields)), align |-> Alignment(fields), fields |-> Placed(fields)]
=============================================================================
