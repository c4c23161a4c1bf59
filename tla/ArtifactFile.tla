---------------------------- MODULE ArtifactFile ----------------------------
(***************************************************************************)
(* The file of a compiled program (src/vm/program.c): "--emit-mossvm"      *)
(* writes it, a later "--run-mossvm" reads it back.                        *)
(*                                                                         *)
(* The file is text, one item to a line, and nothing says that it is       *)
(* whole: a writer that is killed, that finds the disk full or a constant  *)
(* it cannot write leaves what it had written where the artifact belongs.  *)
(* The reader knows a table by the count that announces it and a text by   *)
(* the length that does, and stops at the first line that is not the one   *)
(* it needs.  The file is opened only when the program has compiled; where *)
(* that fails, the one of an earlier program stays.                        *)
(*                                                                         *)
(* A line is a record: its keyword, with the count or length n or with     *)
(* what x it holds.  Hexadecimal digits stand for their bytes, numerals    *)
(* for their numbers.  A chunk is a function without parameters.  Texts    *)
(* are shorter than two gigabytes: the reader wants their lengths to fit   *)
(* an int.  The two processes do not use the file at the same time.        *)
(***************************************************************************)
EXTENDS Naturals, Sequences

CONSTANTS
  Byte,    \* the bytes of names, strings and code
  Number,  \* the floats
  Programs \* the compiled programs that may be written

Text     == Seq(Byte)
Constant == [t : {"number"}, v : Number] \cup [t : {"string"}, v : Text] \cup {[t |-> "other"]}
Unit     == [params : Seq(Text), constants : Seq(Constant), code : Text]
Program  == [functions : Seq(Unit), chunks : Seq(Unit)]
NoUnit    == [params |-> << >>, constants |-> << >>, code |-> << >>]
NoProgram == [functions |-> << >>, chunks |-> << >>]

ASSUME ProgramsAssumption ==
  /\ Programs \subseteq Program
  /\ \A p \in Programs : \A i \in 1 .. Len(p.chunks) : p.chunks[i].params = << >>

VARIABLES
  compiled, \* the program that was compiled last
  opening,  \* whether the file was opened for it
  built,    \* the program that the file was opened for, the last one
  file,     \* the lines of the file; while it is written, those handed to the stream
  writer,   \* where the writer of the file is: the line it writes next, of which unit and entry
  reader    \* where the reader is, and what it has read
emit == <<compiled, opening>>
vars == <<emit, built, file, writer, reader>>

Marks    == {"MOSSVM1", "function", "chunk", "endfunction", "endchunk", "junk"}
Counted  == {"functions", "chunks", "params", "param", "constants", "string", "code"}
FileLine == [k : Marks, n : {0}, x : {<< >>}] \cup [k : Counted, n : Nat, x : {<< >>}]
              \cup [k : {"hex"}, n : {0}, x : Text] \cup [k : {"number"}, n : {0}, x : Number]
Mark(k)     == [k |-> k, n |-> 0, x |-> << >>]
Count(k, n) == [k |-> k, n |-> n, x |-> << >>]
Item(k, x)  == [k |-> k, n |-> 0, x |-> x]
Opening    == [functions |-> "function", chunks |-> "chunk"]
Closing    == [functions |-> "endfunction", chunks |-> "endchunk"]

(***************************************************************************)
(* The writer: a cursor over the program.                                  *)
(***************************************************************************)
Cursor(at, part, i, j) == [at |-> at, part |-> part, i |-> i, j |-> j]
Start  == Cursor("magic", "functions", 1, 1)
Idle   == [Start EXCEPT !.at = "idle"]
OfUnit == {"open", "params", "param", "paramtext", "constants", "constant", "stringtext", "code", "codetext", "close"}
Lines  == OfUnit \cup {"magic", "functions", "chunks"}

UnitAt(p, c)     == p[c.part][c.i]
ConstantAt(p, c) == UnitAt(p, c).constants[c.j]
LineAt(p, c) ==
  CASE c.at = "magic"      -> Mark("MOSSVM1")
    [] c.at = "functions"  -> Count("functions", Len(p.functions))
    [] c.at = "chunks"     -> Count("chunks", Len(p.chunks))
    [] c.at = "open"       -> Mark(Opening[c.part])
    [] c.at = "params"     -> Count("params", Len(UnitAt(p, c).params))
    [] c.at = "param"      -> Count("param", Len(UnitAt(p, c).params[c.j]))
    [] c.at = "paramtext"  -> Item("hex", UnitAt(p, c).params[c.j])
    [] c.at = "constants"  -> Count("constants", Len(UnitAt(p, c).constants))
    [] c.at = "constant"   -> IF ConstantAt(p, c).t = "number" THEN Item("number", ConstantAt(p, c).v)
                              ELSE Count("string", Len(ConstantAt(p, c).v))
    [] c.at = "stringtext" -> Item("hex", ConstantAt(p, c).v)
    [] c.at = "code"       -> Count("code", Len(UnitAt(p, c).code))
    [] c.at = "codetext"   -> Item("hex", UnitAt(p, c).code)
    [] c.at = "close"      -> Mark(Closing[c.part])

\* Where the writer goes on with entry j of a table, with unit i, and after a line.
Param(p, c, j)  == [c EXCEPT !.at = IF j <= Len(UnitAt(p, c).params) THEN "param" ELSE "constants", !.j = j]
Const(p, c, j)  == [c EXCEPT !.at = IF j <= Len(UnitAt(p, c).constants) THEN "constant" ELSE "code", !.j = j]
ToUnit(p, part, i) ==
  IF i <= Len(p[part]) THEN Cursor("open", part, i, 1)
  ELSE Cursor(IF part = "functions" THEN "chunks" ELSE "end", "chunks", 1, 1)
After(p, c) ==
  CASE c.at = "magic"     -> [c EXCEPT !.at = "functions"]
    [] c.at \in {"functions", "chunks"} -> ToUnit(p, c.at, 1)
    [] c.at = "open"      -> [c EXCEPT !.at = IF c.part = "functions" THEN "params" ELSE "constants"]
    [] c.at = "params"    -> Param(p, c, 1)
    [] c.at = "param"     -> [c EXCEPT !.at = "paramtext"]
    [] c.at = "paramtext" -> Param(p, c, c.j + 1)
    [] c.at = "constants" -> Const(p, c, 1)
    [] c.at = "constant" /\ ConstantAt(p, c).t = "string" -> [c EXCEPT !.at = "stringtext"]
    [] c.at = "constant" /\ ConstantAt(p, c).t # "string" -> Const(p, c, c.j + 1)
    [] c.at = "stringtext" -> Const(p, c, c.j + 1)
    [] c.at = "code"      -> [c EXCEPT !.at = "codetext"]
    [] c.at = "codetext"  -> [c EXCEPT !.at = "close"]
    [] c.at = "close"     -> ToUnit(p, c.part, c.i + 1)

\* A program compiles.  The file is what it was.
Compile(p) ==
  /\ writer.at \notin Lines \cup {"end"} /\ reader.at = "idle" /\ opening # "next"
  /\ compiled' = p
  /\ opening' = "next"
  /\ UNCHANGED <<built, file, writer, reader>>

\* The file cannot be opened, or the process is killed before it is.
NotOpened ==
  /\ opening = "next"
  /\ opening' = "failed"
  /\ UNCHANGED <<compiled, built, file, writer, reader>>

\* What the file held is gone as soon as it is open.
Open ==
  /\ opening = "next"
  /\ opening' = "done"
  /\ built' = compiled
  /\ file' = << >>
  /\ writer' = Start
  /\ UNCHANGED <<compiled, reader>>

CanWrite == writer.at = "constant" => ConstantAt(built, writer).t # "other"
Write ==
  /\ writer.at \in Lines /\ CanWrite
  /\ file' = Append(file, LineAt(built, writer))
  /\ writer' = After(built, writer)
  /\ UNCHANGED <<emit, built, reader>>

\* The file is closed, whole or at a constant that is neither a number nor a string.
Close ==
  /\ writer.at = "end" \/ (writer.at \in Lines /\ ~CanWrite)
  /\ writer' = [Idle EXCEPT !.at = IF writer.at = "end" THEN "written" ELSE "failed"]
  /\ UNCHANGED <<emit, built, file, reader>>

\* What a line that is cut may look like: a numeral, a smaller one.
Cuts(l) ==
  {Mark("junk")} \cup
  CASE l.k \in Counted  -> {Count(l.k, n) : n \in 1 .. l.n - 1}
    [] l.k = "number" -> {Item("number", v) : v \in Number}
    [] l.k = "hex"    -> {Item("hex", SubSeq(l.x, 1, n)) : n \in 1 .. Len(l.x) - 1}
    [] OTHER -> {}

\* The process is killed, or a write or the last flush fails: some end of
\* what was handed to the stream is not in the file.
Break ==
  /\ writer.at \in Lines \cup {"end"}
  /\ \/ \E n \in 0 .. Len(file) : file' = SubSeq(file, 1, n)
     \/ \E n \in 1 .. Len(file) : \E l \in Cuts(file[n]) : file' = Append(SubSeq(file, 1, n - 1), l)
  /\ writer' = [Idle EXCEPT !.at = "failed"]
  /\ UNCHANGED <<emit, built, reader>>

(***************************************************************************)
(* The reader: pos is the line it reads next, at what it takes that line   *)
(* for.  units, entries and length are what was announced.                 *)
(***************************************************************************)
Resting == [at |-> "idle", pos |-> 1, part |-> "functions", units |-> 0, entries |-> 0, length |-> 0,
            unit |-> NoUnit, loaded |-> NoProgram]

\* There is a file once one was opened.
OpenFile ==
  /\ reader.at = "idle" /\ opening # "next" /\ writer.at \in {"written", "failed"}
  /\ reader' = [Resting EXCEPT !.at = "magic"]
  /\ UNCHANGED <<emit, built, file, writer>>

Refuse   == reader' = [Resting EXCEPT !.at = "refused"]
Goes(r)  == reader' = [r EXCEPT !.pos = @ + 1]
line     == file[reader.pos]
On(at)   == reader.at = at /\ reader.pos <= Len(file) /\ UNCHANGED <<emit, built, file, writer>>
Take(k, r) == IF line.k = k THEN Goes(r) ELSE Refuse

\* Mutant of TakeText: a line without digits counts as no line.
EmptyTextIsRefused(r) ==
  IF line.k = "hex" /\ line.x # << >> /\ Len(line.x) = reader.length THEN Goes(r) ELSE Refuse
TakeText(r) == IF line.k = "hex" /\ Len(line.x) = reader.length THEN Goes(r) ELSE Refuse

\* Mutant of ReadPastEnd: the end of the file ends the last chunk.
EndsTheChunks ==
  /\ reader.at \in Lines /\ reader.pos > Len(file)
  /\ IF reader.at = "open" /\ reader.part = "chunks" THEN reader' = [reader EXCEPT !.at = "accepted"] ELSE Refuse
  /\ UNCHANGED <<emit, built, file, writer>>

ReadPastEnd ==
  /\ reader.at \in Lines /\ reader.pos > Len(file)
  /\ Refuse
  /\ UNCHANGED <<emit, built, file, writer>>

\* The units of a part that remain to be read decide what comes next.
NextUnit(r) ==
  [r EXCEPT !.at = CASE Len(r.loaded[r.part]) < r.units -> "open"
                     [] Len(r.loaded[r.part]) >= r.units /\ r.part = "functions" -> "chunks"
                     [] OTHER -> "accepted"]
ParamTable(r) == [r EXCEPT !.at = IF Len(r.unit.params) < r.entries THEN "param" ELSE "constants"]
ConstTable(r) == [r EXCEPT !.at = IF Len(r.unit.constants) < r.entries THEN "constant" ELSE "code"]

ReadMagic == On("magic") /\ Take("MOSSVM1", [reader EXCEPT !.at = "functions"])

\* The table of functions may be missing.
ReadChunks    == Take("chunks", NextUnit([reader EXCEPT !.part = "chunks", !.units = line.n]))
ReadFunctions ==
  /\ On("functions")
  /\ IF line.k = "functions" THEN Goes(NextUnit([reader EXCEPT !.units = line.n])) ELSE ReadChunks
ReadChunkTable == On("chunks") /\ ReadChunks

ReadOpening ==
  On("open") /\ Take(Opening[reader.part],
                     [reader EXCEPT !.unit = NoUnit, !.at = IF reader.part = "functions" THEN "params" ELSE "constants"])
ReadParams == On("params") /\ Take("params", ParamTable([reader EXCEPT !.entries = line.n]))
ReadParam  == On("param") /\ Take("param", [reader EXCEPT !.length = line.n, !.at = "paramtext"])
ReadParamText ==
  On("paramtext") /\ TakeText(ParamTable([reader EXCEPT !.unit.params = Append(@, line.x)]))

ReadConstants == On("constants") /\ Take("constants", ConstTable([reader EXCEPT !.entries = line.n]))
AddConstant(t, v) == ConstTable([reader EXCEPT !.unit.constants = Append(@, [t |-> t, v |-> v])])
ReadConstant ==
  /\ On("constant")
  /\ CASE line.k = "number" -> Goes(AddConstant("number", line.x))
       [] line.k = "string" -> Goes([reader EXCEPT !.length = line.n, !.at = "stringtext"])
       [] OTHER -> Refuse
ReadStringText == On("stringtext") /\ TakeText(AddConstant("string", line.x))

ReadCode     == On("code") /\ Take("code", [reader EXCEPT !.length = line.n, !.at = "codetext"])
ReadCodeText == On("codetext") /\ TakeText([reader EXCEPT !.unit.code = line.x, !.at = "close"])
ReadClosing ==
  On("close") /\ Take(Closing[reader.part], NextUnit([reader EXCEPT !.loaded[reader.part] = Append(@, reader.unit)]))

\* The program has run, or was refused.
EndRun ==
  /\ reader.at \in {"accepted", "refused"}
  /\ reader' = Resting
  /\ UNCHANGED <<emit, built, file, writer>>

Init ==
  /\ compiled = NoProgram /\ opening = "none"
  /\ built = NoProgram /\ file = << >>
  /\ writer = Idle /\ reader = Resting

Read ==
  \/ ReadMagic \/ ReadFunctions \/ ReadChunkTable \/ ReadOpening \/ ReadParams \/ ReadParam \/ ReadParamText
  \/ ReadConstants \/ ReadConstant \/ ReadStringText \/ ReadCode \/ ReadCodeText \/ ReadClosing \/ ReadPastEnd
Next ==
  \/ (\E p \in Programs : Compile(p)) \/ NotOpened \/ Open
  \/ Write \/ Close \/ Break \/ OpenFile \/ Read \/ EndRun
Spec == Init /\ [][Next]_vars

(***************************************************************************)
(* Properties.                                                             *)
(***************************************************************************)
TypeOK ==
  /\ compiled \in Programs \cup {NoProgram}
  /\ opening \in {"none", "next", "failed", "done"}
  /\ built \in Programs \cup {NoProgram}
  /\ file \in Seq(FileLine)
  /\ writer \in [at : Lines \cup {"end", "idle", "written", "failed"}, part : {"functions", "chunks"},
                 i : Nat, j : Nat]
  /\ reader \in [at : Lines \cup {"idle", "accepted", "refused"}, pos : 1 .. Len(file) + 1,
                 part : {"functions", "chunks"}, units : Nat, entries : Nat, length : Nat,
                 unit : Unit, loaded : Program]

\* What is loaded and run is the program whose writer opened the file last,
\* whole: bytecode_program_read_file accepts no file that lost its end, at
\* whatever byte, nor one that its writer gave up.  That is the program
\* compiled last, unless the file was not opened for it: then an older one is
\* still there.
LoadedIsBuilt ==
  reader.at = "accepted" =>
    /\ reader.loaded = built
    /\ opening # "failed" => built = compiled

\* A file that was written without an error is never refused: the reader
\* takes every line that the writer writes.
WrittenIsAccepted == reader.at = "refused" => writer.at = "failed"
=============================================================================
