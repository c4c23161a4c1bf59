------------------------- MODULE ArtifactFile_proofs -------------------------
(***************************************************************************)
(* Proofs that a reader takes a file for the program it was written from,  *)
(* all of it, or refuses it, and that it refuses none that is whole.       *)
(*                                                                         *)
(* The invariant says that there is a path h of cursors, from the first    *)
(* line on, along which the lines of the file were written, but for the    *)
(* last one of a file that was cut; and that a reader which has not come   *)
(* to a line that was cut has read what the path has passed.               *)
(***************************************************************************)
EXTENDS ArtifactFile, SequenceTheorems, TLAPS

IsProgram(p) == p \in Program /\ \A i \in 1 .. Len(p.chunks) : p.chunks[i].params = << >>

Valid(p, c) ==
  /\ c \in [at : Lines \cup {"end"}, part : {"functions", "chunks"}, i : Nat, j : Nat]
  /\ c.at \in {"magic", "functions", "params", "param", "paramtext"} => c.part = "functions"
  /\ c.at = "chunks" => c.part = "chunks"
  /\ c.at \in OfUnit => c.i \in 1 .. Len(p[c.part])
  /\ c.at \in {"param", "paramtext"} => c.j \in 1 .. Len(UnitAt(p, c).params)
  /\ c.at \in {"constant", "stringtext"} => c.j \in 1 .. Len(UnitAt(p, c).constants)
  /\ c.at = "stringtext" => ConstantAt(p, c).t = "string"

Writes(p, c) == c.at \in Lines /\ (c.at = "constant" => ConstantAt(p, c).t # "other")

Path(p, h) ==
  /\ h \in Seq([at : Lines \cup {"end"}, part : {"functions", "chunks"}, i : Nat, j : Nat])
  /\ Len(h) > 0 /\ h[1] = Start
  /\ \A k \in 1 .. Len(h) : Valid(p, h[k])
  /\ \A k \in 1 .. Len(h) - 1 : Writes(p, h[k]) /\ h[k + 1] = After(p, h[k])

\* The file was written along the path; the last line may be cut.
Along(h) ==
  /\ Len(h) > Len(file)
  /\ \A k \in 1 .. Len(file) :
       \/ file[k] = LineAt(built, h[k])
       \/ writer.at = "failed" /\ k = Len(file) /\ file[k] \in Cuts(LineAt(built, h[k]))
  /\ writer.at \in Lines \cup {"end"} => Len(h) = Len(file) + 1 /\ h[Len(h)] = writer
  /\ writer.at = "written" => Len(h) = Len(file) + 1 /\ h[Len(h)].at = "end"

\* What a reader has that takes the next line for the one that is written at c.
UpTo(p, c) ==
  [functions |-> CASE c.at \in {"magic", "functions"} -> << >>
                   [] c.at \in OfUnit /\ c.part = "functions" -> SubSeq(p.functions, 1, c.i - 1)
                   [] OTHER -> p.functions,
   chunks    |-> IF c.at \in OfUnit /\ c.part = "chunks" THEN SubSeq(p.chunks, 1, c.i - 1) ELSE << >>]
UnitUpTo(p, c) ==
  LET u == UnitAt(p, c) IN
  [params    |-> CASE c.at = "params" -> << >>
                   [] c.at \in {"param", "paramtext"} -> SubSeq(u.params, 1, c.j - 1)
                   [] OTHER -> u.params,
   constants |-> CASE c.at \in {"params", "param", "paramtext", "constants"} -> << >>
                   [] c.at \in {"constant", "stringtext"} -> SubSeq(u.constants, 1, c.j - 1)
                   [] OTHER -> u.constants,
   code      |-> IF c.at = "close" THEN u.code ELSE << >>]
Synced(p, c, r) ==
  /\ r.at = c.at
  /\ r.loaded = UpTo(p, c)
  /\ c.at \in {"magic", "functions"} => r.part = "functions"
  /\ c.at \in OfUnit => r.part = c.part /\ r.units = Len(p[c.part])
  /\ c.at \in OfUnit \ {"open"} => r.unit = UnitUpTo(p, c)
  /\ c.at \in {"param", "paramtext"} => r.entries = Len(UnitAt(p, c).params)
  /\ c.at \in {"constant", "stringtext"} => r.entries = Len(UnitAt(p, c).constants)
  /\ c.at = "paramtext"  => r.length = Len(UnitAt(p, c).params[c.j])
  /\ c.at = "stringtext" => r.length = Len(ConstantAt(p, c).v)
  /\ c.at = "codetext"   => r.length = Len(UnitAt(p, c).code)

\* The reader is on the path, or behind the line that was cut.
Follows(h) ==
  /\ reader.at \in Lines => \/ Synced(built, h[reader.pos], reader)
                            \/ writer.at = "failed" /\ reader.pos = Len(file) + 1
  /\ reader.at \in Lines \cup {"accepted", "refused"} => writer.at \in {"written", "failed"}

\* Nobody is at the file when it is opened; it is open for what was compiled
\* last unless that failed.
Emitted ==
  /\ opening = "next" => reader.at = "idle" /\ writer.at \notin Lines \cup {"end"}
  /\ opening \notin {"next", "failed"} => built = compiled

IInv ==
  /\ TypeOK
  /\ writer.at # "idle" => \E h : Path(built, h) /\ Along(h) /\ Follows(h)
  /\ writer.at = "idle" => reader.at = "idle"
  /\ reader.at = "idle" => reader = Resting
  /\ Emitted
  /\ LoadedIsBuilt /\ WrittenIsAccepted

-----------------------------------------------------------------------------
(* The writer's path.                                                        *)

LEMMA IsOne == ASSUME TypeOK PROVE IsProgram(built)
<1>1. CASE built \in Programs
  BY <1>1, ProgramsAssumption DEF IsProgram
<1>2. CASE built = NoProgram
  BY <1>2 DEF NoProgram, IsProgram, Program
<1> QED BY <1>1, <1>2 DEF TypeOK

LEMMA StartIsValid == ASSUME NEW p PROVE Valid(p, Start)
  BY DEF Valid, Start, Cursor, Lines, OfUnit

LEMMA UnitIsTyped ==
  ASSUME NEW p, IsProgram(p), NEW c, Valid(p, c), c.at \in OfUnit
  PROVE  UnitAt(p, c) \in Unit
  BY DEF IsProgram, Program, Valid, UnitAt

LEMMA UnitsFollow ==
  ASSUME NEW p, IsProgram(p), NEW part \in {"functions", "chunks"}, NEW i \in Nat, i >= 1
  PROVE  Valid(p, ToUnit(p, part, i))
  BY DEF Valid, ToUnit, Cursor, Lines, OfUnit, IsProgram, Program

LEMMA EntriesFollow ==
  ASSUME NEW p, IsProgram(p), NEW c, Valid(p, c), c.at \in OfUnit, NEW j \in Nat, j >= 1
  PROVE  /\ c.part = "functions" => Valid(p, Param(p, c, j))
         /\ Valid(p, Const(p, c, j))
<1>1. UnitAt(p, c) \in Unit
  BY UnitIsTyped
<1> DEFINE C == [at : Lines \cup {"end"}, part : {"functions", "chunks"}, i : Nat, j : Nat]
<1>2. c \in C /\ c.i \in 1 .. Len(p[c.part])
  BY DEF Valid
<1>5. Len(UnitAt(p, c).params) \in Nat /\ Len(UnitAt(p, c).constants) \in Nat
  BY <1>1 DEF Unit
<1>3. ASSUME c.part = "functions" PROVE Valid(p, Param(p, c, j))
  <2> DEFINE d == Param(p, c, j)
  <2>1. /\ d \in C /\ d.part = c.part /\ d.i = c.i /\ d.j = j
        /\ d.at = IF j <= Len(UnitAt(p, c).params) THEN "param" ELSE "constants"
    BY <1>2 DEF Param, Lines, OfUnit
  <2>2. UnitAt(p, d) = UnitAt(p, c)
    BY <2>1 DEF UnitAt
  <2>3. d.at \in {"param", "constants"} /\ (d.at = "param" => d.j \in 1 .. Len(UnitAt(p, d).params))
    BY <1>5, <2>1, <2>2
  <2> HIDE DEF d
  <2>9. Valid(p, d)
    BY <1>2, <1>3, <2>1, <2>3 DEF Valid
  <2> QED BY <2>9 DEF d
<1>4. Valid(p, Const(p, c, j))
  <2> DEFINE d == Const(p, c, j)
  <2>1. /\ d \in C /\ d.part = c.part /\ d.i = c.i /\ d.j = j
        /\ d.at = IF j <= Len(UnitAt(p, c).constants) THEN "constant" ELSE "code"
    BY <1>2 DEF Const, Lines, OfUnit
  <2>2. UnitAt(p, d) = UnitAt(p, c)
    BY <2>1 DEF UnitAt
  <2>3. d.at \in {"constant", "code"} /\ (d.at = "constant" => d.j \in 1 .. Len(UnitAt(p, d).constants))
    BY <1>5, <2>1, <2>2
  <2> HIDE DEF d
  <2>9. Valid(p, d)
    BY <1>2, <2>1, <2>3 DEF Valid
  <2> QED BY <2>9 DEF d
<1> QED BY <1>3, <1>4

LEMMA AfterIsValid ==
  ASSUME NEW p, IsProgram(p), NEW c, Valid(p, c), Writes(p, c)
  PROVE  Valid(p, After(p, c))
<1> DEFINE C == [at : Lines \cup {"end"}, part : {"functions", "chunks"}, i : Nat, j : Nat]
           d == After(p, c)
<1>1. c \in C
  BY DEF Valid
<1>2. CASE c.at \in {"functions", "chunks", "close"}
  <2>1. \/ c.at \in {"functions", "chunks"} /\ d = ToUnit(p, c.at, 1)
        \/ c.at = "close" /\ d = ToUnit(p, c.part, c.i + 1)
    BY <1>2 DEF After
  <2>2. CASE c.at \in {"functions", "chunks"}
    BY <2>1, <2>2, UnitsFollow
  <2>3. CASE c.at = "close"
    BY <1>1, <2>1, <2>3, UnitsFollow DEF OfUnit
  <2> QED BY <1>2, <2>2, <2>3
<1>3. CASE c.at \in {"params", "paramtext", "constants", "stringtext"} \/ (c.at = "constant" /\ ConstantAt(p, c).t # "string")
  <2>1. \/ c.at = "params" /\ d = Param(p, c, 1)
        \/ c.at = "paramtext" /\ d = Param(p, c, c.j + 1)
        \/ c.at = "constants" /\ d = Const(p, c, 1)
        \/ c.at \in {"constant", "stringtext"} /\ d = Const(p, c, c.j + 1)
    BY <1>3 DEF After
  <2>2. c.at \in OfUnit /\ (c.at \in {"params", "paramtext"} => c.part = "functions")
    BY <1>3 DEF OfUnit, Valid
  <2> QED BY <1>1, <2>1, <2>2, EntriesFollow
<1>4. CASE c.at \in {"magic", "open", "param", "code", "codetext"} \/ (c.at = "constant" /\ ConstantAt(p, c).t = "string")
  <2>1. d = [c EXCEPT !.at = CASE c.at = "magic" -> "functions"
                               [] c.at = "open" -> IF c.part = "functions" THEN "params" ELSE "constants"
                               [] c.at = "param" -> "paramtext"
                               [] c.at = "constant" -> "stringtext"
                               [] c.at = "code" -> "codetext"
                               [] c.at = "codetext" -> "close"]
    BY <1>4 DEF After
  <2>2. d \in C /\ d.part = c.part /\ d.i = c.i /\ d.j = c.j
    BY <1>1, <1>4, <2>1 DEF Lines, OfUnit
  <2>3. UnitAt(p, d) = UnitAt(p, c) /\ ConstantAt(p, d) = ConstantAt(p, c)
    BY <2>2 DEF UnitAt, ConstantAt
  <2>4. /\ c.at = "magic" => d.at = "functions"
        /\ c.at = "open" => d.at = IF c.part = "functions" THEN "params" ELSE "constants"
        /\ c.at = "param" => d.at = "paramtext"
        /\ c.at = "constant" => d.at = "stringtext"
        /\ c.at = "code" => d.at = "codetext"
        /\ c.at = "codetext" => d.at = "close"
    BY <1>1, <2>1
  <2> HIDE DEF d
  <2>9. Valid(p, d)
    BY <1>1, <1>4, <2>2, <2>3, <2>4 DEF Valid, OfUnit
  <2> QED BY <2>9 DEF d
<1> QED BY <1>2, <1>3, <1>4 DEF Writes, Lines, OfUnit

LEMMA LineIsTyped ==
  ASSUME NEW p, IsProgram(p), NEW c, Valid(p, c), Writes(p, c)
  PROVE  LineAt(p, c) \in FileLine
<1>1. CASE c.at \in {"magic", "functions", "chunks"}
  BY <1>1 DEF LineAt, FileLine, Mark, Count, Marks, Counted, IsProgram, Program
<1>2. CASE c.at \in OfUnit
  <2>1. UnitAt(p, c) \in Unit
    BY <1>2, UnitIsTyped
  <2>2. CASE c.at \in {"open", "close"}
    BY <2>2 DEF LineAt, FileLine, Mark, Marks, Opening, Closing, Valid
  <2>3. CASE c.at \in {"params", "param", "paramtext"}
    BY <2>1, <2>3 DEF LineAt, FileLine, Count, Item, Counted, Unit, Valid, Text
  <2>4. CASE c.at \in {"constants", "code", "codetext"}
    BY <2>1, <2>4 DEF LineAt, FileLine, Count, Item, Counted, Unit, Text
  <2>5. CASE c.at \in {"constant", "stringtext"}
    <3>1. ConstantAt(p, c) \in Constant /\ ConstantAt(p, c).t # "other"
      BY <2>1, <2>5 DEF ConstantAt, Unit, Valid, Writes
    <3>2. \/ ConstantAt(p, c).t = "number" /\ ConstantAt(p, c).v \in Number
          \/ ConstantAt(p, c).t = "string" /\ ConstantAt(p, c).v \in Text
      BY <3>1 DEF Constant
    <3> QED BY <3>2, <2>5 DEF LineAt, FileLine, Count, Item, Counted, Valid, Text
  <2> QED BY <1>2, <2>2, <2>3, <2>4, <2>5 DEF OfUnit
<1> QED BY <1>1, <1>2 DEF Writes, Lines

-----------------------------------------------------------------------------
(* The reader on the path: what was read of a table is the table so far.     *)

LEMMA Extend ==
  ASSUME NEW S, NEW s \in Seq(S), NEW n \in 1 .. Len(s)
  PROVE  /\ Len(SubSeq(s, 1, n - 1)) = n - 1
         /\ Append(SubSeq(s, 1, n - 1), s[n]) = SubSeq(s, 1, n)
OBVIOUS

LEMMA Ends ==
  ASSUME NEW S, NEW s \in Seq(S)
  PROVE  SubSeq(s, 1, 0) = << >> /\ SubSeq(s, 1, Len(s)) = s
BY SubSeqEmpty, SubSeqFull

Readers == [at : Lines \cup {"idle", "accepted", "refused"}, pos : Nat, part : {"functions", "chunks"},
            units : Nat, entries : Nat, length : Nat, unit : Unit, loaded : Program]

Arrives(p, c, r) ==
  IF c.at = "end" THEN r.at = "accepted" /\ r.loaded = p ELSE Synced(p, c, r)

LEMMA PosIsFree ==
  ASSUME NEW p, NEW c, NEW r \in Readers, NEW n, Arrives(p, c, r)
  PROVE  Arrives(p, c, [r EXCEPT !.pos = n])
<1> DEFINE q == [r EXCEPT !.pos = n]
<1>1. /\ q.at = r.at /\ q.part = r.part /\ q.units = r.units /\ q.entries = r.entries
      /\ q.length = r.length /\ q.unit = r.unit /\ q.loaded = r.loaded
  BY DEF Readers
<1> HIDE DEF q
<1>2. Arrives(p, c, q)
  BY <1>1 DEF Arrives, Synced
<1> QED BY <1>2 DEF q

\* The next unit, the table of chunks or the end, after i units of a part.
LEMMA NextUnitArrives ==
  ASSUME NEW p, IsProgram(p), NEW r \in Readers, NEW i \in Nat, i <= Len(p[r.part]), r.units = Len(p[r.part]),
         r.loaded = [functions |-> IF r.part = "functions" THEN SubSeq(p.functions, 1, i) ELSE p.functions,
                     chunks    |-> IF r.part = "functions" THEN << >> ELSE SubSeq(p.chunks, 1, i)]
  PROVE  NextUnit(r) \in Readers /\ Arrives(p, ToUnit(p, r.part, i + 1), NextUnit(r))
<1> DEFINE q == NextUnit(r)
           c == ToUnit(p, r.part, i + 1)
<1>1. p.functions \in Seq(Unit) /\ p.chunks \in Seq(Unit) /\ r.part \in {"functions", "chunks"}
  BY DEF IsProgram, Program, Readers
<1>2. Len(r.loaded[r.part]) = i
  BY <1>1
<1>3. /\ q.part = r.part /\ q.units = r.units /\ q.loaded = r.loaded /\ q \in Readers
      /\ q.at = IF i < Len(p[r.part]) THEN "open" ELSE IF r.part = "functions" THEN "chunks" ELSE "accepted"
  BY <1>1, <1>2 DEF NextUnit, Readers, Lines, OfUnit
<1>4. CASE i < Len(p[r.part])
  <2>1. c = Cursor("open", r.part, i + 1, 1)
    BY <1>1, <1>4 DEF ToUnit
  <2>2. UpTo(p, c) = r.loaded
    BY <1>1, <2>1 DEF UpTo, Cursor, OfUnit
  <2> HIDE DEF q
  <2>3. Arrives(p, c, q)
    BY <1>3, <1>4, <2>1, <2>2 DEF Arrives, Synced, Cursor, OfUnit
  <2> QED BY <1>3, <2>3 DEF q
<1>5. CASE i = Len(p[r.part]) /\ r.part = "functions"
  <2>1. c = Cursor("chunks", "chunks", 1, 1)
    BY <1>1, <1>5 DEF ToUnit
  <2> HIDE DEF c
  <2>4. SubSeq(p.functions, 1, i) = p.functions /\ c.at = "chunks"
    BY <1>1, <1>5, <2>1, Ends DEF Cursor
  <2>2. UpTo(p, c) = r.loaded
    BY <1>5, <2>4 DEF UpTo, OfUnit
  <2> HIDE DEF q
  <2>3. Arrives(p, c, q)
    BY <1>3, <1>5, <2>1, <2>2 DEF Arrives, Synced, Cursor, OfUnit
  <2> QED BY <1>3, <2>3 DEF q, c
<1>6. CASE i = Len(p[r.part]) /\ r.part = "chunks"
  <2>1. c = Cursor("end", "chunks", 1, 1)
    BY <1>1, <1>6 DEF ToUnit
  <2>2. r.loaded = p
    BY <1>1, <1>6, Ends DEF IsProgram, Program
  <2> HIDE DEF q
  <2>3. Arrives(p, c, q)
    BY <1>3, <1>6, <2>1, <2>2 DEF Arrives, Cursor
  <2> QED BY <1>3, <2>3 DEF q
<1> QED BY <1>1, <1>4, <1>5, <1>6

\* The next entry of a table, or what follows the table, before entry j.
LEMMA ParamTableArrives ==
  ASSUME NEW p, IsProgram(p), NEW c, Valid(p, c), c.at \in {"params", "paramtext"},
         NEW j \in 1 .. Len(UnitAt(p, c).params) + 1,
         NEW r \in Readers, r.part = c.part, r.units = Len(p[c.part]), r.loaded = UpTo(p, c),
         r.unit = [params |-> SubSeq(UnitAt(p, c).params, 1, j - 1), constants |-> << >>, code |-> << >>],
         r.entries = Len(UnitAt(p, c).params)
  PROVE  ParamTable(r) \in Readers /\ Arrives(p, Param(p, c, j), ParamTable(r))
<1> DEFINE q == ParamTable(r)
           d == Param(p, c, j)
           u == UnitAt(p, c)
<1>1. u \in Unit /\ u.params \in Seq(Text)
  BY UnitIsTyped DEF OfUnit, Unit
<1>2. Len(r.unit.params) = j - 1 /\ Len(u.params) \in Nat /\ j \in Nat
  BY <1>1
<1>8. q = [r EXCEPT !.at = IF j <= Len(u.params) THEN "param" ELSE "constants"]
  <2>1. (Len(r.unit.params) < r.entries) = (j <= Len(u.params))
    BY <1>2
  <2> HIDE DEF u
  <2> QED BY <2>1, Zenon DEF ParamTable
<1>3. /\ q.part = r.part /\ q.units = r.units /\ q.loaded = r.loaded /\ q.entries = r.entries /\ q.unit = r.unit
      /\ q.at = (IF j <= Len(u.params) THEN "param" ELSE "constants") /\ q \in Readers
  BY <1>8 DEF Readers, Lines, OfUnit
<1>4. d.at = q.at /\ d.part = c.part /\ d.i = c.i /\ d.j = j
  BY <1>3 DEF Param, Valid
<1>5. UnitAt(p, d) = u /\ UpTo(p, d) = UpTo(p, c)
  BY <1>3, <1>4 DEF UnitAt, UpTo, OfUnit
<1>6. r.unit = UnitUpTo(p, d)
  <2> HIDE DEF d
  <2>1. CASE j <= Len(u.params)
    BY <1>1, <1>3, <1>4, <1>5, <2>1 DEF UnitUpTo
  <2>2. CASE j = Len(u.params) + 1
    <3>1. SubSeq(u.params, 1, j - 1) = u.params /\ d.at = "constants"
      BY <1>1, <1>2, <1>3, <1>4, <2>2, Ends
    <3> QED BY <1>1, <1>5, <3>1 DEF UnitUpTo
  <2> QED BY <1>2, <2>1, <2>2
<1> HIDE DEF q, d
<1>7. Arrives(p, d, q)
  BY <1>3, <1>4, <1>5, <1>6 DEF Arrives, Synced, OfUnit
<1> QED BY <1>3, <1>7 DEF q, d

LEMMA ConstTableArrives ==
  ASSUME NEW p, IsProgram(p), NEW c, Valid(p, c), c.at \in {"constants", "constant", "stringtext"},
         NEW j \in 1 .. Len(UnitAt(p, c).constants) + 1,
         NEW r \in Readers, r.part = c.part, r.units = Len(p[c.part]), r.loaded = UpTo(p, c),
         r.unit = [params |-> UnitAt(p, c).params, constants |-> SubSeq(UnitAt(p, c).constants, 1, j - 1),
                   code |-> << >>],
         r.entries = Len(UnitAt(p, c).constants)
  PROVE  ConstTable(r) \in Readers /\ Arrives(p, Const(p, c, j), ConstTable(r))
<1> DEFINE q == ConstTable(r)
           d == Const(p, c, j)
           u == UnitAt(p, c)
<1>1. u \in Unit /\ u.constants \in Seq(Constant)
  BY UnitIsTyped DEF OfUnit, Unit
<1>2. Len(r.unit.constants) = j - 1 /\ Len(u.constants) \in Nat /\ j \in Nat
  BY <1>1
<1>8. q = [r EXCEPT !.at = IF j <= Len(u.constants) THEN "constant" ELSE "code"]
  <2>1. (Len(r.unit.constants) < r.entries) = (j <= Len(u.constants))
    BY <1>2
  <2> HIDE DEF u
  <2> QED BY <2>1, Zenon DEF ConstTable
<1>3. /\ q.part = r.part /\ q.units = r.units /\ q.loaded = r.loaded /\ q.entries = r.entries /\ q.unit = r.unit
      /\ q.at = (IF j <= Len(u.constants) THEN "constant" ELSE "code") /\ q \in Readers
  BY <1>8 DEF Readers, Lines, OfUnit
<1>4. d.at = q.at /\ d.part = c.part /\ d.i = c.i /\ d.j = j
  BY <1>3 DEF Const, Valid
<1>5. UnitAt(p, d) = u /\ UpTo(p, d) = UpTo(p, c)
  BY <1>3, <1>4 DEF UnitAt, UpTo, OfUnit
<1>6. r.unit = UnitUpTo(p, d)
  <2> HIDE DEF d
  <2>1. CASE j <= Len(u.constants)
    BY <1>1, <1>3, <1>4, <1>5, <2>1 DEF UnitUpTo
  <2>2. CASE j = Len(u.constants) + 1
    <3>1. SubSeq(u.constants, 1, j - 1) = u.constants /\ d.at = "code"
      BY <1>1, <1>2, <1>3, <1>4, <2>2, Ends
    <3> QED BY <1>1, <1>5, <3>1 DEF UnitUpTo
  <2> QED BY <1>2, <2>1, <2>2
<1> HIDE DEF q, d
<1>7. Arrives(p, d, q)
  BY <1>3, <1>4, <1>5, <1>6 DEF Arrives, Synced, OfUnit
<1> QED BY <1>3, <1>7 DEF q, d

-----------------------------------------------------------------------------
(* A reader on the path that finds the line that is written there.           *)

OnPath(p, c) ==
  /\ IsProgram(p) /\ Valid(p, c) /\ Writes(p, c)
  /\ reader \in Readers /\ Synced(p, c, reader)
  /\ reader.pos <= Len(file)
Meets(p, c) ==
  \E r \in Readers : r.pos = reader.pos /\ Goes(r) /\ Arrives(p, After(p, c), r)

LEMMA MagicMeets ==
  ASSUME NEW p, NEW c, OnPath(p, c), line = LineAt(p, c), ReadMagic
  PROVE  Meets(p, c)
<1> DEFINE r == [reader EXCEPT !.at = "functions"]
           d == [c EXCEPT !.at = "functions"]
<1>1. c.at = "magic" /\ line = Mark("MOSSVM1") /\ After(p, c) = d
  BY DEF OnPath, Synced, ReadMagic, On, LineAt, After
<1>2. Goes(r)
  BY <1>1 DEF ReadMagic, Take, Mark
<1>3. /\ r \in Readers /\ r.pos = reader.pos /\ r.part = reader.part /\ r.loaded = reader.loaded
      /\ r.at = "functions" /\ d.at = "functions"
  BY <1>1 DEF OnPath, Readers, Lines, Valid
<1> HIDE DEF r, d
<1>4. UpTo(p, d) = UpTo(p, c)
  BY <1>1, <1>3 DEF UpTo, OfUnit
<1>5. Arrives(p, d, r)
  BY <1>1, <1>3, <1>4 DEF OnPath, Synced, Arrives, OfUnit
<1> QED BY <1>1, <1>2, <1>3, <1>5 DEF Meets

LEMMA FunctionsMeets ==
  ASSUME NEW p, NEW c, OnPath(p, c), line = LineAt(p, c), ReadFunctions
  PROVE  Meets(p, c)
<1> DEFINE r == [reader EXCEPT !.units = line.n]
<1>1. /\ c.at = "functions" /\ line = Count("functions", Len(p.functions))
      /\ After(p, c) = ToUnit(p, "functions", 1)
  BY DEF OnPath, Synced, ReadFunctions, On, LineAt, After
<1>2. Goes(NextUnit(r))
  BY <1>1 DEF ReadFunctions, Count
<1>3. p.functions \in Seq(Unit) /\ p.chunks \in Seq(Unit) /\ line.n = Len(p.functions) /\ line.n \in Nat
  BY <1>1 DEF OnPath, IsProgram, Program, Count
<1>4. /\ r \in Readers /\ r.pos = reader.pos /\ r.part = "functions" /\ r.loaded = reader.loaded
      /\ r.units = Len(p.functions)
  BY <1>1, <1>3 DEF OnPath, Readers, Synced
<1>5. r.loaded = [functions |-> SubSeq(p.functions, 1, 0), chunks |-> << >>]
  BY <1>1, <1>3, <1>4, Ends DEF OnPath, Synced, UpTo, OfUnit
<1> HIDE DEF r
<1>6. NextUnit(r) \in Readers /\ Arrives(p, ToUnit(p, "functions", 1), NextUnit(r))
  <2>1. IsProgram(p) /\ 0 <= Len(p[r.part]) /\ r.units = Len(p[r.part]) /\ 0 + 1 = 1
    BY <1>3, <1>4 DEF OnPath
  <2> QED BY <1>4, <1>5, <2>1, NextUnitArrives
<1>7. NextUnit(r).pos = reader.pos
  BY <1>4 DEF NextUnit, Readers
<1> QED BY <1>1, <1>2, <1>6, <1>7 DEF Meets

LEMMA ChunkTableMeets ==
  ASSUME NEW p, NEW c, OnPath(p, c), line = LineAt(p, c), ReadChunkTable
  PROVE  Meets(p, c)
<1> DEFINE r == [reader EXCEPT !.part = "chunks", !.units = line.n]
<1>1. /\ c.at = "chunks" /\ line = Count("chunks", Len(p.chunks))
      /\ After(p, c) = ToUnit(p, "chunks", 1)
  BY DEF OnPath, Synced, ReadChunkTable, On, LineAt, After
<1>2. Goes(NextUnit(r))
  BY <1>1 DEF ReadChunkTable, ReadChunks, Take, Count
<1>3. p.functions \in Seq(Unit) /\ p.chunks \in Seq(Unit) /\ line.n = Len(p.chunks) /\ line.n \in Nat
  BY <1>1 DEF OnPath, IsProgram, Program, Count
<1>4. /\ r \in Readers /\ r.pos = reader.pos /\ r.part = "chunks" /\ r.loaded = reader.loaded
      /\ r.units = Len(p.chunks)
  BY <1>1, <1>3 DEF OnPath, Readers
<1>5. r.loaded = [functions |-> p.functions, chunks |-> SubSeq(p.chunks, 1, 0)]
  BY <1>1, <1>3, <1>4, Ends DEF OnPath, Synced, UpTo, OfUnit
<1> HIDE DEF r
<1>6. NextUnit(r) \in Readers /\ Arrives(p, ToUnit(p, "chunks", 1), NextUnit(r))
  <2>1. IsProgram(p) /\ 0 <= Len(p[r.part]) /\ r.units = Len(p[r.part]) /\ 0 + 1 = 1
    BY <1>3, <1>4 DEF OnPath
  <2> QED BY <1>4, <1>5, <2>1, NextUnitArrives
<1>7. NextUnit(r).pos = reader.pos
  BY <1>4 DEF NextUnit, Readers
<1> QED BY <1>1, <1>2, <1>6, <1>7 DEF Meets

\* What was read of a part, with the next unit of it.
Before(p, part, i) ==
  [functions |-> IF part = "functions" THEN SubSeq(p.functions, 1, i - 1) ELSE p.functions,
   chunks    |-> IF part = "chunks" THEN SubSeq(p.chunks, 1, i - 1) ELSE << >>]
Through(p, part, i) ==
  [functions |-> IF part = "functions" THEN SubSeq(p.functions, 1, i) ELSE p.functions,
   chunks    |-> IF part = "functions" THEN << >> ELSE SubSeq(p.chunks, 1, i)]
Joined(l, part, u) == [l EXCEPT ![part] = Append(l[part], u)]
LEMMA UnitAdded ==
  ASSUME NEW p \in Program, NEW part \in {"functions", "chunks"}, NEW i \in 1 .. Len(p[part])
  PROVE  Through(p, part, i) \in Program /\ Joined(Before(p, part, i), part, p[part][i]) = Through(p, part, i)
<1> DEFINE l == Before(p, part, i)
           m == Joined(l, part, p[part][i])
<1>1. p.functions \in Seq(Unit) /\ p.chunks \in Seq(Unit)
  BY DEF Program
<1>2. SubSeq(p[part], 1, i - 1) \in Seq(Unit) /\ SubSeq(p[part], 1, i) \in Seq(Unit) /\ p[part][i] \in Unit
  BY <1>1
<1>3. Append(SubSeq(p[part], 1, i - 1), p[part][i]) = SubSeq(p[part], 1, i)
  BY <1>1, Extend
<1>4. l \in Program
  BY <1>1, <1>2 DEF Program, Before
<1>5. l[part] = SubSeq(p[part], 1, i - 1)
  BY DEF Before
<1>8. m = [l EXCEPT ![part] = Append(l[part], p[part][i])]
  BY DEF Joined
<1> HIDE DEF l, m
<1>6. m[part] = SubSeq(p[part], 1, i) /\ \A q \in {"functions", "chunks"} : q # part => m[q] = l[q]
  BY <1>3, <1>4, <1>5, <1>8 DEF Program
<1>7. m \in Program
  BY <1>2, <1>3, <1>4, <1>5, <1>8 DEF Program
<1>9. /\ m.functions = IF part = "functions" THEN SubSeq(p.functions, 1, i) ELSE p.functions
      /\ m.chunks = IF part = "functions" THEN << >> ELSE SubSeq(p.chunks, 1, i)
  BY <1>6 DEF l, Before
<1>10. m = Through(p, part, i)
  BY <1>7, <1>9 DEF Program, Through
<1> QED BY <1>7, <1>10 DEF m, l

LEMMA ClosingMeets ==
  ASSUME NEW p, NEW c, OnPath(p, c), line = LineAt(p, c), ReadClosing
  PROVE  Meets(p, c)
<1> DEFINE r == [reader EXCEPT !.loaded[reader.part] = Append(@, reader.unit)]
<1>1. /\ c.at = "close" /\ line = Mark(Closing[c.part]) /\ reader.part = c.part
      /\ After(p, c) = ToUnit(p, c.part, c.i + 1)
  BY DEF OnPath, Synced, ReadClosing, On, LineAt, After, OfUnit
<1>2. Goes(NextUnit(r))
  BY <1>1 DEF ReadClosing, Take, Mark
<1>3. /\ p.functions \in Seq(Unit) /\ p.chunks \in Seq(Unit) /\ c.i \in 1 .. Len(p[c.part])
      /\ c.part \in {"functions", "chunks"} /\ UnitAt(p, c) \in Unit
  BY <1>1, UnitIsTyped DEF OnPath, IsProgram, Program, Valid, OfUnit
<1>4. reader.unit = UnitAt(p, c) /\ reader.unit = p[c.part][c.i]
  BY <1>1, <1>3 DEF OnPath, Synced, UnitUpTo, OfUnit, UnitAt, Unit
<1>5. reader.loaded = [functions |-> IF c.part = "functions" THEN SubSeq(p.functions, 1, c.i - 1) ELSE p.functions,
                       chunks    |-> IF c.part = "chunks" THEN SubSeq(p.chunks, 1, c.i - 1) ELSE << >>]
  BY <1>1 DEF OnPath, Synced, UpTo, OfUnit
<1> DEFINE more == [reader.loaded EXCEPT ![reader.part] = Append(@, reader.unit)]
<1>6. r = [reader EXCEPT !.loaded = more]
  OBVIOUS
<1> HIDE DEF r
<1>7. more = Joined(reader.loaded, c.part, p[c.part][c.i])
  BY <1>1, <1>4, Zenon DEF Joined
<1> HIDE DEF more
<1>11. p \in Program
  BY DEF OnPath, IsProgram
<1>13. reader.loaded = Before(p, c.part, c.i)
  BY <1>5 DEF Before
<1>14. more \in Program /\ more = Through(p, c.part, c.i)
  BY <1>3, <1>7, <1>11, <1>13, UnitAdded
<1>12. /\ more \in Program
       /\ more = [functions |-> IF c.part = "functions" THEN SubSeq(p.functions, 1, c.i) ELSE p.functions,
                  chunks    |-> IF c.part = "functions" THEN << >> ELSE SubSeq(p.chunks, 1, c.i)]
  BY <1>14 DEF Through
<1>8. /\ r \in Readers /\ r.pos = reader.pos /\ r.part = c.part /\ r.units = Len(p[c.part]) /\ r.loaded = more
  BY <1>1, <1>6, <1>12 DEF OnPath, Readers, Synced, OfUnit
<1>9. NextUnit(r) \in Readers /\ Arrives(p, ToUnit(p, c.part, c.i + 1), NextUnit(r))
  <2>1. IsProgram(p) /\ c.i <= Len(p[r.part]) /\ r.units = Len(p[r.part]) /\ c.i \in Nat
    BY <1>3, <1>8 DEF OnPath
  <2>2. r.loaded = [functions |-> IF r.part = "functions" THEN SubSeq(p.functions, 1, c.i) ELSE p.functions,
                    chunks    |-> IF r.part = "functions" THEN << >> ELSE SubSeq(p.chunks, 1, c.i)]
    BY <1>8, <1>12
  <2> QED BY <1>8, <2>1, <2>2, NextUnitArrives
<1>10. NextUnit(r).pos = reader.pos
  BY <1>8 DEF NextUnit, Readers
<1> QED BY <1>1, <1>2, <1>9, <1>10 DEF Meets

\* The lines of a unit after which the reader only goes on: the path goes on as well.
LEMMA GoesOn ==
  ASSUME NEW p, NEW c, OnPath(p, c), c.at \in OfUnit,
         NEW at, at \in OfUnit \ {"open"}, NEW d, d = [c EXCEPT !.at = at], NEW r \in Readers,
         r.at = at, r.part = reader.part, r.units = reader.units, r.loaded = reader.loaded,
         r.unit = UnitUpTo(p, d),
         at \in {"param", "paramtext"} => r.entries = Len(UnitAt(p, c).params),
         at \in {"constant", "stringtext"} => r.entries = Len(UnitAt(p, c).constants),
         at = "paramtext"  => r.length = Len(UnitAt(p, c).params[c.j]),
         at = "stringtext" => r.length = Len(ConstantAt(p, c).v),
         at = "codetext"   => r.length = Len(UnitAt(p, c).code)
  PROVE  Arrives(p, d, r)
<1>1. d.at = at /\ d.part = c.part /\ d.i = c.i /\ d.j = c.j
  BY DEF OnPath, Valid
<1>2. UnitAt(p, d) = UnitAt(p, c) /\ ConstantAt(p, d) = ConstantAt(p, c) /\ UpTo(p, d) = UpTo(p, c)
  <2>1. UnitAt(p, d) = UnitAt(p, c)
    BY <1>1, Zenon DEF UnitAt
  <2>2. ConstantAt(p, d) = ConstantAt(p, c)
    BY <1>1, <2>1, Zenon DEF ConstantAt
  <2>3. c.at \notin {"magic", "functions"} /\ d.at \notin {"magic", "functions"} /\ d.at \in OfUnit
    BY <1>1 DEF OfUnit
  <2>4. UpTo(p, d) = UpTo(p, c)
    BY <1>1, <2>3 DEF UpTo
  <2> QED BY <2>1, <2>2, <2>4
<1>3. r.part = c.part /\ r.units = Len(p[c.part]) /\ r.loaded = UpTo(p, c)
  BY DEF OnPath, Synced
<1> QED BY <1>1, <1>2, <1>3 DEF Arrives, Synced, OfUnit

LEMMA OpeningMeets ==
  ASSUME NEW p, NEW c, OnPath(p, c), line = LineAt(p, c), ReadOpening
  PROVE  Meets(p, c)
<1> DEFINE at == IF c.part = "functions" THEN "params" ELSE "constants"
           r == [reader EXCEPT !.unit = NoUnit, !.at = at]
           d == [c EXCEPT !.at = at]
<1>1. /\ c.at = "open" /\ line = Mark(Opening[c.part]) /\ reader.part = c.part /\ After(p, c) = d
  BY DEF OnPath, Synced, ReadOpening, On, LineAt, After, OfUnit
<1>2. Goes(r)
  BY <1>1 DEF ReadOpening, Take, Mark
<1>3. /\ r \in Readers /\ r.pos = reader.pos /\ r.part = reader.part /\ r.loaded = reader.loaded
      /\ r.units = reader.units /\ r.at = at /\ r.unit = NoUnit
  <2>1. NoUnit \in Unit
    BY DEF NoUnit, Unit, Text
  <2> QED BY <1>1, <2>1 DEF OnPath, Readers, Lines, OfUnit
<1>4. UnitAt(p, c) \in Unit /\ (c.part = "chunks" => UnitAt(p, c).params = << >>) /\ c.part \in {"functions", "chunks"}
  BY <1>1, UnitIsTyped DEF OnPath, OfUnit, Valid, UnitAt, IsProgram
<1>5. d.at = at /\ d.part = c.part /\ UnitAt(p, d) = UnitAt(p, c)
  BY <1>1 DEF OnPath, Valid, UnitAt
<1> HIDE DEF r, d
<1>6. r.unit = UnitUpTo(p, d)
  BY <1>3, <1>4, <1>5 DEF UnitUpTo, NoUnit
<1>7. at \in {"params", "constants"}
  OBVIOUS
<1> HIDE DEF at
<1>8. Arrives(p, d, r)
  BY <1>1, <1>3, <1>6, <1>7, GoesOn DEF d, OfUnit
<1> QED BY <1>1, <1>2, <1>3, <1>8 DEF Meets

LEMMA ParamsMeets ==
  ASSUME NEW p, NEW c, OnPath(p, c), line = LineAt(p, c), ReadParams
  PROVE  Meets(p, c)
<1> DEFINE r == [reader EXCEPT !.entries = line.n]
<1>1. c.at = "params" /\ line = Count("params", Len(UnitAt(p, c).params)) /\ After(p, c) = Param(p, c, 1)
  BY DEF OnPath, Synced, ReadParams, On, LineAt, After
<1>2. Goes(ParamTable(r))
  BY <1>1 DEF ReadParams, Take, Count
<1>3. UnitAt(p, c) \in Unit /\ UnitAt(p, c).params \in Seq(Text)
  BY <1>1, UnitIsTyped DEF OnPath, OfUnit, Unit
<1>4. line.n = Len(UnitAt(p, c).params) /\ line.n \in Nat
  BY <1>1, <1>3 DEF Count
<1>5. /\ r \in Readers /\ r.pos = reader.pos /\ r.part = c.part /\ r.loaded = UpTo(p, c)
      /\ r.units = Len(p[c.part]) /\ r.entries = Len(UnitAt(p, c).params) /\ r.unit = UnitUpTo(p, c)
  BY <1>1, <1>4 DEF OnPath, Readers, Synced, OfUnit
<1>6. UnitUpTo(p, c) = [params |-> SubSeq(UnitAt(p, c).params, 1, 1 - 1), constants |-> << >>, code |-> << >>]
  BY <1>1, <1>3, Ends DEF UnitUpTo
<1> HIDE DEF r
<1>7. ParamTable(r) \in Readers /\ Arrives(p, Param(p, c, 1), ParamTable(r))
  <2>1. IsProgram(p) /\ Valid(p, c) /\ 1 \in 1 .. Len(UnitAt(p, c).params) + 1
    BY <1>4 DEF OnPath
  <2> QED BY <1>1, <1>5, <1>6, <2>1, ParamTableArrives
<1>8. ParamTable(r).pos = reader.pos
  BY <1>5 DEF ParamTable, Readers
<1> QED BY <1>1, <1>2, <1>7, <1>8 DEF Meets

LEMMA ParamMeets ==
  ASSUME NEW p, NEW c, OnPath(p, c), line = LineAt(p, c), ReadParam
  PROVE  Meets(p, c)
<1> DEFINE r == [reader EXCEPT !.length = line.n, !.at = "paramtext"]
           d == [c EXCEPT !.at = "paramtext"]
<1>1. /\ c.at = "param" /\ line = Count("param", Len(UnitAt(p, c).params[c.j])) /\ After(p, c) = d
  BY DEF OnPath, Synced, ReadParam, On, LineAt, After
<1>2. Goes(r)
  BY <1>1 DEF ReadParam, Take, Count
<1>3. UnitAt(p, c) \in Unit /\ c.j \in 1 .. Len(UnitAt(p, c).params)
  BY <1>1, UnitIsTyped DEF OnPath, OfUnit, Valid
<1>4. line.n = Len(UnitAt(p, c).params[c.j]) /\ line.n \in Nat
  BY <1>1, <1>3 DEF Count, Unit, Text
<1>5. /\ r \in Readers /\ r.pos = reader.pos /\ r.part = reader.part /\ r.loaded = reader.loaded
      /\ r.units = reader.units /\ r.at = "paramtext" /\ r.unit = reader.unit /\ r.entries = reader.entries
      /\ r.length = line.n
  BY <1>1, <1>4 DEF OnPath, Readers, Lines, OfUnit
<1>6. d.at = "paramtext" /\ d.j = c.j /\ UnitAt(p, d) = UnitAt(p, c)
  BY <1>1 DEF OnPath, Valid, UnitAt
<1>10. d = [c EXCEPT !.at = "paramtext"]
  OBVIOUS
<1> HIDE DEF r, d
<1>7. UnitUpTo(p, d) = UnitUpTo(p, c)
  BY <1>1, <1>6 DEF UnitUpTo
<1>8. r.unit = UnitUpTo(p, d) /\ r.entries = Len(UnitAt(p, c).params)
  BY <1>1, <1>5, <1>7 DEF OnPath, Synced, OfUnit
<1>9. Arrives(p, d, r)
  <2>1. "paramtext" \in OfUnit \ {"open"} /\ c.at \in OfUnit
    BY <1>1 DEF OfUnit
  <2> QED BY <1>4, <1>5, <1>8, <1>10, <2>1, GoesOn
<1> QED BY <1>1, <1>2, <1>5, <1>9 DEF Meets

LEMMA Fields ==
  ASSUME NEW v, NEW f, NEW g, NEW h, v = [params |-> f, constants |-> g, code |-> h]
  PROVE  v.params = f /\ v.constants = g /\ v.code = h
OBVIOUS

\* An entry is added to a table of a unit.
LEMMA ParamAdded ==
  ASSUME NEW v \in Unit, NEW x \in Text, NEW m, m = [v EXCEPT !.params = Append(v.params, x)]
  PROVE  m \in Unit /\ m.params = Append(v.params, x) /\ m.constants = v.constants /\ m.code = v.code
<1>1. PICK y : y = Append(v.params, x)
  OBVIOUS
<1>2. y \in Seq(Text)
  BY <1>1 DEF Unit
<1>3. m = [v EXCEPT !.params = y]
  BY <1>1
<1>4. m \in Unit
  BY <1>2, <1>3 DEF Unit
<1>5. m.params = y /\ m.constants = v.constants /\ m.code = v.code
  BY <1>3, <1>4 DEF Unit
<1> QED BY <1>1, <1>4, <1>5

LEMMA ConstantAdded ==
  ASSUME NEW v \in Unit, NEW x \in Constant, NEW m, m = [v EXCEPT !.constants = Append(v.constants, x)]
  PROVE  m \in Unit /\ m.params = v.params /\ m.constants = Append(v.constants, x) /\ m.code = v.code
<1>1. PICK y : y = Append(v.constants, x)
  OBVIOUS
<1>2. y \in Seq(Constant)
  BY <1>1 DEF Unit
<1>3. m = [v EXCEPT !.constants = y]
  BY <1>1
<1>4. m \in Unit
  BY <1>2, <1>3 DEF Unit
<1>5. m.constants = y /\ m.params = v.params /\ m.code = v.code
  BY <1>3, <1>4 DEF Unit
<1> QED BY <1>1, <1>4, <1>5

LEMMA ParamTextMeets ==
  ASSUME NEW p, NEW c, OnPath(p, c), line = LineAt(p, c), ReadParamText
  PROVE  Meets(p, c)
<1> DEFINE r == [reader EXCEPT !.unit.params = Append(@, line.x)]
           more == [reader.unit EXCEPT !.params = Append(@, line.x)]
           u == UnitAt(p, c)
<1>1. c.at = "paramtext" /\ line = Item("hex", u.params[c.j]) /\ After(p, c) = Param(p, c, c.j + 1)
  BY DEF OnPath, Synced, ReadParamText, On, LineAt, After
<1>2. u \in Unit /\ u.params \in Seq(Text) /\ c.j \in 1 .. Len(u.params)
  BY <1>1, UnitIsTyped DEF OnPath, OfUnit, Valid, Unit
<1>3. line.x = u.params[c.j] /\ line.k = "hex" /\ line.x \in Text
  BY <1>1, <1>2 DEF Item
<1>4. reader.length = Len(line.x) /\ reader.entries = Len(u.params)
  BY <1>1, <1>3 DEF OnPath, Synced
<1>5. Goes(ParamTable(r))
  BY <1>3, <1>4 DEF ReadParamText, TakeText
<1>6. r = [reader EXCEPT !.unit = more]
  OBVIOUS
<1> HIDE DEF r
<1>7. reader.unit = [params |-> SubSeq(u.params, 1, c.j - 1), constants |-> << >>, code |-> << >>]
  BY <1>1 DEF OnPath, Synced, UnitUpTo, OfUnit
<1>8. Append(SubSeq(u.params, 1, c.j - 1), line.x) = SubSeq(u.params, 1, c.j)
  BY <1>2, <1>3, Extend
<1>9. reader.unit \in Unit /\ more = [reader.unit EXCEPT !.params = Append(reader.unit.params, line.x)]
  BY DEF OnPath, Readers
<1> HIDE DEF more, u
<1>10. /\ more \in Unit
       /\ more = [params |-> SubSeq(u.params, 1, c.j + 1 - 1), constants |-> << >>, code |-> << >>]
  <2>1. /\ more \in Unit /\ more.params = Append(reader.unit.params, line.x)
        /\ more.constants = reader.unit.constants /\ more.code = reader.unit.code
    BY <1>3, <1>9, ParamAdded
  <2>2. reader.unit.params = SubSeq(u.params, 1, c.j - 1) /\ reader.unit.constants = << >> /\ reader.unit.code = << >>
    <3>1. PICK v, f : v = reader.unit /\ f = SubSeq(u.params, 1, c.j - 1)
      OBVIOUS
    <3>2. v = [params |-> f, constants |-> << >>, code |-> << >>]
      BY <1>7, <3>1, Zenon
    <3>3. v.params = f /\ v.constants = << >> /\ v.code = << >>
      BY <3>2
    <3> QED BY <3>1, <3>3, Zenon
  <2>3. more.params = SubSeq(u.params, 1, c.j) /\ more.constants = << >> /\ more.code = << >>
    BY <1>8, <2>1, <2>2
  <2>4. c.j + 1 - 1 = c.j
    BY <1>2
  <2> QED BY <2>1, <2>3, <2>4 DEF Unit
<1>11. /\ r \in Readers /\ r.pos = reader.pos /\ r.part = c.part /\ r.loaded = UpTo(p, c)
       /\ r.units = Len(p[c.part]) /\ r.entries = Len(u.params) /\ r.unit = more
  BY <1>1, <1>4, <1>6, <1>10 DEF OnPath, Readers, Synced, OfUnit
<1>12. ParamTable(r) \in Readers /\ Arrives(p, Param(p, c, c.j + 1), ParamTable(r))
  <2>1. IsProgram(p) /\ Valid(p, c) /\ c.j + 1 \in 1 .. Len(u.params) + 1
    BY <1>2 DEF OnPath
  <2>2. r.unit = [params |-> SubSeq(UnitAt(p, c).params, 1, c.j + 1 - 1), constants |-> << >>, code |-> << >>]
    BY <1>10, <1>11, Zenon DEF u
  <2>3. c.at \in {"params", "paramtext"} /\ r.entries = Len(UnitAt(p, c).params)
    BY <1>1, <1>11 DEF u
  <2>4. c.j + 1 \in 1 .. Len(UnitAt(p, c).params) + 1
    BY <2>1 DEF u
  <2>5. PICK j \in 1 .. Len(UnitAt(p, c).params) + 1 : j = c.j + 1
    BY <2>4
  <2>6. r.unit = [params |-> SubSeq(UnitAt(p, c).params, 1, j - 1), constants |-> << >>, code |-> << >>]
    <3>1. c.j + 1 - 1 = j - 1
      BY <1>2, <2>5
    <3> QED BY <2>2, <3>1, Zenon
  <2>7. ParamTable(r) \in Readers /\ Arrives(p, Param(p, c, j), ParamTable(r))
    BY <1>11, <2>1, <2>3, <2>6, ParamTableArrives
  <2> QED BY <2>5, <2>7, Zenon
<1>13. ParamTable(r).pos = reader.pos
  BY <1>11 DEF ParamTable, Readers
<1> QED BY <1>1, <1>5, <1>12, <1>13 DEF Meets

LEMMA ConstantsMeets ==
  ASSUME NEW p, NEW c, OnPath(p, c), line = LineAt(p, c), ReadConstants
  PROVE  Meets(p, c)
<1> DEFINE r == [reader EXCEPT !.entries = line.n]
<1>1. c.at = "constants" /\ line = Count("constants", Len(UnitAt(p, c).constants)) /\ After(p, c) = Const(p, c, 1)
  BY DEF OnPath, Synced, ReadConstants, On, LineAt, After
<1>2. Goes(ConstTable(r))
  BY <1>1 DEF ReadConstants, Take, Count
<1>3. UnitAt(p, c) \in Unit /\ UnitAt(p, c).constants \in Seq(Constant)
  BY <1>1, UnitIsTyped DEF OnPath, OfUnit, Unit
<1>4. line.n = Len(UnitAt(p, c).constants) /\ line.n \in Nat
  BY <1>1, <1>3 DEF Count
<1>5. /\ r \in Readers /\ r.pos = reader.pos /\ r.part = c.part /\ r.loaded = UpTo(p, c)
      /\ r.units = Len(p[c.part]) /\ r.entries = Len(UnitAt(p, c).constants) /\ r.unit = UnitUpTo(p, c)
  BY <1>1, <1>4 DEF OnPath, Readers, Synced, OfUnit
<1>6. UnitUpTo(p, c) = [params |-> UnitAt(p, c).params, constants |-> SubSeq(UnitAt(p, c).constants, 1, 1 - 1),
                        code |-> << >>]
  BY <1>1, <1>3, Ends DEF UnitUpTo
<1> HIDE DEF r
<1>7. ConstTable(r) \in Readers /\ Arrives(p, Const(p, c, 1), ConstTable(r))
  <2>1. IsProgram(p) /\ Valid(p, c) /\ 1 \in 1 .. Len(UnitAt(p, c).constants) + 1
    BY <1>4 DEF OnPath
  <2> QED BY <1>1, <1>5, <1>6, <2>1, ConstTableArrives
<1>8. ConstTable(r).pos = reader.pos
  BY <1>5 DEF ConstTable, Readers
<1> QED BY <1>1, <1>2, <1>7, <1>8 DEF Meets

\* The constant that the reader adds is the next one of the unit.
LEMMA ConstantArrives ==
  ASSUME NEW p, NEW c, OnPath(p, c), c.at \in {"constant", "stringtext"},
         NEW x \in Constant, x = ConstantAt(p, c), NEW r, r = [reader EXCEPT !.unit.constants = Append(@, x)]
  PROVE  /\ ConstTable(r) \in Readers /\ ConstTable(r).pos = reader.pos
         /\ Arrives(p, Const(p, c, c.j + 1), ConstTable(r))
<1> DEFINE more == [reader.unit EXCEPT !.constants = Append(reader.unit.constants, x)]
           u == UnitAt(p, c)
<1>2. u \in Unit /\ u.constants \in Seq(Constant) /\ c.j \in 1 .. Len(u.constants) /\ x = u.constants[c.j]
  BY UnitIsTyped DEF OnPath, OfUnit, Valid, Unit, ConstantAt
<1>4. reader.entries = Len(u.constants)
  BY DEF OnPath, Synced
<1>6. r = [reader EXCEPT !.unit = more]
  BY DEF OnPath, Readers
<1>7. reader.unit = [params |-> u.params, constants |-> SubSeq(u.constants, 1, c.j - 1), code |-> << >>]
  BY DEF OnPath, Synced, UnitUpTo, OfUnit
<1>8. Append(SubSeq(u.constants, 1, c.j - 1), x) = SubSeq(u.constants, 1, c.j)
  BY <1>2, Extend
<1>9. reader.unit \in Unit /\ more = [reader.unit EXCEPT !.constants = Append(reader.unit.constants, x)]
  BY DEF OnPath, Readers
<1> HIDE DEF more, u
<1>5. PICK j \in 1 .. Len(u.constants) + 1 : j = c.j + 1 /\ j - 1 = c.j
  BY <1>2
<1>10. /\ more \in Unit
       /\ more = [params |-> u.params, constants |-> SubSeq(u.constants, 1, j - 1), code |-> << >>]
  <2>1. /\ more \in Unit /\ more.params = reader.unit.params
        /\ more.constants = Append(reader.unit.constants, x) /\ more.code = reader.unit.code
    BY <1>9, ConstantAdded
  <2>2. reader.unit.params = u.params /\ reader.unit.constants = SubSeq(u.constants, 1, c.j - 1) /\ reader.unit.code = << >>
    <3>1. PICK v, f : v = reader.unit /\ f = SubSeq(u.constants, 1, c.j - 1)
      OBVIOUS
    <3>2. v = [params |-> u.params, constants |-> f, code |-> << >>]
      BY <1>7, <3>1, Zenon
    <3>3. v.params = u.params /\ v.constants = f /\ v.code = << >>
      BY <3>2
    <3> QED BY <3>1, <3>3, Zenon
  <2>3. more.params = u.params /\ more.constants = SubSeq(u.constants, 1, j - 1) /\ more.code = << >>
    BY <1>5, <1>8, <2>1, <2>2
  <2> QED BY <2>1, <2>3 DEF Unit
<1>11. /\ r \in Readers /\ r.pos = reader.pos /\ r.part = c.part /\ r.loaded = UpTo(p, c)
       /\ r.units = Len(p[c.part]) /\ r.entries = Len(u.constants) /\ r.unit = more
  BY <1>4, <1>6, <1>10 DEF OnPath, Readers, Synced, OfUnit
<1>12. ConstTable(r) \in Readers /\ Arrives(p, Const(p, c, j), ConstTable(r))
  <2>1. IsProgram(p) /\ Valid(p, c) /\ c.at \in {"constants", "constant", "stringtext"}
    BY DEF OnPath
  <2> QED BY <1>10, <1>11, <2>1, ConstTableArrives DEF u
<1>13. ConstTable(r).pos = reader.pos
  BY <1>11 DEF ConstTable, Readers
<1> QED BY <1>5, <1>12, <1>13, Zenon

LEMMA ConstantMeets ==
  ASSUME NEW p, NEW c, OnPath(p, c), line = LineAt(p, c), ReadConstant
  PROVE  Meets(p, c)
<1> DEFINE x == ConstantAt(p, c)
<1>1. c.at = "constant" /\ x.t # "other"
  BY DEF OnPath, Synced, ReadConstant, On, Writes
<1>2. UnitAt(p, c) \in Unit /\ c.j \in 1 .. Len(UnitAt(p, c).constants) /\ x \in Constant
  BY <1>1, UnitIsTyped DEF OnPath, OfUnit, Valid, Unit, ConstantAt
<1>3. line = IF x.t = "number" THEN Item("number", x.v) ELSE Count("string", Len(x.v))
  BY <1>1 DEF LineAt
<1>4. CASE x.t = "number"
  <2>1. line = Item("number", x.v) /\ After(p, c) = Const(p, c, c.j + 1)
    BY <1>1, <1>3, <1>4 DEF After
  <2>2. x = [t |-> "number", v |-> x.v]
    BY <1>2, <1>4 DEF Constant
  <2>3. Goes(AddConstant("number", line.x)) /\ line.x = x.v
    BY <2>1 DEF ReadConstant, Item
  <2>4. AddConstant("number", line.x) = ConstTable([reader EXCEPT !.unit.constants = Append(@, x)])
    BY <2>2, <2>3, Zenon DEF AddConstant
  <2> HIDE DEF x
  <2> QED BY <1>1, <1>2, <2>1, <2>3, <2>4, ConstantArrives DEF x, Meets
<1>5. CASE x.t = "string"
  <2> DEFINE r == [reader EXCEPT !.length = line.n, !.at = "stringtext"]
             d == [c EXCEPT !.at = "stringtext"]
  <2>1. line = Count("string", Len(x.v)) /\ After(p, c) = d
    BY <1>1, <1>3, <1>5 DEF After
  <2>2. Goes(r)
    BY <2>1 DEF ReadConstant, Count
  <2>3. line.n = Len(x.v) /\ line.n \in Nat
    BY <1>2, <1>5, <2>1 DEF Constant, Text, Count
  <2>4. /\ r \in Readers /\ r.pos = reader.pos /\ r.part = reader.part /\ r.loaded = reader.loaded
        /\ r.units = reader.units /\ r.at = "stringtext" /\ r.unit = reader.unit /\ r.entries = reader.entries
        /\ r.length = line.n
    BY <1>1, <2>3 DEF OnPath, Readers, Lines, OfUnit
  <2>5. d.at = "stringtext" /\ d.j = c.j /\ UnitAt(p, d) = UnitAt(p, c) /\ d = [c EXCEPT !.at = "stringtext"]
    BY <1>1 DEF OnPath, Valid, UnitAt
  <2> HIDE DEF r, d, x
  <2>6. UnitUpTo(p, d) = UnitUpTo(p, c)
    BY <1>1, <2>5 DEF UnitUpTo
  <2>7. r.unit = UnitUpTo(p, d) /\ r.entries = Len(UnitAt(p, c).constants)
    BY <1>1, <2>4, <2>6 DEF OnPath, Synced, OfUnit
  <2>8. "stringtext" \in OfUnit \ {"open"} /\ c.at \in OfUnit
    BY <1>1 DEF OfUnit
  <2>9. Arrives(p, d, r)
    BY <2>3, <2>4, <2>5, <2>7, <2>8, GoesOn DEF x
  <2> QED BY <2>1, <2>2, <2>4, <2>9 DEF Meets
<1> QED BY <1>1, <1>2, <1>4, <1>5 DEF Constant

LEMMA StringTextMeets ==
  ASSUME NEW p, NEW c, OnPath(p, c), line = LineAt(p, c), ReadStringText
  PROVE  Meets(p, c)
<1> DEFINE x == ConstantAt(p, c)
<1>1. c.at = "stringtext" /\ line = Item("hex", x.v) /\ After(p, c) = Const(p, c, c.j + 1) /\ x.t = "string"
  BY DEF OnPath, Synced, ReadStringText, On, LineAt, After, Valid
<1>2. x \in Constant
  BY <1>1, UnitIsTyped DEF OnPath, OfUnit, Valid, Unit, ConstantAt
<1>3. line.x = x.v /\ line.k = "hex" /\ reader.length = Len(x.v)
  BY <1>1 DEF Item, OnPath, Synced
<1>4. x = [t |-> "string", v |-> x.v]
  BY <1>1, <1>2 DEF Constant
<1>5. Goes(AddConstant("string", line.x))
  BY <1>3 DEF ReadStringText, TakeText
<1>6. AddConstant("string", line.x) = ConstTable([reader EXCEPT !.unit.constants = Append(@, x)])
  BY <1>3, <1>4, Zenon DEF AddConstant
<1> HIDE DEF x
<1> QED BY <1>1, <1>2, <1>5, <1>6, ConstantArrives DEF x, Meets

LEMMA CodeMeets ==
  ASSUME NEW p, NEW c, OnPath(p, c), line = LineAt(p, c), ReadCode
  PROVE  Meets(p, c)
<1> DEFINE r == [reader EXCEPT !.length = line.n, !.at = "codetext"]
           d == [c EXCEPT !.at = "codetext"]
<1>1. c.at = "code" /\ line = Count("code", Len(UnitAt(p, c).code)) /\ After(p, c) = d
  BY DEF OnPath, Synced, ReadCode, On, LineAt, After
<1>2. Goes(r)
  BY <1>1 DEF ReadCode, Take, Count
<1>3. UnitAt(p, c) \in Unit
  BY <1>1, UnitIsTyped DEF OnPath, OfUnit
<1>4. line.n = Len(UnitAt(p, c).code) /\ line.n \in Nat
  BY <1>1, <1>3 DEF Count, Unit, Text
<1>5. /\ r \in Readers /\ r.pos = reader.pos /\ r.part = reader.part /\ r.loaded = reader.loaded
      /\ r.units = reader.units /\ r.at = "codetext" /\ r.unit = reader.unit /\ r.length = line.n
  BY <1>1, <1>4 DEF OnPath, Readers, Lines, OfUnit
<1>6. d.at = "codetext" /\ UnitAt(p, d) = UnitAt(p, c) /\ d = [c EXCEPT !.at = "codetext"]
  BY <1>1 DEF OnPath, Valid, UnitAt
<1> HIDE DEF r, d
<1>7. UnitUpTo(p, d) = UnitUpTo(p, c)
  BY <1>1, <1>6 DEF UnitUpTo
<1>8. r.unit = UnitUpTo(p, d)
  BY <1>1, <1>5, <1>7 DEF OnPath, Synced, OfUnit
<1>9. "codetext" \in OfUnit \ {"open"} /\ c.at \in OfUnit
  BY <1>1 DEF OfUnit
<1>10. Arrives(p, d, r)
  BY <1>4, <1>5, <1>6, <1>8, <1>9, GoesOn
<1> QED BY <1>1, <1>2, <1>5, <1>10 DEF Meets

LEMMA CodeTextMeets ==
  ASSUME NEW p, NEW c, OnPath(p, c), line = LineAt(p, c), ReadCodeText
  PROVE  Meets(p, c)
<1> DEFINE more == [reader.unit EXCEPT !.code = line.x]
           r == [reader EXCEPT !.unit.code = line.x, !.at = "close"]
           d == [c EXCEPT !.at = "close"]
           u == UnitAt(p, c)
<1>1. c.at = "codetext" /\ line = Item("hex", u.code) /\ After(p, c) = d
  BY DEF OnPath, Synced, ReadCodeText, On, LineAt, After
<1>2. u \in Unit /\ u.code \in Text
  BY <1>1, UnitIsTyped DEF OnPath, OfUnit, Unit
<1>3. line.x = u.code /\ line.k = "hex" /\ reader.length = Len(u.code)
  BY <1>1 DEF Item, OnPath, Synced
<1>4. Goes(r)
  BY <1>3 DEF ReadCodeText, TakeText
<1>5. r = [reader EXCEPT !.unit = more, !.at = "close"]
  BY DEF OnPath, Readers
<1>6. reader.unit = [params |-> u.params, constants |-> u.constants, code |-> << >>] /\ reader.unit \in Unit
  BY <1>1 DEF OnPath, Synced, UnitUpTo, OfUnit, Readers
<1>7. more \in Unit /\ more.params = u.params /\ more.constants = u.constants /\ more.code = u.code
  BY <1>2, <1>3, <1>6 DEF Unit
<1>11. d.at = "close" /\ UnitAt(p, d) = u /\ d = [c EXCEPT !.at = "close"]
  BY <1>1 DEF OnPath, Valid, UnitAt
<1> HIDE DEF more, r, d, u
<1>8. /\ r \in Readers /\ r.pos = reader.pos /\ r.part = reader.part /\ r.loaded = reader.loaded
      /\ r.units = reader.units /\ r.at = "close" /\ r.unit = more
  BY <1>1, <1>5, <1>7 DEF OnPath, Readers, Lines, OfUnit
<1>9. r.unit = UnitUpTo(p, d)
  BY <1>2, <1>7, <1>8, <1>11 DEF UnitUpTo, Unit
<1>12. "close" \in OfUnit \ {"open"} /\ c.at \in OfUnit
  BY <1>1 DEF OfUnit
<1>10. Arrives(p, d, r)
  BY <1>8, <1>9, <1>11, <1>12, GoesOn
<1> QED BY <1>1, <1>4, <1>8, <1>10 DEF Meets

\* The reader takes every line that the writer writes, and stays on the path.
LEMMA ReadMeets ==
  ASSUME NEW p, NEW c, OnPath(p, c), line = LineAt(p, c), Read
  PROVE  Meets(p, c)
<1>1. ~ReadPastEnd
  BY DEF OnPath, ReadPastEnd, Readers
<1> QED BY <1>1, MagicMeets, FunctionsMeets, ChunkTableMeets, OpeningMeets, ParamsMeets, ParamMeets, ParamTextMeets,
        ConstantsMeets, ConstantMeets, StringTextMeets, CodeMeets, CodeTextMeets, ClosingMeets DEF Read

-----------------------------------------------------------------------------
(* A reader that finds any line: it refuses it or goes on, and only a count  *)
(* of chunks that are all there, or the end of a chunk, can end the file.    *)

LEMMA LineIsFileLine ==
  ASSUME TypeOK, reader.pos <= Len(file)
  PROVE  /\ line \in FileLine /\ line.n \in Nat
         /\ line.k = "hex" => line.x \in Text
         /\ line.k = "number" => line.x \in Number
<1>1. reader.pos \in 1 .. Len(file) /\ file \in Seq(FileLine)
  BY DEF TypeOK
<1>2. line \in FileLine
  BY <1>1 DEF line
<1> HIDE DEF line
<1> QED BY <1>2 DEF FileLine, Marks, Counted

Complete ==
  \/ reader.at = "functions" /\ reader.part = "chunks"
  \/ reader.at = "close" /\ line.k = Closing[reader.part]
  \/ reader.at \in {"functions", "chunks"} /\ line.k = "chunks" /\ Len(reader.loaded.chunks) >= line.n
Moves ==
  \/ Refuse
  \/ \E r \in Readers : /\ r.pos = reader.pos /\ Goes(r)
                        /\ r.at \in Lines \/ (r.at = "accepted" /\ Complete)

LEMMA NextUnitIsTyped ==
  ASSUME NEW r \in Readers
  PROVE  /\ NextUnit(r) \in Readers /\ NextUnit(r).pos = r.pos
         /\ NextUnit(r).at \in {"open", "chunks", "accepted"}
         /\ NextUnit(r).at = "accepted" => r.part = "chunks" /\ Len(r.loaded.chunks) >= r.units
<1>1. r.part \in {"functions", "chunks"} /\ Len(r.loaded[r.part]) \in Nat /\ r.units \in Nat
  BY DEF Readers, Program
<1>2. PICK at : at = CASE Len(r.loaded[r.part]) < r.units -> "open"
                       [] Len(r.loaded[r.part]) >= r.units /\ r.part = "functions" -> "chunks"
                       [] OTHER -> "accepted"
  OBVIOUS
<1>3. /\ at \in {"open", "chunks", "accepted"}
      /\ at = "accepted" => r.part = "chunks" /\ Len(r.loaded.chunks) >= r.units
  BY <1>1, <1>2
<1>4. NextUnit(r) = [r EXCEPT !.at = at]
  BY <1>2, Zenon DEF NextUnit
<1> QED BY <1>3, <1>4 DEF Readers, Lines, OfUnit

LEMMA TableIsTyped ==
  ASSUME NEW r \in Readers
  PROVE  /\ ParamTable(r) \in Readers /\ ParamTable(r).pos = r.pos /\ ParamTable(r).at \in Lines
         /\ ConstTable(r) \in Readers /\ ConstTable(r).pos = r.pos /\ ConstTable(r).at \in Lines
<1>1. PICK a : a = IF Len(r.unit.params) < r.entries THEN "param" ELSE "constants"
  OBVIOUS
<1>2. PICK b : b = IF Len(r.unit.constants) < r.entries THEN "constant" ELSE "code"
  OBVIOUS
<1>3. ParamTable(r) = [r EXCEPT !.at = a] /\ ConstTable(r) = [r EXCEPT !.at = b]
  BY <1>1, <1>2, Zenon DEF ParamTable, ConstTable
<1>4. a \in Lines /\ b \in Lines
  BY <1>1, <1>2 DEF Lines, OfUnit
<1> QED BY <1>3, <1>4 DEF Readers

LEMMA ReadMoves ==
  ASSUME TypeOK, Read, ~ReadPastEnd
  PROVE  Moves /\ reader.pos <= Len(file) /\ UNCHANGED <<emit, built, file, writer>>
<1>1. reader.pos <= Len(file) /\ UNCHANGED <<emit, built, file, writer>>
  BY DEF Read, On, ReadMagic, ReadFunctions, ReadChunkTable, ReadOpening, ReadParams, ReadParam, ReadParamText,
         ReadConstants, ReadConstant, ReadStringText, ReadCode, ReadCodeText, ReadClosing
<1> SUFFICES Moves
  BY <1>1
<1>2. /\ line.n \in Nat
      /\ line.k = "hex" => line.x \in Text
      /\ line.k = "number" => line.x \in Number
  BY <1>1, LineIsFileLine
<1>3. reader \in Readers /\ reader.part \in {"functions", "chunks"} /\ reader.unit \in Unit
  BY DEF TypeOK, Readers
<1> HIDE DEF line
<1>4. CASE ReadMagic
  <2> DEFINE r == [reader EXCEPT !.at = "functions"]
  <2>1. r \in Readers /\ r.pos = reader.pos /\ r.at \in Lines
    BY <1>3 DEF Readers, Lines
  <2>2. Refuse \/ Goes(r)
    BY <1>4 DEF ReadMagic, Take
  <2> QED BY <2>1, <2>2 DEF Moves
<1>5. CASE ReadFunctions \/ ReadChunkTable
  <2>1. CASE reader.at = "functions" /\ line.k = "functions" /\ Goes(NextUnit([reader EXCEPT !.units = line.n]))
    <3> DEFINE r == [reader EXCEPT !.units = line.n]
    <3>1. r \in Readers /\ r.pos = reader.pos /\ r.part = reader.part
      BY <1>2, <1>3 DEF Readers
    <3>2. Goes(NextUnit(r))
      BY <2>1
    <3> HIDE DEF r
    <3>3. /\ NextUnit(r) \in Readers /\ NextUnit(r).pos = reader.pos
          /\ NextUnit(r).at \in Lines \/ (NextUnit(r).at = "accepted" /\ reader.part = "chunks")
      BY <3>1, NextUnitIsTyped DEF Lines, OfUnit
    <3> QED BY <2>1, <3>2, <3>3 DEF Moves, Complete
  <2>2. CASE reader.at \in {"functions", "chunks"} /\ ReadChunks
    <3> DEFINE r == [reader EXCEPT !.part = "chunks", !.units = line.n]
    <3>1. r \in Readers /\ r.pos = reader.pos /\ r.units = line.n /\ r.loaded = reader.loaded
      BY <1>2, <1>3 DEF Readers
    <3>2. Refuse \/ (line.k = "chunks" /\ Goes(NextUnit(r)))
      BY <2>2 DEF ReadChunks, Take
    <3> HIDE DEF r
    <3>3. /\ NextUnit(r) \in Readers /\ NextUnit(r).pos = reader.pos
          /\ NextUnit(r).at \in Lines \/ (NextUnit(r).at = "accepted" /\ Len(reader.loaded.chunks) >= line.n)
      BY <3>1, NextUnitIsTyped DEF Lines, OfUnit
    <3> QED BY <2>2, <3>2, <3>3 DEF Moves, Complete
  <2> QED BY <1>5, <2>1, <2>2 DEF ReadFunctions, ReadChunkTable, On
<1>6. CASE ReadOpening
  <2> DEFINE r == [reader EXCEPT !.unit = NoUnit, !.at = IF reader.part = "functions" THEN "params" ELSE "constants"]
  <2>1. NoUnit \in Unit
    BY DEF NoUnit, Unit, Text
  <2>2. r \in Readers /\ r.pos = reader.pos /\ r.at \in Lines
    BY <1>3, <2>1 DEF Readers, Lines, OfUnit
  <2>3. Refuse \/ Goes(r)
    BY <1>6 DEF ReadOpening, Take
  <2> QED BY <2>2, <2>3 DEF Moves
<1>7. CASE ReadParams
  <2> DEFINE r == [reader EXCEPT !.entries = line.n]
  <2>1. r \in Readers /\ r.pos = reader.pos
    BY <1>2, <1>3 DEF Readers
  <2>2. Refuse \/ Goes(ParamTable(r))
    BY <1>7 DEF ReadParams, Take
  <2> HIDE DEF r
  <2> QED BY <2>1, <2>2, TableIsTyped DEF Moves
<1>8. CASE ReadParam \/ ReadCode
  <2>1. PICK at \in {"paramtext", "codetext"} : Refuse \/ Goes([reader EXCEPT !.length = line.n, !.at = at])
    BY <1>8 DEF ReadParam, ReadCode, Take
  <2> DEFINE r == [reader EXCEPT !.length = line.n, !.at = at]
  <2>2. r \in Readers /\ r.pos = reader.pos /\ r.at \in Lines
    BY <1>2, <1>3 DEF Readers, Lines, OfUnit
  <2> QED BY <2>1, <2>2 DEF Moves
<1>9. CASE ReadParamText
  <2> DEFINE more == [reader.unit EXCEPT !.params = Append(reader.unit.params, line.x)]
             r == [reader EXCEPT !.unit.params = Append(@, line.x)]
  <2>1. Refuse \/ (line.k = "hex" /\ Goes(ParamTable(r)))
    BY <1>9 DEF ReadParamText, TakeText
  <2>2. r = [reader EXCEPT !.unit = more]
    BY <1>3 DEF Readers
  <2> HIDE DEF r
  <2>3. ASSUME line.k = "hex" PROVE more \in Unit
    BY <1>2, <1>3, <2>3, ParamAdded
  <2> HIDE DEF more
  <2>4. ASSUME line.k = "hex" PROVE r \in Readers /\ r.pos = reader.pos
    BY <1>3, <2>2, <2>3, <2>4 DEF Readers
  <2> QED BY <2>1, <2>4, TableIsTyped DEF Moves
<1>10. CASE ReadConstants
  <2> DEFINE r == [reader EXCEPT !.entries = line.n]
  <2>1. r \in Readers /\ r.pos = reader.pos
    BY <1>2, <1>3 DEF Readers
  <2>2. Refuse \/ Goes(ConstTable(r))
    BY <1>10 DEF ReadConstants, Take
  <2> HIDE DEF r
  <2> QED BY <2>1, <2>2, TableIsTyped DEF Moves
<1>11. ASSUME NEW t, NEW v, [t |-> t, v |-> v] \in Constant
       PROVE  AddConstant(t, v) \in Readers /\ AddConstant(t, v).pos = reader.pos /\ AddConstant(t, v).at \in Lines
  <2> DEFINE x == [t |-> t, v |-> v]
             more == [reader.unit EXCEPT !.constants = Append(reader.unit.constants, x)]
             r == [reader EXCEPT !.unit.constants = Append(@, x)]
  <2>1. r = [reader EXCEPT !.unit = more]
    BY <1>3 DEF Readers
  <2>2. AddConstant(t, v) = ConstTable(r)
    BY DEF AddConstant
  <2> HIDE DEF r, x
  <2>3. more \in Unit
    BY <1>3, <1>11, ConstantAdded DEF x
  <2> HIDE DEF more
  <2>4. r \in Readers /\ r.pos = reader.pos
    BY <1>3, <2>1, <2>3 DEF Readers
  <2> QED BY <2>2, <2>4, TableIsTyped
<1>12. CASE ReadConstant
  <2>1. \/ Refuse
        \/ line.k = "number" /\ Goes(AddConstant("number", line.x))
        \/ Goes([reader EXCEPT !.length = line.n, !.at = "stringtext"])
    BY <1>12 DEF ReadConstant
  <2>2. CASE line.k = "number" /\ Goes(AddConstant("number", line.x))
    <3>1. [t |-> "number", v |-> line.x] \in Constant
      BY <1>2, <2>2 DEF Constant
    <3> QED BY <1>11, <2>2, <3>1 DEF Moves
  <2>3. CASE Goes([reader EXCEPT !.length = line.n, !.at = "stringtext"])
    <3> DEFINE r == [reader EXCEPT !.length = line.n, !.at = "stringtext"]
    <3>1. r \in Readers /\ r.pos = reader.pos /\ r.at \in Lines
      BY <1>2, <1>3 DEF Readers, Lines, OfUnit
    <3> QED BY <2>3, <3>1 DEF Moves
  <2> QED BY <2>1, <2>2, <2>3 DEF Moves
<1>13. CASE ReadStringText
  <2>1. Refuse \/ (line.k = "hex" /\ Goes(AddConstant("string", line.x)))
    BY <1>13 DEF ReadStringText, TakeText
  <2>2. line.k = "hex" => [t |-> "string", v |-> line.x] \in Constant
    BY <1>2 DEF Constant
  <2> QED BY <1>11, <2>1, <2>2 DEF Moves
<1>14. CASE ReadCodeText
  <2> DEFINE more == [reader.unit EXCEPT !.code = line.x]
             r == [reader EXCEPT !.unit.code = line.x, !.at = "close"]
  <2>1. Refuse \/ (line.k = "hex" /\ Goes(r))
    BY <1>14 DEF ReadCodeText, TakeText
  <2>2. r = [reader EXCEPT !.unit = more, !.at = "close"]
    BY <1>3 DEF Readers
  <2> HIDE DEF r
  <2>3. ASSUME line.k = "hex" PROVE more \in Unit
    BY <1>2, <1>3, <2>3 DEF Unit
  <2> HIDE DEF more
  <2>4. ASSUME line.k = "hex" PROVE r \in Readers /\ r.pos = reader.pos /\ r.at \in Lines
    BY <1>3, <2>2, <2>3, <2>4 DEF Readers, Lines, OfUnit
  <2> QED BY <2>1, <2>4 DEF Moves
<1>15. CASE ReadClosing
  <2> DEFINE more == [reader.loaded EXCEPT ![reader.part] = Append(@, reader.unit)]
             r == [reader EXCEPT !.loaded[reader.part] = Append(@, reader.unit)]
  <2>1. Refuse \/ (reader.at = "close" /\ line.k = Closing[reader.part] /\ Goes(NextUnit(r)))
    BY <1>15 DEF ReadClosing, Take, On
  <2>2. r = [reader EXCEPT !.loaded = more]
    OBVIOUS
  <2> HIDE DEF r
  <2>3. more \in Program
    <3>1. reader.loaded \in Program
      BY <1>3 DEF Readers
    <3>2. PICK l, y : l = reader.loaded /\ y = Append(l[reader.part], reader.unit)
      OBVIOUS
    <3>3. y \in Seq(Unit) /\ l \in Program
      BY <1>3, <3>1, <3>2 DEF Program
    <3>4. more = [l EXCEPT ![reader.part] = y]
      BY <3>2, Zenon
    <3>5. [l EXCEPT !["functions"] = y] \in Program /\ [l EXCEPT !["chunks"] = y] \in Program
      BY <3>3 DEF Program
    <3> QED BY <1>3, <3>4, <3>5
  <2> HIDE DEF more
  <2>4. r \in Readers /\ r.pos = reader.pos
    BY <1>3, <2>2, <2>3 DEF Readers
  <2>5. NextUnit(r) \in Readers /\ NextUnit(r).pos = reader.pos /\ NextUnit(r).at \in Lines \cup {"accepted"}
    BY <2>4, NextUnitIsTyped DEF Lines, OfUnit
  <2> QED BY <2>1, <2>5 DEF Moves, Complete
<1> QED BY <1>1, <1>4, <1>5, <1>6, <1>7, <1>8, <1>9, <1>10, <1>12, <1>13, <1>14, <1>15 DEF Read

\* A reader on the path that finds a line that was cut: it refuses it, or
\* goes on and there is no next line.
LEMMA CutIsNotAccepted ==
  ASSUME TypeOK, NEW c, OnPath(built, c), line \in Cuts(LineAt(built, c)), Read
  PROVE  Refuse \/ \E r \in Readers : r.pos = reader.pos /\ Goes(r) /\ r.at \in Lines
<1>1. ~ReadPastEnd
  BY DEF OnPath, ReadPastEnd, Readers
<1>2. Moves
  BY <1>1, ReadMoves
<1>3. ASSUME Complete PROVE FALSE
  <2>1. reader.at = c.at /\ Valid(built, c)
    BY DEF OnPath, Synced
  <2>2. CASE c.at = "functions"
    <3>1. reader.part = "functions"
      BY <2>2 DEF OnPath, Synced
    <3>2. LineAt(built, c).k = "functions"
      BY <2>2 DEF LineAt, Count
    <3>3. line.k \in {"junk", "functions"}
      BY <3>2 DEF Cuts, Mark, Count, Counted
    <3> HIDE DEF line
    <3> QED BY <1>3, <2>1, <2>2, <3>1, <3>3 DEF Complete
  <2>3. CASE c.at = "chunks"
    <3>1. reader.loaded.chunks = << >>
      BY <2>3 DEF OnPath, Synced, UpTo, OfUnit
    <3>2. LineAt(built, c).k = "chunks"
      BY <2>3 DEF LineAt, Count
    <3>3. line.k = "junk" \/ (line.n \in Nat /\ line.n >= 1)
      BY <3>2 DEF Cuts, Mark, Count, Counted
    <3> HIDE DEF line
    <3> QED BY <1>3, <2>1, <2>3, <3>1, <3>3 DEF Complete
  <2>4. CASE c.at = "close"
    <3>1. reader.part \in {"functions", "chunks"}
      BY DEF OnPath, Readers
    <3>2. LineAt(built, c).k \in {"endfunction", "endchunk"}
      <4>1. c.part \in {"functions", "chunks"}
        BY <2>1 DEF Valid
      <4> QED BY <2>4, <4>1 DEF LineAt, Mark, Closing
    <3>3. line.k = "junk"
      BY <3>2 DEF Cuts, Mark, Counted
    <3> HIDE DEF line
    <3> QED BY <1>3, <2>1, <2>4, <3>1, <3>3 DEF Complete, Closing
  <2> HIDE DEF line
  <2> QED BY <1>3, <2>1, <2>2, <2>3, <2>4 DEF Complete
<1> QED BY <1>2, <1>3 DEF Moves

-----------------------------------------------------------------------------
(* The steps.                                                                *)

LEMMA RestingIsTyped ==
  /\ NoUnit \in Unit /\ NoProgram \in Program
  /\ \A at \in Lines \cup {"idle", "accepted", "refused"} :
       [Resting EXCEPT !.at = at] \in Readers /\ [Resting EXCEPT !.at = at].pos = 1
<1>1. NoUnit \in Unit /\ NoProgram \in Program
  BY DEF NoUnit, Unit, Text, NoProgram, Program
<1>2. Resting \in Readers /\ Resting.pos = 1
  BY <1>1 DEF Resting, Readers
<1> QED BY <1>1, <1>2 DEF Readers

LEMMA Starts == Init => IInv
<1> SUFFICES ASSUME Init PROVE IInv
  OBVIOUS
<1>1. reader = [Resting EXCEPT !.at = "idle"] /\ reader.at = "idle" /\ writer.at = "idle"
  BY DEF Init, Resting, Idle, Start, Cursor
<1>2. reader \in Readers /\ reader.pos = 1
  BY <1>1, RestingIsTyped
<1>3. file \in Seq(FileLine) /\ Len(file) = 0
  BY DEF Init
<1>4. writer \in [at : Lines \cup {"end", "idle", "written", "failed"}, part : {"functions", "chunks"}, i : Nat, j : Nat]
  BY DEF Init, Idle, Start, Cursor
<1>5. TypeOK
  BY <1>2, <1>3, <1>4 DEF TypeOK, Readers, Init
<1> QED BY <1>1, <1>5 DEF IInv, Emitted, LoadedIsBuilt, WrittenIsAccepted, Init

\* Writing and reading leave the compiler alone.
LEMMA EmitKept ==
  ASSUME IInv, UNCHANGED <<emit, built>>, opening # "next"
  PROVE  Emitted'
BY DEF IInv, Emitted, emit

\* The reader rests while the file is written.
LEMMA Alone ==
  ASSUME IInv, writer.at \notin {"written", "failed"}
  PROVE  reader = Resting /\ reader.at = "idle" /\ reader.pos = 1
<1>1. reader.at = "idle"
  BY DEF IInv, Follows, TypeOK
<1> QED BY <1>1 DEF IInv, Resting

\* What is left to show of a step at which the reader rests.
LEMMA Rests ==
  ASSUME TypeOK', Emitted', writer'.at # "idle", reader' = Resting,
         \E h : Path(built', h) /\ Along(h)'
  PROVE  IInv'
<1>1. reader'.at = "idle"
  BY DEF Resting
<1>2. \A h : Follows(h)'
  BY <1>1 DEF Follows, Lines, OfUnit
<1> QED BY <1>1, <1>2 DEF IInv, LoadedIsBuilt, WrittenIsAccepted

\* Until the file is opened, nothing that a reader sees changes.
LEMMA UntilOpen ==
  ASSUME IInv, TypeOK', Emitted', UNCHANGED <<built, file, writer, reader>>, reader.at = "idle"
  PROVE  IInv'
<1>1. \A h : /\ Path(built', h) = Path(built, h)
            /\ Along(h)' = Along(h) /\ Follows(h)' = Follows(h)
  BY DEF Along, Follows
<1> QED BY <1>1 DEF IInv, LoadedIsBuilt, WrittenIsAccepted

LEMMA CompileKeeps ==
  ASSUME IInv, NEW p \in Programs, Compile(p)
  PROVE  IInv'
<1>1. TypeOK'
  BY DEF IInv, TypeOK, Compile
<1>2. Emitted'
  BY DEF Emitted, Compile
<1> QED BY <1>1, <1>2, UntilOpen DEF Compile

LEMMA NotOpenedKeeps ==
  ASSUME IInv, NotOpened
  PROVE  IInv'
<1>1. TypeOK'
  BY DEF IInv, TypeOK, NotOpened
<1>2. Emitted'
  BY DEF Emitted, NotOpened
<1> QED BY <1>1, <1>2, UntilOpen DEF NotOpened, IInv, Emitted

LEMMA OpenKeeps ==
  ASSUME IInv, Open
  PROVE  IInv'
<1> DEFINE p == compiled
<1>1. reader.at = "idle" /\ reader = Resting /\ reader.pos = 1
  BY DEF Open, IInv, Emitted, Resting
<1>2. /\ built' = p /\ file' = << >> /\ writer' = Start /\ reader' = reader
      /\ opening' = "done" /\ compiled' = p
  BY DEF Open
<1>3. file' \in Seq(FileLine) /\ Len(file') = 0
  BY <1>2
<1>4. Start \in [at : Lines \cup {"end", "idle", "written", "failed"}, part : {"functions", "chunks"}, i : Nat, j : Nat]
      /\ Start.at = "magic" /\ Start.at \in Lines
  BY DEF Start, Cursor, Lines
<1>5. TypeOK'
  BY <1>1, <1>2, <1>3, <1>4 DEF IInv, TypeOK
<1>6. Path(p, <<Start>>)
  <2>1. Start \in [at : Lines \cup {"end"}, part : {"functions", "chunks"}, i : Nat, j : Nat]
    BY DEF Start, Cursor, Lines
  <2>2. Valid(p, Start)
    BY StartIsValid
  <2> HIDE DEF Start
  <2>3. /\ <<Start>> \in Seq([at : Lines \cup {"end"}, part : {"functions", "chunks"}, i : Nat, j : Nat])
        /\ Len(<<Start>>) = 1 /\ <<Start>>[1] = Start
    BY <2>1
  <2> QED BY <2>2, <2>3 DEF Path
<1>7. Along(<<Start>>)'
  <2>1. Len(<<Start>>) = 1 /\ <<Start>>[1] = Start
    OBVIOUS
  <2>2. Start.at # "written"
    BY <1>4
  <2> QED BY <1>2, <1>3, <2>1, <2>2 DEF Along
<1>8. Emitted'
  BY <1>2 DEF Emitted
<1>9. writer'.at # "idle" /\ reader' = Resting
  BY <1>1, <1>2, <1>4 DEF Lines, OfUnit
<1> QED BY <1>2, <1>5, <1>6, <1>7, <1>8, <1>9, Rests

LEMMA WriteKeeps ==
  ASSUME IInv, Write
  PROVE  IInv'
<1>1. writer.at \in Lines /\ CanWrite /\ writer.at \notin {"idle", "written", "failed"}
  BY DEF Write, Lines, OfUnit
<1>2. reader = Resting /\ reader.at = "idle" /\ reader.pos = 1
  BY <1>1, Alone
<1>3. PICK h : Path(built, h) /\ Along(h)
  BY <1>1 DEF IInv
<1>4. Len(h) = Len(file) + 1 /\ h[Len(h)] = writer /\ Len(file) \in Nat /\ TypeOK /\ IsProgram(built)
  BY <1>1, <1>3, IsOne DEF Along, IInv, TypeOK
<1> DEFINE C == [at : Lines \cup {"end"}, part : {"functions", "chunks"}, i : Nat, j : Nat]
<1>16. PICK next : next = After(built, writer)
  OBVIOUS
<1>17. PICK g : g = Append(h, next)
  OBVIOUS
<1>5. Valid(built, writer) /\ Writes(built, writer)
  BY <1>1, <1>3, <1>4 DEF Path, Writes, CanWrite
<1>6. Valid(built, next) /\ next \in C
  <2>1. Valid(built, next)
    BY <1>4, <1>5, <1>16, AfterIsValid
  <2> QED BY <2>1 DEF Valid
<1>7. LineAt(built, writer) \in FileLine
  BY <1>4, <1>5, LineIsTyped
<1>8. /\ built' = built /\ file' = Append(file, LineAt(built, writer)) /\ writer' = next
      /\ reader' = reader /\ UNCHANGED emit
  BY <1>16 DEF Write
<1>9. h \in Seq(C) /\ file \in Seq(FileLine)
  BY <1>3, <1>4 DEF Path, TypeOK
<1>10. /\ file' \in Seq(FileLine) /\ Len(file') = Len(file) + 1
       /\ \A k \in 1 .. Len(file) : file'[k] = file[k]
       /\ file'[Len(file')] = LineAt(built, writer)
  BY <1>7, <1>8, <1>9
<1>11. /\ g \in Seq(C) /\ Len(g) = Len(file) + 2 /\ g[Len(g)] = next
       /\ \A k \in 1 .. Len(h) : g[k] = h[k]
  BY <1>4, <1>6, <1>9, <1>17
<1>12. TypeOK'
  <2>1. writer' \in [at : Lines \cup {"end", "idle", "written", "failed"}, part : {"functions", "chunks"}, i : Nat, j : Nat]
    BY <1>6, <1>8
  <2> QED BY <1>2, <1>4, <1>8, <1>10, <2>1 DEF TypeOK, emit
<1>13. Path(built', g)
  <2>1. Len(g) > 0 /\ g[1] = Start
    BY <1>3, <1>4, <1>11 DEF Path
  <2>2. \A k \in 1 .. Len(g) : Valid(built, g[k])
    <3>1. ASSUME NEW k \in 1 .. Len(g) PROVE Valid(built, g[k])
      <4>1. k \in 1 .. Len(h) \/ k = Len(g)
        BY <1>4, <1>11
      <4> QED BY <1>3, <1>6, <1>11, <4>1 DEF Path
    <3> QED BY <3>1
  <2>3. \A k \in 1 .. Len(g) - 1 : Writes(built, g[k]) /\ g[k + 1] = After(built, g[k])
    <3>1. ASSUME NEW k \in 1 .. Len(g) - 1 PROVE Writes(built, g[k]) /\ g[k + 1] = After(built, g[k])
      <4>1. CASE k \in 1 .. Len(h) - 1
        <5>1. k \in 1 .. Len(h) /\ k + 1 \in 1 .. Len(h)
          BY <1>4, <4>1
        <5> QED BY <1>3, <1>11, <4>1, <5>1 DEF Path
      <4>2. CASE k = Len(h)
        <5>1. k + 1 = Len(g) /\ k \in 1 .. Len(h) /\ h[k] = writer
          BY <1>4, <1>11, <4>2
        <5> QED BY <1>5, <1>11, <1>16, <5>1
      <4>3. k \in 1 .. Len(h) - 1 \/ k = Len(h)
        BY <1>4, <1>11
      <4> QED BY <4>1, <4>2, <4>3
    <3> QED BY <3>1
  <2> QED BY <1>8, <1>11, <2>1, <2>2, <2>3 DEF Path
<1>14. Along(g)'
  <2>1. \A k \in 1 .. Len(file') : file'[k] = LineAt(built', g[k])
    <3>1. ASSUME NEW k \in 1 .. Len(file') PROVE file'[k] = LineAt(built, g[k])
      <4>1. CASE k \in 1 .. Len(file)
        <5>1. file[k] = LineAt(built, h[k]) /\ k \in 1 .. Len(h)
          BY <1>1, <1>3, <1>4, <4>1 DEF Along
        <5> QED BY <1>10, <1>11, <4>1, <5>1
      <4>2. CASE k = Len(file')
        BY <1>4, <1>10, <1>11, <4>2
      <4> QED BY <1>4, <1>10, <4>1, <4>2
    <3> QED BY <1>8, <3>1
  <2>2. next.at \in Lines \cup {"end"} /\ next.at # "written"
    BY <1>6 DEF Lines, OfUnit
  <2> QED BY <1>4, <1>8, <1>10, <1>11, <2>1, <2>2 DEF Along
<1>15. writer'.at # "idle"
  BY <1>6, <1>8 DEF Lines, OfUnit
<1>20. Emitted'
  BY <1>1, EmitKept DEF IInv, Emitted, Write
<1> QED BY <1>2, <1>8, <1>12, <1>13, <1>14, <1>15, <1>20, Rests

LEMMA CloseKeeps ==
  ASSUME IInv, Close
  PROVE  IInv'
<1>1. writer.at \in Lines \cup {"end"} /\ writer.at \notin {"idle", "written", "failed"}
  BY DEF Close, Lines, OfUnit
<1>2. reader = Resting /\ reader.at = "idle" /\ reader.pos = 1
  BY <1>1, Alone
<1>3. PICK h : Path(built, h) /\ Along(h)
  BY <1>1 DEF IInv
<1>4. UNCHANGED <<emit, built, file, reader>>
  BY DEF Close
<1>5. /\ writer' \in [at : {"written", "failed"}, part : {"functions", "chunks"}, i : Nat, j : Nat]
      /\ writer'.at = "written" => writer.at = "end"
  BY DEF Close, Idle, Start, Cursor
<1>6. TypeOK'
  BY <1>4, <1>5 DEF IInv, TypeOK, emit
<1>7. Along(h)'
  <2>1. writer'.at \notin Lines \cup {"end"} /\ writer.at \in Lines \cup {"end"} /\ writer.at # "failed"
    BY <1>1, <1>5 DEF Lines, OfUnit
  <2> QED BY <1>3, <1>4, <1>5, <2>1 DEF Along
<1>20. Emitted'
  BY <1>1, EmitKept DEF IInv, Emitted, Close
<1> QED BY <1>2, <1>3, <1>4, <1>5, <1>6, <1>7, <1>20, Rests

LEMMA CutIsTyped ==
  ASSUME NEW l \in FileLine, NEW m \in Cuts(l)
  PROVE  m \in FileLine
<1>1. CASE m = Mark("junk")
  BY <1>1 DEF Mark, FileLine, Marks
<1>2. CASE l.k \in Counted /\ m \in {Count(l.k, n) : n \in 1 .. l.n - 1}
  BY <1>2 DEF Count, FileLine, Counted, Marks
<1>3. CASE l.k = "number" /\ m \in {Item("number", v) : v \in Number}
  BY <1>3 DEF Item, FileLine
<1>4. CASE l.k = "hex" /\ m \in {Item("hex", SubSeq(l.x, 1, n)) : n \in 1 .. Len(l.x) - 1}
  <2>1. l.x \in Seq(Byte)
    BY <1>4 DEF FileLine, Marks, Counted, Text
  <2>2. PICK n \in 1 .. Len(l.x) - 1 : m = Item("hex", SubSeq(l.x, 1, n))
    BY <1>4
  <2>3. SubSeq(l.x, 1, n) \in Text
    BY <2>1 DEF Text
  <2> QED BY <2>2, <2>3 DEF Item, FileLine
<1> QED BY <1>1, <1>2, <1>3, <1>4 DEF Cuts, Counted

LEMMA BreakKeeps ==
  ASSUME IInv, Break
  PROVE  IInv'
<1>1. writer.at \in Lines \cup {"end"} /\ writer.at \notin {"idle", "written", "failed"}
  BY DEF Break, Lines, OfUnit
<1>2. reader = Resting /\ reader.at = "idle" /\ reader.pos = 1
  BY <1>1, Alone
<1>3. PICK h : Path(built, h) /\ Along(h)
  BY <1>1 DEF IInv
<1>4. UNCHANGED <<emit, built, reader>> /\ writer' = [Idle EXCEPT !.at = "failed"]
  BY DEF Break
<1>5. writer' \in [at : {"failed"}, part : {"functions", "chunks"}, i : Nat, j : Nat] /\ writer'.at = "failed"
  BY <1>4 DEF Idle, Start, Cursor
<1>6. /\ file \in Seq(FileLine) /\ Len(file) \in Nat /\ Len(h) = Len(file) + 1
      /\ \A k \in 1 .. Len(file) : file[k] = LineAt(built, h[k])
  BY <1>1, <1>3 DEF IInv, TypeOK, Along
<1>7. /\ file' \in Seq(FileLine) /\ Len(file') <= Len(file)
      /\ \A k \in 1 .. Len(file') :
           file'[k] = file[k] \/ (k = Len(file') /\ file'[k] \in Cuts(file[k]))
  <2>1. CASE \E n \in 0 .. Len(file) : file' = SubSeq(file, 1, n)
    BY <1>6, <2>1
  <2>2. CASE \E n \in 1 .. Len(file) : \E l \in Cuts(file[n]) : file' = Append(SubSeq(file, 1, n - 1), l)
    <3>6. PICK n \in 1 .. Len(file) : \E l \in Cuts(file[n]) : file' = Append(SubSeq(file, 1, n - 1), l)
      BY <2>2
    <3>1. PICK l \in Cuts(file[n]) : file' = Append(SubSeq(file, 1, n - 1), l)
      BY <3>6
    <3>2. file[n] \in FileLine
      BY <1>6
    <3>3. l \in FileLine
      BY <3>2, CutIsTyped
    <3>4. /\ SubSeq(file, 1, n - 1) \in Seq(FileLine) /\ Len(SubSeq(file, 1, n - 1)) = n - 1
          /\ \A k \in 1 .. n - 1 : SubSeq(file, 1, n - 1)[k] = file[k]
      BY <1>6
    <3>5. /\ file' \in Seq(FileLine) /\ Len(file') = n /\ file'[n] = l
          /\ \A k \in 1 .. n - 1 : file'[k] = file[k]
      BY <3>1, <3>3, <3>4
    <3> QED BY <1>6, <3>1, <3>5
  <2> QED BY <2>1, <2>2 DEF Break
<1>8. TypeOK'
  <2>1. Len(file') \in Nat
    BY <1>7
  <2>2. writer' \in [at : Lines \cup {"end", "idle", "written", "failed"}, part : {"functions", "chunks"}, i : Nat, j : Nat]
    BY <1>5
  <2>3. 1 \in 1 .. Len(file') + 1
    BY <2>1
  <2> QED BY <1>2, <1>4, <1>7, <2>2, <2>3 DEF IInv, TypeOK, emit
<1>9. Along(h)'
  <2>1. Len(file') \in Nat /\ Len(h) > Len(file')
    BY <1>6, <1>7
  <2>2. ASSUME NEW k \in 1 .. Len(file')
        PROVE  file'[k] = LineAt(built, h[k]) \/ (k = Len(file') /\ file'[k] \in Cuts(LineAt(built, h[k])))
    <3>1. k \in 1 .. Len(file)
      BY <1>6, <1>7, <2>1
    <3> QED BY <1>6, <1>7, <3>1
  <2>3. writer'.at \notin Lines \cup {"end", "written"}
    BY <1>5 DEF Lines, OfUnit
  <2> QED BY <1>4, <1>5, <2>1, <2>2, <2>3 DEF Along
<1>20. Emitted'
  BY <1>1, EmitKept DEF IInv, Emitted, Break
<1> QED BY <1>2, <1>3, <1>4, <1>5, <1>8, <1>9, <1>20, Rests

\* What is left to show of a step of the reader.
LEMMA ReaderKeeps ==
  ASSUME IInv, UNCHANGED <<emit, built, file, writer>>, writer.at \in {"written", "failed"}, opening # "next",
         NEW r \in Readers, reader' = r, r.pos \in 1 .. Len(file) + 1, r.at = "idle" => r = Resting,
         r.at = "accepted" => r.loaded = built, r.at = "refused" => writer.at = "failed",
         NEW h, Path(built, h), Along(h),
         r.at \in Lines => Synced(built, h[r.pos], r) \/ (writer.at = "failed" /\ r.pos = Len(file) + 1)
  PROVE  IInv'
<1>1. TypeOK'
  BY DEF IInv, TypeOK, Readers, emit
<1>3. Path(built', h) /\ Along(h)'
  BY DEF Along
<1>4. Follows(h)'
  BY DEF Follows, Synced
<1>5. Emitted'
  BY EmitKept
<1>6. opening' # "failed" => built' = compiled'
  BY DEF IInv, Emitted, emit
<1> QED BY <1>1, <1>3, <1>4, <1>5, <1>6 DEF IInv, LoadedIsBuilt, WrittenIsAccepted

LEMMA OpenFileKeeps ==
  ASSUME IInv, OpenFile
  PROVE  IInv'
<1> DEFINE r == [Resting EXCEPT !.at = "magic"]
<1>1. /\ writer.at \in {"written", "failed"} /\ opening # "next"
      /\ reader' = r /\ UNCHANGED <<emit, built, file, writer>>
  BY DEF OpenFile
<1>2. r \in Readers /\ r.pos = 1 /\ r.at = "magic"
  BY RestingIsTyped DEF Lines, Resting
<1>3. PICK h : Path(built, h) /\ Along(h)
  BY <1>1 DEF IInv
<1>4. Synced(built, Start, r)
  <2>1. r.loaded = NoProgram /\ r.part = "functions"
    BY DEF Resting
  <2>2. Start.at = "magic"
    BY DEF Start, Cursor
  <2>3. UpTo(built, Start) = NoProgram
    BY <2>2 DEF UpTo, NoProgram, OfUnit
  <2> HIDE DEF r
  <2> QED BY <1>2, <2>1, <2>2, <2>3 DEF Synced, OfUnit
<1> HIDE DEF r
<1>5. h[r.pos] = Start /\ r.pos \in 1 .. Len(file) + 1
  BY <1>2, <1>3 DEF Path, IInv, TypeOK
<1> QED BY <1>1, <1>2, <1>3, <1>4, <1>5, ReaderKeeps

LEMMA EndRunKeeps ==
  ASSUME IInv, EndRun
  PROVE  IInv'
<1>1. reader' = Resting /\ UNCHANGED <<emit, built, file, writer>>
  BY DEF EndRun
<1>2. PICK h : Path(built, h) /\ Along(h) /\ writer.at \in {"written", "failed"}
  BY DEF IInv, EndRun, Follows
<1>3. TypeOK'
  <2>1. [Resting EXCEPT !.at = "idle"] = Resting
    BY DEF Resting
  <2>2. Resting \in Readers /\ Resting.pos = 1
    BY <2>1, RestingIsTyped
  <2> QED BY <1>1, <2>2 DEF IInv, TypeOK, emit, Readers
<1>4. Path(built', h) /\ Along(h)' /\ writer'.at # "idle"
  BY <1>1, <1>2 DEF Along
<1>5. Emitted'
  BY <1>1, EmitKept DEF EndRun, IInv, Emitted
<1> QED BY <1>1, <1>3, <1>4, <1>5, Rests

LEMMA RefuseKeeps ==
  ASSUME IInv, Refuse, UNCHANGED <<emit, built, file, writer>>, writer.at = "failed", opening # "next"
  PROVE  IInv'
<1> DEFINE r == [Resting EXCEPT !.at = "refused"]
<1>1. r \in Readers /\ r.pos = 1 /\ r.at = "refused" /\ reader' = r
  BY RestingIsTyped DEF Lines, Resting, Refuse
<1>2. PICK h : Path(built, h) /\ Along(h)
  BY DEF IInv
<1>3. 1 \in 1 .. Len(file) + 1
  BY DEF IInv, TypeOK
<1>4. r.at \notin Lines
  BY <1>1 DEF Lines, OfUnit
<1> HIDE DEF r
<1> QED BY <1>1, <1>2, <1>3, <1>4, ReaderKeeps

LEMMA ReadKeeps ==
  ASSUME IInv, Read
  PROVE  IInv'
<1>1. reader.at \in Lines /\ TypeOK /\ IsProgram(built) /\ reader \in Readers /\ reader.pos \in 1 .. Len(file) + 1
  <2>1. reader.at \in Lines
    BY DEF Read, On, ReadMagic, ReadFunctions, ReadChunkTable, ReadOpening, ReadParams, ReadParam, ReadParamText,
           ReadConstants, ReadConstant, ReadStringText, ReadCode, ReadCodeText, ReadClosing, ReadPastEnd, Lines, OfUnit
  <2> QED BY <2>1, IsOne DEF IInv, TypeOK, Readers
<1>2. Len(file) \in Nat
  BY <1>1 DEF TypeOK
<1>3. writer.at \in {"written", "failed"} /\ opening # "next"
  <2>1. reader.at # "idle"
    BY <1>1 DEF Lines, OfUnit
  <2>2. PICK h : Follows(h)
    BY <2>1 DEF IInv
  <2> QED BY <1>1, <2>1, <2>2 DEF Follows, IInv, Emitted
<1>4. PICK h : Path(built, h) /\ Along(h) /\ Follows(h)
  BY <1>3 DEF IInv
<1>5. \/ Synced(built, h[reader.pos], reader)
      \/ writer.at = "failed" /\ reader.pos = Len(file) + 1
  BY <1>1, <1>4 DEF Follows
<1>6. CASE ReadPastEnd
  <2>1. reader.pos = Len(file) + 1 /\ Refuse /\ UNCHANGED <<emit, built, file, writer>>
    BY <1>1, <1>2, <1>6 DEF ReadPastEnd
  <2>2. writer.at = "failed"
    <3>1. SUFFICES ASSUME writer.at = "written" PROVE FALSE
      BY <1>3
    <3>2. h[reader.pos].at = "end" /\ Synced(built, h[reader.pos], reader)
      BY <1>4, <1>5, <2>1, <3>1 DEF Along
    <3>3. reader.at = "end"
      BY <3>2 DEF Synced
    <3> QED BY <1>1, <3>3 DEF Lines, OfUnit
  <2> QED BY <1>3, <2>1, <2>2, RefuseKeeps
<1>7. CASE ~ReadPastEnd
  <2>1. reader.pos \in 1 .. Len(file) /\ UNCHANGED <<emit, built, file, writer>>
    BY <1>1, <1>2, <1>7, ReadMoves
  <2>2. PICK c : c = h[reader.pos]
    OBVIOUS
  <2>3. PICK d : d = h[reader.pos + 1]
    OBVIOUS
  <2>4. Valid(built, c) /\ Writes(built, c) /\ d = After(built, c) /\ Valid(built, d)
    <3>1. /\ reader.pos \in 1 .. Len(h) /\ reader.pos \in 1 .. Len(h) - 1
          /\ reader.pos + 1 \in 1 .. Len(h)
      <4>1. Len(h) \in Nat /\ Len(h) > Len(file)
        BY <1>4 DEF Along, Path
      <4> QED BY <1>2, <2>1, <4>1
    <3> QED BY <1>4, <2>2, <2>3, <3>1 DEF Path
  <2>5. OnPath(built, c)
    BY <1>1, <1>2, <1>5, <2>1, <2>2, <2>4 DEF OnPath
  <2>6. \/ line = LineAt(built, c)
        \/ writer.at = "failed" /\ reader.pos = Len(file) /\ line \in Cuts(LineAt(built, c))
    BY <1>4, <2>1, <2>2 DEF Along, line
  <2>7. CASE line = LineAt(built, c)
    <3>1. PICK r \in Readers : r.pos = reader.pos /\ Goes(r) /\ Arrives(built, d, r)
      BY <2>4, <2>5, <2>7, ReadMeets DEF Meets
    <3>2. PICK q : q = [r EXCEPT !.pos = reader.pos + 1]
      OBVIOUS
    <3>3. reader' = q
      BY <3>1, <3>2, Zenon DEF Goes
    <3>4. q \in Readers /\ q.pos = reader.pos + 1 /\ q.pos \in 1 .. Len(file) + 1
      BY <1>2, <2>1, <3>2 DEF Readers
    <3>5. Arrives(built, d, q)
      BY <3>1, <3>2, PosIsFree
    <3>6. CASE d.at = "end"
      <4>1. q.at = "accepted" /\ q.loaded = built /\ q.at \notin Lines
        BY <3>5, <3>6 DEF Arrives, Lines, OfUnit
      <4> QED BY <1>3, <1>4, <2>1, <3>3, <3>4, <4>1, ReaderKeeps
    <3>7. CASE d.at # "end"
      <4>1. Synced(built, h[q.pos], q)
        BY <2>3, <3>4, <3>5, <3>7 DEF Arrives
      <4>2. q.at \in Lines
        BY <2>4, <3>5, <3>7 DEF Arrives, Synced, Valid
      <4>3. q.at \notin {"idle", "accepted", "refused"}
        BY <4>2 DEF Lines, OfUnit
      <4> QED BY <1>3, <1>4, <2>1, <3>3, <3>4, <4>1, <4>3, ReaderKeeps
    <3> QED BY <3>6, <3>7
  <2>8. CASE writer.at = "failed" /\ reader.pos = Len(file) /\ line \in Cuts(LineAt(built, c))
    <3>1. CASE Refuse
      BY <1>3, <2>1, <2>8, <3>1, RefuseKeeps
    <3>2. CASE \E r \in Readers : r.pos = reader.pos /\ Goes(r) /\ r.at \in Lines
      <4>1. PICK r \in Readers : r.pos = reader.pos /\ Goes(r) /\ r.at \in Lines
        BY <3>2
      <4>2. PICK q : q = [r EXCEPT !.pos = reader.pos + 1]
        OBVIOUS
      <4>3. reader' = q
        BY <4>1, <4>2, Zenon DEF Goes
      <4>4. /\ q \in Readers /\ q.pos = Len(file) + 1 /\ q.pos \in 1 .. Len(file) + 1
            /\ q.at \in Lines
        BY <1>2, <2>8, <4>1, <4>2 DEF Readers
      <4>5. q.at \notin {"idle", "accepted", "refused"}
        BY <4>4 DEF Lines, OfUnit
      <4> QED BY <1>3, <1>4, <2>1, <2>8, <4>3, <4>4, <4>5, ReaderKeeps
    <3> QED BY <1>1, <2>5, <2>8, <3>1, <3>2, CutIsNotAccepted
  <2> QED BY <2>6, <2>7, <2>8
<1> QED BY <1>6, <1>7

LEMMA StepKeeps ==
  ASSUME IInv, [Next]_vars
  PROVE  IInv'
<1>1. CASE Next
  BY <1>1, CompileKeeps, NotOpenedKeeps, OpenKeeps, WriteKeeps, CloseKeeps, BreakKeeps, OpenFileKeeps, ReadKeeps, EndRunKeeps DEF Next
<1>2. CASE UNCHANGED vars
  BY <1>2 DEF vars, emit, IInv, Emitted, TypeOK, Along, Follows, Synced, LoadedIsBuilt, WrittenIsAccepted
<1> QED BY <1>1, <1>2

THEOREM Invariant == Spec => []IInv
<1>1. Init => IInv
  BY Starts
<1>2. IInv /\ [Next]_vars => IInv'
  BY StepKeeps
<1> QED BY <1>1, <1>2, PTL DEF Spec

\* The file holds lines, and a reader stops at most one line behind its end.
THEOREM Typed == Spec => []TypeOK
BY Invariant, PTL DEF IInv

\* What bytecode_program_read_file accepts is the program that its file was
\* opened for last, whatever of the file was lost; and that is the program
\* compiled last unless the file was not opened for it.
THEOREM LoadsWhatWasBuilt == Spec => []LoadedIsBuilt
BY Invariant, PTL DEF IInv

\* bytecode_program_read_file refuses no file that bytecode_program_write_file
\* wrote without an error.
THEOREM AcceptsWhatWasWritten == Spec => []WrittenIsAccepted
BY Invariant, PTL DEF IInv
=============================================================================
