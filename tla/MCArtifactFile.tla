---------------------------- MODULE MCArtifactFile ----------------------------
(***************************************************************************)
(* Programs that have every table empty, with one entry and with two, the  *)
(* texts empty and not, and one with a constant that cannot be written.    *)
(***************************************************************************)
EXTENDS ArtifactFile

CONSTANTS a, b, x, y \* two bytes and two floats

Num(v) == [t |-> "number", v |-> v]
Str(s) == [t |-> "string", v |-> s]
U(ps, cs, code) == [params |-> ps, constants |-> cs, code |-> code]
P(fs, cs) == [functions |-> fs, chunks |-> cs]

MCPrograms ==
  {NoProgram,
   P(<< >>, <<U(<< >>, << >>, <<a>>), U(<< >>, <<Num(x), Str(<<a, a>>)>>, <<a, b>>)>>),
   P(<<U(<< <<a>>, << >> >>, <<Str(<< >>)>>, <<b>>), U(<< >>, << >>, << >>)>>,
     <<U(<< >>, <<Num(y)>>, <<a, b>>)>>),
   P(<<U(<< <<a, b>> >>, <<Num(x), Num(y)>>, <<b>>)>>, << >>),
   P(<< >>, <<U(<< >>, <<Str(<<b>>), [t |-> "other"]>>, <<a>>)>>)}
=============================================================================
