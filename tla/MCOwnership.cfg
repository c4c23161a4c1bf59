SPECIFICATION EitherSpec
CONSTANTS
  Programs <- MCPrograms
  Mode = "strict"
  MaxTurns = 2
  Name = {n1, n2}
SYMMETRY Symmetry
INVARIANTS
  AcceptedIsSafe
  AlarmsAreReal
  SilenceIsSafe
  MoveAlarmsAreReal
CHECK_DEADLOCK FALSE
