SPECIFICATION Spec
CONSTANTS
  Programs <- MCPrograms
  MaxRecursionDepth = 30
  MaxLoopIterations = 20
  MaxDefers = 4
  StrLess <- MCStrLess
INVARIANTS
  WarningsAreReal
  FoldKeepsOutput
  DceKeepsOutput
  InlineKeepsOutput
CHECK_DEADLOCK FALSE
