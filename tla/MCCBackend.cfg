SPECIFICATION Spec
CONSTANTS
  Programs <- MCPrograms
  Triggers = {1, 6}
  MaxTryDepth = 4
  MaxRecursionDepth = 30
  MaxLoopIterations = 20
  MaxDefers = 4
  StrLess <- MCStrLess
INVARIANTS
  CompiledAgrees
  RootedProgramsAreSafe
  ContextsBalance
CHECK_DEADLOCK FALSE
