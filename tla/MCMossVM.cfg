\* Scripts and artifacts on the bytecode machine.
SPECIFICATION Spec
CONSTANTS
  Programs <- MCPrograms
  StackMax = 24
  MaxRecursionDepth = 30
  MaxLoopIterations = 20
  MaxDefers = 4
  StrLess <- MCStrLess
INVARIANTS TypeOK VMAgrees Balanced
