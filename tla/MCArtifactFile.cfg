\* Artifacts written one after another and read back, whole or not.
SPECIFICATION Spec
CONSTANTS
  a = a
  b = b
  x = x
  y = y
  Byte = {a, b}
  Number = {x, y}
  Programs <- MCPrograms
INVARIANTS LoadedIsBuilt WrittenIsAccepted
