SPECIFICATION Spec
CONSTANTS
    Handle = {h1, h2, h3}
    Main = main
    Value = {v1, v2}
    Null = Null
    Kept = {h1, h2}
    Uses = {"join", "await", "again"}
INVARIANTS NoMisuse
PROPERTIES IsFuture
CHECK_DEADLOCK FALSE
