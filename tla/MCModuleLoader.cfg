SPECIFICATION LiveSpec
CONSTANTS
    Thread = {t1}
    a = a
    b = b
    c = c
    Missing = Missing
    None = None
    Module = {a, b, c, Missing}
    Files = {a, b, c}
    Bodies <- Mixed
    Faults = {c}
    Fatal = {b}
    MaxDepth = 4
INVARIANTS ImportsFirst FailureHasCause LoadingIsOnStack LoadedOnce LexerRestored
PROPERTIES ImportsEnd
