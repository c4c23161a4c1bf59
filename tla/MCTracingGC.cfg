SPECIFICATION AnySpec
CONSTANTS
    Obj = {o1, o2, o3}
    Spare = o3
    Env = {g, e1}
    Slot = {s1}
    Thread = {t1, t2}
    Main = t1
    Global = g
    Null = Null
    SoloOps <- ThreadedOps
    SharedOps <- ReaderOps
    BesideOps <- BesideLoads
SYMMETRY Symmetry
CHECK_DEADLOCK FALSE
INVARIANTS TypeOK NoDangling GrayProtected
PROPERTIES CollectionIsExact
