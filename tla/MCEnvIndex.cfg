SPECIFICATION Spec
CONSTANTS
    n1 = n1
    n2 = n2
    n3 = n3
    n4 = n4
    Name = {n1, n2, n3, n4}
    Value = {"a", "b"}
    NoName = NoName
    NoValue = NoValue
    Hashes <- CollidingHashes
    Threshold = 1
    Capacities = {4, 8, 16}
    LoopName = {n2}
INVARIANTS OneEntryPerName MissIsRight RoomToPlace
PROPERTIES StoreIsKept CallsEnd
