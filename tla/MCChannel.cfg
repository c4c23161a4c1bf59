SPECIFICATION LiveSpec
CONSTANTS
    Thread = {t1, t2, t3}
    Value = {v1, v2}
    Nil = Nil
    Capacities = {0, 1, 2}
    MaxQueue = 2
INVARIANTS NoLostWakeup
PROPERTIES IsFifo Progress
