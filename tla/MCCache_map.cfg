SPECIFICATION Spec
CONSTANTS
    Keys = {k1, k2}
    Values = {v1, v2}
    Entries = {e1, e2, e3}
    Timers = {x1, x2, x3}
    Nil = Nil
CHECK_DEADLOCK FALSE
PROPERTY
    ImplementsMap
