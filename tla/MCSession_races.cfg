SPECIFICATION Spec
CONSTANTS
    Conns = {k1}
    Dialers = {d1, d2}
    Closers = {c1}
    Pingers = {p1}
    Callers = {a1}
    Checker = checker
    NoConn = NoConn
SYMMETRY Symmetric
CHECK_DEADLOCK FALSE
INVARIANTS
    ConnectingHasDialer
    NilOnlyAfterClose
