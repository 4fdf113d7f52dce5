SPECIFICATION FairSpec
CONSTANTS
    Conns = {k1, k2}
    Dialers = {d1}
    Closers = {c1}
    Pingers = {}
    Callers = {}
    Checker = checker
    NoConn = NoConn
VIEW Live
CHECK_DEADLOCK FALSE
INVARIANTS
    ConnectedHasConn
    ClosedMeansClosed
PROPERTIES
    ConnectingEnds
    DeadIsNoticed
