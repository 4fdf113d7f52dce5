SPECIFICATION Spec
CONSTANTS
    Calls = {c1}
    Pings = {p1}
    Closers = {s1}
    Reader = reader
    Pinger = pinger
    MaxFailures = 2
    MaxInbound = 1
    MaxReplies = 1
CHECK_DEADLOCK FALSE
INVARIANTS
    NoForgottenCaller
    OnlyGenuineAnswers
    PanicOnlyWhileClosing
    PendingCancelledAtClose
    StreamEndIsActedOn
