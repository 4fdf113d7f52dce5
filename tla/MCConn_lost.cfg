SPECIFICATION Spec
CONSTANTS
    Calls = {c1}
    Pings = {}
    Closers = {}
    Reader = reader
    Pinger = pinger
    MaxFailures = 1
    MaxInbound = 1
    MaxReplies = 1
CHECK_DEADLOCK FALSE
INVARIANT
    ReplyReachesCaller
