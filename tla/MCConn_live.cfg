SPECIFICATION FairSpec
CONSTANTS
    Calls = {}
    Pings = {p1}
    Closers = {}
    Reader = reader
    Pinger = pinger
    MaxFailures = 1
    MaxInbound = 1
    MaxReplies = 2
CHECK_DEADLOCK FALSE
PROPERTIES
    CloseCompletes
    ReaderEnds
    DeadPeerIsNoticed
INVARIANTS
    ReplySendNeverBlocks
