SPECIFICATION Spec
CONSTANTS
    Pipes = {p1}
    Strangers = {s1}
    Conns <- MCConns
    NoPipe = NoPipe
    MaxRequests = 2
    RequestIds <- MCRequestIds
    KeySpace = 4
    Capacity = 1
    Fragile = {p1}
INVARIANTS
    NoAbort
    NoStaleReply
    FiniIsQuiet
    RepNoAbort
    ReplyGoesBack
CHECK_DEADLOCK FALSE
