SPECIFICATION FairSpec
CONSTANTS
    Pipes = {p1, p2}
    Strangers = {}
    Conns <- MCConns
    NoPipe = NoPipe
    MaxRequests = 1
    RequestIds <- MCRequestIds
    KeySpace = 4
    Capacity = 1
    Fragile = {p1}
PROPERTIES
    EventuallyDone
    CloseCompletes
CHECK_DEADLOCK FALSE
