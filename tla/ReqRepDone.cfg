SPECIFICATION Spec
CONSTANTS
    Pipes = {p1, p2}
    Strangers = {}
    Conns <- MCConns
    NoPipe = NoPipe
    MaxRequests = 2
    RequestIds <- MCRequestIds
    KeySpace = 4
    Capacity = 1
    Fragile = {}
SYMMETRY PipeSymmetry
INVARIANT ReplyStored
CHECK_DEADLOCK FALSE
