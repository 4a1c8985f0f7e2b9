SPECIFICATION Spec
CONSTANTS
    Threads = {t1, t2}
    Terminators = {}
    Objs = {o1}
    NoSock = NoSock
    MaxSockets = 1
    MaxEps = 1
    MaxMsgs = 1
    Races = {"addep"}
INVARIANT
    EpsStopped
CHECK_DEADLOCK FALSE
