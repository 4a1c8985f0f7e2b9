SPECIFICATION FairSpec
CONSTANTS
    Threads = {t1, t2}
    Terminators = {t1}
    Objs = {o1, o2, o3}
    NoSock = NoSock
    MaxSockets = 2
    MaxEps = 1
    MaxMsgs = 1
    Races = {}
INVARIANTS
    HeldIsAlive
    TableConsistent
    NoLostWakeup
    NoCrash
    TermedIsClosed
PROPERTY
    CloseReturns
CHECK_DEADLOCK FALSE
