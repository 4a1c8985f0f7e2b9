SPECIFICATION FairSpec
CONSTANTS
    Timers = {t1, t2}
    MaxTimeout = 2
INVARIANTS
    NoFailure
    TimersetConsistent
PROPERTY
    KeepsPromise
CHECK_DEADLOCK FALSE
