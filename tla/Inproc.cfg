SPECIFICATION Spec
CONSTANTS
  Binders = {b1, b2}
  Connecters = {c}
  Threads = {t1, t2}
  MaxMsgs = 3
  MaxMem = 3
  Senders = {c}
INVARIANTS FailsOnlyInTrouble InOrder NoStuckSender
PROPERTIES KeepsContract
CHECK_DEADLOCK FALSE
