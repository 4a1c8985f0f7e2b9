SPECIFICATION Spec
CONSTANTS
  NConn = 2
  RcvMaxSize = 0
  Frames = {}
  ExtLengths = {}
  Texts = {}
  Uses = {"now", "later"}
  Roles <- TcpIpc
INVARIANTS OnlyKnownAborts NothingLeft NoLostReadiness KeepsListening
PROPERTIES KeepsTrying KeepsContract
CHECK_DEADLOCK FALSE
