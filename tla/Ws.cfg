SPECIFICATION Spec
CONSTANTS
  NConn = 2
  RcvMaxSize = 4
  Frames <- SomeFrames
  ExtLengths = {0, 9}
  Texts <- SomeTexts
  Uses = {"now"}
  Roles <- WsBoth
INVARIANTS OnlyKnownAborts 
CHECK_DEADLOCK FALSE
