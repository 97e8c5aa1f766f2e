CONSTANTS
  File = {f1, f2}
  Quit = quit
  NoMessage = nomsg
  MaxErases = 4
SPECIFICATION FairSpec
INVARIANTS
  IInv
  GoneForGood
PROPERTIES
  DestructorReturns
  SentIsTaken
CHECK_DEADLOCK FALSE
