CONSTANTS
  File = {f1, f2}
  Quit = quit
  NoMessage = nomsg
  MaxErases = 4
SPECIFICATION Spec
INVARIANT
  StateIsTaken
CHECK_DEADLOCK FALSE
