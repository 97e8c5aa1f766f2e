CONSTANTS
  Timer = {a, b}
  NoTimer = none
  ZapOnly = {}
  Spans <- TwoSpans
  Repeats <- OnceOrDaily
  PrepareTime = 1
  Day = 4
  Week = 2
  MaxWaitTime = 2
  Backoff = 1
  MaxBackoff = 2
  KeepTime = 3
  MaxTime = 5
  PassTime = 1
  MaxUpsets = 1
  MaxEdits = 2
  AskFirst = TRUE
  EditConflicts = FALSE
SPECIFICATION Spec
SYMMETRY Symmetry
INVARIANTS
  IInv
  ListsAgree
  ServiceHeld
  NoValueError
PROPERTIES
  NothingDueLeft
  WarpReenqueues
CHECK_DEADLOCK FALSE
