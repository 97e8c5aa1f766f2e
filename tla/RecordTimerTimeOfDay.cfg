CONSTANTS
  Timer = {a}
  NoTimer = none
  ZapOnly = {}
  Spans <- OneSpan
  Repeats <- OnceOrDaily
  PrepareTime = 1
  Day = 4
  Week = 2
  MaxWaitTime = 2
  Backoff = 1
  MaxBackoff = 2
  KeepTime = 3
  MaxTime = 8
  PassTime = 1
  MaxUpsets = 0
  MaxEdits = 1
  AskFirst = FALSE
  EditConflicts = FALSE
SPECIFICATION Spec
SYMMETRY Symmetry
INVARIANT
  TimeOfDayKept
CHECK_DEADLOCK FALSE
