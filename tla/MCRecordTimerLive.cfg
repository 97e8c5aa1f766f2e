CONSTANTS
  Timer = {a, b}
  NoTimer = none
  ZapOnly = {}
  Spans <- ShortOrLong
  Repeats <- Once
  PrepareTime = 0
  Day = 4
  Week = 2
  MaxWaitTime = 1
  Backoff = 1
  MaxBackoff = 1
  KeepTime = 20
  MaxTime = 3
  PassTime = 0
  MaxUpsets = 1
  MaxEdits = 3
  AskFirst = FALSE
  EditConflicts = TRUE
SPECIFICATION FairSpec
PROPERTY
  ServiceReleased
CHECK_DEADLOCK FALSE
