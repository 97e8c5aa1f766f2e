CONSTANTS
  t1 = t1
  t2 = t2
  n1 = n1
  n2 = n2
  n3 = n3
  None = None
  Timer = {t1, t2}
  Notifier = {n1, n2, n3}
  FD <- MCFD
  Interval = {0, 1}
  MaxLate = 1
  MaxOps = 2
SPECIFICATION FairSpec
INVARIANTS TypeOK IInv
PROPERTIES NoStaleActivation ReadyServed
