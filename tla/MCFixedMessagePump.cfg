CONSTANTS
  Sender = {s1, s2}
  Sharing = {s1}
  Reader = r
  Free = free
  Message = {m1, m2}
  NoMessage = nomsg
  PipeSize = 3
  MaxSends = 2
SPECIFICATION FairSpec
INVARIANTS
  IInv
  NeverEmptyHanded
PROPERTIES
  ChannelSpec
  ChannelFairSpec
CHECK_DEADLOCK FALSE
