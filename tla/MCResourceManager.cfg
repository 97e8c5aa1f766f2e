CONSTANTS
  c1 = c1
  c2 = c2
  ch1 = ch1
  ch2 = ch2
  o1 = o1
  o2 = o2
  o3 = o3
  None = None
  Client = {c1, c2}
  NFrontends = 2
  ChannelId = {ch1, ch2}
  Object = {o1, o2, o3}
  suits = suits
  turned = turned
  SecState = {suits, turned}
  Score <- MCScore
  NextLinked <- MCNextLinked
  SatposDepends <- MCSatposDepends
SPECIFICATION FairSpec
INVARIANTS IInv Exclusive
PROPERTIES PoolPromise AsAnnounced ZapAsAnnounced FrontendCloses
