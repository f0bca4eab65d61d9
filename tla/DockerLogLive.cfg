CONSTANTS
  m1 = m1  m2 = m2  m3 = m3
  b1 = b1  b2 = b2  b3 = b3  b4 = b4
  Services = {"a"}
  Messages = {m1, m2}
  Inbox <- MCSame
  ServiceOf <- MCSameOf
  Inserters = {"i1", "i2"}
  Subs = {}
  SubService <- MCNoSubs
  Barrels = {b1, b2}
  CacheSize = 1
  ChanCap = 1
SPECIFICATION FairSpec
PROPERTIES StopReturns EveryLogInserted
