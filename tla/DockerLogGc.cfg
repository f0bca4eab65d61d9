CONSTANTS
  m1 = m1  m2 = m2  m3 = m3
  b1 = b1  b2 = b2  b3 = b3  b4 = b4
  Services = {"a", "b"}
  Messages = {m1, m2, m3}
  Inbox <- MCInbox
  ServiceOf <- MCServiceOf
  Inserters = {"i1"}
  Subs = {}
  SubService <- MCNoSubs
  Barrels = {b1, b2, b3, b4}
  CacheSize = 2
  ChanCap = 2
SPECIFICATION Spec
PROPERTY GcPersistsFirst
