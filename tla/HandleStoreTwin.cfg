CONSTANTS
  m1 = m1  m2 = m2  m3 = m3  m4 = m4
  Messages = {m1, m2, m3}
  Events = {"a"}
  Inbox <- MCLiveInbox
  EventOf <- MCLiveEventOf
  StepOf <- MCLiveStepOf
  Unparsable = {}
  Inserters = {"i1", "i2"}
  Handlers = {"h1", "h2"}
  MaxNumber = 3
  CacheNumber = 2
  ChanCap = 2
SPECIFICATION Spec
INVARIANT BarrelAlone
