CONSTANTS
  m1 = m1  m2 = m2  m3 = m3  m4 = m4
  Messages = {m1, m2, m3}
  Events = {"a"}
  Inbox <- MCLiveInbox
  EventOf <- MCLiveEventOf
  StepOf <- MCLiveStepOf
  Unparsable = {}
  Inserters = {"i1"}
  Handlers = {"h1"}
  MaxNumber = 3
  CacheNumber = 1
  ChanCap = 1
SPECIFICATION FairSpec
PROPERTY SendsGoOn
CHECK_DEADLOCK FALSE
