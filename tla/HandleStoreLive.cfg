CONSTANTS
  m1 = m1  m2 = m2  m3 = m3  m4 = m4
  Messages = {m1, m2, m3}
  Events = {"a"}
  Inbox <- MCLiveInbox
  EventOf <- MCLiveEventOf
  StepOf <- MCLiveStepOf
  Unparsable = {}
  Inserters = {"i1"}
  Handlers = {"h1"}
  MaxNumber = 1
  CacheNumber = 1
  ChanCap = 1
SPECIFICATION FairSpec
PROPERTIES EventuallyKept EventuallyCalledBack
CHECK_DEADLOCK FALSE
