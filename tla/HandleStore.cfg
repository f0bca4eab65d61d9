CONSTANTS
  m1 = m1  m2 = m2  m3 = m3  m4 = m4
  Messages = {m1, m2, m3, m4}
  Events = {"a", "b"}
  Inbox <- MCInbox
  EventOf <- MCEventOf
  StepOf <- MCStepOf
  Unparsable = {m4}
  Inserters = {i1, i2}
  Handlers = {h1, h2}
  MaxNumber = 3
  CacheNumber = 2
  ChanCap = 2
SPECIFICATION Spec
INVARIANTS TypeOK StoredOnce SavedInOrder StopSavesAll
CHECK_DEADLOCK FALSE
SYMMETRY MCSymmetry
