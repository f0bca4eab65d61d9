CONSTANTS
  m1 = m1  m2 = m2  m3 = m3
  b1 = b1  b2 = b2  b3 = b3  b4 = b4
  Services = {"a", "b"}
  Messages = {m1, m2, m3}
  Inbox <- MCTwo
  ServiceOf <- MCServiceOf
  Inserters = {"i1"}
  Subs = {"s1"}
  SubService <- MCOneSub
  Barrels = {b1, b2, b3}
  CacheSize = 2
  ChanCap = 2
SPECIFICATION Spec
SYMMETRY BarrelSymmetry
INVARIANTS TypeOK RegisteredIsOpen BarrelHasOneOwner FileIsPure
