SPECIFICATION Spec
CONSTANTS
  None = None
  Events = {e1}
  Sessions = {s1}
  Barrels = {b1, b2}
  MaxConns = 2
  MaxMessages = 2
  MaxCollections = 1
  Cap = 1
INVARIANTS SendsAreOpen InOrder NoGap
PROPERTY StoreGoesOn
CHECK_DEADLOCK FALSE
