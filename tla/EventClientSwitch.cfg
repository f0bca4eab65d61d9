SPECIFICATION Spec
CONSTANTS
  Servers = {"n1"}
  Events = {"e1", "e2"}
  MaxHandles = 3
  NoChan = NoChan
  MaxLoggers = 2
  MaxFaults = 1
  MaxUpdates = 2
INVARIANT LoggersAreSwitched
CHECK_DEADLOCK FALSE
