SPECIFICATION Spec
CONSTANTS
  Servers = {"n1", "n2"}
  Events = {"e1", "e2"}
  MaxHandles = 3
  NoChan = NoChan
  MaxLoggers = 2
  MaxFaults = 1
  MaxUpdates = 2
INVARIANTS OfferedAreServed OnlyNamedServers OrphanIsExcused
CHECK_DEADLOCK FALSE
