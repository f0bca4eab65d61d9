SPECIFICATION Spec
CONSTANTS
  s1 = s1
  s2 = s2
  s3 = s3
  s4 = s4
  Services = {s1, s2, s3, s4}
  Batches <- MCBatches
  Memory <- MCMemory
  Allocatable = {6}
  Running = {{}}
  Domains = {}
  Modes = {"BUILD_IN_SERVICE_MESH"}
INVARIANT EveryNamedIsReady
CHECK_DEADLOCK FALSE
