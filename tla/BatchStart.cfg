SPECIFICATION Spec
CONSTANTS
  s1 = s1
  s2 = s2
  s3 = s3
  s4 = s4
  Services = {s1, s2, s3, s4}
  Batches <- MCThree
  Memory <- MCMemory
  Allocatable <- MCAllocatable
  Running <- MCRunning
  Domains = {s4}
  Modes = {"BUILD_IN_SERVICE_MESH", "KUBERNETES_NATIVE_SERVICE"}
INVARIANTS BootOrder NoMutualWait MemoryFits
PROPERTY SentBoots
CHECK_DEADLOCK FALSE
