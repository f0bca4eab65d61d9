SPECIFICATION Spec
CONSTANTS
 N = 2
 HastyTasks = 2
 MaxLag = 1
 Kinds = {"start","stop","restart","upgrade"}
 MaxTasks = 1
 HasClaims = TRUE
 MaxFaults = 0
INVARIANT TasksBounded
CHECK_DEADLOCK FALSE
