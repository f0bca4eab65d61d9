SPECIFICATION Spec
CONSTANTS
 N = 1
 HastyTasks = 1
 MaxLag = 1
 Kinds = {"start","stop","restart","upgrade"}
 MaxTasks = 1
 HasClaims = TRUE
 MaxFaults = 1
INVARIANT ReadyMeansKnown
CHECK_DEADLOCK FALSE
