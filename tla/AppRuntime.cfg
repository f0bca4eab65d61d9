SPECIFICATION Spec
CONSTANTS
 N = 3
 HastyTasks = 2
 MaxLag = 1
 Kinds = {"start","stop","restart","upgrade"}
 MaxTasks = 0
 HasClaims = TRUE
 MaxFaults = 1
INVARIANTS ObjectStays StopMeansGone StartMeansOwn FailedStartMeansGone UpgradeMeansNew NoTaskForgotten
CHECK_DEADLOCK FALSE
