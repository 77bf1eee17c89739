\* Graceful stop and reload while two pools serve connections.
SPECIFICATION Spec
CONSTANTS
    Pid = {p1, p2, p3}
    NPools = 2
    PM <- ServicePM
    MaxChildren <- ServiceMax
    StartServers <- ServiceStart
    MinSpare <- ServiceSpare
    MaxSpare <- ServiceSpare
    ProcessMax = 0
    Threshold = 0
    ControlTimer = FALSE
    RequestTimer = FALSE
    MaxRequests = TRUE
    Commands = {"Q", "2"}
    Budget <- ServiceBudget
CHECK_DEADLOCK FALSE
SYMMETRY Symmetric
INVARIANTS GracefulLosesNothing DynamicPopulated
