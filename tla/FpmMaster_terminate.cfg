\* A request limit and a termination, with fairness.
SPECIFICATION FairSpec
CONSTANTS
    Pid = {p1, p2}
    NPools = 1
    PM <- Dynamic
    MaxChildren <- Two
    StartServers <- One
    MinSpare <- One
    MaxSpare <- One
    ProcessMax = 0
    Threshold = 0
    ControlTimer = TRUE
    RequestTimer = TRUE
    MaxRequests = FALSE
    Commands = {"T"}
    Budget <- CommandAndConnection
CHECK_DEADLOCK FALSE
PROPERTIES ZombiesReaped TerminationCompletes DynamicAccepts SpareRestored
