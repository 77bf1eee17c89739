\* Finishing with a worker that is still initialising.
SPECIFICATION FairSpec
CONSTANTS
    Pid = {p1}
    NPools = 1
    PM <- Static
    MaxChildren <- One
    StartServers <- Zero
    MinSpare <- Zero
    MaxSpare <- Zero
    ProcessMax = 0
    Threshold = 0
    ControlTimer = TRUE
    RequestTimer = FALSE
    MaxRequests = FALSE
    Commands = {"Q"}
    Budget <- OneCommand
CHECK_DEADLOCK FALSE
PROPERTIES ShutdownCompletes
