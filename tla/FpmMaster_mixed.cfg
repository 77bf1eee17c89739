\* Everything may go wrong once: the lists, the limits and the shutdown.
SPECIFICATION Spec
CONSTANTS
    Pid = {p1, p2, p3}
    NPools = 2
    PM <- MixedPM
    MaxChildren <- MixedMax
    StartServers <- MixedStart
    MinSpare <- MixedMin
    MaxSpare <- MixedSpare
    ProcessMax = 2
    Threshold = 1
    ControlTimer = TRUE
    RequestTimer = FALSE
    MaxRequests = FALSE
    Commands = {"T", "Q", "2"}
    Budget <- MixedBudget
CHECK_DEADLOCK FALSE
SYMMETRY Symmetric
INVARIANTS TypeOK ListsAgree WithinLimits NoOrphan
PROPERTIES ShutdownEscalates
