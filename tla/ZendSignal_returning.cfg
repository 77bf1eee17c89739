SPECIFICATION FairSpec
CONSTANTS
    prof = prof
    term = term
    Sig = {prof, term}
    PROF = prof
    MaxDepth = 2
    QSIZE = 2
    Orig <- MCOrig
    Installed <- MCOrig
    Settable = {"ret"}
    TimeLimit = FALSE
    Hook = TRUE
CHECK_DEADLOCK FALSE
INVARIANTS NothingStranded NoneForgotten
PROPERTIES DeferredHandled PendingDelivered
