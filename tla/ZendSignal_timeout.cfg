SPECIFICATION Spec
CONSTANTS
    prof = prof
    term = term
    Sig = {prof, term}
    PROF = prof
    MaxDepth = 2
    QSIZE = 2
    Orig <- MCOrig
    Installed <- MCInstalled
    Settable = {"ret", "dfl", "ign"}
    TimeLimit = TRUE
    Hook = FALSE
CHECK_DEADLOCK FALSE
INVARIANTS TypeOK PoolWellFormed TimeoutStaysDeliverable
PROPERTIES HandlersOutsideSections ImplementsPromise
