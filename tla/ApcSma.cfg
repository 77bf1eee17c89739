SPECIFICATION Spec
CONSTANTS
    SegSize = 19
    HdrSize = 1
    BlkSize = 1
    Sizes = {1, 2, 4}
VIEW Live
INVARIANTS WellFormed AvailCounts FailsOnlyWhenNoneFits
PROPERTY KeepsPromise
