SPECIFICATION Spec
CONSTANTS
    k1 = k1 k2 = k2 v1 = v1 v2 = v2 b1 = b1 b2 = b2 b3 = b3 b4 = b4 p1 = p1 p2 = p2
    Proc <- Procs
    Key <- Keys
    Val <- Vals
    Block <- Blocks
    NULL = NULL
    Grows = {"entry","slot"}
    MaxLeaks = 1
SYMMETRY Symmetry
INVARIANT BucketNeverTorn
