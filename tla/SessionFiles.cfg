SPECIFICATION Spec
CONSTANTS
    Proc = {p1, p2}
    Id = {a, b}
    Inode = {f1, f2, f3}
    None = None
    Value <- Values
SYMMETRY Symmetric
VIEW Live
CONSTRAINTS NotSpoilt OneChanges
INVARIANTS
    WholeContents
    ReadStays
    NoHoldAndWait
PROPERTY
    KeepsPromise
