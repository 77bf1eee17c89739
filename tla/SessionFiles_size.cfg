SPECIFICATION Spec
CONSTANTS
    Proc = {p1}
    Id = {a, b}
    Inode = {f1, f2, f3}
    None = None
    Value <- Values
PROPERTY SmallerIsTruncated
