SPECIFICATION Spec
CONSTANTS
    Zval = {z1, z2, z3}
    Object = {o1, o2}
    NoObject = NoObject
    MaxRoots = 2
    MaxNesting = 2
SYMMETRY Symmetric
CONSTRAINT Bounded
INVARIANTS
    
    CountsExact
    GarbageFindable
    CollectsGarbage
    PhasesAgree
