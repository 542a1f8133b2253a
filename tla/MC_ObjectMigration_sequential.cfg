CONSTANTS
    t1 = t1
    t2 = t2
    fa = fa
    fb = fb
    NoThread = NoThread
    Threads = {t1}
    Fields = {fa, fb}
    Values = {0, 1}
    NV = 4
    Off <- OffShrinkReplaceMixed
    OnlyReplace = {2}
    PhIds = {1, 2}
    MaxWrites = 2
SPECIFICATION Spec
INVARIANT FieldsPreserved ShapeConsistent WritesInBounds
