CONSTANTS
    t1 = t1
    t2 = t2
    fa = fa
    fb = fb
    NoThread = NoThread
    Threads = {t1}
    Fields = {fa, fb}
    Values = {0, 1}
    NV = 2
    Off <- OffSimpleToMixed
    OnlyReplace = {}
    PhIds = {1}
    MaxWrites = 0
SPECIFICATION Spec
INVARIANT HashPreserved
