CONSTANTS
    t1 = t1
    t2 = t2
    fa = fa
    fb = fb
    NoThread = NoThread
    Threads = {t1, t2}
    Fields = {fa, fb}
    Values = {0, 1}
    NV = 3
    Off <- OffSimpleChain
    OnlyReplace = {}
    PhIds = {1}
    MaxWrites = 0
SPECIFICATION Spec
INVARIANT TransformExclusive
