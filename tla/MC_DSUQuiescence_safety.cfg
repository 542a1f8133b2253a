CONSTANTS
    t1 = t1
    t2 = t2
    C = C
    D = D
    md = md
    ma = ma
    mb = mb
    Threads <- MCThreads
    Classes = {C, D}
    Methods = {ma, mb, md}
    Holder <- MCHolder
    Updates <- MCUpdates
    Sync = {1, 2}
    MaxDepth = 2
    MaxMods = 1
    MAX_REVISION_NUMBER = 100
SPECIFICATION Spec
INVARIANT TypeOK FrameBodyIntact FrameCodeAlive
SYMMETRY MCSymmetry
CHECK_DEADLOCK FALSE
