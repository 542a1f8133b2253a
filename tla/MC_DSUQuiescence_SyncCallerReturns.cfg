CONSTANTS
    t1 = t1
    t2 = t2
    C = C
    D = D
    md = md
    ma = ma
    mb = mb
    Threads <- MCThreads
    Classes = {C}
    Methods = {ma, mb}
    Holder <- MCHolder
    Updates <- MCUpdates
    Sync = {1, 2}
    MaxDepth = 2
    MaxMods = 1
    MAX_REVISION_NUMBER = 100
SPECIFICATION Spec
CHECK_DEADLOCK FALSE
PROPERTY SyncCallerReturns
