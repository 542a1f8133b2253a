CONSTANTS
    cA = cA
    cB = cB
    cI = cI
    cX = cX
    cY = cY
    NoClass = NoClass
    UpdateMayFail = FALSE
    Classes = {cA, cB, cI, cY}
    Super <- TreeSuper
    Kind <- DeleteSubKind
    Descs <- TreeDescs
    Calls <- TreeCalls
    LateCalls <- NoCalls
SPECIFICATION UpdateSpec
INVARIANT DeletedDispatchInherited
CHECK_DEADLOCK FALSE
