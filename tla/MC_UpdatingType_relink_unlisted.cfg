CONSTANTS
    cA = cA
    cB = cB
    cI = cI
    cX = cX
    cY = cY
    NoClass = NoClass
    UpdateMayFail = FALSE
    Classes = {cA, cB, cI, cY}
    Super <- TreeSuper
    Kind <- UnlistedKind
    Descs <- TreeDescs
    Calls <- UnlistedCalls
    LateCalls <- NoCalls
SPECIFICATION UpdateSpec
INVARIANT RelinkedCallsCurrent
CHECK_DEADLOCK FALSE
