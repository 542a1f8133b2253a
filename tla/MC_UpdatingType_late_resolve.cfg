CONSTANTS
    cA = cA
    cB = cB
    cI = cI
    cX = cX
    cY = cY
    NoClass = NoClass
    UpdateMayFail = FALSE
    Classes = {cA, cB, cI, cY}
    Super <- TreeSuper
    Kind <- TreeKind
    Descs <- TreeDescs
    Calls <- NoCalls
    LateCalls <- LateYCalls
SPECIFICATION ResolvingSpec
INVARIANT RelinkedCallsCurrent
CHECK_DEADLOCK FALSE
