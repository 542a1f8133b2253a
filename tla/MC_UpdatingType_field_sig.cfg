CONSTANTS
    cA = cA
    cB = cB
    cI = cI
    cX = cX
    cY = cY
    NoClass = NoClass
    UpdateMayFail = FALSE
    Classes = {cA}
    Super <- SigSuper
    Kind <- SigKind
    Calls <- NoCalls
    LateCalls <- NoCalls
    Descs <- SigDescs
SPECIFICATION UpdateSpec
INVARIANT ClassifiedAsSpec
CHECK_DEADLOCK FALSE
