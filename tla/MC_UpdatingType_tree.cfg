CONSTANTS
    cA = cA
    cB = cB
    cI = cI
    cX = cX
    cY = cY
    NoClass = NoClass
    UpdateMayFail = FALSE
    Classes = {cA, cB, cI, cY}
    Super <- TreeSuper
    Kind <- TreeKind
    Descs <- TreeDescs
    Calls <- TreeCalls
    LateCalls <- NoCalls
SPECIFICATION UpdateSpec
INVARIANT TypeOK MethodsMatched SubclassAtLeastSuper LiveDispatchCurrent RelinkedCallsCurrent
CHECK_DEADLOCK FALSE
