CONSTANTS
    cA = cA
    cB = cB
    cI = cI
    cX = cX
    cY = cY
    NoClass = NoClass
    UpdateMayFail = TRUE
    Classes = {cA, cB, cI, cY}
    Super <- TreeSuper
    Kind <- TreeKind
    Descs <- TreeDescs
    Calls <- TreeCalls
    LateCalls <- NoCalls
SPECIFICATION UpdateSpec
INVARIANT LiveDispatchCurrent
CHECK_DEADLOCK FALSE
