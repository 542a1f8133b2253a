\* Three threads, two objects, two eager updates, transformations that may
\* fail.
CONSTANTS
    t1 = t1  t2 = t2  t3 = t3
    o1 = o1  o2 = o2
    Threads <- MCThreads
    Objects <- MCObjects
    MaxRn = 2
    CanFail = TRUE
    NoThread = NoThread
SPECIFICATION Spec

PROPERTY EagerBarrierReturns
\* The program stops once the last update is applied and every object is
\* transformed.
CHECK_DEADLOCK FALSE
