\* Three threads, two objects, two eager updates; a transformation may
\* leave a pending exception.
CONSTANTS
    t1 = t1  t2 = t2  t3 = t3
    o1 = o1  o2 = o2
    Threads <- MCThreads
    Objects <- MCObjects
    MaxRn = 2
    CanFail = TRUE
    NoThread = NoThread
SPECIFICATION Spec
INVARIANT TypeOK
PROPERTY SkipsOnlyCurrent
SYMMETRY MCSymmetry
\* The program stops once the last update is applied and every object is
\* transformed, or with every thread blocked after a failed eager update.
CHECK_DEADLOCK FALSE
