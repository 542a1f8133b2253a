\* Three threads, two objects, two eager updates; the second DSU may run at
\* a safepoint reached inside a transformation of the first eager loop.
CONSTANTS
    t1 = t1  t2 = t2  t3 = t3
    o1 = o1  o2 = o2
    Threads <- MCThreads
    Objects <- MCObjects
    MaxRn = 2
    CanFail = FALSE
    NoThread = NoThread
SPECIFICATION Spec
INVARIANT EagerDoneMeansCurrent
SYMMETRY MCSymmetry
\* The program stops once the last update is applied and every object is
\* transformed.
CHECK_DEADLOCK FALSE
