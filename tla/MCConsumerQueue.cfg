CONSTANTS
    t1 = t1
    t2 = t2
    t3 = t3
    t4 = t4
    a = a
    b = b
    Thread = {t1, t2, t3, t4}
    Item = {a, b}
    Capacity = 2
    MaxLen = 4
    Ops <- AllOps
SPECIFICATION MCSpec
SYMMETRY Symmetry
INVARIANTS FlushAbortsWaits NoLostDequeueWakeUp NoLostEnqueueWakeUp
