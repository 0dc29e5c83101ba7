CONSTANTS
    c1 = c1
    c2 = c2
    w = w
    Client = {c1, c2}
    Controller = {c1, c2}
    Worker = w
    Capacity = 1
    MaxItems = 3
SPECIFICATION MCSpec
SYMMETRY Symmetry
INVARIANTS StopWaitsForRunningItem FlushDrains
PROPERTIES RunsInOrder ImplementsWorkQueue
