CONSTANTS
    Holder = {h1, h2, h3}
    Slot = {s1}
    Spare = {n1, n2, n3}
    NoFrame = NoFrame
    MaxFrames = 2
    MaxDepth = 2
    None = None
    NStreams = 2
    MaxRound = 3
    Capacity = 1
    MaxSets = 2
    StreamExtensions <- SomeStreams
    Slots = {1, 2, 3}
    Handles = {1, 2}
    MaxPackets = 6
    Speeds = {0, 1}
    MaxUnits = 2
    MaxSize = 3
    MaxCuts = 2
SPECIFICATION IndexedSpec
CHECK_DEADLOCK FALSE
INVARIANT LastObserver
