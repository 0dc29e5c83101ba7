CONSTANTS
    Parts = {"port", "read", "sensor", "waits", "restarts", "hub"}
    None = None
    Watcher = Watcher
    RetryLimit = 1
    UpSize = 2
    DownSize = 1
    FrameLen = 5
    HeadSize = 2
    FirstMax = 3
    Wrap = 8
    Fifo = 3
    ReadFaults = 3
    FrameIds = {"left", "obstacle"}
    Necessary = {"left"}
    Threshold = 1
    QueueSize = 2
    SensorStarts = 3
    Callbacks = {FALSE}
    UserRestarts = 0
    HubUsers = {"u1", "u2"}
    Others = {other}
    HubMoves = 1
    LineFaults = 1
    Opens = 2
    Patient = FALSE
    Callers = {c1, c2}
    SensorFaults = 3
    PipelineUsers = {u1, u2}
    Starts = 3
    Stops = 2
    Pluggings = 2
    Hubs = {h1, h2}
    FastReplug = TRUE
    CreateFails = TRUE
    AtOnce = 2
    CameraPlugs = 2
    HubCalls = 2
SPECIFICATION MCSpec
CHECK_DEADLOCK FALSE
INVARIANTS
    TypesOK TimestampAlive ClosedIsQuiet   OnlyActiveStreams
    StopStops GoneIsQuiet
