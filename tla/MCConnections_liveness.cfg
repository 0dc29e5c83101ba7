CONSTANTS
    Parts = {"port", "read", "sensor", "waits", "hub"}
    None = None
    Watcher = Watcher
    RetryLimit = 1
    UpSize = 2
    DownSize = 1
    FrameLen = 5
    HeadSize = 2
    FirstMax = 3
    Wrap = 8
    Fifo = 3
    ReadFaults = 3
    FrameIds = {"left", "obstacle"}
    Necessary = {"left"}
    Threshold = 1
    QueueSize = 2
    SensorStarts = 3
    Callbacks = {FALSE}
    UserRestarts = 0
    HubUsers = {"u1", "u2"}
    Others = {other}
    HubMoves = 1
    LineFaults = 2
    Opens = 1
    Patient = TRUE
    Callers = {c1}
    SensorFaults = 2
    PipelineUsers = {u1}
    Starts = 2
    Stops = 1
    Pluggings = 3
    Hubs = {h1}
    FastReplug = FALSE
    CreateFails = FALSE
    AtOnce = 1
    CameraPlugs = 3
    HubCalls = 3
SPECIFICATION MCFairSpec
CHECK_DEADLOCK FALSE
PROPERTIES PortReconnects FramesResume DeadIsNoticed PipelineReconnects 
