CONSTANTS
    Threads = {t1, t2, t3}
    MaxCalls = 3
    MaxFaults = 2
    None = None
    Sessions = {"s1", "s2"}
    Foreign = "foreign"
    Interfaces <- WholeCamera
    BusMoves = 4
    Users = {"u1", "u2"}
    FrameIds = {"left", "disparity"}
    Serials = {"A", "B"}
    Files = {"f"}
    ConfigOps = 5
    DeviceVars = {"d1", "d2"}
    SensorVars = {"s1"}
    Cameras = {"A"}
    AtOnce = 1
    Plugs = 2
    Objects = 3
SPECIFICATION MCSpec
INVARIANTS TypesOK OwnOrLeftover AliveOwns CacheFits SensorsUsable
PROPERTY HoldersTold
