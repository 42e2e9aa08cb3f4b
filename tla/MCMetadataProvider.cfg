SPECIFICATION Spec
CHECK_DEADLOCK FALSE
CONSTANTS
    S = 2
    Spacing = 2
    EventCaps = {1, 2}
    QueueCap = 2
    FifoDepths = {1, 2}
    Modulus = 8
    Latency = 1
    MaxSample = 7
    MaxEvents = 4
    Kinds = {"legacy", "ring", "hop", "counter"}
    Threads = {"legacy"}
    Buffers = 2
    MaxDiscards = 1
    MaxAge = 1
    MaxOpens = 1
    MaxFaults = 1
INVARIANTS FramesDescribed LeasesSound
PROPERTY CloseEnds
