CONSTANTS
    Batch = 2
    Direct = 2
    MaxFrames = 4
    MaxWire = 3
    MaxFaults = 1
    MaxOpens = 2
    Endpoints = {e1, e2}
SPECIFICATION Spec
INVARIANTS  FramesSound
PROPERTIES CancelHeeded
CHECK_DEADLOCK FALSE
