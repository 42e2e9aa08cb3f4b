CONSTANTS
    Modes = {"fixed", "random", "continuous"}
    TargetCount = 2
    Duration = 8
    Dwell = 2
    ShortDwell = 1
    Transition = 1
    Revisit = 7
    Age = 2
    Delay = 3
    AckCapacity = 2
    Window = 2
    History = 2
    MaxSequence = 3
    MaxLate = 1
    Horizon = 12
SPECIFICATION Spec
CHECK_DEADLOCK FALSE
INVARIANTS FeasibleKept NoReplay OneAckEach
