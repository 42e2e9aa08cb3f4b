CONSTANTS
    Token = {1, 2, 3, 4}
    BlockCount = 4
    HeadroomBlocks = 1
    MaximumVisits = 2
    BlockSamples = 2
    MaximumBytes = 4
    MaximumAgeTicks = 20
    MaximumSamples = 2
    SourceRateHz = 1
    DrainRate = 4
    MaxCounter = 20
    Targets = {1, 2}
    Dwell = 1
    Transition = 1
    LedgerCapacity = 4
    Deadline = 6
    MaxRecall = 2
    MaxClock = 6
    MaxLost = 1
    Faults = {"snapshot", "recall", "policy", "gain", "thread", "pool", "restore", "acquire", "send", "stall"}
SPECIFICATION LiveSpec
PROPERTIES CaptureEnds
INVARIANTS RadioAttested SessionSound
