CONSTANTS
    SlotCount = 2
    TargetFrames = 0
    MaxSample = 4
    DmaBlocks = 3
    BurstFrames = 2
    Targets = {4}
    MaxStartupDiscards = 1
    StaleMargin = 0
    MaxFaults = 1
SPECIFICATION LiveSpec
INVARIANTS ResourcesReturned GapsExact
PROPERTY ImplementsFifo SessionEnds
