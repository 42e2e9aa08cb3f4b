CONSTANTS
    SlotCount = 2
    TargetFrames = 3
    MaxSample = 4
    RefillErrors <- RefillErrno
    CounterMetadata = TRUE
    MaxStartupDiscards = 1
SPECIFICATION LiveSpec
INVARIANTS SlotOwnership FramesInOrder StorageInUse
PROPERTIES OutcomeSound ReadAnswered SessionEnds
CHECK_DEADLOCK FALSE
