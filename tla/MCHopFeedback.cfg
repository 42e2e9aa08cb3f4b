SPECIFICATION FairSpec
CONSTANTS
    Modes = {"host", "glrt"}
    Dwells <- MCDwells
    DwellSamples = 2
    Guard = 1
    Profiles = {0, 1}
    Capacity = 2
    Drain = 1
    Rate = 4
    Word = 16
    Epoch = 32
    MaxLate = 1
    BlockSamples = 3
    MaxBlocks = 6
INVARIANTS FeedbackSound
PROPERTIES FinalDelivered
