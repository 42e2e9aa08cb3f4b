CONSTANTS
    Requests <- MCRequests
    RatesOf <- MCRatesOf
    DwellOf <- MCDwellOf
    WarmupVisits = 1
    ProfileCount = 2
    QueueCapacity = 2
    EventCapacity = 1
    BlockSamples = 3
    MaxSkip = 1
    Word = 32
    StartClock = 29
    MaxClock = 38
SPECIFICATION LiveSpec
CHECK_DEADLOCK FALSE
INVARIANTS ValidTuned OutcomeSound
PROPERTIES Restored Described
