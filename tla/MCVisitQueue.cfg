CONSTANTS
    Token = {b1, b2, b3}
    BlockCount = 5
    HeadroomBlocks = 1
    MaximumVisits = 2
    BlockSamples = 2
    MaximumBytes = 5
    MaximumAgeTicks = 4
    MaximumSamples = 3
    SourceRateHz = 1
    DrainRate = 4
    MaxCounter = 5
    MaxVisits = 2
SPECIFICATION Spec
SYMMETRY Symmetry
CHECK_DEADLOCK FALSE
INVARIANTS BlocksAccounted VisitsWhole
PROPERTIES SentAsTaken
