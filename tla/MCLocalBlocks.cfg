CONSTANTS
    MaxBlocks = 3
    MaxFaults = 2
    Want = 2
SPECIFICATION Spec
INVARIANTS BlocksSound
PROPERTIES CancelHeeded
