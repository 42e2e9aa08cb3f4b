CONSTANTS
    c1 = c1
    c2 = c2
    c3 = c3
    voltage0 = voltage0
    voltage1 = voltage1
    Client = {c1, c2}
    Channel = {voltage0, voltage1}
    Mask <- Masks
    Entries = 2
    Retries = 1
    MaxBytes = 2
SPECIFICATION LiveSpec
CHECK_DEADLOCK FALSE
INVARIANTS EntriesSound ExclusiveReleased
PROPERTY CommandsAnswered
