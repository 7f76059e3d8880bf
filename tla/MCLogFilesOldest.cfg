CONSTANTS
    Maxs = {1, 2, 3}
    MaxSize = 2
    MaxPrint = 3
    MaxId = 7
    MaxLength = 7
    None = None
    Modes <- MCModes
SPECIFICATION Spec
PROPERTY OldestGoesFirst
CHECK_DEADLOCK FALSE
