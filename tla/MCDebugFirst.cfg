CONSTANTS
    Maxs = {1, 2, 3}
    MaxSize = 2
    MaxPrint = 3
    MaxId = 7
    MaxLength = 7
    None = None
    Modes <- MCModes
    Programs <- MCPrograms
    CacheSize = 4
    StackCache = 2
    Task = {t1, t2}
    t1 = t1
    t2 = t2
    Main = Main
    Isr = Isr
    Nobody = Nobody
    Habits <- Racing
SPECIFICATION DebugSpec
INVARIANT LinesAreWhole
CHECK_DEADLOCK FALSE
