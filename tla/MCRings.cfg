CONSTANTS
    MemSize = 4
    Value = {a, b}
    NoValue = NoValue
    MaxBatch = 2
    FifoSize = 8
    Wrap = 16
    Base = 2
    RecSize = 2
    Payload = {0, 1}
    MaxLen = 2
    MaxRead = 1
SYMMETRY Symmetry
SPECIFICATION RingsSpec
INVARIANTS
    RingsTypeOK
    RingsNoRace
    Framing
    AvailIsExact
PROPERTY
    RingsImplementFifo
    ImplementsRecordQueue
