CONSTANTS
    Size = 4
    Wrap = 8
    Value = {a, b}
    NoValue = NoValue
    MaxBatch = 2
SPECIFICATION Spec
INVARIANTS
    TypeOK
    NoOverrun
    NoRace
PROPERTY
    ImplementsFifo
    CallsReturn
