CONSTANTS
    Size = 4
    Wrap = 8
    Base = 3
    RecSize = 1
    Payload = {0, 1}
    MaxLen = 3
    MaxRead = 2
SPECIFICATION Spec
INVARIANTS
    PeekIsLength
