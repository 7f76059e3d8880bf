CONSTANTS
    Group <- MCGroup
    Type <- MCType
    Start <- MCStart
    EndOf <- MCEnd
    MaxGroups = 3
    CountSize = 2
    Capacity = 2
    Value = {1, 2}
    MaxAccess = 2
    AddrMod = 12
    Empty = Empty
    wr = wr
    inner = inner
    ro = ro
    cb = cb
SPECIFICATION Spec
INVARIANT AlwaysInside
