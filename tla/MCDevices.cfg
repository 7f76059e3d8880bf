CONSTANTS
    Group <- MCGroup
    Type <- MCType
    Start <- MCStart
    EndOf <- MCEnd
    MaxGroups = 3
    CountSize = 2
    Capacity = 2
    Value = {1, 2}
    MaxAccess = 2
    AddrMod = 12
    Empty = Empty
    wr = wr
    inner = inner
    ro = ro
    cb = cb
    LinkCountSize = 4
    LinkCapacity = 3
    W16 = 16
    MaxByte = 6
    Modes <- MCModes
    NoPayload = NoPayload
    IndexMod = 5
    Endless = Endless
    Uses <- MCUses
    Speed = {9600, 115200}
    NoSpeed = NoSpeed
    Closed = Closed
    Tick = 8
    Tools <- MCTools
    MaxTime = 10
    Never = Never
SPECIFICATION DevicesSpec
INVARIANTS
    DevicesTypeOK
    NeverRefused
    NothingLost
    RingIsSound
    OpenedAsAsked
PROPERTIES
    ZeroMeansUnchanged
    ReportedIsDelivered
    FramesComeBack
    ReadReturns
    ToolsKeepTime
CHECK_DEADLOCK FALSE
