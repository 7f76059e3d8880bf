CONSTANTS
    t1 = t1
    t2 = t2
    k1 = k1
    k2 = k2
    k3 = k3
    Thread <- MCThread
    Key <- MCKey
    Item = {a1, a2, a3}
    HashOf <- MCHashOf
    TabLen = 2
    None = None
    MaxCount = 3
    Modes <- MCModes
    Name = {1, 2}
    Block = {1, 2, 3, 4, 5}
    Byte = {1, 2}
    MaxLen = 2
    Header = Header
    Unallocated = Unallocated
    NoItem = NoItem
    List = {h1, h2}
    Entry = {a1, a2, a3}
    Null = Null
    Author = {a1, a2, a3}
    MaxChanges = 3
    Torn = Torn
    Reloads = {TRUE, FALSE}
SYMMETRY Symmetry
SPECIFICATION StoresSpec
INVARIANTS
    StoresTypeOK
    ReferencesHold
    VisitsAll
    ValuesAreKept
    LoopVisitsAll
    FileIsCurrent
    EveryoneKnows
PROPERTIES
    ListsAreSequences
