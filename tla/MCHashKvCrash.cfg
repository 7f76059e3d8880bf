CONSTANTS
    t1 = t1
    t2 = t2
    k1 = k1
    k2 = k2
    k3 = k3
    Thread <- MCThread
    Key <- MCKey
    Item = {i1, i2, i3}
    HashOf <- MCHashOf
    TabLen = 2
    None = None
    MaxCount = 3
    Modes <- MCModes
SPECIFICATION Spec
SYMMETRY Addresses
INVARIANT NeverCrashes
CHECK_DEADLOCK FALSE
