SPECIFICATION VISpec
CONSTANTS
    c1 = c1
    c2 = c2
    Conn = {c1, c2}
    WheelDelta <- MCWheelDelta
    MaxFaults = 1
INVARIANTS
    ReleaseAllSuffices
    NoEventIsSwallowed
    WheelKeepsPace
SYMMETRY Symmetry
