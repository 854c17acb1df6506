SPECIFICATION Spec
CONSTANTS
    Device = {d1, d2}
    Code = {k1, k2}
    Conn = {c1, c2}
    MaxKey = 1
    Overlap = FALSE
    Torn = Torn
    None = None
INVARIANTS
    StoreIsReadable
    PairingIsDurable
    RevocationHolds
    
SYMMETRY Symmetry
