SPECIFICATION Spec
CONSTANTS
    Device = {d1, d2}
    Code = {k1}
    Conn = {c1, c2}
    MaxKey = 0
    Overlap = FALSE
    Torn = Torn
    None = None
INVARIANT CodeIsSingleUse
