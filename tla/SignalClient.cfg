SPECIFICATION Spec
CONSTANTS
    s1 = s1
    s2 = s2
    Session <- MCSession
    ReconnectMin = 2
    ReconnectMax = 6
    MaxSends = 2
    MaxPending = 3
    MaxFaults = 2
INVARIANTS EventsTellTheTruth RelayedInOrder DropsNeedFaults
PROPERTY LinkComesBack
CHECK_DEADLOCK FALSE
