SPECIFICATION APFairSpec
CONSTANTS
    RestartAttempts = 3
    MaxBatch = 2
    MaxPackets = 4
    Shapes <- MCShapes
    Cuts <- MCCuts
    MaxRtpFrame = 8192
INVARIANTS
    NumberedInOrder
    MuteStopsNextPacket
PROPERTIES DroppedHandleEndsCapture ImplementsAudioTask
