SPECIFICATION FairSpec
CONSTANTS
    Audio = {a1, a2}
    PortalCodec = "h264"
    PortalSource = TRUE
    SlowClient = TRUE
    MaxSeq = 2
    None = None
INVARIANT FramesAreWhole
PROPERTIES
    ImplementsFramedStream
    VideoIsNotStarved
CHECK_DEADLOCK FALSE
