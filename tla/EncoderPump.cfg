SPECIFICATION EPFairSpec
CONSTANTS
    MaxBuffer = 64
    MaxPictures = 3
    MaxRuns = 2
INVARIANTS
    PicturesAreWhole
    KeyFramesCarryConfig
PROPERTY RequestIsServed
CHECK_DEADLOCK FALSE
