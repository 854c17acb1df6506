SPECIFICATION FairSpec
CONSTANTS
    MaxPos = 2
    MoveDelta <- MCMoveDelta
    ScrollDelta <- MCScrollDelta
INVARIANTS
    EventsFollowMotion
    NewestTargetWins
PROPERTY FlushEnds
