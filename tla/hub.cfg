SPECIFICATION FairSpec
CONSTANTS
    c1 = c1
    c2 = c2
    Connections <- TwoConnections
    SendBuffer = 1
    FeedBuffer = 1
    MaxUpdates = 2
INVARIANTS TypeOK NoPanic FeedHasNoGaps
PROPERTY BrokenIsReleased
CHECK_DEADLOCK FALSE
