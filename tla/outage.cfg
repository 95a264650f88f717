SPECIFICATION FairScheduleSpec
CONSTANTS
    c1 = c1
    c2 = c2
    Callers <- Workers
    own = c1
    FailureThreshold = 2
    SuccessThreshold = 2
    RetryBaseDelay = 5
    RetryMaxDelay = 1500
    SchedulerInterval = 25
    OpenTimeout = 150
    MaxAttempts = 5
    Jitters <- MeanAndExtremes
    MaxOutage = 8
    MaxLag = 3
INVARIANTS ShortOutageLosesNothing
PROPERTIES OutliesOutage
CHECK_DEADLOCK FALSE
