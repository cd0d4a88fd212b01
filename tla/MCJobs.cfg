SPECIFICATION FairSpec
CONSTANTS
    s1 = s1  s2 = s2  s3 = s3  x = x  y = y  b1 = b1  c1 = c1  c2 = c2
    AsSent = AsSent
    Starts = {s1, s2, s3}
    Actors = {x}
    Topics = {b1}
    Contents = {c1, c2}
    MaxConcurrent = 1
    RateLimit = 1
    RateWindow = 2
    JobTimeout = 1
    Retention = 0
    MaxAttempts = 2
    MaxTime = 2
INVARIANTS
    SlotsFollowRuns
    OneRunPerInput
    AnswerIsCurrent
    RateIsExact
PROPERTIES
    KeptForRetention
    EveryRunEnds
CONSTRAINT Worlds
CHECK_DEADLOCK FALSE
