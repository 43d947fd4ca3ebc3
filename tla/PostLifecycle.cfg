\* A review, or two requests over all the endpoints at a time, one crash; a job
\* runs twice, or is followed by one retry job.
SPECIFICATION LifecycleFairSpec
CONSTANTS
    p1 = p1
    c1 = c1
    c2 = c2
    Posts = {p1}
    Calls = {c1, c2}
    MaxRetries = 2
    JobAttempts = 2
    MaxStalls = 1
    MaxCalls = 2
    MaxCrashes = 1
INVARIANTS
    LifecycleTypeOK
    PendingHasRequest
    NothingUnapproved
    AtMostOncePerSchedule
    PublishedIsLive
PROPERTIES
    ApprovedMovesOn
    QueueDrains
\* Once the bounded requests are served, nothing need happen.
CHECK_DEADLOCK FALSE
