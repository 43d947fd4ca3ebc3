\* One post, two overlapping requests of three in all, one crash, one retry job.
SPECIFICATION Spec
CONSTANTS
    p1 = p1
    c1 = c1
    c2 = c2
    Posts = {p1}
    Calls = {c1, c2}
    MaxRetries = 2
    JobAttempts = 1
    MaxStalls = 1
    MaxCalls = 3
    MaxCrashes = 1
SYMMETRY CallSymmetry
INVARIANTS
    TypeOK
    AtMostOncePerSchedule
    PublishedIsLive
PROPERTIES
    ImplementsPermit
\* Once the bounded requests are served, nothing need happen.
CHECK_DEADLOCK FALSE
