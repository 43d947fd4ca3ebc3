\* A schedule and a cancel, one after the other, and no crash.
SPECIFICATION Spec
CONSTANTS
    p1 = p1
    c1 = c1
    c2 = c2
    Posts = {p1}
    Calls = {c1}
    MaxRetries = 3
    JobAttempts = 3
    MaxStalls = 1
    MaxCalls = 2
    MaxCrashes = 0
PROPERTIES
    CancelledStaysDown
\* Once the bounded requests are served, nothing need happen.
CHECK_DEADLOCK FALSE
