\* One schedule request; the worker, the queue and its retries do the rest.
SPECIFICATION FairSpec
CONSTANTS
    p1 = p1
    c1 = c1
    c2 = c2
    Posts = {p1}
    Calls = {c1, c2}
    MaxRetries = 3
    JobAttempts = 3
    MaxStalls = 1
    MaxCalls = 1
    MaxCrashes = 0
PROPERTIES
    RetryHappens
\* Once the bounded requests are served, nothing need happen.
CHECK_DEADLOCK FALSE
