\* One draft and one request at an endpoint that asks for no approval.
SPECIFICATION LifecycleSpec
CONSTANTS
    p1 = p1
    c1 = c1
    c2 = c2
    Posts = {p1}
    Calls = {c1}
    MaxRetries = 1
    JobAttempts = 1
    MaxStalls = 0
    MaxCalls = 1
    MaxCrashes = 0
PROPERTIES
    ApprovalRequired
\* Once the bounded requests are served, nothing need happen.
CHECK_DEADLOCK FALSE
