\* An approval request and two approvers.
SPECIFICATION LifecycleSpec
CONSTANTS
    p1 = p1
    c1 = c1
    c2 = c2
    Posts = {p1}
    Calls = {c1, c2}
    MaxRetries = 1
    JobAttempts = 2
    MaxStalls = 1
    MaxCalls = 3
    MaxCrashes = 0
PROPERTIES
    DecisionIsFinal
\* Once the bounded requests are served, nothing need happen.
CHECK_DEADLOCK FALSE
