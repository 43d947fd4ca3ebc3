\* Two users, a lock after two failures, two overlapping requests of six in all.
SPECIFICATION AccountSpec
CONSTANTS
    u1 = u1
    u2 = u2
    c1 = c1
    c2 = c2
    Users = {u1, u2}
    Calls = {c1, c2}
    MaxAttempts = 2
    MaxTokens = 1
    MaxCalls = 6
SYMMETRY AccountSymmetry
INVARIANTS
    AccountTypeOK
    LockNeedsFailures
    PasswordIsOwn
    TokenUsedOnce
\* Once the bounded requests are served, nothing need happen.
CHECK_DEADLOCK FALSE
