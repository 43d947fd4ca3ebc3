\* Two overlapping requests of two in all and one failing call, on two kits and
\* templates, one user, two files of the organization and one of another one.
SPECIFICATION StudioFairSpec
CONSTANTS
    c1 = c1
    c2 = c2
    k1 = k1
    k2 = k2
    f1 = f1
    f2 = f2
    f3 = f3
    g1 = g1
    t1 = t1
    t2 = t2
    u1 = u1
    Calls = {c1, c2}
    Kits = {k1, k2}
    Files = {f1, f2, f3}
    Foreign = {f3}
    Generations = {g1}
    TemplateIds = {t1, t2}
    Users = {u1}
    Keys = {"product", "url", "price(usd)"}
    Matches <- ExpressionMatches
    MaxCalls = 2
    MaxFailures = 1
INVARIANTS
    StudioTypeOK
    OneActiveKit
    CacheIsActive
    MediaAccounted
    CostAccounted
    UsageAccounted
    
PROPERTIES
    ExpiredFilesGo
\* Once the bounded requests are served, nothing need happen.
CHECK_DEADLOCK FALSE
