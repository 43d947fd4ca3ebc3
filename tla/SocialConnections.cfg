\* Two organizations, two users at Meta who share a page, one at LinkedIn; two
\* overlapping requests of three in all, two links that are good at a time.
SPECIFICATION ConnectionSpec
CONSTANTS
    o1 = o1
    o2 = o2
    u1 = u1
    u2 = u2
    m1 = m1
    p1 = p1
    p2 = p2
    c1 = c1
    c2 = c2
    Organizations = {o1, o2}
    MetaUsers = {u1, u2}
    Members = {m1}
    Pages = {p1, p2}
    Manages <- ManagesInstance
    Calls = {c1, c2}
    MaxAccounts = 1
    MaxLinks = 2
    MaxCalls = 3
SYMMETRY ConnectionSymmetry
INVARIANTS
    ConnectionTypeOK
    PagesOfTheirUser
PROPERTIES
    AnsweredIsConnected
\* Once the bounded requests are served, only links come and go.
CHECK_DEADLOCK FALSE
