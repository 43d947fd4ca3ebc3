\* Four users, a limit of two members, three invitation rows, two overlapping
\* requests of four in all, after the three that sent the invitations or from none.
SPECIFICATION MCSpec
CONSTANTS
    u1 = u1
    u2 = u2
    u3 = u3
    u4 = u4
    i1 = i1
    i2 = i2
    i3 = i3
    c1 = c1
    c2 = c2
    Users = {u1, u2, u3, u4}
    Invites = {i1, i2, i3}
    Calls = {c1, c2}
    MaxMembers = 2
    MaxCalls = 4
SYMMETRY OrganizationSymmetry
INVARIANTS
    OrganizationTypeOK
    OwnerKept
    MemberLimitOvershoot
    MembersWereInvited
\* Once the bounded requests are served, nothing need happen.
CHECK_DEADLOCK FALSE
