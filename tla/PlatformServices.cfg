\* One call from nothing and two that publish or delete what it prepared; three media.
SPECIFICATION ServiceFairSpec
CONSTANTS
    c1 = c1
    c2 = c2
    c3 = c3
    m1 = m1
    m2 = m2
    m3 = m3
    Calls = {c1, c2, c3}
    Fresh = {c1}
    Media = {m1, m2, m3}
    BatchSize = 2
    MaxPolls = 3
    MaxReelPolls = 4
    MaxRechecks = 3
INVARIANTS
    ServiceTypeOK
    CarouselComplete
PROPERTIES
    ImplementsOneShot
    CallsEnd
\* Once the calls have ended nothing need happen.
CHECK_DEADLOCK FALSE
