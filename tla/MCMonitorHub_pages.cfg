\* Two requests, a page whose channel holds two events, and a lost
\* connection, a failed database call or a restart.
SPECIFICATION FairSpec
CONSTANTS
    Requests = {r1, r2}
    Pages = {v}
    SubBuffer = 2
    FeedCap = 3
    RecentCap = 2
    MaxMishaps = 1
INVARIANTS
    NoPanic
    FeedAgrees
PROPERTIES
    NeverRevived
    EndsAreSeen
CHECK_DEADLOCK FALSE
