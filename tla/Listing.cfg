\* Two threads list while comments are posted and voted for.
SPECIFICATION Spec
CONSTANTS
    Thread = {t1, t2}
    s1 = s1
    s2 = s2
    v = v
    Site = {s1, s2}
    AnySite = any
    Voter = {v}
    NoUser = nobody
    Limit = {1, 2}
    Requests <- SomeRequests
    MaxComments = 2
    MaxSeen = 2
SYMMETRY Threads
INVARIANTS
    TypeOK
    UndisturbedListingIsSnapshot
