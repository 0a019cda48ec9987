SPECIFICATION FairSpec
CONSTANTS
    Creators = {c1, c2}
    Resumes = {c2}
    Users = {u1, u2}
    Closers = {k1}
    Handles = {h1, h2}
    SessionIds = {i1, i2}
    None = None
INVARIANTS
    NoOrphanRuntime IdentityUnique ClosedIsEmpty
PROPERTIES
    LookupIsLive EverythingEnds
CHECK_DEADLOCK FALSE
