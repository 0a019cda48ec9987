SPECIFICATION Spec
CONSTANTS
    na = na
    nb = nb
    x = x
    s1 = s1
    s2 = s2
    t1 = t1
    t2 = t2
    None = None
    Dir = Dir
    Dot = Dot
    Up = Up
    NoEnvironment = e0
    Environments = {e1}
    Names = {na, nb}
    MaxDepth = 2
    Bytes = {x}
    MaxFileBytes = 1
    MaxTotalBytes = 2
    MaxNodes = 4
    MaxSnapshots = 2
    MaxPayloadBytes = 6
    TTL = 1
    MaxTime = 1
    Sessions = {s1, s2}
    Tasks = {t1, t2}
    Manifests <- OneDirectory
    Batches <- OneFile
    Targets <- OnePath
    Contents <- OneByte
    Archives <- Empty
    MaxStreamBytes = 4
    MaxBoxes = 3
    MaxSaves = 3
    MaxCalls = 5
    MaxMishaps = 1
INVARIANTS
    NoOrphanSandbox StoreAccounting ManifestExact
PROPERTIES
    DurableState ApplyAtomic
CONSTRAINT Bounded
SYMMETRY Interchangeable
CHECK_DEADLOCK FALSE
