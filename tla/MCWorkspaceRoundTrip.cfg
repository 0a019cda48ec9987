SPECIFICATION Spec
CONSTANTS
    a = a
    b = b
    x = x
    k1 = k1
    k2 = k2
    m1 = m1
    m2 = m2
    Names = {a, b}
    MaxDepth = 2
    Bytes = {x}
    Inputs <- EmptyOrByte
    MaxFileBytes = 2
    MaxTotalBytes = 3
    MaxNodes = 5
    Dir = Dir
    Foreign <- NoVersions
    Editors = {}
    Candidates = {}
    Committers = {}
    Nothing = Nothing
    MaxRevision = 4
    Dot = Dot
    Up = Up
    Empty = Empty
    Odd = Odd
    Wide = {b}
    Alphabet <- Letters
    Continued <- HyphenAfter
    BlockBytes = 3
    RecordBlocks = 4
    EntryBytes = 10
    MaxSnapshotBytes = 36
INVARIANTS
    EveryTreeRestores
VIEW TreeOnly
CHECK_DEADLOCK FALSE
