SPECIFICATION FairSpec
CONSTANTS
    o1 = o1
    o2 = o2
    o3 = o3
    o4 = o4
    o5 = o5
    o6 = o6
    Ops = {o1, o2, o3, o4, o5, o6}
    Kind <- OneOfEach
    Starters = {s1}
    Closers = {c1}
    CloseTask = CloseTask
    NoOne = NoOne
    Secrets = 1
INVARIANTS
    GateExclusion EventOrder EventStory UnsettledFailsClosed
    OutcomeMatchesEffect LeasesReleased
PROPERTIES
    NoRevival NoLostUpdate QuietAfterClose EveryoneAnswered
CONSTRAINT OneCast
VIEW WithoutHistory
CHECK_DEADLOCK FALSE
