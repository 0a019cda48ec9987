SPECIFICATION FairSpec
CONSTANTS
    MaxEvents = 5
    Capacity = 2
    SinkLimit = 3
    Closers = {k1, k2}
    Stop = Stop
INVARIANTS
    AccountedOnce DeliveredInOrder DrainedAtClose
PROPERTIES
    CloseCompletes
CHECK_DEADLOCK FALSE
