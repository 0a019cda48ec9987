SPECIFICATION Spec
CONSTANTS
    Names <- SegmentNames
    MaxDepth = 3
    Bytes <- Alphabet
    MaxFileBytes = 12
    MaxTotalBytes = 20
    MaxNodes = 8
    Dir = Dir
    Variable <- References
    BadReference = "${"
    Lead = "hi"
    Trail = "lo"
    MaxWords = 5
    MaxStages = 3
    Order <- Symbols
    Flags <- OptionLetters
    Number <- Digits
    Many = "many"
    Counts <- CountLetters
    Assigned <- Assignments
    BadPattern <- Bracket
    Secret = "secret"
    Mark = "***"
    Lessees = {"mine", "also", "theirs"}
    MaxLeases = 2
    MaxLeaseTime = 1
    Durations = {3}
    MaxTime = 1
    Scripts <- AllScripts
    Phrases <- ManyPhrases
    InitialTree <- Tree
    InitialEnv <- Environment
    Own <- OwnLeases
    Binding <- Bindings
    MaxCommand = 26
    MaxArgument = 4
    MaxStdout = 12
    MaxStderr = 3
    MaxIntermediate = 9
    MaxAggregate = 12
    Causes = {"timeout", "signal"}
INVARIANTS
    SecretsContained OutputFaithful LeaseAccounting ParserExact
PROPERTIES
    ImplementsContract
CHECK_DEADLOCK FALSE
