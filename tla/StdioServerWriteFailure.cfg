SPECIFICATION FairSpec
CONSTANTS
    Ids = {a, b}
    QueueDepth = 1
    MaxFrames = 2
    MaxValues = 1
    LegacyEnabled = FALSE
PROPERTIES
    WriteFailureCancelsActiveWork
