SPECIFICATION FairSpec
CONSTANTS
    Ids = {a, b}
    QueueDepth = 1
    MaxFrames = 2
    MaxValues = 2
    LegacyEnabled = TRUE
PROPERTIES
    InputEndLeadsToReturn
    SendingLeadsToCompletion
    ImplementsRequestLifetimes
