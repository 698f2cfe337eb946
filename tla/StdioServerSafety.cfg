\* Three frames, two ids: reuse of an id, duplicates and cancellations.
SPECIFICATION Spec
CONSTANTS
    Ids = {a, b}
    QueueDepth = 1
    MaxFrames = 3
    MaxValues = 2
    LegacyEnabled = FALSE
INVARIANTS
    LiveIdsUnique
    AnswersOfAnIdInOrder
    CleanReturnIsComplete
PROPERTIES
    CancellationReachesOnlyItsRequest
