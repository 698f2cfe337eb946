SPECIFICATION Spec
CONSTANTS
    Holders = {p, q}
    Events <- SomeEvents
    Retention = 2
    MaxFreshness = 1
INVARIANTS
    JournalReplays
    CachesArePrefixes
    RetentionKeepsTheNewest
PROPERTIES
    RedeliveryIsIdempotent
