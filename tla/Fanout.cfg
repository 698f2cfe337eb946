\* Two calls, three seats between them, one worker.
SPECIFICATION FairSpec
CONSTANTS
    Idle = Idle
    Gone = Gone
    Calls = {c1, c2}
    Seats = {s1}
    Workers = {w1}
    Limit <- LimitTwo
    Cooldown = 1
    MaxSeats = 3
    MaxTotal = 3
    MaxNow = 1
INVARIANTS
    LeasesAreExact
    
PROPERTIES
    RateLimitedSeatRests
    EveryCallComesBack
    DropWaitsForEveryJob
