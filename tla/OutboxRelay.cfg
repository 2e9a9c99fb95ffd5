SPECIFICATION FairSpec
CONSTANTS
    Relays = {r1, r2}
    MaxEvents = 3
    BatchSize = 2
    Attempts = 2
    MaxFaults = 1
INVARIANTS
    TypeOK
    PublishedArrived
    CausalOrder
    BoundedDuplicates
PROPERTIES
    EventuallyPublished
