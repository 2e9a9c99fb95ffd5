SPECIFICATION FairSpec
CONSTANTS
    Requests = {q1, q2}
    MaxMessages = 2
    Faults = TRUE
INVARIANTS
    TypeOK
    ResourcesOutliveUsers
    GracefulExit
    OneOpenMark
PROPERTIES
    ProcessEnds
