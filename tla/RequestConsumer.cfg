SPECIFICATION FairSpec
CONSTANTS
    Consumers = {c1, c2}
    Log <- MCLog
    MaxFaults = 3
    None = None
INVARIANTS
    TypeOK
    OneInspectionPerRequest
    MarksAreBacked
    LossIsExplained
PROPERTIES
    ScheduledIsHandled
