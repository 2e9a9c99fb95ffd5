SPECIFICATION FairSpec
CONSTANTS
    Consumers = {c1, c2}
    Log <- MCLog
    MaxFaults = 1
    None = None
PROPERTIES
    DeliveredAtLeastOnce
