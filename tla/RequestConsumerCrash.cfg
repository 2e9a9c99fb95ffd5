SPECIFICATION Spec
CONSTANTS
    Consumers = {c1}
    Log <- MCLog
    MaxFaults = 1
    None = None
INVARIANTS
    CommittedIsHandled
