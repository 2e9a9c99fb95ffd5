SPECIFICATION FairSpec
CONSTANTS
    Procs = {p1, p2}
    Users <- MCUsers
    RolesOf <- MCRolesOf
    Inspections = {"r1", "r2", "r3"}
    Texts = {note}
    Patches <- MCPatches
    SharedTicks = FALSE
    Nil = Nil
    Relays = {r1}
    MaxEvents = 2
    BatchSize = 1
    Attempts = 1
    Consumers = {c1}
    Log <- MCLog
    MaxFaults = 1
    None = None
    Served = {"complete"}
    FailsAt = {"txUpdate", "txInsert", "txCommit"}
    eve = eve
    note = note
INVARIANTS
    DeliveredIsRequested
PROPERTIES
    RelaysWriters
    KeepsLifecycle
CHECK_DEADLOCK FALSE
