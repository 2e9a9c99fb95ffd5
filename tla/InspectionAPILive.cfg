SPECIFICATION FairSpec
CONSTANTS
    Procs = {p1, p2}
    Users <- SoloUsers
    RolesOf <- SoloRolesOf
    Inspections = {i1}
    Texts = {note}
    Patches <- SoloPatches
    SharedTicks = FALSE
    Nil = Nil
    ann = ann
    bob = bob
    eve = eve
    note = note
PROPERTIES
    AllAnswered
    ImplementsLifecycle
