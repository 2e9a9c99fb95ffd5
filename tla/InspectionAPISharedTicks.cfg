SPECIFICATION WritersSpec
CONSTANTS
    Procs = {p1, p2, p3, p4}
    Users <- SoloUsers
    RolesOf <- SoloRolesOf
    Inspections = {i1}
    Texts = {note}
    Patches <- SoloPatches
    SharedTicks = TRUE
    Nil = Nil
    ann = ann
    bob = bob
    eve = eve
    note = note
SYMMETRY Symmetry
PROPERTIES
    PatchKeepsOthers
