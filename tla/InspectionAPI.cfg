SPECIFICATION Spec
CONSTANTS
    Procs = {p1, p2, p3}
    Users <- MCUsers
    RolesOf <- MCRolesOf
    Inspections = {i1}
    Texts = {note}
    Patches <- MCPatches
    SharedTicks = FALSE
    Nil = Nil
    ann = ann
    bob = bob
    eve = eve
    note = note
SYMMETRY Symmetry
INVARIANTS
    TypeOK
    OneEventPerCompletion
    CompletionAnswersAreTrue
    EventCountsAckedPhotos
    EventNamesInspector
PROPERTIES
    PatchKeepsOthers
