SPECIFICATION Spec
CONSTANTS
    Rows = {x1, x2, x3}
    ann = ann
    bob = bob
    eve = eve
    sam = sam
    Users <- MCUsers
    RolesOf <- MCRolesOf
    Stamps <- MCStamps
    MaxUpdates = 1
    Numbers <- MCNumbers
    MaxInt = 31
    DefaultLimit = 2
    MaxLimit = 4
    Missing = Missing
    Nobody = Nobody
SYMMETRY Symmetry
INVARIANTS
    TypeOK
    NoRowSkipped
    RepeatsAreInserts
PROPERTIES
    ListAgreesWithAccess
CHECK_DEADLOCK FALSE
