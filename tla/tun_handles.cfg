SPECIFICATION Spec
CONSTANTS
    v1 = v1
    v2 = v2
    Names = {"tun0", "tun1"}
    Vars <- MCVars
    MaxFiles = 4
    MaxLinks = 3
    Mtus <- MCMtus
SYMMETRY MCSymmetry
INVARIANTS
    TypeOK
    SoleOwner
    HandleNamesLink
    NoLeak
    AdminActsUnlessAssigned
PROPERTIES
    ReferencesStay
CHECK_DEADLOCK FALSE
