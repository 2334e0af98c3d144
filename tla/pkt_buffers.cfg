SPECIFICATION Spec
CONSTANTS
    b1 = b1
    b2 = b2
    b3 = b3
    b4 = b4
    b5 = b5
    b6 = b6
    Blocks <- MCBlocks
    Sizes = {0, 2}
    Keepers <- MCNobody
SYMMETRY MCSymmetry
INVARIANTS
    PacketsInMemory
    NoLeak
    FreedOnce
CHECK_DEADLOCK FALSE
