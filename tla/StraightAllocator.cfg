SPECIFICATION Spec
CONSTANTS
    Vc = {v1, v2}
    None = None
    B = 2
    OvcAllocMode = TRUE
    Id = {a, b}
    MaxBuffered = 2
    BodyFlits = FALSE
    OtherVc = {v1}

SYMMETRY Symmetry

INVARIANTS
    NothingCollides
    LeavesInOrder
    LookAheadOfHeader
