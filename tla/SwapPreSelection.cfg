SPECIFICATION FairSpec
CONSTANTS
    NX = 3
    NY = 3
    Configs <- FullAdaptiveMesh
    None = None
PROPERTY SelectionSwaps
