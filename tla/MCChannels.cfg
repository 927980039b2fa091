SPECIFICATION MCSpec
CONSTANTS
    Vc = {v1, v2}
    Ivc = {i1, i2}
    None = None
    B = 3
    CreditSpan = 4
    OvcAllocMode = FALSE
    Atomic = FALSE
    PipeReg = FALSE
    MinPck = 2
    MaxPckSize = 3
    LB = 2
    Remain = 1
    ChunkSpan = 2
    SizeSpan = 4
    MaxSize = 3
    Id = {a, b}
    WideWidth = 5
    NarrowWidth = 4
    WidePriorityEn = FALSE
    NarrowPriorityEn = TRUE
INVARIANTS
    HeaderFifosNeverFull
    InjectorSound
PROPERTIES
    PacketsComplete
    ArbitersAreRoundRobin
    NoStarvation
