SPECIFICATION Spec
CONSTANTS
    Vc = {v1, v2}
    Ivc = {i1, i2}
    None = None
    B = 3
    CreditSpan = 4
    OvcAllocMode = TRUE
    Atomic = FALSE
    MinPck = 1
    MaxPckSize = 3
    PipeReg = TRUE
INVARIANTS
    CreditConservation
    NoFlitToFullOvc
    OvcExclusive
    Wormhole
    RouteOfHeadFlit
PROPERTY PredictorExact
