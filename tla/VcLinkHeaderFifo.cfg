SPECIFICATION Spec
CONSTANTS
    Vc = {v1, v2}
    Ivc = {i1}
    None = None
    B = 5
    CreditSpan = 8
    OvcAllocMode = FALSE
    Atomic = FALSE
    MinPck = 5
    MaxPckSize = 5
    PipeReg = FALSE
INVARIANT HeaderFifoNeverFull
