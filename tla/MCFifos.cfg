SPECIFICATION MCSpec
CONSTANTS
    V = 2
    B = 3
    PowerOf2 = FALSE
    SsaEn = TRUE
    Body = {b1}
    Tl = {t1}
    MaxDepth = 4
    DepthSpan = 8
    Data = {d1, d2}
    Empty = Empty
PROPERTIES
    FlitBufferIsFifo
    FwftFifosAreFifos
