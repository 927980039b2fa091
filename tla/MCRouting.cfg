SPECIFICATION MCSpec
CONSTANTS
    NX = 5
    NY = 3
    Configs <- AllowedConfigs
    AvcAtomicEn = FALSE
    None = None
INVARIANTS
    NoCircularWait
    TakesItsWay
    GrantIsLegal
    AgonyMinimal
PROPERTIES
    EventuallyDelivered
    RankingEnds
